------------------------------ MODULE TcFilter ------------------------------
(***************************************************************************)
(* The option parsers and printers of the classifiers of tc, one           *)
(* definition per C function (tc/f_*.c, tc_filter.c), in the forms of      *)
(* OptionForms.  A parser that is called with no words at all returns      *)
(* before it opens TCA_OPTIONS; the tables leave this out.                 *)
(***************************************************************************)
EXTENDS OptionForms

MAX_MSG == 16384

\* The parts that classifiers have in common.  parse_action, parse_police and
\* parse_ematch open the attribute they are given and run on the same line.
Part(b, attr, parser) == Goes(Calls(Unset(Sends(b, <<Nest(MAX_MSG, attr)>>)), parser), "here")
Action(attr) == Part(Flag("action"), attr, "parse_action")
Police(attr) == Part(Flag("police"), attr, "parse_police")
Match(attr)  == Part(Flag("match"), attr, "parse_ematch")

\* An option whose value is sent at once.
At(b, max, attr, type) == Sends(b, <<Put(max, attr, type, UNION b.sets)>>)
ClassId(max, attr) == At(OrWord(Opt("classid"), {"flowid"}), max, attr, "u32")

Nested(attrs) == {Read(a, "nested") : a \in attrs}
U32s(attrs) == {Read(a, "u32") : a \in attrs}

-----------------------------------------------------------------------------
(* f_basic.c, f_cgroup.c, f_fw.c, f_route.c, f_tcindex.c *)

basic_parse_opt ==
  Begins(Parser(<<Match("TCA_BASIC_EMATCHES"), ClassId(MAX_MSG, "TCA_BASIC_CLASSID"),
                  Action("TCA_BASIC_ACT"), Police("TCA_BASIC_POLICE"), WordHelp>>, {}, {}, << >>),
         <<Nest(MAX_MSG, "TCA_OPTIONS")>>)

basic_print_opt ==
  {Read("TCA_BASIC_CLASSID", "u32")}
    \cup Nested({"TCA_BASIC_EMATCHES", "TCA_BASIC_POLICE", "TCA_BASIC_ACT"})

cgroup_parse_opt ==
  Begins(Parser(<<Match("TCA_CGROUP_EMATCHES"), Action("TCA_CGROUP_ACT"), Police("TCA_CGROUP_POLICE"),
                  WordHelp>>, {}, {}, << >>),
         <<Nest(MAX_MSG, "TCA_OPTIONS")>>)

cgroup_print_opt == Nested({"TCA_CGROUP_EMATCHES", "TCA_CGROUP_POLICE", "TCA_CGROUP_ACT"})

\* The mask comes with the handle, as handle/mask.
fw_parse_opt ==
  Begins(Parser(<<At(Or(Opt("classid"), {"flowid"}), 4096, "TCA_FW_CLASSID", "u32"),
                  Police("TCA_FW_POLICE"), Action("TCA_FW_ACT"),
                  At(Word("indev"), MAX_MSG, "TCA_FW_INDEV", "ifname"), WordHelp>>, {}, {}, << >>),
         <<Nest(4096, "TCA_OPTIONS"), Maybe(Put(MAX_MSG, "TCA_FW_MASK", "u32", {}))>>)

fw_print_opt ==
  U32s({"TCA_FW_MASK", "TCA_FW_CLASSID"}) \cup {Read("TCA_FW_INDEV", "str")}
    \cup Nested({"TCA_FW_POLICE", "TCA_FW_ACT"})

\* The handle is made of the realms, the interface and the order.
route_parse_opt ==
  Begins(Parser(<<At(Opt("to"), 4096, "TCA_ROUTE4_TO", "u32"),
                  At(Opt("from"), 4096, "TCA_ROUTE4_FROM", "u32"),
                  At(Opt("fromif"), 4096, "TCA_ROUTE4_IIF", "u32"),
                  ClassId(4096, "TCA_ROUTE4_CLASSID"),
                  Police("TCA_ROUTE4_POLICE"), Action("TCA_ROUTE4_ACT"), Opt("order"), WordHelp>>,
                {}, {"order"}, << >>),
         <<Nest(4096, "TCA_OPTIONS")>>)

route_print_opt ==
  U32s({"TCA_ROUTE4_CLASSID", "TCA_ROUTE4_TO", "TCA_ROUTE4_FROM"}) \cup {Read("TCA_ROUTE4_IIF", "int")}
    \cup Nested({"TCA_ROUTE4_POLICE", "TCA_ROUTE4_ACT"})

\* Here an action is parsed as a police, and printed as one.
tcindex_parse_opt ==
  LET fall(w) == At(As(WordFlag(w), "fall_through"), 4096, "TCA_TCINDEX_FALL_THROUGH", "u32")
  IN Begins(Parser(<<At(Word("hash"), 4096, "TCA_TCINDEX_HASH", "u32"),
                     At(Word("mask"), 4096, "TCA_TCINDEX_MASK", "u16"),
                     At(Word("shift"), 4096, "TCA_TCINDEX_SHIFT", "u32"),
                     fall("fall_through"), fall("pass_on"),
                     At(Word("classid"), 4096, "TCA_TCINDEX_CLASSID", "u32"),
                     Part(WordFlag("police"), "TCA_TCINDEX_POLICE", "parse_police"),
                     Part(WordFlag("action"), "TCA_TCINDEX_ACT", "parse_police")>>, {}, {}, << >>),
            <<Nest(4096, "TCA_OPTIONS")>>)

tcindex_print_opt ==
  {Checked("TCA_TCINDEX_HASH", "u16"), Checked("TCA_TCINDEX_MASK", "u16"), Checked("TCA_TCINDEX_SHIFT", "int"),
   Checked("TCA_TCINDEX_FALL_THROUGH", "int"), Read("TCA_TCINDEX_CLASSID", "u32")}
    \cup Nested({"TCA_TCINDEX_POLICE", "TCA_TCINDEX_ACT"})

-----------------------------------------------------------------------------
(* f_flow.c, f_flower.c *)

\* The comma-separated parts of the word after keys.
flow_parse_keys ==
  LET name == <<"src", "dst", "proto", "proto-src", "proto-dst", "iif", "priority", "mark", "nfct",
                "nfct-src", "nfct-dst", "nfct-proto-src", "nfct-proto-dst", "rt-classid", "sk-uid",
                "sk-gid", "vlan-tag", "rxhash">>
  IN LeavesLast(Stops(Parser([i \in DOMAIN name |-> As(Flag(name[i]), "keys")], {}, {"keys"}, << >>)))

\* and, or and xor are folded into one mask and one value (transfer_bitop);
\* they are sent unless they change nothing.
flow_parse_opt ==
  LET put(w, attr) == At(Opt(w), 4096, attr, "u32")
      bitops == {"and", "or", "xor"}
  IN Begins(Parser(<<Flag("map"), Flag("hash"),
                     Calls(Sends(Sets(Opt("keys"), {{"keys"}, {"keys", "nkeys"}}),
                                 <<Put(4096, "TCA_FLOW_KEYS", "u32", {"keys", "nkeys"})>>), "flow_parse_keys"),
                     Opt("and"), Opt("or"), Opt("xor"),
                     put("rshift", "TCA_FLOW_RSHIFT"), put("addend", "TCA_FLOW_ADDEND"),
                     put("divisor", "TCA_FLOW_DIVISOR"), put("baseclass", "TCA_FLOW_BASECLASS"),
                     put("perturb", "TCA_FLOW_PERTURB"),
                     Police("TCA_FLOW_POLICE"), Action("TCA_FLOW_ACT"), Match("TCA_FLOW_EMATCHES"), Help>>,
                   {Need({"nkeys"}, {"hash"})}, {},
                   <<Put(4096, "TCA_FLOW_MODE", "u32", {"map", "hash"}),
                     PutIf(4096, "TCA_FLOW_MASK", "u32", bitops), PutIf(4096, "TCA_FLOW_XOR", "u32", bitops)>>),
            <<Nest(4096, "TCA_OPTIONS")>>)

flow_print_opt ==
  U32s({"TCA_FLOW_MODE", "TCA_FLOW_KEYS", "TCA_FLOW_MASK", "TCA_FLOW_XOR", "TCA_FLOW_RSHIFT",
        "TCA_FLOW_ADDEND", "TCA_FLOW_DIVISOR", "TCA_FLOW_BASECLASS", "TCA_FLOW_PERTURB"})
    \cup Nested({"TCA_FLOW_EMATCHES", "TCA_FLOW_POLICE", "TCA_FLOW_ACT"})

\* The attributes that an option of flower adds for its value.
flower_parse_eth_addr(w, addr, mask) ==
  Sends(Opt(w), <<Put(MAX_MSG, addr, "lladdr6", {w}), Put(MAX_MSG, mask, "lladdr6", {w})>>)

flower_parse_eth_type == At(Opt("eth_type"), MAX_MSG, "TCA_FLOWER_KEY_ETH_TYPE", "u16")

\* Only for IPv4 and IPv6.
flower_parse_ip_proto == After(At(Opt("ip_proto"), MAX_MSG, "TCA_FLOWER_KEY_IP_PROTO", "u8"), {"eth_type"})

\* An address of the version that eth_type has said.
flower_parse_ip_addr(w, v4, v6, addr4, mask4, addr6, mask6) ==
  After(Sends(Sets(Opt(w), {{v4}, {v6}}),
              <<PutIf(MAX_MSG, addr4, "u32", {v4}), PutIf(MAX_MSG, mask4, "u32", {v4}),
                PutIf(MAX_MSG, addr6, "in6_addr", {v6}), PutIf(MAX_MSG, mask6, "in6_addr", {v6})>>),
        {"eth_type"})

\* A port of the protocol that ip_proto has said.
flower_parse_port(w, tcp, udp, tcp_type, udp_type) ==
  After(Sends(Sets(Opt(w), {{tcp}, {udp}}),
              <<PutIf(MAX_MSG, tcp_type, "u16", {tcp}), PutIf(MAX_MSG, udp_type, "u16", {udp})>>),
        {"ip_proto"})

flower_parse_opt ==
  Begins(Parser(<<At(Or(Opt("classid"), {"flowid"}), MAX_MSG, "TCA_FLOWER_CLASSID", "u32"),
                  At(Opt("indev"), MAX_MSG, "TCA_FLOWER_INDEV", "ifname"),
                  flower_parse_eth_addr("dst_mac", "TCA_FLOWER_KEY_ETH_DST", "TCA_FLOWER_KEY_ETH_DST_MASK"),
                  flower_parse_eth_addr("src_mac", "TCA_FLOWER_KEY_ETH_SRC", "TCA_FLOWER_KEY_ETH_SRC_MASK"),
                  flower_parse_eth_type, flower_parse_ip_proto,
                  flower_parse_ip_addr("dst_ip", "dst4", "dst6",
                                       "TCA_FLOWER_KEY_IPV4_DST", "TCA_FLOWER_KEY_IPV4_DST_MASK",
                                       "TCA_FLOWER_KEY_IPV6_DST", "TCA_FLOWER_KEY_IPV6_DST_MASK"),
                  flower_parse_ip_addr("src_ip", "src4", "src6",
                                       "TCA_FLOWER_KEY_IPV4_SRC", "TCA_FLOWER_KEY_IPV4_SRC_MASK",
                                       "TCA_FLOWER_KEY_IPV6_SRC", "TCA_FLOWER_KEY_IPV6_SRC_MASK"),
                  flower_parse_port("dst_port", "tcp_dst", "udp_dst",
                                    "TCA_FLOWER_KEY_TCP_DST", "TCA_FLOWER_KEY_UDP_DST"),
                  flower_parse_port("src_port", "tcp_src", "udp_src",
                                    "TCA_FLOWER_KEY_TCP_SRC", "TCA_FLOWER_KEY_UDP_SRC"),
                  Action("TCA_FLOWER_ACT"), WordHelp>>, {}, {}, << >>),
         <<Nest(MAX_MSG, "TCA_OPTIONS")>>)

\* An address is printed only if it has exactly the length of one.
flower_print_eth_addr(attrs) == {Checked(a, "lladdr6") : a \in attrs}
flower_print_eth_type == {Read("TCA_FLOWER_KEY_ETH_TYPE", "u16")}
flower_print_ip_proto == {Read("TCA_FLOWER_KEY_IP_PROTO", "u8")}
flower_print_ip_addr(attrs4, attrs6) ==
  {Checked(a, "u32") : a \in attrs4} \cup {Checked(a, "in6_addr") : a \in attrs6}
flower_print_port(attrs) == {Read(a, "u16") : a \in attrs}

flower_print_opt ==
  {Read("TCA_FLOWER_CLASSID", "u32"), Read("TCA_FLOWER_INDEV", "str"), Read("TCA_FLOWER_ACT", "nested")}
    \cup flower_print_eth_addr({"TCA_FLOWER_KEY_ETH_DST", "TCA_FLOWER_KEY_ETH_DST_MASK",
                                "TCA_FLOWER_KEY_ETH_SRC", "TCA_FLOWER_KEY_ETH_SRC_MASK"})
    \cup flower_print_eth_type \cup flower_print_ip_proto
    \cup flower_print_ip_addr({"TCA_FLOWER_KEY_IPV4_DST", "TCA_FLOWER_KEY_IPV4_DST_MASK",
                               "TCA_FLOWER_KEY_IPV4_SRC", "TCA_FLOWER_KEY_IPV4_SRC_MASK"},
                              {"TCA_FLOWER_KEY_IPV6_DST", "TCA_FLOWER_KEY_IPV6_DST_MASK",
                               "TCA_FLOWER_KEY_IPV6_SRC", "TCA_FLOWER_KEY_IPV6_SRC_MASK"})
    \cup flower_print_port({"TCA_FLOWER_KEY_TCP_DST", "TCA_FLOWER_KEY_UDP_DST",
                            "TCA_FLOWER_KEY_TCP_SRC", "TCA_FLOWER_KEY_UDP_SRC"})

-----------------------------------------------------------------------------
(* f_bpf.c *)

\* From the label opt_bpf on: a classic program as text or in a file, or an object
\* with up to three options in this order.
bpf_program ==
  LET kinds == {"bytecode", "object"}
      object(b, later) == Until(Since(b, {"object"}), later)
  IN <<Until(As(OrWord(Word("bytecode-file"), {"bcf"}), "bytecode"), kinds),
       Until(As(OrWord(Word("bytecode"), {"bc"}), "bytecode"), kinds),
       Until(As(OrWord(Word("object-file"), {"obj"}), "object"), kinds),
       object(As(OrWord(Word("section"), {"sec"}), "section"), {"section", "export", "verbose"}),
       object(As(OrWord(Word("export"), {"exp"}), "export"), {"export", "verbose"}),
       object(As(OrWord(WordFlag("verbose"), {"verb"}), "verbose"), {"verbose"})>>

\* and then the program is sent at once.
bpf_run ==
  LeavesLast(Stops(Parser(bpf_program, {Need({}, {"bytecode", "object"})}, {"export", "verbose"},
    <<PutIf(MAX_MSG, "TCA_BPF_FD", "u32", {"object"}),
      PutWhen(MAX_MSG, "TCA_BPF_NAME", "bpf_name", {"object", "section"}, {"object"}),
      PutIf(MAX_MSG, "TCA_BPF_OPS_LEN", "u16", {"bytecode"}),
      PutIf(MAX_MSG, "TCA_BPF_OPS", "bpf_ops", {"bytecode"})>>)))

\* The word run may be left out once.
bpf_parse_opt ==
  Begins(Parser(<<Calls(Flag("run"), "bpf_run"), ClassId(MAX_MSG, "TCA_BPF_CLASSID"),
                  Action("TCA_BPF_ACT"), Police("TCA_BPF_POLICE"), WordHelp,
                  Until(Calls(Positional("run"), "bpf_run"), {"run"})>>, {}, {"run"}, << >>),
         <<Nest(MAX_MSG, "TCA_OPTIONS")>>)

\* The program is printed only with its length.
bpf_print_opt ==
  {Read("TCA_BPF_CLASSID", "u32"), Read("TCA_BPF_NAME", "str"), Read("TCA_BPF_FD", "u32"),
   Read("TCA_BPF_OPS_LEN", "u16"), Read("TCA_BPF_OPS", "bpf_ops")}
    \cup Nested({"TCA_BPF_POLICE", "TCA_BPF_ACT"})

-----------------------------------------------------------------------------
(* f_rsvp.c *)

\* An address, with a port or with what stands for one; mask and at follow the
\* value of u32, u16 or u8 in this order.
get_addr_and_pi ==
  LET pi == {"port", "gpi", "flowlabel", "u"}
      gpi(w1, w2) == As(OrWord(Word(w1), {w2}), "gpi")
      first(b) == Until(Since(b, {"addr"}), pi)
  IN Stops(Parser(<<Until(Sets(Positional("addr"), {{"addr"}, {"addr", "port"}}), {"addr"}),
                    first(gpi("spi/ah", "gpi/ah")), first(gpi("spi/esp", "gpi/esp")), first(Word("flowlabel")),
                    first(As(OrWord(Word("u32"), {"u16", "u8"}), "u")),
                    Until(Since(Word("mask"), {"u"}), {"mask", "at"}),
                    Until(Since(Word("at"), {"u"}), {"at"})>>,
                  {Need({}, {"addr"})}, {"addr", "mask", "at"} \cup pi, << >>))

\* The address of ipproto is tested with the arguments of matches exchanged: an
\* abbreviation of it is not accepted.
rsvp_parse_opt ==
  LET addr(b, attr) == Goes(Calls(At(b, 4096, attr, "in6_addr"), "get_addr_and_pi"), "here")
      pinfo == {"session", "sender", "ipproto", "tunnelid", "tunnel"}
  IN Begins(Parser(<<addr(Flag("session"), "TCA_RSVP_DST"),
                     addr(As(Or(Flag("sender"), {"flowspec"}), "sender"), "TCA_RSVP_SRC"),
                     Word("ipproto"), ClassId(4096, "TCA_RSVP_CLASSID"), Word("tunnelid"),
                     At(Word("tunnel"), 4096, "TCA_RSVP_CLASSID", "u32"),
                     Action("TCA_RSVP_ACT"), Police("TCA_RSVP_POLICE"), WordHelp>>, {}, {},
                   <<PutIf(4096, "TCA_RSVP_PINFO", "tc_rsvp_pinfo", pinfo)>>),
            <<Nest(4096, "TCA_OPTIONS")>>)

\* The addresses are read as those of the kind, rsvp or rsvp6.
rsvp_print_opt ==
  {Checked("TCA_RSVP_PINFO", "tc_rsvp_pinfo"), Read("TCA_RSVP_CLASSID", "u32"),
   Read("TCA_RSVP_DST", "in6_addr"), Read("TCA_RSVP_SRC", "in6_addr")}
    \cup Nested({"TCA_RSVP_ACT", "TCA_RSVP_POLICE"})

-----------------------------------------------------------------------------
(* f_u32.c *)

\* A value and perhaps a mask, then at with an offset.  What pack_key refuses,
\* a contradiction or more than 128 keys, is a bad value.
Key(values, at) ==
  LET in(i) == Until(IF i = 1 THEN Positional(values[i]) ELSE Since(Positional(values[i]), {values[i - 1]}), {values[i]})
      offset == Goes(Calls(Since(As(WordFlag("at"), "off"), {values[Len(values)]}), "parse_at"), "end")
  IN Stops(Parser([i \in DOMAIN values |-> in(i)] \o (IF at THEN <<offset>> ELSE << >>),
                  {Need({}, {values[i]}) : i \in DOMAIN values}, Every, << >>))

parse_at == Stops(Parser(<<Goes(As(Opt("nexthdr+"), "off"), "end"), Goes(Positional("off"), "end")>>,
                         {Need({}, {"off"})}, {"off"}, << >>))

parse_u32 == Key(<<"key", "mask">>, TRUE)
parse_u16 == Key(<<"key", "mask">>, TRUE)
parse_u8 == Key(<<"key", "mask">>, TRUE)
parse_ip_addr == Key(<<"addr">>, TRUE)
parse_ip6_addr == Key(<<"addr">>, TRUE)
parse_ip6_class == Key(<<"key", "mask">>, FALSE)
parse_ether_addr == Key(<<"addr">>, TRUE)

\* A field of a header, and the parser of its value.
Field(w, f) == Goes(Calls(WordFlag(w), f), "return")
Fields(ws, f) == [i \in DOMAIN ws |-> Field(ws[i], f)]
Selector(opts) == Stops(Parser(opts, {Need({}, UNION {UNION opts[i].sets : i \in DOMAIN opts})}, Every, << >>))

\* The four fragment fields have no value, but their key may be refused.
parse_ip ==
  LET fragment(w) == Goes(Word(w), "end")
  IN Selector(Fields(<<"src", "dst">>, "parse_ip_addr")
              \o <<Or(Field("tos", "parse_u8"), {"dsfield", "precedence"})>>
              \o Fields(<<"ihl", "protocol">>, "parse_u8")
              \o <<fragment("nofrag"), fragment("firstfrag"), fragment("df"), fragment("mf")>>
              \o Fields(<<"dport", "sport">>, "parse_u16") \o Fields(<<"icmp_type", "icmp_code">>, "parse_u8"))

parse_ip6 ==
  Selector(Fields(<<"src", "dst">>, "parse_ip6_addr") \o Fields(<<"priority">>, "parse_ip6_class")
           \o Fields(<<"protocol">>, "parse_u8") \o Fields(<<"flowlabel">>, "parse_u32")
           \o Fields(<<"dport", "sport">>, "parse_u16") \o Fields(<<"icmp_type", "icmp_code">>, "parse_u8"))

parse_ether == Selector(Fields(<<"src", "dst">>, "parse_ether_addr"))
parse_udp == Selector(Fields(<<"src", "dst">>, "parse_u16"))
parse_icmp == Selector(Fields(<<"type", "code">>, "parse_u8"))

parse_mark ==
  [Key(<<"val", "mask">>, FALSE) EXCEPT !.msg = <<Put(MAX_MSG, "TCA_U32_MARK", "tc_u32_mark", {"val", "mask"})>>]

parse_selector ==
  LET sel(w, f) == Goes(Calls(Flag(w), f), "return")
  IN Selector(<<sel("u32", "parse_u32"), sel("u16", "parse_u16"), sel("u8", "parse_u8"),
                sel("ip", "parse_ip"), sel("ip6", "parse_ip6"), sel("udp", "parse_udp"), sel("tcp", "parse_udp"),
                sel("icmp", "parse_icmp"), sel("mark", "parse_mark"), sel("ether", "parse_ether")>>)

parse_offset ==
  Stops(Parser(<<Opt("plus"), Opt("at"), Opt("mask"), Opt("shift"), Flag("eat")>>, {},
               {"plus", "at", "mask", "shift", "eat"}, << >>))

parse_hashkey == Stops(Parser(<<Opt("mask"), Opt("at")>>, {}, {"mask", "at"}, << >>))

\* The selector is sent only with a match; ht and sample make the hash.
\* (The sample may be followed by a divisor of its own.)
u32_parse_opt ==
  LET run(w, f) == Goes(Calls(Flag(w), f), "here")
      sel == {"match", "offset", "hashkey"}
  IN Begins(Parser(<<run("match", "parse_selector"), run("offset", "parse_offset"), run("hashkey", "parse_hashkey"),
                     ClassId(MAX_MSG, "TCA_U32_CLASSID"), At(Opt("divisor"), MAX_MSG, "TCA_U32_DIVISOR", "u32"),
                     Opt("order"), At(Word("link"), MAX_MSG, "TCA_U32_LINK", "u32"), Word("ht"),
                     Goes(Calls(Word("sample"), "parse_selector"), "here"),
                     At(Word("indev"), MAX_MSG, "TCA_U32_INDEV", "ifname"),
                     Action("TCA_U32_ACT"), Police("TCA_U32_POLICE"), WordHelp>>, {}, {"order"},
                   <<PutIf(MAX_MSG, "TCA_U32_HASH", "u32", {"ht", "sample"}),
                     PutWhen(MAX_MSG, "TCA_U32_SEL", "u32_sel", sel, {"match"})>>),
            <<Nest(MAX_MSG, "TCA_OPTIONS")>>)

u32_print_opt ==
  {Checked("TCA_U32_SEL", "tc_u32_sel"), Checked("TCA_U32_PCNT", "tc_u32_pcnt"),
   Checked("TCA_U32_MARK", "tc_u32_mark"), Read("TCA_U32_INDEV", "str")}
    \cup U32s({"TCA_U32_DIVISOR", "TCA_U32_HASH", "TCA_U32_CLASSID", "TCA_U32_LINK"})
    \cup Nested({"TCA_U32_POLICE", "TCA_U32_ACT"})

-----------------------------------------------------------------------------
(* tc_filter.c *)

\* The bound is the size of the request, its buffer and the two headers.
tc_filter_modify ==
  LET size == 36 + MAX_MSG
  IN Hands(Requests(Parser(<<Once(Word("dev")), Once(As(WordFlag("root"), "parent")), Once(Word("parent")),
                             Once(Word("handle")), Once(As(Or(Opt("preference"), {"priority"}), "priority")),
                             Once(Opt("protocol")), Once(Calls(Flag("estimator"), "parse_estimator")),
                             Goes(Usage, "return"), Goes(Positional("kind"), "end")>>,
                           {Need({"handle"}, {"kind"})}, {"dev", "parent", "handle", "priority", "protocol"},
                           <<PutIf(size, "TCA_KIND", "kind", {"kind"})>>), "tcmsg", MAX_MSG),
           "kind", "parse_fopt", <<PutIf(size, "TCA_RATE", "tc_estimator", {"estimator"})>>)

print_filter ==
  {Must("TCA_KIND", "str"), Read("TCA_OPTIONS", "any"), Read("TCA_STATS", "any"), Read("TCA_STATS2", "nested")}

tc_filter_list ==
  Parser(<<Once(Word("dev")), Once(As(WordFlag("root"), "parent")), Once(Word("parent")), Once(Word("handle")),
           Once(As(Or(Opt("preference"), {"priority"}), "priority")), Once(Opt("protocol")), Usage>>,
         {}, {"dev", "parent", "handle", "priority", "protocol"}, << >>)

do_filter ==
  Commands(Cmds(<<"add", "change", "replace", "delete">>, "tc_filter_modify")
           \o <<Or(Cmd("list", "tc_filter_list"), {"show", "lst"}), Goes(Usage, "return")>>)

-----------------------------------------------------------------------------
(* Catalogue *)

TcFilterParsers ==
  [basic_parse_opt |-> basic_parse_opt, cgroup_parse_opt |-> cgroup_parse_opt, fw_parse_opt |-> fw_parse_opt,
   route_parse_opt |-> route_parse_opt, tcindex_parse_opt |-> tcindex_parse_opt,
   flow_parse_keys |-> flow_parse_keys, flow_parse_opt |-> flow_parse_opt, flower_parse_opt |-> flower_parse_opt,
   bpf_run |-> bpf_run, bpf_parse_opt |-> bpf_parse_opt, get_addr_and_pi |-> get_addr_and_pi,
   rsvp_parse_opt |-> rsvp_parse_opt, parse_at |-> parse_at, parse_u32 |-> parse_u32, parse_u16 |-> parse_u16,
   parse_u8 |-> parse_u8, parse_ip_addr |-> parse_ip_addr, parse_ip6_addr |-> parse_ip6_addr,
   parse_ip6_class |-> parse_ip6_class, parse_ether_addr |-> parse_ether_addr, parse_ip |-> parse_ip,
   parse_ip6 |-> parse_ip6, parse_ether |-> parse_ether, parse_udp |-> parse_udp, parse_icmp |-> parse_icmp,
   parse_mark |-> parse_mark, parse_selector |-> parse_selector, parse_offset |-> parse_offset,
   parse_hashkey |-> parse_hashkey, u32_parse_opt |-> u32_parse_opt, tc_filter_modify |-> tc_filter_modify,
   tc_filter_list |-> tc_filter_list, do_filter |-> do_filter]

\* parse_fopt is a function pointer of a filter_util.
TcFilterPointers ==
  [parse_fopt |-> {"basic_parse_opt", "cgroup_parse_opt", "fw_parse_opt", "route_parse_opt", "tcindex_parse_opt",
                   "flow_parse_opt", "flower_parse_opt", "bpf_parse_opt", "rsvp_parse_opt", "u32_parse_opt",
                   "parse_nofopt"}]

TcFilterReads ==
  basic_print_opt \cup cgroup_print_opt \cup fw_print_opt \cup route_print_opt \cup tcindex_print_opt
    \cup flow_print_opt \cup flower_print_opt \cup bpf_print_opt \cup rsvp_print_opt \cup u32_print_opt
    \cup print_filter

\* A classic BPF program may have 4096 instructions of 8 bytes, twice what a
\* message of tc has room for.  The older classifiers bound the message by 4096
\* bytes; a police action and the 128 keys of a pedit action fill these before
\* the attributes that the classifier adds after its loop.
TcFilterDrops ==
  {"TCA_BPF_OPS", "TCA_FLOW_MODE", "TCA_FLOW_MASK", "TCA_FLOW_XOR", "TCA_RSVP_PINFO", "TCA_TCINDEX_HASH",
   "TCA_TCINDEX_MASK", "TCA_TCINDEX_SHIFT", "TCA_TCINDEX_FALL_THROUGH", "TCA_TCINDEX_CLASSID"}

\* The size of the hash is sent as an int and printed as a u16.
TcFilterNarrow == {"TCA_TCINDEX_HASH"}
=============================================================================
