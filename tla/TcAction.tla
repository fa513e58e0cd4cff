------------------------------ MODULE TcAction ------------------------------
(***************************************************************************)
(* The option parsers and printers of the actions and of the extended      *)
(* matches of tc, one definition per C function (tc/m_*.c, tc/em_*.c), in  *)
(* the forms of OptionForms.                                               *)
(***************************************************************************)
EXTENDS TcFilter

\* The word that says what to do with the packet.  Some actions look at the word
\* after it, which may be missing (flag is FALSE).
Control(flag) ==
  LET act(w) == [As(Opt(w), "action") EXCEPT !.flag = flag]
  IN <<act("reclassify"), act("pipe"), Or(act("drop"), {"shot"}), act("continue"), act("pass")>>

\* The options of an action, then perhaps that word, then perhaps an index.
Options(opts, flag) ==
  Stage(opts \o Control(flag), {"action", "index"}) \o <<Until(Opt("index"), {"index"})>>

\* An action: its name, which parse_action has looked at, and its options.
Act(opts, need, attrs) ==
  Stops(Parser(opts, need, {"name"}, <<Nest(MAX_MSG, "TCA_ACT_OPTIONS")>> \o attrs))

Parms(name, type) == Put(MAX_MSG, name, type, Every)
Prints(parms, struct, tm) == {Must(parms, struct), Read(tm, "tcf_t")}

-----------------------------------------------------------------------------
(* m_bpf.c, m_connmark.c, m_csum.c, m_gact.c *)

\* (A second program after another run is left out.)
act_parse_bpf ==
  Act(Named("bpf", Options(<<Unset(Flag("run"))>> \o bpf_program \o <<Help>>, TRUE)), {},
      <<Put(MAX_MSG, "TCA_ACT_BPF_PARMS", "tc_act_bpf", {"action", "index", "export", "verbose"}),
        PutIf(MAX_MSG, "TCA_ACT_BPF_FD", "u32", {"object"}),
        PutWhen(MAX_MSG, "TCA_ACT_BPF_NAME", "bpf_name", {"object", "section"}, {"object"}),
        PutIf(MAX_MSG, "TCA_ACT_BPF_OPS_LEN", "u16", {"bytecode"}),
        PutIf(MAX_MSG, "TCA_ACT_BPF_OPS", "bpf_ops", {"bytecode"})>>)

print_bpf ==
  Prints("TCA_ACT_BPF_PARMS", "tc_act_bpf", "TCA_ACT_BPF_TM")
    \cup {Read("TCA_ACT_BPF_NAME", "str"), Read("TCA_ACT_BPF_FD", "u32"),
          Read("TCA_ACT_BPF_OPS", "bpf_ops"), Read("TCA_ACT_BPF_OPS_LEN", "u16")}

parse_connmark ==
  Act(Named("connmark", Options(<<Until(Help, {"zone"}), Until(Opt("zone"), {"zone"})>>, TRUE)), {},
      <<Parms("TCA_CONNMARK_PARMS", "tc_connmark")>>)

print_connmark == Prints("TCA_CONNMARK_PARMS", "tc_connmark", "TCA_CONNMARK_TM")

parse_csum_args ==
  LET update(w) == As(Flag(w), "update_flags")
  IN Stops(Parser(<<Or(update("iph"), {"ip4h", "ipv4h"}), update("icmp"), update("igmp"), update("tcp"),
                    update("udp"), update("udplite"), Unset(Or(Flag("and"), {"or", "+"}))>>,
                  {}, {"update_flags"}, << >>))

\* Refused when no flag is set, which parse_csum_args may leave so.
parse_csum ==
  LET opts == Named("csum", Options(<<Help>>, TRUE))
  IN Act([opts EXCEPT ![1] = Goes(Calls(@, "parse_csum_args"), "here")], {},
         <<Parms("TCA_CSUM_PARMS", "tc_csum")>>)

print_csum == Prints("TCA_CSUM_PARMS", "tc_csum", "TCA_CSUM_TM")

get_act(keys) ==
  <<Sets(Flag("reclassify"), {keys}), Sets(Or(Flag("drop"), {"shot"}), {keys}), Sets(Flag("continue"), {keys}),
    Sets(Flag("pipe"), {keys}), Sets(Or(Flag("pass"), {"ok"}), {keys})>>

\* gact or an action by itself; then random with a type, an action and a value.
parse_gact ==
  LET in(b, since, until) == Since(Until(b, until), since)
      paction == get_act({"paction"})
  IN Act(Stage(<<As(Flag("gact"), "name")>> \o get_act({"name", "action"}), {"name"})
         \o <<in(Flag("random"), {"name"}, {"random", "index"}),
              in(Or(As(Opt("netrand"), "ptype"), {"determ"}), {"random"}, {"ptype"})>>
         \o [i \in DOMAIN paction |-> in(paction[i], {"ptype"}, {"paction"})]
         \o <<in(Positional("pval"), {"paction"}, {"pval"}),
              in(Help, {"name"}, {"random", "index"}), in(Opt("index"), {"name"}, {"random", "index"}),
              in(Help, {"pval"}, {"index"}), in(Opt("index"), {"pval"}, {"index"})>>,
         {Need({}, {"name"}), Need({"random"}, {"pval"})},
         <<Put(MAX_MSG, "TCA_GACT_PARMS", "tc_gact", {"action", "index"}),
           PutIf(MAX_MSG, "TCA_GACT_PROB", "tc_gact_p", {"random", "ptype", "paction", "pval"})>>)

print_gact == Prints("TCA_GACT_PARMS", "tc_gact", "TCA_GACT_TM") \cup {Read("TCA_GACT_PROB", "tc_gact_p")}

-----------------------------------------------------------------------------
(* m_mirred.c, m_nat.c *)

\* A word between egress and dev that is none of these is passed over.  Only a
\* mirror has a word for what to do then.
parse_egress ==
  LET loop(b) == Until(b, {"dev"})
      egress(b) == Since(loop(b), {"egress"})
      dev(since, keys) == Since(loop(Sets(Opt("dev"), {keys})), since)
      control == Stage(Control(FALSE), {"action"})
  IN Act(<<Goes(loop(Unset(Flag("action"))), "end"), loop(Opt("egress")),
           Goes(Until(Opt("index"), {"egress"}), "end"), egress(Opt("index")),
           Until(egress(Not(Opt("mirror"), {"redirect"})), {"mirror"}),
           Until(egress(Not(Opt("redirect"), {"mirror"})), {"redirect"}),
           dev({"mirror"}, {"dev", "mirror_dev"}), dev({"redirect"}, {"dev"})>>
         \o [i \in DOMAIN control |-> Since(control[i], {"mirror_dev"})]
         \o <<Since(Once(Opt("index")), {"dev"}), egress(Unset(Positional("word")))>>,
         {Need({}, {"egress", "index"})}, <<Parms("TCA_MIRRED_PARMS", "tc_mirred")>>)

\* parse_egress begins with the word that has been looked at here.
parse_mirred ==
  Stops(Parser(Named("mirred",
                 <<Goes(Calls(Unset(Or(Flag("egress"), {"index"})), "parse_egress"), "return"),
                   Refused(Flag("ingress")), Help>>),
               {}, {"name"}, << >>))

print_mirred == Prints("TCA_MIRRED_PARMS", "tc_mirred", "TCA_MIRRED_TM")

parse_nat_args ==
  LET in(b, since, key) == Since(Until(As(b, key), {key}), since)
  IN Stops(Parser(<<in(Or(Opt("egress"), {"ingress"}), {}, "flags"), in(Positional("old"), {"flags"}, "old"),
                    in(Positional("new"), {"old"}, "new")>>,
                  {Need({}, {"new"})}, {"flags", "old", "new"}, << >>))

parse_nat ==
  LET opts == Named("nat", Options(<<Help>>, TRUE))
  IN Act([opts EXCEPT ![1] = Goes(Calls(@, "parse_nat_args"), "here")], {},
         <<Parms("TCA_NAT_PARMS", "tc_nat")>>)

print_nat == Prints("TCA_NAT_PARMS", "tc_nat", "TCA_NAT_TM")

-----------------------------------------------------------------------------
(* m_pedit.c *)

parse_cmd ==
  LET cmd(b) == Until(As(b, "cmd"), {"cmd"})
  IN Stops(Parser(<<cmd(Flag("invert")), cmd(Opt("set")), cmd(Flag("preserve")), cmd(Flag("clear")),
                    Since(Until(Opt("retain"), {"retain"}), {"cmd"})>>,
                  {Need({}, {"cmd"})}, {"cmd", "retain"}, << >>))

\* An offset, a width, perhaps at with three values, then a command.
pedit_parse_offset ==
  LET in(b, since, key) == Since(Until(As(b, key), {key}), since)
  IN Hands(Stops(Parser(<<in(Positional("off"), {}, "off"), in(Opt("u32"), {"off"}, "len"),
                          in(Opt("u16"), {"off"}, "len"), in(Opt("u8"), {"off"}, "len"),
                          in(Opt("at"), {"len"}, "at")>>,
                        {Need({}, {"len"})}, {"off", "len", "at"}, << >>)),
           "len", "parse_cmd", << >>)

\* The function of another kind of key is called on the name of the kind itself,
\* which none of them takes (nor does pedit_parse_nopopt).
parse_munge ==
  Stops(Parser(<<Goes(Calls(Unset(Flag("offset")), "pedit_parse_offset"), "return"),
                 Refused(Positional("kind"))>>, {}, {}, << >>))

parse_pedit ==
  Act(Named("pedit", Options(<<Help, Goes(Calls(Flag("munge"), "parse_munge"), "here")>>, FALSE)), {},
      <<Parms("TCA_PEDIT_PARMS", "pedit_sel")>>)

print_pedit == Prints("TCA_PEDIT_PARMS", "tc_pedit_sel", "TCA_PEDIT_TM")

-----------------------------------------------------------------------------
(* m_police.c *)

\* What conform-exceed sets, from action/result.
get_police_result(b) == Sets(b, {{"action"}, {"action", "result"}})

police_options ==
  LET act(w) == As(Flag(w), "action")
  IN <<Opt("index"), Once(OrWord(Opt("burst"), {"buffer", "maxburst"})),
       Once(OrWord(Word("mtu"), {"minburst"})), Once(Word("mpu")), Once(Word("rate")), Once(Word("avrate")),
       Once(Opt("peakrate")), act("reclassify"), Or(act("drop"), {"shot"}), act("continue"), act("pass"),
       act("pipe"), get_police_result(Word("conform-exceed")), Opt("overhead"), Opt("linklayer"),
       WordHelp>>

\* A rate has a table of 256 entries.
police_message ==
  <<Put(MAX_MSG, "TCA_POLICE_TBF", "tc_police", {"index", "burst", "mtu", "mpu", "rate", "peakrate", "action",
                                                 "overhead", "linklayer"}),
    PutIf(MAX_MSG, "TCA_POLICE_RATE", "rtab", {"rate"}), PutIf(MAX_MSG, "TCA_POLICE_PEAKRATE", "rtab", {"peakrate"}),
    U32(MAX_MSG, "TCA_POLICE_AVRATE", "avrate"), U32(MAX_MSG, "TCA_POLICE_RESULT", "result")>>

police_needs ==
  {Need({}, {"index", "burst", "mtu", "mpu", "rate", "avrate", "peakrate", "action", "overhead", "linklayer"}),
   Need({"rate"}, {"burst"}), Need({"peakrate"}, {"rate"}), Need({"peakrate"}, {"mtu"})}

act_parse_police == Act(Named("police", police_options), police_needs, police_message)

\* In a classifier there is no name, and the classifier has opened the attribute.
parse_police == Stops(Parser(police_options, police_needs, {}, police_message))

print_police ==
  {Checked("TCA_POLICE_TBF", "tc_police"), Read("TCA_POLICE_AVRATE", "u32"), Read("TCA_POLICE_RESULT", "int")}

-----------------------------------------------------------------------------
(* m_simple.c, m_skbedit.c, m_vlan.c, m_xt.c *)

parse_simple ==
  Act(Named("simple", <<Until(Positional("data"), {"data"}),
                     Since(Until(Opt("index"), {"index"}), {"data"})>>),
      {Need({}, {"data"})},
      <<Put(MAX_MSG, "TCA_DEF_PARMS", "tc_defact", {"index"}), Put(MAX_MSG, "TCA_DEF_DATA", "simp_data", {"data"})>>)

print_simple == Prints("TCA_DEF_PARMS", "tc_defact", "TCA_DEF_TM") \cup {Must("TCA_DEF_DATA", "str")}

parse_skbedit ==
  LET edits == {"queue_mapping", "priority", "mark"}
  IN Act(Named("skbedit", Options(<<Opt("queue_mapping"), Opt("priority"), Opt("mark"), Help>>, FALSE)),
         {Need({}, edits \cup {"index"})},
         <<Put(MAX_MSG, "TCA_SKBEDIT_PARMS", "tc_skbedit", {"action", "index"}),
           PutIf(MAX_MSG, "TCA_SKBEDIT_QUEUE_MAPPING", "u16", {"queue_mapping"}),
           U32(MAX_MSG, "TCA_SKBEDIT_PRIORITY", "priority"), U32(MAX_MSG, "TCA_SKBEDIT_MARK", "mark")>>)

print_skbedit ==
  Prints("TCA_SKBEDIT_PARMS", "tc_skbedit", "TCA_SKBEDIT_TM") \cup {Read("TCA_SKBEDIT_QUEUE_MAPPING", "u16")}
    \cup U32s({"TCA_SKBEDIT_PRIORITY", "TCA_SKBEDIT_MARK"})

parse_vlan ==
  LET acts == {"pop", "push"}
  IN Act(Named("vlan", Options(<<Not(Flag("pop"), acts), Not(Flag("push"), acts), After(Opt("id"), {"push"}),
                               After(Opt("protocol"), {"push"}), Help>>, TRUE)),
         {Need({"push"}, {"id"})},
         <<Put(MAX_MSG, "TCA_VLAN_PARMS", "tc_vlan", acts \cup {"action", "index"}),
           PutIf(MAX_MSG, "TCA_VLAN_PUSH_VLAN_ID", "u16", {"id"}),
           PutIf(MAX_MSG, "TCA_VLAN_PUSH_VLAN_PROTOCOL", "u16", {"protocol"})>>)

print_vlan ==
  Prints("TCA_VLAN_PARMS", "tc_vlan", "TCA_VLAN_TM")
    \cup {Read("TCA_VLAN_PUSH_VLAN_ID", "u16"), Read("TCA_VLAN_PUSH_VLAN_PROTOCOL", "u16")}

\* The words up to action go to getopt_long: -j with a target, whose own options
\* the target parses, then perhaps an index.
parse_ipt ==
  LET in(b, since, until) == Since(Until(b, until), since)
  IN Act(<<Until(Positional("name"), {"name"}), Goes(in(Unset(WordFlag("action")), {"name"}, {}), "end"),
           in(Word("-j"), {"name"}, {"index"}), in(Opt("index"), {"name"}, {"index"}),
           in(Unset(Positional("option")), {"-j"}, {"index"})>>,
         {Need({}, {"-j", "index"})},
         <<Put(MAX_MSG, "TCA_IPT_TABLE", "ifname", {}), Put(MAX_MSG, "TCA_IPT_HOOK", "u32", {}),
           Put(MAX_MSG, "TCA_IPT_INDEX", "u32", {"index"}), PutIf(MAX_MSG, "TCA_IPT_TARG", "xt_entry_target", {"-j"})>>)

print_ipt ==
  {Read("TCA_IPT_TABLE", "str"), Must("TCA_IPT_HOOK", "u32"), Must("TCA_IPT_TARG", "xt_entry_target"),
   Read("TCA_IPT_INDEX", "u32"), Read("TCA_IPT_CNT", "tc_cnt"), Read("TCA_IPT_TM", "tcf_t")}

-----------------------------------------------------------------------------
(* m_ematch.c, em_cmp.c, em_nbyte.c, em_u32.c, em_meta.c, em_canid.c, em_ipset.c *)

\* The arguments of a match, up to the closing bracket.
Arguments(opts, need, data) ==
  Parser(<<Goes(As(WordFlag(")"), "closed"), "end")>> \o opts, need \cup {Need({}, {"closed"})}, {"closed"},
         <<Raw(MAX_MSG, "tcf_ematch_hdr", {})>> \o data)

cmp_parse_eopt ==
  LET align(w) == Until(As(WordFlag(w), "align"), {"align"})
      in(b) == Since(b, {"align"})
  IN Arguments(<<align("u8"), align("u16"), align("u32"), in(Word("at")), in(Word("layer")), in(Word("mask")),
              in(WordFlag("trans")), in(As(OrWord(Word("eq"), {"gt", "lt"}), "value"))>>,
            {Need({}, {"align"}), Need({}, {"at"}), Need({}, {"value"})}, <<Raw(MAX_MSG, "tcf_em_cmp", Every)>>)

nbyte_parse_eopt ==
  Arguments(<<Until(Positional("needle"), {"needle"}), Since(Word("at"), {"needle"}), Since(Word("layer"), {"needle"})>>,
         {Need({}, {"needle"}), Need({}, {"at"})},
         <<Raw(MAX_MSG, "tcf_em_nbyte", {"at", "layer"}), Raw(MAX_MSG, "str", {"needle"})>>)

\* A width, a key, a mask, at and an offset, in this order.
u32_parse_eopt ==
  LET in(b, since, key) == Since(Until(As(b, key), {key}), since)
  IN Arguments(<<in(OrWord(WordFlag("u8"), {"u16", "u32"}), {}, "align"), in(Positional("key"), {"align"}, "key"),
              in(Positional("mask"), {"key"}, "mask"), in(WordFlag("at"), {"mask"}, "at"),
              in(Word("nexthdr+"), {"at"}, "offset"), in(Positional("offset"), {"at"}, "offset")>>,
            {Need({}, {"offset"})}, <<Raw(MAX_MSG, "tc_u32_key", Every)>>)

\* One side of the comparison: a string, a number or the name of a meta value.
parse_object(side, since) ==
  LET in(b, from, key) == Since(Until(As(b, key), {key}), from)
  IN <<in(Positional(side), since, side), Since(As(Word("shift"), side), {side}), Since(As(Word("mask"), side), {side})>>

\* A string is sent as it is, a number or a mask as 32 bits (dump_value).
meta_parse_eopt ==
  LET op == Since(Until(As(OrWord(WordFlag("eq"), {"gt", "lt"}), "op"), {"op"}), {"left"})
      left == parse_object("left", {})
      list == Refused(Until(WordFlag("list"), {"left"}))
  IN Arguments(<<list, op>> \o Stage(left, {"op"}) \o parse_object("right", {"op"}),
            {Need({}, {"left"}), Need({}, {"right"})},
            <<Put(MAX_MSG, "TCA_EM_META_HDR", "tcf_meta_hdr", {"op"}),
              Put(MAX_MSG, "TCA_EM_META_LVALUE", "u32", {"left"}),
              Put(MAX_MSG, "TCA_EM_META_RVALUE", "u32", {"right"})>>)

\* An integer is looked at only if it is there and long enough (print_object).
meta_print_eopt ==
  {Checked("TCA_EM_META_HDR", "tcf_meta_hdr"), Checked("TCA_EM_META_LVALUE", "u32"),
   Checked("TCA_EM_META_RVALUE", "u32")}

canid_parse_eopt ==
  Arguments(<<As(Word("sff"), "rules"), As(Word("eff"), "rules")>>, {}, <<Raw(MAX_MSG, "canid_rules", {"rules"})>>)

\* A set and, for each of up to three dimensions, src or dst (parse_dirs).
ipset_parse_eopt ==
  LET in(b, since, key) == Since(Until(As(b, key), {key}), since)
  IN Arguments(<<in(Positional("set"), {}, "set"), in(Word("src"), {"set"}, "dirs"), in(Word("dst"), {"set"}, "dirs")>>,
            {Need({}, {"dirs"})}, <<Raw(MAX_MSG, "xt_set_info", {"set", "dirs"})>>)

\* The matches of the expression, one attribute for each.  The grammar, which
\* says where not, and, or and brackets may stand, is left out.
parse_tree ==
  LET node(w, f) == Goes(Calls(Unset(Sends(WordFlag(w), <<Nest(MAX_MSG, "TCA_EMATCH_INDEX")>>)), f), "here")
  IN Stops(Parser(<<node("cmp", "cmp_parse_eopt"), node("nbyte", "nbyte_parse_eopt"), node("u32", "u32_parse_eopt"),
                    node("meta", "meta_parse_eopt"), node("canid", "canid_parse_eopt"),
                    node("ipset", "ipset_parse_eopt"), Unset(OrWord(WordFlag("and"), {"or", "not"}))>>,
                  {}, {}, << >>))

parse_ematch ==
  Hands(Stops(Parser(<< >>, {}, {}, <<Put(MAX_MSG, "TCA_EMATCH_TREE_HDR", "tcf_ematch_tree_hdr", {}),
                                      Nest(MAX_MSG, "TCA_EMATCH_TREE_LIST")>>)),
        Always, "parse_tree", << >>)

print_ematch == {Checked("TCA_EMATCH_TREE_HDR", "tcf_ematch_tree_hdr"), Must("TCA_EMATCH_TREE_LIST", "nested")}

-----------------------------------------------------------------------------
(* m_action.c *)

new_cmd == Or(Flag("change"), {"replace", "delete", "get", "add"})

\* The function of the kind begins with the name of the kind.  (A name that is
\* none is an action of gact; get_action_kind.)
parse_action ==
  LET kind == Sends(Unset(Positional("kind")),
                    <<Nest(MAX_MSG, "TCA_ACT_PRIO"), Put(MAX_MSG, "TCA_ACT_KIND", "ifname", {})>>)
      leave(b) == Goes(Unset(b), "end")
  IN Parser(<<Unset(WordFlag("action")), leave(WordFlag("flowid")), leave(WordFlag("classid")), WordHelp,
              leave(new_cmd), Goes(Calls(kind, "parse_aopt"), "here")>>, {}, {}, << >>)

tc_print_one_action ==
  {Must("TCA_ACT_KIND", "str"), Read("TCA_ACT_OPTIONS", "nested"), Read("TCA_ACT_STATS", "nested")}

\* The count is read without a look whether it is there.
tc_print_action_flush == {Must("TCA_KIND", "str"), Bare("TCA_FCNT", "u32")}

print_action == {Must("TCA_ACT_TAB", "nested")}

\* What follows the name of a kind.
gd_index ==
  Stops(Parser(<<Goes(Opt("index"), "end")>>, {Need({}, {"index"})}, {},
               <<Nest(MAX_MSG, "TCA_ACT_PRIO"), Put(MAX_MSG, "TCA_ACT_KIND", "ifname", {}),
                 Put(MAX_MSG, "TCA_ACT_INDEX", "u32", {"index"})>>))

\* The first word, which the usage calls action, is passed over whatever it is.
tc_action_gd ==
  LET in(b) == Since(b, {"first"})
  IN Begins(Requests(Parser(<<Until(Positional("first"), {"first"}), in(Unset(WordFlag("action"))), in(WordHelp),
                              in(Goes(Calls(Positional("kind"), "gd_index"), "here"))>>, {}, Every, << >>),
                     "tcamsg", MAX_MSG),
            <<Nest(MAX_MSG, "TCA_ACT_TAB")>>)

tc_action_modify ==
  Hands(Requests(Stops(Parser(<< >>, {}, {}, <<Nest(MAX_MSG, "TCA_ACT_TAB")>>)), "tcamsg", MAX_MSG),
        Always, "parse_action", << >>)

\* Here too the first word is passed over, and what follows the second.
tc_act_list_or_flush ==
  Requests(Parser(<<Until(Positional("first"), {"first"}), Goes(Since(Positional("kind"), {"first"}), "end")>>,
                  {Need({}, {"kind"})}, {"first"},
                  <<Nest(MAX_MSG, "TCA_ACT_TAB"), Nest(MAX_MSG, "TCA_ACT_PRIO"),
                    Put(MAX_MSG, "TCA_ACT_KIND", "ifname", {"kind"})>>),
           "tcamsg", MAX_MSG)

\* A line may hold several commands.
do_action ==
  LET again(b, f) == Goes(Calls(Unset(b), f), "here")
  IN Commands(<<again(Flag("add"), "tc_action_modify"), again(Or(Flag("change"), {"replace"}), "tc_action_modify"),
                again(Flag("delete"), "tc_action_gd"), again(Flag("get"), "tc_action_gd"),
                Or(Cmd("list", "tc_act_list_or_flush"), {"show", "lst"}), Cmd("flush", "tc_act_list_or_flush"), Help>>)

-----------------------------------------------------------------------------

TcActionParsers ==
  [parse_bpf |-> act_parse_bpf, parse_connmark |-> parse_connmark, parse_csum_args |-> parse_csum_args,
   parse_csum |-> parse_csum, parse_gact |-> parse_gact, parse_egress |-> parse_egress,
   parse_mirred |-> parse_mirred, parse_nat_args |-> parse_nat_args, parse_nat |-> parse_nat,
   parse_cmd |-> parse_cmd, pedit_parse_offset |-> pedit_parse_offset, parse_munge |-> parse_munge,
   parse_pedit |-> parse_pedit, act_parse_police |-> act_parse_police, parse_police |-> parse_police,
   parse_simple |-> parse_simple, parse_skbedit |-> parse_skbedit, parse_vlan |-> parse_vlan,
   parse_ipt |-> parse_ipt, cmp_parse_eopt |-> cmp_parse_eopt, nbyte_parse_eopt |-> nbyte_parse_eopt,
   u32_parse_eopt |-> u32_parse_eopt, meta_parse_eopt |-> meta_parse_eopt, canid_parse_eopt |-> canid_parse_eopt,
   ipset_parse_eopt |-> ipset_parse_eopt, parse_tree |-> parse_tree, parse_ematch |-> parse_ematch,
   parse_action |-> parse_action, gd_index |-> gd_index, tc_action_gd |-> tc_action_gd,
   tc_action_modify |-> tc_action_modify, tc_act_list_or_flush |-> tc_act_list_or_flush, do_action |-> do_action]

TcActionPointers ==
  [parse_aopt |-> {"parse_bpf", "parse_connmark", "parse_csum", "parse_gact", "parse_mirred", "parse_nat",
                   "parse_pedit", "act_parse_police", "parse_simple", "parse_skbedit", "parse_vlan", "parse_ipt"}]

TcActionReads ==
  UNION {print_bpf, print_connmark, print_csum, print_gact, print_mirred, print_nat, print_pedit, print_police,
         print_simple, print_skbedit, print_vlan, print_ipt, meta_print_eopt, print_ematch, tc_print_one_action,
         tc_print_action_flush, print_action}

\* As in the classifier bpf.
TcActionDrops == {"TCA_ACT_BPF_OPS"}
=============================================================================
