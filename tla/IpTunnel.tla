------------------------------ MODULE IpTunnel ------------------------------
(***************************************************************************)
(* Tunnels: the kinds of ip link that are tunnels (link_*.c), ip tunnel    *)
(* over IPv4 and IPv6 (iptunnel.c, ip6tunnel.c), ip tuntap, ip fou and     *)
(* ip l2tp.                                                                *)
(***************************************************************************)
EXTENDS IpLink

-----------------------------------------------------------------------------
(* Kinds of links *)

\* A link that is changed, not created, has its present options read first, so
\* that those the line does not give are sent back as they are.  These are the
\* sets that end in _get.
\*
\* The attribute of a kind over IPv6 that has the same name over IPv4 but
\* another length is written with a 6 at the end.

KeyOpt(b, w)   == Sets(b, {{"i" \o w, "o" \o w}})
KeyOpts ==
  <<KeyOpt(Opt("key"), "key"), Opt("ikey"), Opt("okey"), KeyOpt(Flag("seq"), "seq"), Flag("iseq"), Flag("oseq"),
    KeyOpt(Flag("csum"), "csum"), Flag("icsum"), Flag("ocsum")>>

\* What is put around the packets.
EncapOpts ==
  LET flag(w) == As(WordFlag(w), "encap-flags")
  IN <<As(WordFlag("noencap"), "encap"), Word("encap"), Word("encap-sport"), Word("encap-dport"), flag("encap-csum"),
       flag("noencap-csum"), flag("encap-udp6-csum"), flag("noencap-udp6-csum"), flag("encap-remcsum"),
       flag("noencap-remcsum")>>
EncapAttrs(kind) ==
  <<Put(LinkBound, kind \o "_ENCAP_TYPE", "u16", {"encap"}), Put(LinkBound, kind \o "_ENCAP_FLAGS", "u16", {"encap-flags"}),
    Put(LinkBound, kind \o "_ENCAP_SPORT", "u16", {"encap-sport"}),
    Put(LinkBound, kind \o "_ENCAP_DPORT", "u16", {"encap-dport"})>>
EncapReads(kind) ==
  {Read(kind \o "_ENCAP_TYPE", "u16"), Read(kind \o "_ENCAP_FLAGS", "u16"), Read(kind \o "_ENCAP_SPORT", "u16"),
   Read(kind \o "_ENCAP_DPORT", "u16")}

\* A multicast remote is the key as well, and needs a local address.
gre_parse_opt ==
  LET M == LinkBound
  IN Parser(KeyOpts
            \o <<Flag("nopmtudisc"), As(Flag("pmtudisc"), "nopmtudisc"),
                 Sets(Opt("remote"), {{"remote"}, {"remote", "multicast"}}), Opt("local"), Opt("dev"),
                 Or(Opt("ttl"), {"hoplimit"}), Or(Opt("tos"), {"tclass", "dsfield"})>>
            \o EncapOpts,
            {Need({"multicast"}, {"local"})}, {},
            <<Put(M, "IFLA_GRE_IKEY", "u32", {"ikey", "multicast"}), Put(M, "IFLA_GRE_OKEY", "u32", {"okey", "multicast"}),
              Put(M, "IFLA_GRE_IFLAGS", "u16", {"ikey", "iseq", "icsum"}),
              Put(M, "IFLA_GRE_OFLAGS", "u16", {"okey", "oseq", "ocsum"}), Put(M, "IFLA_GRE_LOCAL", "u32", {"local"}),
              Put(M, "IFLA_GRE_REMOTE", "u32", {"remote"}), Put(M, "IFLA_GRE_PMTUDISC", "u8", {"nopmtudisc"}),
              U32(M, "IFLA_GRE_LINK", "dev"), Put(M, "IFLA_GRE_TTL", "u8", {"ttl"}), Put(M, "IFLA_GRE_TOS", "u8", {"tos"})>>
            \o EncapAttrs("IFLA_GRE"))

\* The index of the link is read back as a byte.
gre_get ==
  {Read("IFLA_GRE_IKEY", "u32"), Read("IFLA_GRE_OKEY", "u32"), Read("IFLA_GRE_IFLAGS", "u16"),
   Read("IFLA_GRE_OFLAGS", "u16"), Read("IFLA_GRE_LOCAL", "u32"), Read("IFLA_GRE_REMOTE", "u32"),
   Read("IFLA_GRE_PMTUDISC", "u8"), Read("IFLA_GRE_TTL", "u8"), Read("IFLA_GRE_TOS", "u8"),
   Read("IFLA_GRE_LINK", "u8")} \cup EncapReads("IFLA_GRE")

gre_print_opt ==
  {Read("IFLA_GRE_REMOTE", "u32"), Read("IFLA_GRE_LOCAL", "u32"), Read("IFLA_GRE_LINK", "u32"),
   Read("IFLA_GRE_TTL", "u8"), Read("IFLA_GRE_TOS", "u8"), Read("IFLA_GRE_PMTUDISC", "u8"),
   Read("IFLA_GRE_IFLAGS", "u16"), Read("IFLA_GRE_OFLAGS", "u16"), Read("IFLA_GRE_IKEY", "u32"),
   Read("IFLA_GRE_OKEY", "u32")} \cup EncapReads("IFLA_GRE")

\* Keys of tclass, flowlabel and dscp: a value is part of the flow, inherit is a
\* flag.  IFLA_GRE_FLAGS is sent with the flow in it, not the flags.
gre6_parse_opt ==
  LET M == LinkBound
  IN Parser(KeyOpts
            \o <<Opt("remote"), Opt("local"), Opt("dev"), Or(Opt("ttl"), {"hoplimit"}),
                 Sets(Or(Opt("tos"), {"tclass", "dsfield"}), {{"flowinfo"}, {"flags"}}),
                 Sets(OrWord(Word("flowlabel"), {"fl"}), {{"flowinfo"}, {"flags"}}), As(Word("dscp"), "flags")>>,
            {}, {},
            <<Put(M, "IFLA_GRE_IKEY", "u32", {"ikey"}), Put(M, "IFLA_GRE_OKEY", "u32", {"okey"}),
              Put(M, "IFLA_GRE_IFLAGS", "u16", {"ikey", "iseq", "icsum"}),
              Put(M, "IFLA_GRE_OFLAGS", "u16", {"okey", "oseq", "ocsum"}), Put(M, "IFLA_GRE_LOCAL6", "in6_addr", {"local"}),
              Put(M, "IFLA_GRE_REMOTE6", "in6_addr", {"remote"}), U32(M, "IFLA_GRE_LINK", "dev"),
              Put(M, "IFLA_GRE_TTL", "u8", {"ttl"}), Put(M, "IFLA_GRE_ENCAP_LIMIT", "u8", {}),
              Put(M, "IFLA_GRE_FLOWINFO", "u32", {"flowinfo"}), Put(M, "IFLA_GRE_FLAGS", "u32", {"flowinfo"})>>)

gre6_get ==
  {Read("IFLA_GRE_IKEY", "u32"), Read("IFLA_GRE_OKEY", "u32"), Read("IFLA_GRE_IFLAGS", "u16"),
   Read("IFLA_GRE_OFLAGS", "u16"), Read("IFLA_GRE_LOCAL6", "in6_addr"), Read("IFLA_GRE_REMOTE6", "in6_addr"),
   Read("IFLA_GRE_TTL", "u8"), Read("IFLA_GRE_LINK", "u32"), Read("IFLA_GRE_ENCAP_LIMIT", "u8"),
   Read("IFLA_GRE_FLOWINFO", "u32"), Read("IFLA_GRE_FLAGS", "u32")}

gre6_print_opt ==
  {Read("IFLA_GRE_FLAGS", "u32"), Read("IFLA_GRE_FLOWINFO", "u32"), Read("IFLA_GRE_REMOTE6", "in6_addr"),
   Read("IFLA_GRE_LOCAL6", "in6_addr"), Read("IFLA_GRE_LINK", "u32"), Read("IFLA_GRE_TTL", "u8"),
   Read("IFLA_GRE_ENCAP_LIMIT", "u8"), Read("IFLA_GRE_IFLAGS", "u16"), Read("IFLA_GRE_OFLAGS", "u16"),
   Read("IFLA_GRE_IKEY", "u32"), Read("IFLA_GRE_OKEY", "u32")}

\* A ttl other than inherit and nopmtudisc do not go together; pmtudisc takes
\* back nopmtudisc.  Only sit sends the last attributes.
iptunnel_parse_opt(sit) ==
  LET M == LinkBound
  IN Parser(<<Word("remote"), Word("local"), Opt("dev"),
              Sets(OrWord(Word("ttl"), {"hoplimit"}), {{"ttl", "inherit"}, {"ttl", "number"}}),
              OrWord(Or(Word("tos"), {"dsfield"}), {"tclass"}), WordFlag("nopmtudisc"), WordFlag("pmtudisc")>>
            \o (IF sit THEN <<WordFlag("isatap"), Word("mode")>> ELSE << >>)
            \o EncapOpts
            \o <<Word("6rd-prefix"), Word("6rd-relay_prefix"), As(WordFlag("6rd-reset"), "6rd-prefix")>>,
            {Need({"number", "nopmtudisc"}, {"pmtudisc"})}, {},
            <<Put(M, "IFLA_IPTUN_LINK", "u32", {"dev"}), Put(M, "IFLA_IPTUN_LOCAL", "u32", {"local"}),
              Put(M, "IFLA_IPTUN_REMOTE", "u32", {"remote"}), Put(M, "IFLA_IPTUN_TTL", "u8", {"ttl", "inherit", "number"}),
              Put(M, "IFLA_IPTUN_TOS", "u8", {"tos"}), Put(M, "IFLA_IPTUN_PMTUDISC", "u8", {"pmtudisc", "nopmtudisc"})>>
            \o EncapAttrs("IFLA_IPTUN")
            \o (IF ~sit THEN << >> ELSE
                <<Put(M, "IFLA_IPTUN_FLAGS", "u16", {"isatap"}), Put(M, "IFLA_IPTUN_PROTO", "u8", {"mode"}),
                  PutIf(M, "IFLA_IPTUN_6RD_PREFIX", "in6_addr", {"6rd-prefix"}),
                  PutIf(M, "IFLA_IPTUN_6RD_PREFIXLEN", "u16", {"6rd-prefix"}),
                  PutWhen(M, "IFLA_IPTUN_6RD_RELAY_PREFIX", "u32", {"6rd-relay_prefix"}, {"6rd-prefix"}),
                  PutWhen(M, "IFLA_IPTUN_6RD_RELAY_PREFIXLEN", "u16", {"6rd-relay_prefix"}, {"6rd-prefix"})>>))

\* Four bytes of the prefix are read back.
iptunnel_get ==
  {Read("IFLA_IPTUN_LOCAL", "u32"), Read("IFLA_IPTUN_REMOTE", "u32"), Read("IFLA_IPTUN_TTL", "u8"),
   Read("IFLA_IPTUN_TOS", "u8"), Read("IFLA_IPTUN_PMTUDISC", "u8"), Read("IFLA_IPTUN_FLAGS", "u16"),
   Read("IFLA_IPTUN_LINK", "u32"), Read("IFLA_IPTUN_PROTO", "u8"), Read("IFLA_IPTUN_6RD_PREFIX", "u32"),
   Read("IFLA_IPTUN_6RD_PREFIXLEN", "u16"), Read("IFLA_IPTUN_6RD_RELAY_PREFIX", "u32"),
   Read("IFLA_IPTUN_6RD_RELAY_PREFIXLEN", "u16")} \cup EncapReads("IFLA_IPTUN")

iptunnel_print_opt ==
  {Read("IFLA_IPTUN_REMOTE", "u32"), Read("IFLA_IPTUN_LOCAL", "u32"), Read("IFLA_IPTUN_LINK", "u32"),
   Read("IFLA_IPTUN_TTL", "u8"), Read("IFLA_IPTUN_TOS", "u8"), Read("IFLA_IPTUN_PMTUDISC", "u8"),
   Read("IFLA_IPTUN_FLAGS", "u16"), Read("IFLA_IPTUN_6RD_PREFIXLEN", "u16"),
   Bare("IFLA_IPTUN_6RD_RELAY_PREFIXLEN", "u16"), Bare("IFLA_IPTUN_6RD_RELAY_PREFIX", "u32"),
   Bare("IFLA_IPTUN_6RD_PREFIX", "in6_addr")} \cup EncapReads("IFLA_IPTUN")

ip6tunnel_parse_opt ==
  LET M == LinkBound
  IN Parser(<<Opt("mode"), Word("remote"), Word("local"), Opt("dev"), OrWord(Word("hoplimit"), {"ttl", "hlim"}),
              Sets(Opt("encaplimit"), {{"encaplimit"}, {"flags"}}),
              Sets(OrWord(Or(Word("tclass"), {"dsfield"}), {"tc", "tos"}), {{"flowinfo"}, {"flags"}}),
              Sets(OrWord(Word("flowlabel"), {"fl"}), {{"flowinfo"}, {"flags"}}), As(Word("dscp"), "flags"),
              As(Word("fwmark"), "flags")>>,
            {}, {},
            <<Put(M, "IFLA_IPTUN_PROTO", "u8", {"mode"}), Put(M, "IFLA_IPTUN_LOCAL6", "in6_addr", {"local"}),
              Put(M, "IFLA_IPTUN_REMOTE6", "in6_addr", {"remote"}), Put(M, "IFLA_IPTUN_TTL", "u8", {"hoplimit"}),
              Put(M, "IFLA_IPTUN_ENCAP_LIMIT", "u8", {"encaplimit"}), Put(M, "IFLA_IPTUN_FLOWINFO", "u32", {"flowinfo"}),
              Put(M, "IFLA_IPTUN_FLAGS6", "u32", {"flags"}), Put(M, "IFLA_IPTUN_LINK", "u32", {"dev"})>>)

ip6tunnel_print_opt ==
  {Read("IFLA_IPTUN_FLAGS6", "u32"), Read("IFLA_IPTUN_FLOWINFO", "u32"), Read("IFLA_IPTUN_PROTO", "u8"),
   Read("IFLA_IPTUN_REMOTE6", "in6_addr"), Read("IFLA_IPTUN_LOCAL6", "in6_addr"), Read("IFLA_IPTUN_LINK", "u32"),
   Read("IFLA_IPTUN_ENCAP_LIMIT", "u8"), Read("IFLA_IPTUN_TTL", "u8")}

\* The same attributes are read back.
ip6tunnel_get == ip6tunnel_print_opt

VtiOpts == <<KeyOpt(Opt("key"), "key"), Opt("ikey"), Opt("okey"), Opt("remote"), Opt("local"), Opt("dev")>>

vti_parse_opt ==
  LET M == LinkBound
  IN Parser(VtiOpts, {}, {},
            <<Put(M, "IFLA_VTI_IKEY", "u32", {"ikey"}), Put(M, "IFLA_VTI_OKEY", "u32", {"okey"}),
              Put(M, "IFLA_VTI_LOCAL", "u32", {"local"}), Put(M, "IFLA_VTI_REMOTE", "u32", {"remote"}),
              U32(M, "IFLA_VTI_LINK", "dev")>>)

\* As for gre, the index of the link is read back as a byte.
vti_get ==
  {Read("IFLA_VTI_IKEY", "u32"), Read("IFLA_VTI_OKEY", "u32"), Read("IFLA_VTI_LOCAL", "u32"),
   Read("IFLA_VTI_REMOTE", "u32"), Read("IFLA_VTI_LINK", "u8")}

vti_print_opt ==
  {Read("IFLA_VTI_REMOTE", "u32"), Read("IFLA_VTI_LOCAL", "u32"), Read("IFLA_VTI_LINK", "u32"),
   Read("IFLA_VTI_IKEY", "u32"), Read("IFLA_VTI_OKEY", "u32")}

vti6_parse_opt ==
  LET M == LinkBound
  IN Parser(VtiOpts, {}, {},
            <<Put(M, "IFLA_VTI_IKEY", "u32", {"ikey"}), Put(M, "IFLA_VTI_OKEY", "u32", {"okey"}),
              Put(M, "IFLA_VTI_LOCAL6", "in6_addr", {"local"}), Put(M, "IFLA_VTI_REMOTE6", "in6_addr", {"remote"}),
              U32(M, "IFLA_VTI_LINK", "dev")>>)

vti6_get ==
  {Read("IFLA_VTI_IKEY", "u32"), Read("IFLA_VTI_OKEY", "u32"), Read("IFLA_VTI_LOCAL6", "in6_addr"),
   Read("IFLA_VTI_REMOTE6", "in6_addr"), Read("IFLA_VTI_LINK", "u8")}

vti6_print_opt ==
  {Read("IFLA_VTI_REMOTE6", "in6_addr"), Read("IFLA_VTI_LOCAL6", "in6_addr"), Read("IFLA_VTI_LINK", "u32"),
   Read("IFLA_VTI_IKEY", "u32"), Read("IFLA_VTI_OKEY", "u32")}

-----------------------------------------------------------------------------
(* ip tunnel, ip -6 tunnel *)

\* The struct of the ioctl.  mode may be told by the name; a key is for gre and
\* vti.
parse_args_iptunnel(need) ==
  LET key(b, w) == Sets(b, {{"i" \o w, "o" \o w}})
      kind == {"ipip", "gre", "sit", "isatap", "vti"}
  IN Parser(<<Sets(Word("mode"), {{k} : k \in kind}), key(Word("key"), "key"), Word("ikey"), Word("okey"),
              key(WordFlag("seq"), "seq"), WordFlag("iseq"), WordFlag("oseq"), key(WordFlag("csum"), "csum"),
              WordFlag("icsum"), WordFlag("ocsum"), WordFlag("nopmtudisc"), WordFlag("pmtudisc"),
              Sets(Word("remote"), {{"remote"}, {"remote", "multicast"}}), Word("local"), Word("dev"),
              Sets(OrWord(Word("ttl"), {"hoplimit"}), {{"ttl", "inherit"}, {"ttl", "number"}}),
              OrWord(Or(Word("tos"), {"dsfield"}), {"tclass"}), Help,
              Not(Sets(OrWord(Positional("name"), {"name"}), {{"name"}, {"name", "told"}}), {"name"})>>,
            {Whenever({"ikey", "okey"}, {"gre", "vti", "told"}), Need({"multicast"}, {"local"})} \cup need,
            Every, << >>)

do_add_iptunnel ==
  parse_args_iptunnel({Need({"number", "nopmtudisc"}, {"pmtudisc"}), Need({}, {"ipip", "gre", "sit", "isatap", "vti", "told"})})
do_del_iptunnel == parse_args_iptunnel({})
do_show_iptunnel == parse_args_iptunnel({})

\* One change of the list of routers.
do_prl ==
  LET router(w) == Not(As(Word(w), "router"), {"router"})
  IN Parser(<<router("prl-default"), router("prl-nodefault"), router("prl-delete"), Word("dev")>>,
            {Need({}, {"dev"})}, Every, << >>)

do_6rd ==
  Parser(<<Word("6rd-prefix"), Word("6rd-relay_prefix"), WordFlag("6rd-reset"), Word("dev")>>,
         {Need({}, {"dev"})}, Every, << >>)

\* The family that the line of ip has asked for chooses between the two.
do_iptunnel ==
  Commands(<<Cmd("add", "do_add_iptunnel"), Cmd("change", "do_add_iptunnel"), Cmd("delete", "do_del_iptunnel"),
             Or(Cmd("show", "do_show_iptunnel"), {"lst", "list"}), Cmd("prl", "do_prl"), Cmd("6rd", "do_6rd"), Help>>)

parse_args_ip6tunnel ==
  LET key(b, w) == Sets(b, {{"i" \o w, "o" \o w}})
      flow == {{"flowinfo"}, {"flags"}}
  IN Parser(<<Word("mode"), Word("remote"), Word("local"), Word("dev"),
              Sets(Word("encaplimit"), {{"encaplimit"}, {"flags"}}), OrWord(Word("hoplimit"), {"ttl", "hlim"}),
              Sets(OrWord(Or(Word("tclass"), {"dsfield"}), {"tc", "tos"}), flow),
              Sets(OrWord(Word("flowlabel"), {"fl"}), flow), As(Word("dscp"), "flags"), key(Word("key"), "key"),
              Word("ikey"), Word("okey"), key(WordFlag("seq"), "seq"), WordFlag("iseq"), WordFlag("oseq"),
              key(WordFlag("csum"), "csum"), WordFlag("icsum"), WordFlag("ocsum"), Help,
              Once(OrWord(Positional("name"), {"name"}))>>, {}, Every, << >>)

do_ip6tunnel ==
  Commands(<<Cmd("add", "parse_args_ip6tunnel"), Cmd("change", "parse_args_ip6tunnel"), Cmd("delete", "parse_args_ip6tunnel"),
             Or(Cmd("show", "parse_args_ip6tunnel"), {"lst", "list"}), Help>>)

-----------------------------------------------------------------------------
(* ip tuntap, ip fou *)

\* A mode other than one given before is refused.  Only add has user and group.
parse_args_iptuntap(owner) ==
  Parser(<<Opt("mode")>> \o (IF owner THEN <<Opt("user"), Opt("group")>> ELSE << >>)
         \o <<Flag("pi"), Flag("one_queue"), Flag("vnet_hdr"), Flag("multi_queue"), As(Opt("dev"), "name"), Help,
              Once(Or(Positional("name"), {"name"}))>>,
         {Need({}, {"mode"})}, Every, << >>)

do_add_iptuntap == parse_args_iptuntap(TRUE)
do_del_iptuntap == parse_args_iptuntap(FALSE)

\* It takes no words and looks at none.
do_show_iptuntap == Stops(Parser(<< >>, {}, {}, << >>))

do_iptuntap ==
  Commands(<<Cmd("add", "do_add_iptuntap"), Cmd("delete", "do_del_iptuntap"),
             Or(Cmd("show", "do_show_iptuntap"), {"lst", "list"}), Help>>)

fou_parse_opt(adding) ==
  Requests(Parser(<<Opt("port"), Opt("ipproto"), Flag("gue")>>,
                  {Need({}, {"port"}), Never({"ipproto", "gue"})}
                    \cup (IF adding THEN {Need({}, {"ipproto", "gue"})} ELSE {}), {},
                  <<Put(1024, "FOU_ATTR_PORT", "u16", {"port"}), Put(1024, "FOU_ATTR_TYPE", "u8", {"gue"}),
                    PutIf(1024, "FOU_ATTR_IPPROTO", "u8", {"ipproto"})>>),
           "genlmsghdr", 1024)

do_add_ipfou == fou_parse_opt(TRUE)
do_del_ipfou == fou_parse_opt(FALSE)
do_ipfou == Commands(<<Cmd("add", "do_add_ipfou"), Cmd("delete", "do_del_ipfou"), Help>>)

-----------------------------------------------------------------------------
(* ip l2tp *)

\* An address is one of IPv4 (a key that ends in 4) or of IPv6.  Without encap ip
\* the tunnel is one over udp.
parse_args_ipl2tp ==
  LET family(w) == Sets(Word(w), {{w \o "4"}, {w \o "6"}})
      id(w, short) == OrWord(Word(w), {short})
  IN <<Sets(Word("encap"), {{"ip"}, {"udp"}}), Word("name"), family("remote"), family("local"), id("tunnel_id", "tid"),
       id("peer_tunnel_id", "ptid"), id("session_id", "sid"), id("peer_session_id", "psid"), Word("udp_sport"),
       Word("udp_dport"), Word("offset"), Word("peer_offset"), Word("cookie"), Word("peer_cookie"), Word("l2spec_type"),
       WordFlag("tunnel"), WordFlag("session"), Help>>

create_tunnel ==
  LET put(name, type, from) == PutWhen(1024, name, type, from, {"tunnel"})
      address(name, type, key) == Given(PutIf(1024, name, type, {key}), {"tunnel"})
      port(name, key) == Lacking(put(name, "u16", {key}), {"ip"})
  IN <<put("L2TP_ATTR_CONN_ID", "u32", {"tunnel", "tunnel_id"}), put("L2TP_ATTR_PEER_CONN_ID", "u32", {"peer_tunnel_id"}),
       put("L2TP_ATTR_PROTO_VERSION", "u8", {}), put("L2TP_ATTR_ENCAP_TYPE", "u16", {"ip", "udp"}),
       address("L2TP_ATTR_IP_SADDR", "u32", "local4"), Lacking(address("L2TP_ATTR_IP6_SADDR", "in6_addr", "local6"), {"local4"}),
       address("L2TP_ATTR_IP_DADDR", "u32", "remote4"),
       Lacking(address("L2TP_ATTR_IP6_DADDR", "in6_addr", "remote6"), {"remote4"}),
       port("L2TP_ATTR_UDP_SPORT", "udp_sport"), port("L2TP_ATTR_UDP_DPORT", "udp_dport")>>

\* (No option sets an mtu, a timeout or the use of sequence numbers.)
create_session ==
  LET put(name, type, from) == PutWhen(1024, name, type, from, {"session"})
      given(name, type, key) == Given(PutIf(1024, name, type, {key}), {"session"})
  IN <<put("L2TP_ATTR_CONN_ID", "u32", {"session", "tunnel_id"}), put("L2TP_ATTR_PEER_CONN_ID", "u32", {"peer_tunnel_id"}),
       put("L2TP_ATTR_SESSION_ID", "u32", {"session_id"}), put("L2TP_ATTR_PEER_SESSION_ID", "u32", {"peer_session_id"}),
       put("L2TP_ATTR_PW_TYPE", "u16", {}), put("L2TP_ATTR_L2SPEC_TYPE", "u8", {"l2spec_type"}),
       put("L2TP_ATTR_L2SPEC_LEN", "u8", {"l2spec_type"}), given("L2TP_ATTR_OFFSET", "u16", "offset"),
       given("L2TP_ATTR_COOKIE", "cookie", "cookie"), given("L2TP_ATTR_PEER_COOKIE", "cookie", "peer_cookie"),
       given("L2TP_ATTR_IFNAME", "ifname", "name")>>

\* A line may ask for a tunnel and a session in it: two messages, taken as one.
do_add_ipl2tp ==
  Requests(Parser(parse_args_ipl2tp,
                  {Need({}, {"tunnel", "session"}), Need({}, {"tunnel_id"}), Need({"session"}, {"peer_session_id"}),
                   Need({"session"}, {"session_id"}), Need({"tunnel"}, {"peer_tunnel_id"}),
                   Need({"tunnel"}, {"local4", "local6"}), Need({"tunnel"}, {"remote4", "remote6"}),
                   Need({"tunnel"}, {"ip", "udp_sport"}), Need({"tunnel"}, {"ip", "udp_dport"})},
                  {}, create_tunnel \o create_session),
           "genlmsghdr", 1024)

\* A session_id makes it the session that is deleted, whatever the line says.
do_del_ipl2tp ==
  Requests(Parser(parse_args_ipl2tp,
                  {Need({}, {"tunnel", "session"}), Need({"tunnel"}, {"tunnel_id"}), Need({"session"}, {"session_id"})},
                  Every,
                  <<Put(128, "L2TP_ATTR_CONN_ID", "u32", {"tunnel_id"}),
                    PutIf(1024, "L2TP_ATTR_SESSION_ID", "u32", {"session_id"})>>),
           "genlmsghdr", 1024)

\* get_session and get_tunnel
do_show_ipl2tp ==
  Requests(Parser(parse_args_ipl2tp, {Need({}, {"tunnel", "session"})}, Every,
                  <<Given(Put(128, "L2TP_ATTR_CONN_ID", "u32", {"tunnel_id"}), {"session", "tunnel_id", "session_id"}),
                    Given(Put(128, "L2TP_ATTR_SESSION_ID", "u32", {"session_id"}), {"session", "tunnel_id", "session_id"}),
                    Lacking(PutIf(1024, "L2TP_ATTR_CONN_ID", "u32", {"tunnel_id"}), {"session"})>>),
           "genlmsghdr", 128)

get_response ==
  {Read("L2TP_ATTR_PW_TYPE", "u16"), Read("L2TP_ATTR_ENCAP_TYPE", "u16"), Read("L2TP_ATTR_OFFSET", "u16"),
   Read("L2TP_ATTR_DATA_SEQ", "u16"), Read("L2TP_ATTR_CONN_ID", "u32"), Read("L2TP_ATTR_PEER_CONN_ID", "u32"),
   Read("L2TP_ATTR_SESSION_ID", "u32"), Read("L2TP_ATTR_PEER_SESSION_ID", "u32"), Read("L2TP_ATTR_L2SPEC_TYPE", "u8"),
   Read("L2TP_ATTR_L2SPEC_LEN", "u8"), Read("L2TP_ATTR_RECV_TIMEOUT", "u64"), Read("L2TP_ATTR_IP_SADDR", "u32"),
   Read("L2TP_ATTR_IP_DADDR", "u32"), Read("L2TP_ATTR_IP6_SADDR", "in6_addr"), Read("L2TP_ATTR_IP6_DADDR", "in6_addr"),
   Read("L2TP_ATTR_UDP_SPORT", "u16"), Read("L2TP_ATTR_UDP_DPORT", "u16"), Read("L2TP_ATTR_MTU", "u16"),
   Read("L2TP_ATTR_STATS", "nested"), Read("L2TP_ATTR_COOKIE", "any"),
   Read("L2TP_ATTR_PEER_COOKIE", "any"), Read("L2TP_ATTR_IFNAME", "str"), Read("L2TP_ATTR_UDP_CSUM", "flag"),
   Read("L2TP_ATTR_RECV_SEQ", "flag"), Read("L2TP_ATTR_SEND_SEQ", "flag")}
    \cup {Read("L2TP_ATTR_" \o n, "u64") : n \in {"TX_PACKETS", "TX_BYTES", "TX_ERRORS", "RX_PACKETS", "RX_BYTES",
                                                 "RX_ERRORS", "RX_SEQ_DISCARDS", "RX_OOS_PACKETS"}}

do_ipl2tp ==
  Commands(<<Cmd("add", "do_add_ipl2tp"), Cmd("delete", "do_del_ipl2tp"),
             Or(Cmd("show", "do_show_ipl2tp"), {"lst", "list"}), Help>>)

-----------------------------------------------------------------------------
(* Catalogue *)

IpTunnelParsers ==
  [gre_parse_opt |-> gre_parse_opt, gre6_parse_opt |-> gre6_parse_opt, ipip_parse_opt |-> iptunnel_parse_opt(FALSE),
   sit_parse_opt |-> iptunnel_parse_opt(TRUE), ip6tunnel_parse_opt |-> ip6tunnel_parse_opt,
   vti_parse_opt |-> vti_parse_opt, vti6_parse_opt |-> vti6_parse_opt, do_add_iptunnel |-> do_add_iptunnel,
   do_del_iptunnel |-> do_del_iptunnel, do_show_iptunnel |-> do_show_iptunnel, do_prl |-> do_prl, do_6rd |-> do_6rd,
   do_iptunnel |-> do_iptunnel, parse_args_ip6tunnel |-> parse_args_ip6tunnel, do_ip6tunnel |-> do_ip6tunnel,
   do_add_iptuntap |-> do_add_iptuntap, do_del_iptuntap |-> do_del_iptuntap, do_show_iptuntap |-> do_show_iptuntap,
   do_iptuntap |-> do_iptuntap, do_add_ipfou |-> do_add_ipfou, do_del_ipfou |-> do_del_ipfou, do_ipfou |-> do_ipfou,
   do_add_ipl2tp |-> do_add_ipl2tp, do_del_ipl2tp |-> do_del_ipl2tp, do_show_ipl2tp |-> do_show_ipl2tp,
   do_ipl2tp |-> do_ipl2tp]

IpTunnelKinds ==
  {"gre_parse_opt", "gre6_parse_opt", "ipip_parse_opt", "sit_parse_opt", "ip6tunnel_parse_opt", "vti_parse_opt",
   "vti6_parse_opt"}

IpTunnelReads ==
  gre_get \cup gre_print_opt \cup gre6_get \cup gre6_print_opt \cup iptunnel_get \cup iptunnel_print_opt
    \cup ip6tunnel_get \cup ip6tunnel_print_opt \cup vti_get \cup vti_print_opt \cup vti6_get \cup vti6_print_opt
    \cup get_response

\* The flags of ip6gre are lost (above); ipip has no use for a 6rd prefix, a
\* tunnel over ip none for ports, and l2tp none for the offset of the peer.
IpTunnelForgets ==
  {<<"gre6_parse_opt", "flags">>, <<"ipip_parse_opt", "6rd-prefix">>, <<"ipip_parse_opt", "6rd-relay_prefix">>,
   <<"do_add_ipl2tp", "peer_offset">>, <<"do_add_ipl2tp", "udp_sport">>, <<"do_add_ipl2tp", "udp_dport">>}

\* The index of the link that a changed gre, vti or vti6 has is read as a byte, so
\* that an index above 255 is sent back as another one.
IpTunnelNarrow == {"IFLA_GRE_LINK", "IFLA_VTI_LINK"}
=============================================================================
