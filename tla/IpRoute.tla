------------------------------ MODULE IpRoute -------------------------------
(***************************************************************************)
(* The commands of ip on routes and what surrounds them: ip route, rule,   *)
(* mroute, tcp_metrics, netns and monitor, the options and the commands of *)
(* ip itself (ip.c), and the options of rtmon.                             *)
(***************************************************************************)
EXTENDS OptionForms

-----------------------------------------------------------------------------
(* iproute.c *)

rtm_get_table == {Read("RTA_TABLE", "u32"), Read("FRA_TABLE", "u32")}

filter_nlmsg ==
  {Read("RTA_VIA", "any"), Read("RTA_DST", "any"), Read("RTA_SRC", "any"), Read("RTA_GATEWAY", "any"),
   Read("RTA_PREFSRC", "any"), Read("RTA_FLOW", "u32"), Read("RTA_IIF", "int"), Read("RTA_OIF", "int"),
   Read("RTA_MARK", "int"), Read("RTA_PRIORITY", "int")}

\* The metrics that are numbers.
metrics ==
  {"RTAX_MTU", "RTAX_HOPLIMIT", "RTAX_ADVMSS", "RTAX_REORDERING", "RTAX_RTT", "RTAX_RTO_MIN", "RTAX_WINDOW", "RTAX_CWND",
   "RTAX_INITCWND", "RTAX_INITRWND", "RTAX_RTTVAR", "RTAX_SSTHRESH", "RTAX_FEATURES", "RTAX_QUICKACK"}

print_route ==
  {Read("RTA_DST", "any"), Read("RTA_SRC", "any"), Read("RTA_NEWDST", "any"), Read("RTA_GATEWAY", "any"),
   Read("RTA_VIA", "rtvia"), Read("RTA_OIF", "int"), Read("RTA_PREFSRC", "any"), Read("RTA_PRIORITY", "u32"),
   Read("RTA_MARK", "u32"), Read("RTA_FLOW", "u32"), Read("RTA_CACHEINFO", "rta_cacheinfo"), Read("RTA_METRICS", "nested"),
   Read("RTAX_LOCK", "u32"), Read("RTAX_CC_ALGO", "str"), Read("RTA_IIF", "int"), Read("RTA_MULTIPATH", "any"),
   Read("RTA_PREF", "u8")}
  \cup {Read(name, "u32") : name \in metrics}

\* A gateway of another family than the route has is RTA_VIA.
via(max) ==
  Sends(Sets(Word("via"), {{"gateway"}, {"via"}}),
        <<PutIf(max, "RTA_GATEWAY", "addr", {"gateway"}), PutIf(max, "RTA_VIA", "via", {"via"})>>)

\* The attributes of a next hop go into the buffer of parse_nexthops, under a
\* bound that is four times its length.
parse_one_nh ==
  LET gateway == via(4096)
  IN Stops(Parser(<<Sends(gateway, [i \in DOMAIN gateway.sends |-> Local(gateway.sends[i])]), Word("dev"), Word("weight"),
                    WordFlag("onlink"), Gathers(Opt("realms"), 4096, "RTA_FLOW", "u32")>>,
                  {}, {"dev", "weight", "onlink"}, << >>))

\* A struct for each next hop, under no bound, then its attributes; all of them
\* are one attribute of the message, which is left out as a whole when it is too
\* long.  A next hop at the end of the line is an error: something must follow.
Unbounded == 65536
parse_nexthops ==
  Buffers(Parser(<<Goes(Calls(Sends(Unset(Word("nexthop")), <<Local(Raw(Unbounded, "rtnexthop", {}))>>), "parse_one_nh"), "here")>>,
                 {}, {}, <<Gathered(1024, "RTA_MULTIPATH")>>),
          1024)

\* The metrics are gathered in mxbuf, with a mask of those that are locked, and
\* follow the device; rto_min is always locked.  default is a destination without
\* an address.  A table above 255 has an attribute.
iproute_modify ==
  LET M == 1052   \* sizeof(req)
      MX == 256   \* sizeof(mxbuf)
      metric(b, name) == Gathers(b, MX, name, "u32")
      lockable(b) == Sets(b, b.sets \cup {s \cup {"lock"} : s \in b.sets})
      dst == {{"dst_ok"}, {"dst_ok", "dst"}, {"dst_ok", "type"}, {"dst_ok", "dst", "type"}}
  IN Hands(Buffers(Requests(Parser(
       <<Adds(Word("src"), M, "RTA_PREFSRC", "addr"), Adds(Word("as"), M, "RTA_NEWDST", "addr"), via(M),
         Sends(Sets(Word("from"), {{"from"}, {}}), <<PutIf(M, "RTA_SRC", "addr", {"from"})>>),
         Or(Word("tos"), {"dsfield"}), Adds(OrWord(Or(Opt("metric"), {"priority"}), {"preference"}), M, "RTA_PRIORITY", "u32"),
         Word("scope"), lockable(metric(Word("mtu"), "RTAX_MTU")), lockable(metric(Word("hoplimit"), "RTAX_HOPLIMIT")),
         lockable(metric(Word("advmss"), "RTAX_ADVMSS")), lockable(metric(Opt("reordering"), "RTAX_REORDERING")),
         lockable(metric(Word("rtt"), "RTAX_RTT")), Sets(metric(Word("rto_min"), "RTAX_RTO_MIN"), {{"rto_min", "lock"}}),
         lockable(metric(Opt("window"), "RTAX_WINDOW")), lockable(metric(Opt("cwnd"), "RTAX_CWND")),
         lockable(metric(Opt("initcwnd"), "RTAX_INITCWND")), lockable(metric(Opt("initrwnd"), "RTAX_INITRWND")),
         metric(Opt("features"), "RTAX_FEATURES"), metric(Opt("quickack"), "RTAX_QUICKACK"),
         lockable(Gathers(Opt("congctl"), MX, "RTAX_CC_ALGO", "name")), lockable(metric(Opt("rttvar"), "RTAX_RTTVAR")),
         lockable(metric(Opt("ssthresh"), "RTAX_SSTHRESH")),
         Adds(Opt("realms"), M, "RTA_FLOW", "u32"), WordFlag("onlink"), Goes(WordFlag("nexthop"), "end"), Opt("protocol"),
         Sends(Sets(Opt("table"), {{"table"}, {"table32"}}), <<PutIf(M, "RTA_TABLE", "u32", {"table32"})>>),
         OrWord(Word("dev"), {"oif"}), Adds(Opt("pref"), M, "RTA_PREF", "u8"), Help,
         Once(Sends(Sets(OrWord(Positional("dst"), {"to"}), dst), <<PutIf(M, "RTA_DST", "addr", {"dst"})>>))>>,
       {Need({}, {"dst_ok"})}, {"tos", "scope", "onlink", "protocol", "table", "dst_ok", "type", "nexthop"},
       <<U32(M, "RTA_OIF", "dev"), Local(U32(MX, "RTAX_LOCK", "lock")), Gathered(M, "RTA_METRICS")>>),
       "rtmsg", 1024), MX),
     "nexthop", "parse_nexthops", << >>)

\* A filter; flush wants one word at least.  root, match and exact go with from
\* and to.
iproute_list_flush_or_save(need) ==
  Parser(<<Opt("table"), Or(Flag("cached"), {"cloned"}), Or(Word("tos"), {"dsfield"}), Opt("protocol"), Opt("scope"),
           Opt("type"), OrWord(Word("dev"), {"oif"}), Word("iif"), Word("mark"), Word("via"), Word("src"), Opt("realms"),
           Opt("from"), Or(Positional("to"), {"to", "root", "match", "exact"})>>,
         need, Every, << >>)

iproute_list  == iproute_list_flush_or_save({})
iproute_flush ==
  iproute_list_flush_or_save({Need({}, {"table", "cached", "tos", "protocol", "scope", "type", "dev", "iif", "mark", "via",
                                        "src", "realms", "from", "to"})})

iproute_get ==
  LET M == 1052   \* sizeof(req)
  IN Requests(Parser(<<Or(Word("tos"), {"dsfield"}),
                       Sends(Sets(Opt("from"), {{"from"}, {}}), <<PutIf(M, "RTA_SRC", "addr", {"from"})>>), Opt("iif"),
                       Opt("mark"), OrWord(Opt("oif"), {"dev"}), Flag("notify"), Flag("connected"), Help,
                       Sends(Sets(OrWord(Positional("dst"), {"to"}), {{"dst"}, {}}),
                             <<PutIf(M, "RTA_DST", "addr", {"dst"})>>)>>,
                     {Need({}, {"dst"})}, {"tos", "notify", "connected"},
                     <<U32(M, "RTA_IIF", "iif"), U32(M, "RTA_OIF", "oif"), U32(M, "RTA_MARK", "mark")>>),
              "rtmsg", 1024)

\* restore and showdump read messages from a file.
iproute_restore == Deaf

do_iproute ==
  Commands(<<Cmd("add", "iproute_modify"), OrWord(Cmd("change", "iproute_modify"), {"chg"}), Cmd("replace", "iproute_modify"),
             Cmd("prepend", "iproute_modify"), Cmd("append", "iproute_modify"), Cmd("test", "iproute_modify"),
             Cmd("delete", "iproute_modify"), Or(Cmd("list", "iproute_list"), {"show", "lst"}), Cmd("get", "iproute_get"),
             Cmd("flush", "iproute_flush"), Cmd("save", "iproute_list"), Cmd("restore", "iproute_restore"),
             Cmd("showdump", "iproute_restore"), Help>>)

-----------------------------------------------------------------------------
(* iprule.c *)

print_rule ==
  {Read("FRA_PRIORITY", "u32"), Read("FRA_SRC", "any"), Read("FRA_DST", "any"), Read("FRA_FWMARK", "u32"),
   Read("FRA_FWMASK", "u32"), Read("FRA_IFNAME", "str"), Read("FRA_OIFNAME", "str"), Read("FRA_SUPPRESS_PREFIXLEN", "u32"),
   Read("FRA_SUPPRESS_IFGROUP", "u32"), Read("FRA_FLOW", "u32"), Read("RTA_GATEWAY", "any"), Read("FRA_GOTO", "u32")}

\* Neither takes a word.
iprule_list_or_save == Parser(<< >>, {}, {}, << >>)
iprule_flush        == Parser(<< >>, {}, {}, << >>)
iprule_restore      == Deaf

iprule_modify ==
  LET M == 1052   \* sizeof(req)
      u32(b, name) == Adds(b, M, name, "u32")
  IN Requests(Parser(<<WordFlag("not"), Adds(Word("from"), M, "FRA_SRC", "addr"), Adds(Word("to"), M, "FRA_DST", "addr"),
                       u32(Or(Opt("preference"), {"order", "priority"}), "FRA_PRIORITY"), Or(Word("tos"), {"dsfield"}),
                       Sends(Sets(Word("fwmark"), {{"fwmark"}, {"fwmark", "fwmask"}}),
                             <<Put(M, "FRA_FWMARK", "u32", {"fwmark"}), U32(M, "FRA_FWMASK", "fwmask")>>),
                       u32(Opt("realms"), "FRA_FLOW"),
                       Sends(Sets(OrWord(Opt("table"), {"lookup"}), {{"table"}, {"table32"}}), <<U32(M, "FRA_TABLE", "table32")>>),
                       u32(OrWord(Opt("suppress_prefixlength"), {"sup_pl"}), "FRA_SUPPRESS_PREFIXLEN"),
                       u32(OrWord(Opt("suppress_ifgroup"), {"sup_group"}), "FRA_SUPPRESS_IFGROUP"),
                       Adds(OrWord(Word("dev"), {"iif"}), M, "FRA_IFNAME", "ifname"), Adds(Word("oif"), M, "FRA_OIFNAME", "ifname"),
                       u32(Or(Word("nat"), {"map-to"}), "RTA_GATEWAY"), Help, u32(Opt("goto"), "FRA_GOTO"),
                       As(Flag("nop"), "type"), OrWord(Positional("type"), {"type"})>>,
                     {}, {"not", "tos", "table", "type"}, << >>),
              "rtmsg", 1024)

\* A rule is deleted as the kernel has sent it, if it has a priority.
flush_rule == {Read("FRA_PRIORITY", "flag")}

do_iprule ==
  Commands(<<Or(Cmd("list", "iprule_list_or_save"), {"lst", "show"}), Cmd("save", "iprule_list_or_save"),
             Cmd("restore", "iprule_restore"), Cmd("add", "iprule_modify"), Cmd("delete", "iprule_modify"),
             Cmd("flush", "iprule_flush"), Help>>)

\* The same, for the rules of multicast routing.
do_multirule == do_iprule

-----------------------------------------------------------------------------
(* ipmroute.c *)

print_mroute ==
  {Read("RTA_IIF", "int"), Read("RTA_DST", "any"), Read("RTA_SRC", "any"), Read("RTA_MULTIPATH", "any"),
   Read("RTA_MFC_STATS", "rta_mfc_stats")}

mroute_list == Parser(<<Opt("table"), Word("iif"), Opt("from"), Help, OrWord(Positional("to"), {"to"})>>, {}, Every, << >>)

do_multiroute == Commands(<<Or(Cmd("list", "mroute_list"), {"show", "lst"}), Help>>)

-----------------------------------------------------------------------------
(* tcp_metrics.c *)

process_msg_tcpm ==
  {Read("TCP_METRICS_ATTR_ADDR_IPV4", "u32"), Read("TCP_METRICS_ATTR_ADDR_IPV6", "in6_addr"),
   Read("TCP_METRICS_ATTR_SADDR_IPV4", "u32"), Read("TCP_METRICS_ATTR_SADDR_IPV6", "in6_addr"),
   Read("TCP_METRICS_ATTR_AGE", "u64"), Read("TCP_METRICS_ATTR_TW_TS_STAMP", "u32"), Read("TCP_METRICS_ATTR_TW_TSVAL", "u32"),
   Read("TCP_METRICS_ATTR_VALS", "nested"), Read("TCP_METRICS_ATTR_FOPEN_MSS", "u16"),
   Read("TCP_METRICS_ATTR_FOPEN_SYN_DROPS", "u16"), Read("TCP_METRICS_ATTR_FOPEN_SYN_DROP_TS", "u64"),
   Read("TCP_METRICS_ATTR_FOPEN_COOKIE", "any")}

\* The loop steps twice, so that the word after each option is passed over, as if
\* it belonged to it.  The source must be an address; so must the destination of
\* del.  The message has both if the destination is one; else they are a filter.
tcpm_do_cmd(prefixes, need) ==
  LET M == 1044   \* sizeof(req)
      src(k, name, type) == Given(PutIf(M, name, type, {k}), {"addr"})
  IN Requests(Parser(<<Once(OrWord(Sets(Word("src"), {{"src", "src4"}, {"src", "src6"}}), {"source"})), Help,
                       Not(Sets(OrWord(Positional("addr"), {"addr", "address"}), {{"addr", "addr4"}, {"addr", "addr6"}} \cup prefixes),
                           {"addr", "prefix"})>>,
                     need, {"addr", "prefix", "src"},
                     <<U32(M, "TCP_METRICS_ATTR_ADDR_IPV4", "addr4"), PutIf(M, "TCP_METRICS_ATTR_ADDR_IPV6", "in6_addr", {"addr6"}),
                       src("src4", "TCP_METRICS_ATTR_SADDR_IPV4", "u32"), src("src6", "TCP_METRICS_ATTR_SADDR_IPV6", "in6_addr")>>),
              "genlmsghdr", 1024)

\* A flush of one address is a del, and so is a flush of all of them, without one.
tcpm_list  == tcpm_do_cmd({{"prefix"}}, {})
tcpm_del   == tcpm_do_cmd({}, {Need({}, {"addr"})})
tcpm_flush == tcpm_do_cmd({{"prefix"}}, {})

do_tcp_metrics ==
  Commands(<<Or(Cmd("list", "tcpm_list"), {"lst", "show"}), Or(Cmd("delete", "tcpm_del"), {"remove"}),
             Cmd("flush", "tcpm_flush"), Help>>)

-----------------------------------------------------------------------------
(* ipnetns.c *)

\* A name is resolved to an open file, of which the kernel tells the id.
get_netnsid_from_name ==
  Requests(Parser(<< >>, {}, {}, <<Put(1024, "NETNSA_FD", "u32", {})>>), "rtgenmsg", 1024)

get_netnsid == {Read("NETNSA_NSID", "u32")}
print_nsid  == {Must("NETNSA_NSID", "u32")}

\* Words after list and list-id are passed over; list asks for the id of each.
netns_list    == Hands(Deaf, Always, "get_netnsid_from_name", << >>)
netns_list_id == Deaf

\* With -all, exec runs the command in each name space and needs no name.
netns_exec ==
  Parser(<<Until(Positional("name"), {"name"}), Goes(Since(Positional("cmd"), {"name"}), "end")>>,
         {Need({}, {"name"}), Need({}, {"cmd"})}, Every, << >>)
netns_exec_all == Parser(<<Goes(Positional("cmd"), "end")>>, {Need({}, {"cmd"})}, Every, << >>)

netns_pids     == Parser(<<Once(Positional("name"))>>, {Need({}, {"name"})}, Every, << >>)
netns_identify == Parser(<<Once(Positional("pid"))>>, {}, Every, << >>)

\* What follows the name is passed over.
netns_delete     == Parser(<<Goes(Positional("name"), "end")>>, {Need({}, {"name"})}, Every, << >>)
netns_delete_all == Deaf
netns_add        == Parser(<<Goes(Positional("name"), "end")>>, {Need({}, {"name"})}, Every, << >>)
netns_monitor    == Deaf

netns_set ==
  Requests(Parser(<<Until(Positional("name"), {"name"}), Goes(Since(Positional("nsid"), {"name"}), "end")>>,
                  {Need({}, {"name"}), Need({}, {"nsid"})}, {},
                  <<Put(1024, "NETNSA_FD", "u32", {"name"}), Put(1024, "NETNSA_NSID", "u32", {"nsid"})>>),
           "rtgenmsg", 1024)

do_netns ==
  Commands(<<Or(Cmd("list", "netns_list"), {"show", "lst"}), Cmd("list-id", "netns_list_id"), Help, Cmd("add", "netns_add"),
             Cmd("set", "netns_set"), Cmd("delete", "netns_delete_any"), Cmd("identify", "netns_identify"),
             Cmd("pids", "netns_pids"), Cmd("exec", "netns_exec_any"), Cmd("monitor", "netns_monitor")>>)

-----------------------------------------------------------------------------
(* ipmonitor.c and rtmon.c *)

\* The objects are multicast groups; without one, all of them.
do_ipmonitor ==
  Parser(<<Opt("file"), Flag("label"), Flag("all-nsid"), Flag("link"), Flag("address"), Flag("route"), Flag("mroute"),
           Flag("prefix"), Flag("neigh"), Flag("netconf"), Flag("rule"), Flag("nsid"), As(WordFlag("all"), "label"), Help,
           Word("dev")>>,
         {}, Every, << >>)

rtmon_main ==
  Parser(<<Opt("-family"), As(WordFlag("-4"), "family"), As(WordFlag("-6"), "family"), As(WordFlag("-0"), "family"),
           Refused(Flag("-Version")), Opt("file"), Flag("link"), Flag("address"), Flag("route"), WordFlag("all"), Help>>,
         {Need({}, {"file"})}, Every, << >>)

-----------------------------------------------------------------------------
(* ip.c *)

\* The options before the command; -Version prints it and ends.
ip_main ==
  LET family(w) == As(WordFlag(w), "family")
  IN Stops(Parser(<<Goes(Unset(WordFlag("--")), "end"), Opt("-loops"), Opt("-family"), family("-4"), family("-6"),
                    family("-0"), family("-I"), family("-D"), family("-M"), family("-B"),
                    Or(Flag("-human"), {"-human-readable"}), Flag("-iec"), Or(Flag("-stats"), {"-statistics"}),
                    Flag("-details"), Flag("-resolve"), Flag("-oneline"), Flag("-timestamp"), Flag("-tshort"),
                    Goes(Unset(Flag("-Version")), "return"), Flag("-force"), Opt("-batch"), Flag("-brief"), Opt("-rcvbuf"),
                    Flag("-color"), Refused(Flag("-help")), Opt("-netns"), Flag("-all")>>,
                  {}, Every, << >>))

ip_do_cmd ==
  Commands(<<Cmd("address", "do_ipaddr"), Cmd("addrlabel", "do_ipaddrlabel"), Cmd("maddress", "do_multiaddr"),
             Cmd("route", "do_iproute"), Cmd("rule", "do_iprule"), Or(Cmd("neighbor", "do_ipneigh"), {"neighbour"}),
             Or(Cmd("ntable", "do_ipntable"), {"ntbl"}), Cmd("link", "do_iplink"), Cmd("l2tp", "do_ipl2tp"),
             Cmd("fou", "do_ipfou"), Or(Cmd("tunnel", "do_tunnel"), {"tunl"}), Or(Cmd("tuntap", "do_iptuntap"), {"tap"}),
             Cmd("token", "do_iptoken"), Or(Cmd("tcpmetrics", "do_tcp_metrics"), {"tcp_metrics"}),
             Cmd("monitor", "do_ipmonitor"), Cmd("xfrm", "do_xfrm"), Cmd("mroute", "do_multiroute"),
             Cmd("mrule", "do_multirule"), Cmd("netns", "do_netns"), Cmd("netconf", "do_ipnetconf"), Help>>)

-----------------------------------------------------------------------------
(* Catalogue *)

IpRouteParsers ==
  [parse_one_nh |-> parse_one_nh, parse_nexthops |-> parse_nexthops, iproute_modify |-> iproute_modify,
   iproute_list |-> iproute_list, iproute_flush |-> iproute_flush, iproute_get |-> iproute_get,
   iproute_restore |-> iproute_restore, do_iproute |-> do_iproute, iprule_list_or_save |-> iprule_list_or_save,
   iprule_flush |-> iprule_flush, iprule_restore |-> iprule_restore, iprule_modify |-> iprule_modify,
   do_iprule |-> do_iprule, do_multirule |-> do_multirule, mroute_list |-> mroute_list, do_multiroute |-> do_multiroute,
   tcpm_list |-> tcpm_list, tcpm_del |-> tcpm_del, tcpm_flush |-> tcpm_flush, do_tcp_metrics |-> do_tcp_metrics,
   get_netnsid_from_name |-> get_netnsid_from_name, netns_list |-> netns_list, netns_list_id |-> netns_list_id,
   netns_exec |-> netns_exec, netns_exec_all |-> netns_exec_all, netns_pids |-> netns_pids,
   netns_identify |-> netns_identify, netns_delete |-> netns_delete, netns_delete_all |-> netns_delete_all,
   netns_add |-> netns_add, netns_monitor |-> netns_monitor, netns_set |-> netns_set, do_netns |-> do_netns,
   do_ipmonitor |-> do_ipmonitor, rtmon_main |-> rtmon_main, ip_main |-> ip_main, ip_do_cmd |-> ip_do_cmd]

\* -all is an option of ip_main; the family chooses the tunnels.
IpRoutePointers ==
  [netns_exec_any |-> {"netns_exec", "netns_exec_all"}, netns_delete_any |-> {"netns_delete", "netns_delete_all"},
   do_tunnel |-> {"do_iptunnel", "do_ip6tunnel"}]

IpRouteReads ==
  rtm_get_table \cup filter_nlmsg \cup print_route \cup print_rule \cup flush_rule \cup print_mroute
  \cup process_msg_tcpm \cup get_netnsid \cup print_nsid

\* The word all is an abbreviation of all-nsid, which is tested before it: what
\* the usage calls "ip monitor all" listens in all name spaces.
IpRouteShadows == {<<"do_ipmonitor", "all">>}

\* The next hops of a long line: the bound is above the length of the buffer.
IpRouteOverruns == {"parse_nexthops"}
=============================================================================
