----------------------------- MODULE IpAddress ------------------------------
(***************************************************************************)
(* The commands of ip on the addresses and the neighbours of devices: ip   *)
(* address and what it shows of links (ipaddress.c), addrlabel, neigh,     *)
(* ntable, maddress, token and netconf.                                    *)
(***************************************************************************)
EXTENDS IpLink

-----------------------------------------------------------------------------
(* ipaddress.c *)

print_queuelen == {Read("IFLA_TXQLEN", "int"), Bare("IFLA_IFNAME", "str")}

print_linktype ==
  {Read("IFLA_INFO_KIND", "str"), Read("IFLA_INFO_DATA", "nested"), Read("IFLA_INFO_XSTATS", "any"),
   Read("IFLA_INFO_SLAVE_KIND", "str"), Read("IFLA_INFO_SLAVE_DATA", "nested")}

parse_link_kind == {Read("IFLA_INFO_KIND", "str")}

print_af_spec == {Read("IFLA_INET6_ADDR_GEN_MODE", "u8")}

\* The mac, the vlan and the rate are taken for granted.
print_vfinfo ==
  {Bare("IFLA_VF_MAC", "ifla_vf_mac"), Bare("IFLA_VF_VLAN", "ifla_vf_vlan"), Bare("IFLA_VF_TX_RATE", "ifla_vf_tx_rate"),
   Read("IFLA_VF_SPOOFCHK", "ifla_vf_spoofchk"), Read("IFLA_VF_LINK_STATE", "ifla_vf_link_state"),
   Read("IFLA_VF_RATE", "ifla_vf_rate"), Read("IFLA_VF_STATS", "nested")}

print_vf_stats64 ==
  {Bare("IFLA_VF_STATS_RX_BYTES", "u64"), Bare("IFLA_VF_STATS_RX_PACKETS", "u64"),
   Bare("IFLA_VF_STATS_MULTICAST", "u64"), Bare("IFLA_VF_STATS_BROADCAST", "u64"),
   Bare("IFLA_VF_STATS_TX_BYTES", "u64"), Bare("IFLA_VF_STATS_TX_PACKETS", "u64")}

__print_link_stats ==
  {Read("IFLA_STATS64", "rtnl_link_stats64"), Read("IFLA_STATS", "rtnl_link_stats"), Read("IFLA_CARRIER_CHANGES", "u32")}

print_linkinfo_brief ==
  {Read("IFLA_IFNAME", "str"), Read("IFLA_GROUP", "int"), Read("IFLA_MASTER", "int"), Read("IFLA_LINKINFO", "nested"),
   Read("IFLA_LINK", "int"), Read("IFLA_OPERSTATE", "u8"), Read("IFLA_ADDRESS", "any")}

print_linkinfo ==
  {Read("IFLA_IFNAME", "str"), Read("IFLA_GROUP", "int"), Read("IFLA_MASTER", "int"), Read("IFLA_LINKINFO", "nested"),
   Read("IFLA_LINK", "int"), Read("IFLA_LINK_NETNSID", "int"), Read("IFLA_MTU", "int"), Read("IFLA_QDISC", "str"),
   Read("IFLA_PHYS_PORT_ID", "any"), Read("IFLA_PHYS_SWITCH_ID", "any"), Read("IFLA_OPERSTATE", "u8"),
   Read("IFLA_LINKMODE", "u8"), Read("IFLA_ADDRESS", "any"), Read("IFLA_BROADCAST", "any"),
   Read("IFLA_PROTO_DOWN", "u8"), Read("IFLA_PROMISCUITY", "int"), Read("IFLA_AF_SPEC", "nested"),
   Read("IFLA_IFALIAS", "str"), Read("IFLA_VFINFO_LIST", "nested"), Read("IFLA_NUM_VF", "flag")}

\* An address is compared with the first bytes of the other, as many as an
\* address of the family has.
print_addrinfo ==
  {Read("IFA_FLAGS", "u32"), Read("IFA_LOCAL", "any"), Read("IFA_ADDRESS", "any"), Read("IFA_LABEL", "str"),
   Read("IFA_BROADCAST", "any"), Read("IFA_ANYCAST", "any"), Read("IFA_CACHEINFO", "ifa_cacheinfo")}

ipaddr_filter == {Read("IFA_FLAGS", "u32"), Read("IFA_LOCAL", "any"), Read("IFA_ADDRESS", "any"), Read("IFA_LABEL", "str")}

\* The rates that a vf has, when only one of them is to change.
ipaddr_loop_each_vf == {Bare("IFLA_VF_RATE", "ifla_vf_rate")}
ipaddr_get_vf_rate  == {Read("IFLA_VFINFO_LIST", "nested"), Read("IFLA_NUM_VF", "flag")}

\* The options are a filter.  flush wants one at least; link show also filters
\* by the type, and asks for a device by its name.
ipaddr_list_flush_or_save(opts, need, msg) ==
  LET flag(w) == As(WordFlag(w), "flags")
  IN Requests(Parser(<<Word("to"), Word("scope"), WordFlag("up"), flag("dynamic"), flag("permanent"),
                       OrWord(flag("secondary"), {"temporary"}), flag("primary"), flag("tentative"), flag("-tentative"),
                       flag("deprecated"), flag("-deprecated"), flag("home"), flag("nodad"), flag("mngtmpaddr"),
                       flag("noprefixroute"), flag("autojoin"), flag("dadfailed"), flag("-dadfailed"), Word("label"),
                       Word("group"), Word("master")>>
                     \o opts \o <<Help, Once(OrWord(Positional("dev"), {"dev"}))>>,
                     need, {"to", "scope", "up", "flags", "label", "group", "master", "type", "dev"}, msg),
              "ifinfomsg", 1024)

ipaddr_list == ipaddr_list_flush_or_save(<< >>, {}, << >>)
ipaddr_list_flush ==
  ipaddr_list_flush_or_save(<< >>, {Need({}, {"to", "scope", "up", "flags", "label", "group", "master", "dev"})}, << >>)
ipaddr_list_link == ipaddr_list_flush_or_save(<<Word("type")>>, {}, iplink_get)

\* Flags above 0xff go into IFA_FLAGS with the others.  The broadcast address may
\* be derived from the peer's after the loop, unless the address is deleted or
\* its prefix is too long for one.  Without a peer, the local address is both.
ipaddr_modify(new) ==
  LET M == 280   \* sizeof(req)
      adds(b, name) == Adds(b, M, name, "addr")
      local == Lacking(PutIf(M, "IFA_ADDRESS", "addr", {"local"}), {"peer"})
  IN Requests(Parser(<<Once(adds(OrWord(Word("peer"), {"remote"}), "IFA_ADDRESS")),
                       Once(Sends(Sets(OrWord(Opt("broadcast"), {"brd"}), {{"broadcast"}, {"derived"}, {}}),
                                  <<PutIf(M, "IFA_BROADCAST", "addr", {"broadcast"})>>)),
                       Once(adds(Word("anycast"), "IFA_ANYCAST")), Word("scope"), Word("dev"),
                       Adds(Word("label"), M, "IFA_LABEL", "ifname"), Once(Opt("valid_lft")), Once(Opt("preferred_lft")),
                       As(WordFlag("home"), "flags"), As(WordFlag("nodad"), "flags"), As(WordFlag("mngtmpaddr"), "flags32"),
                       As(WordFlag("noprefixroute"), "flags32"), Sets(WordFlag("autojoin"), {{"autojoin", "flags32"}}),
                       Help, Once(adds(OrWord(Positional("local"), {"local"}), "IFA_LOCAL"))>>,
                     {Need({}, {"dev"}), Need({"autojoin"}, {"local"})}, {"scope", "dev", "flags"},
                     <<PutWhen(M, "IFA_FLAGS", "u32", {"flags", "flags32", "autojoin"}, {"flags32"}),
                       IF new THEN local ELSE Maybe(local)>>
                     \o (IF new THEN <<PutIf(M, "IFA_BROADCAST", "addr", {"derived"})>> ELSE << >>)
                     \o <<PutIf(M, "IFA_CACHEINFO", "ifa_cacheinfo", {"valid_lft", "preferred_lft"})>>),
              "ifaddrmsg", 256)

ipaddr_add == ipaddr_modify(TRUE)
ipaddr_del == ipaddr_modify(FALSE)

\* showdump and restore read messages from a file; words after them are ignored.
ipaddr_restore == Deaf

do_ipaddr ==
  Commands(<<Cmd("add", "ipaddr_add"), OrWord(Cmd("change", "ipaddr_add"), {"chg"}), Cmd("replace", "ipaddr_add"),
             Cmd("delete", "ipaddr_del"), Or(Cmd("list", "ipaddr_list"), {"show", "lst"}), Cmd("flush", "ipaddr_list_flush"),
             Cmd("save", "ipaddr_list"), Cmd("showdump", "ipaddr_restore"), Cmd("restore", "ipaddr_restore"), Help>>)

-----------------------------------------------------------------------------
(* ipaddrlabel.c *)

\* Other words are passed over.
ipaddrlabel_modify ==
  LET M == 1052   \* sizeof(req)
  IN Requests(Parser(<<Word("prefix"), Word("dev"), Word("label"), Unset(Positional("other"))>>,
                     {Need({}, {"prefix"}), Need({}, {"label"})}, {"dev"},
                     <<Put(M, "IFAL_LABEL", "u32", {"label"}), Put(M, "IFAL_ADDRESS", "addr", {"prefix"})>>),
              "ifaddrlblmsg", 1024)

ipaddrlabel_list  == Parser(<< >>, {}, {}, << >>)
ipaddrlabel_flush == Parser(<< >>, {}, {}, << >>)

print_addrlabel == {Read("IFAL_ADDRESS", "any"), Checked("IFAL_LABEL", "u32")}
flush_addrlabel == {Read("IFAL_ADDRESS", "any")}

do_ipaddrlabel ==
  Commands(<<Or(Cmd("list", "ipaddrlabel_list"), {"lst", "show"}), Cmd("add", "ipaddrlabel_modify"),
             Cmd("delete", "ipaddrlabel_modify"), Cmd("flush", "ipaddrlabel_flush"), Help>>)

-----------------------------------------------------------------------------
(* ipneigh.c *)

\* An address after help is the destination too.  lladdr null is not sent.
ipneigh_modify ==
  LET M == 284   \* sizeof(req)
  IN Requests(Parser(<<Once(Sets(Opt("lladdr"), {{"lladdr"}, {}})), Word("nud"),
                       Once(Sets(Opt("proxy"), {{"dst"}})), Word("dev"),
                       Once(Or(OrWord(Positional("dst"), {"to"}), {"help"}))>>,
                     {Need({}, {"dev"}), Need({}, {"dst"})}, {"nud", "dev"},
                     <<Put(M, "NDA_DST", "addr", {"dst"}), PutIf(M, "NDA_LLADDR", "lladdr20", {"lladdr"})>>),
              "ndmsg", 256)

print_neigh ==
  {Read("NDA_DST", "any"), Read("NDA_CACHEINFO", "nda_cacheinfo"), Read("NDA_LLADDR", "any"), Read("NDA_PROBES", "u32")}

\* A filter, of which flush wants one word at least.
do_show_or_flush(need) ==
  Parser(<<Once(Word("dev")), WordFlag("unused"), Word("nud"), WordFlag("proxy"), Help, OrWord(Positional("to"), {"to"})>>,
         need, {"dev", "unused", "nud", "proxy", "to"}, << >>)

ipneigh_show  == do_show_or_flush({})
ipneigh_flush == do_show_or_flush({Need({}, {"dev", "unused", "nud", "proxy", "to"})})

\* get is not implemented.
do_ipneigh ==
  Commands(<<Cmd("add", "ipneigh_modify"), OrWord(Cmd("change", "ipneigh_modify"), {"chg"}),
             Cmd("replace", "ipneigh_modify"), Cmd("delete", "ipneigh_modify"), Refused(Unset(Flag("get"))),
             Or(Cmd("show", "ipneigh_show"), {"lst", "list"}), Cmd("flush", "ipneigh_flush"), Help>>)

-----------------------------------------------------------------------------
(* ipntable.c *)

\* The parameters are gathered in parms_buf.
ipntable_modify ==
  LET M == 1044   \* sizeof(req)
      parms == {"base_reachable", "retrans", "gc_stale", "delay_probe", "queue", "app_probes", "ucast_probes",
                "mcast_probes", "anycast_delay", "proxy_delay", "proxy_queue", "locktime"}
      u32(w, name) == Gathers(Word(w), 1024, name, "u32")
      u64(w, name) == Gathers(Word(w), 1024, name, "u64")
  IN Buffers(Requests(Parser(
       <<Once(Adds(Word("name"), M, "NDTA_NAME", "ifname")), Adds(Word("thresh1"), M, "NDTA_THRESH1", "u32"),
         Adds(Word("thresh2"), M, "NDTA_THRESH2", "u32"), Adds(Word("thresh3"), M, "NDTA_THRESH3", "u32"),
         Adds(Word("gc_int"), M, "NDTA_GC_INTERVAL", "u64"), u32("dev", "NDTPA_IFINDEX"),
         u64("base_reachable", "NDTPA_BASE_REACHABLE_TIME"), u64("retrans", "NDTPA_RETRANS_TIME"),
         u64("gc_stale", "NDTPA_GC_STALETIME"), u64("delay_probe", "NDTPA_DELAY_PROBE_TIME"),
         u32("queue", "NDTPA_QUEUE_LEN"), u32("app_probes", "NDTPA_APP_PROBES"), u32("ucast_probes", "NDTPA_UCAST_PROBES"),
         u32("mcast_probes", "NDTPA_MCAST_PROBES"), u64("anycast_delay", "NDTPA_ANYCAST_DELAY"),
         u64("proxy_delay", "NDTPA_PROXY_DELAY"), u32("proxy_queue", "NDTPA_PROXY_QLEN"), u64("locktime", "NDTPA_LOCKTIME")>>,
       {Need({}, {"name"}), Need({}, {"thresh1", "thresh2", "thresh3", "gc_int"} \cup parms)}, {},
       <<Gathered(M, "NDTA_PARMS")>>), "ndtmsg", 1024), 1024)

print_ntable ==
  {Read("NDTA_NAME", "str"), Read("NDTA_PARMS", "nested"), Read("NDTPA_IFINDEX", "u32"), Read("NDTA_THRESH1", "u32"),
   Read("NDTA_THRESH2", "u32"), Read("NDTA_THRESH3", "u32"), Read("NDTA_GC_INTERVAL", "u64"),
   Read("NDTA_CONFIG", "ndt_config"), Read("NDTPA_REFCNT", "u32"), Read("NDTPA_REACHABLE_TIME", "u64"),
   Read("NDTPA_BASE_REACHABLE_TIME", "u64"), Read("NDTPA_RETRANS_TIME", "u64"), Read("NDTPA_GC_STALETIME", "u64"),
   Read("NDTPA_DELAY_PROBE_TIME", "u64"), Read("NDTPA_QUEUE_LEN", "u32"), Read("NDTPA_APP_PROBES", "u32"),
   Read("NDTPA_UCAST_PROBES", "u32"), Read("NDTPA_MCAST_PROBES", "u32"), Read("NDTPA_ANYCAST_DELAY", "u64"),
   Read("NDTPA_PROXY_DELAY", "u64"), Read("NDTPA_PROXY_QLEN", "u32"), Read("NDTPA_LOCKTIME", "u64"),
   Read("NDTA_STATS", "ndt_stats")}

ipntable_show == Parser(<<Word("dev"), Word("name")>>, {}, {"dev", "name"}, << >>)

do_ipntable ==
  Commands(<<Or(Cmd("change", "ipntable_modify"), {"chg"}), Or(Cmd("show", "ipntable_show"), {"lst", "list"}), Help>>)

-----------------------------------------------------------------------------
(* ipmaddr.c: an ioctl, or a filter of what /proc shows *)

multiaddr_list == Parser(<<Help, Once(OrWord(Positional("dev"), {"dev"}))>>, {}, {"dev"}, << >>)

multiaddr_modify ==
  Parser(<<Once(Word("dev")), Help, Once(Or(Positional("address"), {"address"}))>>, {Need({}, {"dev"})},
         {"dev", "address"}, << >>)

do_multiaddr ==
  Commands(<<Cmd("add", "multiaddr_modify"), Cmd("delete", "multiaddr_modify"),
             Or(Cmd("list", "multiaddr_list"), {"show", "lst"}), Help>>)

-----------------------------------------------------------------------------
(* iptoken.c *)

\* Words before dev are passed over, those after its name ignored.
iptoken_list == Parser(<<Goes(Word("dev"), "end"), Unset(Positional("other"))>>, {}, {"dev"}, << >>)

\* The first device and the first token count.
iptoken_set ==
  LET M == 544   \* sizeof(req)
  IN Requests(Parser(<<Word("dev"), Help,
                       Until(Sends(Positional("token"), <<Nest(M, "IFLA_AF_SPEC"), Nest(M, "AF_INET6"),
                                                          Put(M, "IFLA_INET6_TOKEN", "addr", {"token"})>>), {"token"}),
                       Unset(Positional("token"))>>, {Need({}, {"token"}), Need({}, {"dev"})}, {"dev"}, << >>),
              "ifinfomsg", 512)

print_token == {Must("IFLA_PROTINFO", "nested"), Must("IFLA_INET6_TOKEN", "any")}

do_iptoken ==
  Commands(<<Or(Cmd("list", "iptoken_list"), {"lst", "show"}), Or(Cmd("set", "iptoken_set"), {"add"}),
             Cmd("get", "iptoken_list"), Help>>)

-----------------------------------------------------------------------------
(* ipprefix.c, ipnetconf.c *)

print_prefix == {Read("PREFIX_ADDRESS", "in6_addr"), Read("PREFIX_CACHEINFO", "prefix_cacheinfo")}

print_netconf ==
  {Read("NETCONFA_IFINDEX", "int"), Read("NETCONFA_FORWARDING", "int"), Read("NETCONFA_RP_FILTER", "int"),
   Read("NETCONFA_MC_FORWARDING", "int"), Read("NETCONFA_PROXY_NEIGH", "int")}

\* Other words are passed over.
do_show_ipnetconf ==
  Requests(Parser(<<Word("dev"), Unset(Positional("other"))>>, {}, {},
                  <<PutIf(1044, "NETCONFA_IFINDEX", "int", {"dev"})>>), "netconfmsg", 1024)

do_ipnetconf == Commands(<<Or(Cmd("show", "do_show_ipnetconf"), {"lst", "list"}), Help>>)

-----------------------------------------------------------------------------
(* Catalogue *)

IpAddressParsers ==
  [ipaddr_list |-> ipaddr_list, ipaddr_list_flush |-> ipaddr_list_flush, ipaddr_list_link |-> ipaddr_list_link,
   ipaddr_add |-> ipaddr_add, ipaddr_del |-> ipaddr_del, ipaddr_restore |-> ipaddr_restore, do_ipaddr |-> do_ipaddr,
   ipaddrlabel_modify |-> ipaddrlabel_modify, ipaddrlabel_list |-> ipaddrlabel_list,
   ipaddrlabel_flush |-> ipaddrlabel_flush, do_ipaddrlabel |-> do_ipaddrlabel, ipneigh_modify |-> ipneigh_modify,
   ipneigh_show |-> ipneigh_show, ipneigh_flush |-> ipneigh_flush, do_ipneigh |-> do_ipneigh,
   ipntable_modify |-> ipntable_modify, ipntable_show |-> ipntable_show, do_ipntable |-> do_ipntable,
   multiaddr_list |-> multiaddr_list, multiaddr_modify |-> multiaddr_modify, do_multiaddr |-> do_multiaddr,
   iptoken_list |-> iptoken_list, iptoken_set |-> iptoken_set, do_iptoken |-> do_iptoken,
   do_show_ipnetconf |-> do_show_ipnetconf, do_ipnetconf |-> do_ipnetconf]

IpAddressReads ==
  print_queuelen \cup print_linktype \cup parse_link_kind \cup print_af_spec \cup print_vfinfo \cup print_vf_stats64
  \cup __print_link_stats \cup print_linkinfo_brief \cup print_linkinfo \cup print_addrinfo \cup ipaddr_filter
  \cup ipaddr_loop_each_vf \cup ipaddr_get_vf_rate \cup print_addrlabel \cup flush_addrlabel \cup print_neigh
  \cup print_ntable \cup print_token \cup print_prefix \cup print_netconf

\* An address is deleted without a broadcast address that is to be derived.
IpAddressForgets == {<<"ipaddr_del", "derived">>}
=============================================================================
