------------------------------- MODULE IpLink -------------------------------
(***************************************************************************)
(* ip link: iplink.c, the options of the kinds of links (iplink_*.c) and   *)
(* the other end of a veth pair (link_veth.c).                             *)
(***************************************************************************)
EXTENDS OptionForms

\* sizeof(struct iplink_req), the bound of what iplink.c adds.
SizeofIplinkReq == 1056

\* The bound of what the kinds add.
LinkBound == 1024

-----------------------------------------------------------------------------
(* iplink.c *)

\* A word of max_tx_rate or min_tx_rate anywhere on the line makes rate part of
\* the new struct, where max_tx_rate goes before it.
iplink_parse_vf ==
  LET M == SizeofIplinkReq
      rate == {"max_tx_rate", "min_tx_rate"}
  IN LeavesLast(Stops(Begins(
       Parser(<<Adds(Opt("mac"), M, "IFLA_VF_MAC", "ifla_vf_mac"),
                Adds(Sets(Opt("vlan"), {{"vlan"}, {"vlan", "qos"}}), M, "IFLA_VF_VLAN", "ifla_vf_vlan"),
                Opt("rate"), Opt("max_tx_rate"), Opt("min_tx_rate"),
                Adds(Opt("spoofchk"), M, "IFLA_VF_SPOOFCHK", "ifla_vf_spoofchk"),
                Adds(Opt("query_rss"), M, "IFLA_VF_RSS_QUERY_EN", "ifla_vf_spoofchk"),
                Adds(Opt("state"), M, "IFLA_VF_LINK_STATE", "ifla_vf_link_state")>>,
              {Need({}, {"mac", "vlan", "rate", "spoofchk", "query_rss", "state"} \cup rate)}, {},
              <<Lacking(PutIf(M, "IFLA_VF_TX_RATE", "ifla_vf_tx_rate", {"rate"}), rate),
                Lacking(PutWhen(M, "IFLA_VF_RATE", "ifla_vf_rate", {"rate", "min_tx_rate"}, {"min_tx_rate"}),
                        {"max_tx_rate"}),
                PutWhen(M, "IFLA_VF_RATE", "ifla_vf_rate", rate, {"max_tx_rate"})>>),
       <<Nest(M, "IFLA_VF_INFO")>>)))

\* The options of a link, for the message or for the peer in it.  After the name
\* of the type the kind's options may follow; what follows an alias, the caller
\* finds too.
iplink_parse ==
  LET adds(b, name, type) == Adds(b, SizeofIplinkReq, name, type)
      flags(w) == As(Word(w), "flags")
  IN <<As(WordFlag("up"), "flags"), As(WordFlag("down"), "flags"), Word("name"), Word("index"), Opt("link"),
       adds(Opt("address"), "IFLA_ADDRESS", "lladdr"),
       adds(OrWord(Opt("broadcast"), {"brd"}), "IFLA_BROADCAST", "lladdr"),
       Once(adds(OrWord(Or(Opt("txqueuelen"), {"txqlen"}), {"qlen"}), "IFLA_TXQLEN", "int")),
       Once(adds(Word("mtu"), "IFLA_MTU", "int")),
       Once(Sends(Sets(Word("netns"), {{"netns_fd"}, {"netns_pid"}}),
                  <<PutIf(SizeofIplinkReq, "IFLA_NET_NS_FD", "int", {"netns_fd"}),
                    PutIf(SizeofIplinkReq, "IFLA_NET_NS_PID", "int", {"netns_pid"})>>)),
       flags("multicast"), flags("allmulticast"), flags("promisc"), flags("trailers"), flags("arp"),
       Calls(After(adds(Word("vf"), "IFLA_VFINFO_LIST", "nested"), {"dev"}), "iplink_parse_vf"),
       adds(Opt("master"), "IFLA_MASTER", "int"), adds(As(Flag("nomaster"), "master"), "IFLA_MASTER", "int"),
       As(Opt("dynamic"), "flags"),
       Goes(Sets(Opt("type"), {{"type"}, {"type", "options"}}), "end"),
       Goes(Sends(Sets(Opt("alias"), {{"alias"}, {"alias", "more"}}),
                  <<Put(SizeofIplinkReq, "IFLA_IFALIAS", "ifalias", {"alias"})>>), "end"),
       Once(Word("group")), adds(Word("mode"), "IFLA_LINKMODE", "u8"), adds(Word("state"), "IFLA_OPERSTATE", "u8"),
       Once(adds(Opt("numtxqueues"), "IFLA_NUM_TX_QUEUES", "int")),
       Once(adds(Opt("numrxqueues"), "IFLA_NUM_RX_QUEUES", "int")),
       Sends(Opt("addrgenmode"),
             <<Nest(SizeofIplinkReq, "IFLA_AF_SPEC"), Nest(SizeofIplinkReq, "AF_INET6"),
               Put(SizeofIplinkReq, "IFLA_INET6_ADDR_GEN_MODE", "u8", {"addrgenmode"})>>),
       Once(adds(Opt("link-netnsid"), "IFLA_LINK_NETNSID", "u32")),
       adds(Word("protodown"), "IFLA_PROTO_DOWN", "u8"), Help, Once(OrWord(Positional("dev"), {"dev"}))>>

\* A link that is not created is found by its name, or all links of a group are;
\* what a whole group is told goes into the message before the group.  The options
\* of a slave go into IFLA_INFO_SLAVE_DATA instead.
iplink_modify(create, need, fields) ==
  LET M == SizeofIplinkReq
      one(attr) == IF create THEN attr ELSE Given(attr, {"dev"})
  IN Hands(Requests(Parser(iplink_parse, need, fields \cup {"flags"},
             (IF create THEN <<PutIf(M, "IFLA_LINK", "int", {"link"}),
                               Lacking(PutIf(M, "IFLA_IFNAME", "ifname", {"dev"}), {"name"})>> ELSE << >>)
             \o <<PutIf(M, "IFLA_GROUP", "u32", {"group"}), one(PutIf(M, "IFLA_IFNAME", "ifname", {"name"})),
                  one(PutIf(M, "IFLA_LINKINFO", "nested", {"type"})), one(PutIf(M, "IFLA_INFO_KIND", "kind", {"type"})),
                  one(PutIf(M, "IFLA_INFO_DATA", "nested", {"options"}))>>),
           "ifinfomsg", 1024),
         "options", "link_parse_opt", << >>)

iplink_add == iplink_modify(TRUE, {Need({"group"}, {"dev"}), Need({}, {"type"})}, {"index"})

iplink_del == iplink_modify(FALSE, {Need({}, {"dev", "group"}), Need({"group", "options"}, {"dev"}),
                                    Need({"group", "more"}, {"dev"})}, {"dev"})

iplink_set == iplink_modify(FALSE, {Need({}, {"dev", "group"}), Need({"group", "options"}, {"dev"}),
                                    Need({"group", "more"}, {"dev"}), Never({"dev", "index"})}, {"dev"})

\* Options after a type that nothing is known of: an error.
no_link_kind == Parser(<< >>, {Never({})}, {}, << >>)

\* The same with one ioctl per option, where the kernel does not know
\* RTM_NEWLINK.
do_set ==
  LET flags(w) == As(Word(w), "flags")
  IN Parser(<<As(WordFlag("up"), "flags"), As(WordFlag("down"), "flags"), Word("name"), Opt("address"),
              OrWord(Opt("broadcast"), {"brd"}), Once(OrWord(Or(Opt("txqueuelen"), {"txqlen"}), {"qlen"})),
              Once(Word("mtu")), flags("multicast"), flags("allmulticast"), flags("promisc"), flags("trailers"),
              flags("arp"), As(Opt("dynamic"), "flags"), Help, Once(OrWord(Positional("dev"), {"dev"}))>>,
            {Need({}, {"dev"})},
            {"flags", "name", "address", "broadcast", "txqueuelen", "mtu", "dev"}, << >>)

\* What ip link show asks the kernel for when it is to show one device.
iplink_get ==
  <<Lacking(PutIf(SizeofIplinkReq, "IFLA_IFNAME", "ifname", {"dev"}), {"group"}),
    Lacking(PutWhen(SizeofIplinkReq, "IFLA_EXT_MASK", "u32", {}, {"dev"}), {"group"})>>

\* The help of a kind.
do_help == Parser(<<Goes(Positional("kind"), "end")>>, {}, {"kind"}, << >>)

\* Without RTM_NEWLINK there is only set.
do_iplink ==
  Commands(<<Cmd("add", "iplink_add"), Or(Cmd("set", "link_set"), {"change"}), Cmd("replace", "iplink_add"),
             Cmd("delete", "iplink_del"), Or(Cmd("show", "ipaddr_list_link"), {"lst", "list"}), Cmd("help", "do_help")>>)

-----------------------------------------------------------------------------
(* Kinds of links *)

\* Each option of bond, bridge and the like is one attribute.
LinkOpt(b, name, type) == Adds(b, LinkBound, name, type)

\* Up to 16 targets, each an attribute of its own.
bond_parse_opt ==
  LET u8(w, name) == LinkOpt(Opt(w), name, "u8")
      u16(w, name) == LinkOpt(Opt(w), name, "u16")
      u32(w, name) == LinkOpt(Opt(w), name, "u32")
  IN Parser(<<u8("mode", "IFLA_BOND_MODE"), u32("active_slave", "IFLA_BOND_ACTIVE_SLAVE"),
              LinkOpt(As(Flag("clear_active_slave"), "active_slave"), "IFLA_BOND_ACTIVE_SLAVE", "u32"),
              u32("miimon", "IFLA_BOND_MIIMON"), u32("updelay", "IFLA_BOND_UPDELAY"),
              u32("downdelay", "IFLA_BOND_DOWNDELAY"), u8("use_carrier", "IFLA_BOND_USE_CARRIER"),
              u32("arp_interval", "IFLA_BOND_ARP_INTERVAL"),
              LinkOpt(Opt("arp_ip_target"), "IFLA_BOND_ARP_IP_TARGET", "arp_ip_targets"),
              u32("arp_validate", "IFLA_BOND_ARP_VALIDATE"), u32("arp_all_targets", "IFLA_BOND_ARP_ALL_TARGETS"),
              u32("primary", "IFLA_BOND_PRIMARY"), u8("primary_reselect", "IFLA_BOND_PRIMARY_RESELECT"),
              u8("fail_over_mac", "IFLA_BOND_FAIL_OVER_MAC"), u8("xmit_hash_policy", "IFLA_BOND_XMIT_HASH_POLICY"),
              u32("resend_igmp", "IFLA_BOND_RESEND_IGMP"),
              LinkOpt(Or(Opt("num_grat_arp"), {"num_unsol_na"}), "IFLA_BOND_NUM_PEER_NOTIF", "u8"),
              u8("all_slaves_active", "IFLA_BOND_ALL_SLAVES_ACTIVE"), u32("min_links", "IFLA_BOND_MIN_LINKS"),
              u32("lp_interval", "IFLA_BOND_LP_INTERVAL"), u32("packets_per_slave", "IFLA_BOND_PACKETS_PER_SLAVE"),
              u8("lacp_rate", "IFLA_BOND_AD_LACP_RATE"), u8("ad_select", "IFLA_BOND_AD_SELECT"),
              u16("ad_user_port_key", "IFLA_BOND_AD_USER_PORT_KEY"),
              u16("ad_actor_sys_prio", "IFLA_BOND_AD_ACTOR_SYS_PRIO"),
              LinkOpt(Opt("ad_actor_system"), "IFLA_BOND_AD_ACTOR_SYSTEM", "lladdr"),
              u8("tlb_dynamic_lb", "IFLA_BOND_TLB_DYNAMIC_LB"), Help>>, {}, {}, << >>)

bond_print_opt ==
  {Read("IFLA_BOND_MODE", "u8"), Read("IFLA_BOND_ACTIVE_SLAVE", "u32"), Read("IFLA_BOND_MIIMON", "u32"),
   Read("IFLA_BOND_UPDELAY", "u32"), Read("IFLA_BOND_DOWNDELAY", "u32"), Read("IFLA_BOND_USE_CARRIER", "u8"),
   Read("IFLA_BOND_ARP_INTERVAL", "u32"), Read("IFLA_BOND_ARP_IP_TARGET", "nested"),
   Read("IFLA_BOND_ARP_VALIDATE", "u32"), Read("IFLA_BOND_ARP_ALL_TARGETS", "u32"), Read("IFLA_BOND_PRIMARY", "u32"),
   Read("IFLA_BOND_PRIMARY_RESELECT", "u8"), Read("IFLA_BOND_FAIL_OVER_MAC", "u8"),
   Read("IFLA_BOND_XMIT_HASH_POLICY", "u8"), Read("IFLA_BOND_RESEND_IGMP", "u32"),
   Read("IFLA_BOND_NUM_PEER_NOTIF", "u8"), Read("IFLA_BOND_ALL_SLAVES_ACTIVE", "u8"),
   Read("IFLA_BOND_MIN_LINKS", "u32"), Read("IFLA_BOND_LP_INTERVAL", "u32"),
   Read("IFLA_BOND_PACKETS_PER_SLAVE", "u32"), Read("IFLA_BOND_AD_LACP_RATE", "u8"), Read("IFLA_BOND_AD_SELECT", "u8"),
   Read("IFLA_BOND_AD_INFO", "nested"), Read("IFLA_BOND_AD_INFO_AGGREGATOR", "u16"),
   Read("IFLA_BOND_AD_INFO_NUM_PORTS", "u16"), Read("IFLA_BOND_AD_INFO_ACTOR_KEY", "u16"),
   Read("IFLA_BOND_AD_INFO_PARTNER_KEY", "u16"), Read("IFLA_BOND_AD_INFO_PARTNER_MAC", "lladdr6"),
   Read("IFLA_BOND_AD_ACTOR_SYS_PRIO", "u16"), Read("IFLA_BOND_AD_USER_PORT_KEY", "u16"),
   Read("IFLA_BOND_AD_ACTOR_SYSTEM", "any"), Read("IFLA_BOND_TLB_DYNAMIC_LB", "u8")}

\* Another word is passed over.
bond_slave_parse_opt ==
  Parser(<<LinkOpt(Opt("queue_id"), "IFLA_BOND_SLAVE_QUEUE_ID", "u16"), Unset(Positional("other"))>>, {}, {}, << >>)

bond_slave_print_opt ==
  {Read("IFLA_BOND_SLAVE_STATE", "u8"), Read("IFLA_BOND_SLAVE_MII_STATUS", "u8"),
   Read("IFLA_BOND_SLAVE_LINK_FAILURE_COUNT", "u32"), Read("IFLA_BOND_SLAVE_PERM_HWADDR", "any"),
   Read("IFLA_BOND_SLAVE_QUEUE_ID", "u16"), Read("IFLA_BOND_SLAVE_AD_AGGREGATOR_ID", "u16"),
   Read("IFLA_BOND_SLAVE_AD_ACTOR_OPER_PORT_STATE", "u8"), Read("IFLA_BOND_SLAVE_AD_PARTNER_OPER_PORT_STATE", "u16")}

bridge_parse_opt ==
  LET u32(w, name) == LinkOpt(Opt(w), name, "u32")
  IN Parser(<<u32("forward_delay", "IFLA_BR_FORWARD_DELAY"), u32("hello_time", "IFLA_BR_HELLO_TIME"),
              u32("max_age", "IFLA_BR_MAX_AGE"), u32("ageing_time", "IFLA_BR_AGEING_TIME"),
              u32("stp_state", "IFLA_BR_STP_STATE"), LinkOpt(Opt("priority"), "IFLA_BR_PRIORITY", "u16"),
              LinkOpt(Opt("vlan_filtering"), "IFLA_BR_VLAN_FILTERING", "u8"),
              LinkOpt(Opt("vlan_protocol"), "IFLA_BR_VLAN_PROTOCOL", "u16"), Help>>, {}, {}, << >>)

bridge_print_opt ==
  {Read("IFLA_BR_FORWARD_DELAY", "u32"), Read("IFLA_BR_HELLO_TIME", "u32"), Read("IFLA_BR_MAX_AGE", "u32"),
   Read("IFLA_BR_AGEING_TIME", "u32"), Read("IFLA_BR_STP_STATE", "u32"), Read("IFLA_BR_PRIORITY", "u16"),
   Read("IFLA_BR_VLAN_FILTERING", "u8"), Read("IFLA_BR_VLAN_PROTOCOL", "u16")}

bridge_slave_parse_opt ==
  LET on_off(w, name) == LinkOpt(Opt(w), name, "u8")
  IN Parser(<<LinkOpt(Opt("state"), "IFLA_BRPORT_STATE", "u8"), LinkOpt(Opt("priority"), "IFLA_BRPORT_PRIORITY", "u16"),
              LinkOpt(Opt("cost"), "IFLA_BRPORT_COST", "u32"), on_off("hairpin", "IFLA_BRPORT_MODE"),
              on_off("guard", "IFLA_BRPORT_GUARD"), on_off("root_block", "IFLA_BRPORT_PROTECT"),
              on_off("fastleave", "IFLA_BRPORT_FAST_LEAVE"), on_off("learning", "IFLA_BRPORT_LEARNING"),
              on_off("flood", "IFLA_BRPORT_UNICAST_FLOOD"), Help>>, {}, {}, << >>)

bridge_slave_print_opt ==
  {Read("IFLA_BRPORT_STATE", "u8"), Read("IFLA_BRPORT_PRIORITY", "u16"), Read("IFLA_BRPORT_COST", "u32"),
   Read("IFLA_BRPORT_MODE", "u8"), Read("IFLA_BRPORT_GUARD", "u8"), Read("IFLA_BRPORT_PROTECT", "u8"),
   Read("IFLA_BRPORT_FAST_LEAVE", "u8"), Read("IFLA_BRPORT_LEARNING", "u8"), Read("IFLA_BRPORT_UNICAST_FLOOD", "u8")}

\* The struct is sent once it holds a bit rate or a time quantum.
can_parse_opt ==
  LET M == LinkBound
      times(d) == {d \o "sample-point", d \o "prop-seg", d \o "phase-seg1", d \o "phase-seg2", d \o "sjw"}
      rate(d)  == {d \o "bitrate", d \o "tq"}
      mode(w)  == As(Opt(w), "ctrlmode")
  IN Parser(<<Opt("bitrate"), Opt("sample-point"), Opt("tq"), Opt("prop-seg"), Opt("phase-seg1"), Opt("phase-seg2"),
              Opt("sjw"), Opt("dbitrate"), Opt("dsample-point"), Opt("dtq"), Opt("dprop-seg"), Opt("dphase-seg1"),
              Opt("dphase-seg2"), Opt("dsjw"), mode("loopback"), mode("listen-only"), mode("triple-sampling"),
              mode("one-shot"), mode("berr-reporting"), mode("fd"), mode("fd-non-iso"), mode("presume-ack"),
              LinkOpt(Flag("restart"), "IFLA_CAN_RESTART", "u32"),
              LinkOpt(Opt("restart-ms"), "IFLA_CAN_RESTART_MS", "u32"), Help>>, {}, {},
            <<PutWhen(M, "IFLA_CAN_BITTIMING", "can_bittiming", times("") \cup rate(""), rate("")),
              PutWhen(M, "IFLA_CAN_DATA_BITTIMING", "can_bittiming", times("d") \cup rate("d"), rate("d")),
              PutIf(M, "IFLA_CAN_CTRLMODE", "can_ctrlmode", {"ctrlmode"})>>)

can_print_opt ==
  {Read("IFLA_CAN_CTRLMODE", "can_ctrlmode"), Read("IFLA_CAN_STATE", "int"),
   Read("IFLA_CAN_BERR_COUNTER", "can_berr_counter"), Read("IFLA_CAN_RESTART_MS", "u32"),
   Read("IFLA_CAN_BITTIMING", "can_bittiming"), Read("IFLA_CAN_BITTIMING_CONST", "can_bittiming_const"),
   Read("IFLA_CAN_DATA_BITTIMING", "can_bittiming"), Read("IFLA_CAN_DATA_BITTIMING_CONST", "can_bittiming_const"),
   Read("IFLA_CAN_CLOCK", "can_clock")}

\* remote is an address of IPv4.
geneve_parse_opt ==
  Parser(<<Or(Opt("id"), {"vni"}), Opt("remote"), Or(Opt("ttl"), {"hoplimit"}), Or(Opt("tos"), {"dsfield"}), Help>>,
         {Need({}, {"id"}), Need({}, {"remote"})}, {},
         <<Put(LinkBound, "IFLA_GENEVE_ID", "u32", {"id"}), Put(LinkBound, "IFLA_GENEVE_REMOTE", "u32", {"remote"}),
           Put(LinkBound, "IFLA_GENEVE_TTL", "u8", {"ttl"}), Put(LinkBound, "IFLA_GENEVE_TOS", "u8", {"tos"})>>)

geneve_print_opt ==
  {Checked("IFLA_GENEVE_ID", "u32"), Read("IFLA_GENEVE_REMOTE", "u32"), Read("IFLA_GENEVE_TTL", "u8"),
   Read("IFLA_GENEVE_TOS", "u8")}

hsr_parse_opt ==
  Parser(<<LinkOpt(Opt("supervision"), "IFLA_HSR_MULTICAST_SPEC", "u8"), LinkOpt(Opt("slave1"), "IFLA_HSR_SLAVE1", "int"),
           LinkOpt(Opt("slave2"), "IFLA_HSR_SLAVE2", "int"), Help>>, {}, {}, << >>)

hsr_print_opt ==
  {Checked("IFLA_HSR_SLAVE1", "u32"), Checked("IFLA_HSR_SLAVE2", "u32"), Checked("IFLA_HSR_SEQ_NR", "u16"),
   Checked("IFLA_HSR_SUPERVISION_ADDR", "lladdr6")}

ipoib_parse_opt ==
  Parser(<<LinkOpt(Opt("pkey"), "IFLA_IPOIB_PKEY", "u16"), LinkOpt(Opt("mode"), "IFLA_IPOIB_MODE", "u16"),
           LinkOpt(Opt("umcast"), "IFLA_IPOIB_UMCAST", "u16"), Help>>, {}, {}, << >>)

ipoib_print_opt ==
  {Checked("IFLA_IPOIB_PKEY", "u16"), Checked("IFLA_IPOIB_MODE", "u16"), Checked("IFLA_IPOIB_UMCAST", "u16")}

ipvlan_parse_opt == Parser(<<LinkOpt(Opt("mode"), "IFLA_IPVLAN_MODE", "u16"), Help>>, {}, {}, << >>)

ipvlan_print_opt == {Checked("IFLA_IPVLAN_MODE", "u16")}

\* nopromisc needs the mode passthru, one of the modes.
macvlan_parse_opt ==
  Parser(<<Opt("mode"), Flag("nopromisc"), Help>>, {Need({"nopromisc"}, {"mode"})}, {},
         <<PutIf(LinkBound, "IFLA_MACVLAN_MODE", "u32", {"mode"}),
           PutIf(LinkBound, "IFLA_MACVLAN_FLAGS", "u16", {"nopromisc"})>>)

macvlan_print_opt == {Checked("IFLA_MACVLAN_MODE", "u32"), Checked("IFLA_MACVLAN_FLAGS", "u16")}

\* Each word FROM:TO is an attribute of its own.
vlan_parse_qos_map ==
  Stops(Parser(<<LinkOpt(Positional("map"), "IFLA_VLAN_QOS_MAPPING", "ifla_vlan_qos_mapping")>>,
               {}, {}, << >>))

vlan_parse_opt ==
  LET flags(w) == As(Opt(w), "flags")
      map(w, name) == Goes(Calls(LinkOpt(Opt(w), name, "nested"), "vlan_parse_qos_map"), "here")
  IN Parser(<<LinkOpt(Opt("protocol"), "IFLA_VLAN_PROTOCOL", "u16"), LinkOpt(Opt("id"), "IFLA_VLAN_ID", "u16"),
              flags("reorder_hdr"), flags("gvrp"), flags("mvrp"), flags("loose_binding"),
              map("ingress-qos-map", "IFLA_VLAN_INGRESS_QOS"), map("egress-qos-map", "IFLA_VLAN_EGRESS_QOS"), Help>>,
            {}, {}, <<PutIf(LinkBound, "IFLA_VLAN_FLAGS", "ifla_vlan_flags", {"flags"})>>)

vlan_print_opt ==
  {Checked("IFLA_VLAN_PROTOCOL", "u16"), Checked("IFLA_VLAN_ID", "u16"), Checked("IFLA_VLAN_FLAGS", "ifla_vlan_flags"),
   Read("IFLA_VLAN_INGRESS_QOS", "nested"), Read("IFLA_VLAN_EGRESS_QOS", "nested")}

vlan_print_map == {Bare("IFLA_VLAN_QOS_MAPPING", "ifla_vlan_qos_mapping")}

vrf_parse_opt == Parser(<<LinkOpt(Opt("table"), "IFLA_VRF_TABLE", "u32"), Help>>, {}, {}, << >>)

vrf_print_opt == {Read("IFLA_VRF_TABLE", "u32")}

\* An address is one of IPv4 (a key that ends in 4) or of IPv6; local may be any
\* and a limit unlimited, which are not sent.  Two addresses of one family do
\* not go together.
vxlan_parse_opt ==
  LET M == LinkBound
      flag(w, key) == As(Flag(w), key)
      put8(name, key) == Put(M, name, "u8", {key})
  IN Parser(<<Or(Opt("id"), {"vni"}), Sets(Opt("group"), {{"group4"}, {"group6"}}),
              Sets(Opt("remote"), {{"remote4"}, {"remote6"}}), Sets(Opt("local"), {{"local4"}, {"local6"}, {}}),
              Opt("dev"), Or(Opt("ttl"), {"hoplimit"}), Or(Opt("tos"), {"dsfield"}),
              Sets(Opt("ageing"), {{"ageing"}, {"noage"}}), Sets(Opt("maxaddress"), {{"maxaddress"}, {}}),
              Or(Opt("port"), {"srcport"}), Opt("dstport"), flag("nolearning", "learning"), flag("learning", "learning"),
              flag("noproxy", "proxy"), flag("proxy", "proxy"), flag("norsc", "rsc"), flag("rsc", "rsc"),
              flag("nol2miss", "l2miss"), flag("l2miss", "l2miss"), flag("nol3miss", "l3miss"),
              flag("l3miss", "l3miss"), flag("udpcsum", "udpcsum"), flag("noudpcsum", "udpcsum"),
              flag("udp6zerocsumtx", "csumtx"), flag("noudp6zerocsumtx", "csumtx"), flag("udp6zerocsumrx", "csumrx"),
              flag("noudp6zerocsumrx", "csumrx"), Flag("gbp"), Help>>,
            {Need({}, {"id"}), Never({"group4", "remote4"}), Never({"group6", "remote6"})}, {},
            <<Put(M, "IFLA_VXLAN_ID", "u32", {"id"}), PutIf(M, "IFLA_VXLAN_GROUP", "u32", {"group4", "remote4"}),
              PutIf(M, "IFLA_VXLAN_GROUP6", "in6_addr", {"group6", "remote6"}),
              PutIf(M, "IFLA_VXLAN_LOCAL", "u32", {"local4"}),
              Lacking(PutIf(M, "IFLA_VXLAN_LOCAL6", "in6_addr", {"local6"}), {"local4"}), U32(M, "IFLA_VXLAN_LINK", "dev"),
              put8("IFLA_VXLAN_TTL", "ttl"), put8("IFLA_VXLAN_TOS", "tos"), put8("IFLA_VXLAN_LEARNING", "learning"),
              put8("IFLA_VXLAN_PROXY", "proxy"), put8("IFLA_VXLAN_RSC", "rsc"), put8("IFLA_VXLAN_L2MISS", "l2miss"),
              put8("IFLA_VXLAN_L3MISS", "l3miss"), put8("IFLA_VXLAN_UDP_CSUM", "udpcsum"),
              put8("IFLA_VXLAN_UDP_ZERO_CSUM6_TX", "csumtx"), put8("IFLA_VXLAN_UDP_ZERO_CSUM6_RX", "csumrx"),
              U32(M, "IFLA_VXLAN_AGEING", "noage"), Lacking(U32(M, "IFLA_VXLAN_AGEING", "ageing"), {"noage"}),
              U32(M, "IFLA_VXLAN_LIMIT", "maxaddress"),
              PutIf(M, "IFLA_VXLAN_PORT_RANGE", "ifla_vxlan_port_range", {"port"}),
              PutIf(M, "IFLA_VXLAN_PORT", "u16", {"dstport"}), PutIf(M, "IFLA_VXLAN_GBP", "flag", {"gbp"})>>)

vxlan_print_opt ==
  {Checked("IFLA_VXLAN_ID", "u32"), Read("IFLA_VXLAN_GROUP", "u32"), Read("IFLA_VXLAN_GROUP6", "in6_addr"),
   Read("IFLA_VXLAN_LOCAL", "u32"), Read("IFLA_VXLAN_LOCAL6", "in6_addr"), Read("IFLA_VXLAN_LINK", "u32"),
   Read("IFLA_VXLAN_PORT_RANGE", "ifla_vxlan_port_range"), Read("IFLA_VXLAN_PORT", "u16"),
   Read("IFLA_VXLAN_LEARNING", "u8"), Read("IFLA_VXLAN_PROXY", "u8"), Read("IFLA_VXLAN_RSC", "u8"),
   Read("IFLA_VXLAN_L2MISS", "u8"), Read("IFLA_VXLAN_L3MISS", "u8"), Read("IFLA_VXLAN_TOS", "u8"),
   Read("IFLA_VXLAN_TTL", "u8"), Read("IFLA_VXLAN_AGEING", "u32"), Read("IFLA_VXLAN_LIMIT", "u32"),
   Read("IFLA_VXLAN_UDP_CSUM", "u8"), Read("IFLA_VXLAN_UDP_ZERO_CSUM6_TX", "u8"),
   Read("IFLA_VXLAN_UDP_ZERO_CSUM6_RX", "u8"), Read("IFLA_VXLAN_GBP", "flag")}

\* The peer's attributes go into VETH_INFO_PEER, after a header of its own for
\* its flags and its index; dev, link and type of the peer are not looked at.
veth_parse_opt ==
  Parser(<<Until(Sends(WordFlag("peer"), <<Nest(LinkBound, "VETH_INFO_PEER"),
                                           Raw(SizeofIplinkReq, "ifinfomsg", {"flags", "index"})>>), {"peer"})>>
           \o [i \in DOMAIN iplink_parse |-> Since(iplink_parse[i], {"peer"})],
         {Need({}, {"peer"}), Never({"options"}), Never({"more"})}, {"peer"},
         <<PutIf(LinkBound, "IFLA_IFNAME", "ifname", {"name"}), U32(LinkBound, "IFLA_GROUP", "group")>>)

-----------------------------------------------------------------------------
(* Catalogue *)

IpLinkParsers ==
  [iplink_parse_vf |-> iplink_parse_vf, iplink_add |-> iplink_add, iplink_del |-> iplink_del,
   iplink_set |-> iplink_set, no_link_kind |-> no_link_kind, do_set |-> do_set, do_help |-> do_help,
   do_iplink |-> do_iplink, bond_parse_opt |-> bond_parse_opt, bond_slave_parse_opt |-> bond_slave_parse_opt,
   bridge_parse_opt |-> bridge_parse_opt, bridge_slave_parse_opt |-> bridge_slave_parse_opt,
   can_parse_opt |-> can_parse_opt, geneve_parse_opt |-> geneve_parse_opt, hsr_parse_opt |-> hsr_parse_opt,
   ipoib_parse_opt |-> ipoib_parse_opt, ipvlan_parse_opt |-> ipvlan_parse_opt, macvlan_parse_opt |-> macvlan_parse_opt,
   vlan_parse_qos_map |-> vlan_parse_qos_map, vlan_parse_opt |-> vlan_parse_opt, vrf_parse_opt |-> vrf_parse_opt,
   vxlan_parse_opt |-> vxlan_parse_opt, veth_parse_opt |-> veth_parse_opt]

IpLinkKinds ==
  {"no_link_kind", "bond_parse_opt", "bond_slave_parse_opt", "bridge_parse_opt", "bridge_slave_parse_opt",
   "can_parse_opt", "geneve_parse_opt", "hsr_parse_opt", "ipoib_parse_opt", "ipvlan_parse_opt", "macvlan_parse_opt",
   "vlan_parse_opt", "vrf_parse_opt", "vxlan_parse_opt", "veth_parse_opt"}

IpLinkPointers == [link_set |-> {"iplink_set", "do_set"}]

IpLinkReads ==
  bond_print_opt \cup bond_slave_print_opt \cup bridge_print_opt \cup bridge_slave_print_opt \cup can_print_opt
  \cup geneve_print_opt \cup hsr_print_opt \cup ipoib_print_opt \cup ipvlan_print_opt \cup macvlan_print_opt
  \cup vlan_print_opt \cup vlan_print_map \cup vrf_print_opt \cup vxlan_print_opt

\* Of a link that is added, the name goes before dev.  A link that is there keeps
\* what it is linked to; words after an alias are ignored; what a whole group is
\* told has no name, type or index.  max_tx_rate goes before rate.  The peer of a
\* pair has a name, and nothing is made of a dev, a link or a type.
IpLinkForgets ==
  {<<"iplink_add", "dev">>, <<"iplink_add", "more">>, <<"iplink_parse_vf", "rate">>}
    \cup ({"iplink_set", "iplink_del"} \X {"link", "more", "index", "name", "type"})
    \cup ({"veth_parse_opt"} \X {"dev", "link", "type"})
=============================================================================
