------------------------------- MODULE Bridge -------------------------------
(***************************************************************************)
(* The program bridge (link, fdb, mdb, vlan, monitor) and the program      *)
(* genl, with its one family ctrl.                                         *)
(***************************************************************************)
EXTENDS OptionForms

\* Words that a loop passes over.
Other == Unset(Positional("other"))

-----------------------------------------------------------------------------
(* bridge link *)

\* hwmode also sets self, and takes back a master before it.  A cost of zero is
\* no cost.
brlink_modify ==
  LET M == 512 + 32
      port(key, attr, type) == PutIf(M, attr, type, {key})
  IN Requests(Parser(
       <<Word("dev"), Word("guard"), Word("hairpin"), Word("fastleave"), Word("root_block"), Word("learning"),
         Word("learning_sync"), Word("flood"), Sets(Word("cost"), {{"cost"}, {}}), Word("priority"), Word("state"),
         Sets(Word("hwmode"), {{"hwmode", "self"}}), WordFlag("self"), WordFlag("master")>>,
       {Need({}, {"dev"})}, {"dev"},
       <<Nest(M, "IFLA_PROTINFO"), port("guard", "IFLA_BRPORT_GUARD", "u8"), port("hairpin", "IFLA_BRPORT_MODE", "u8"),
         port("fastleave", "IFLA_BRPORT_FAST_LEAVE", "u8"), port("root_block", "IFLA_BRPORT_PROTECT", "u8"),
         port("flood", "IFLA_BRPORT_UNICAST_FLOOD", "u8"), port("learning", "IFLA_BRPORT_LEARNING", "u8"),
         port("learning_sync", "IFLA_BRPORT_LEARNING_SYNC", "u8"), port("cost", "IFLA_BRPORT_COST", "u32"),
         port("priority", "IFLA_BRPORT_PRIORITY", "u16"), port("state", "IFLA_BRPORT_STATE", "u8"),
         PutWhen(M, "IFLA_AF_SPEC", "nested", {}, {"hwmode", "self", "master"}),
         PutIf(M, "IFLA_BRIDGE_FLAGS", "u16", {"self", "master"}), port("hwmode", "IFLA_BRIDGE_MODE", "u16")>>),
       "ifinfomsg", 512)

bridge_print_linkinfo ==
  {Must("IFLA_IFNAME", "str"), Read("IFLA_OPERSTATE", "u8"), Read("IFLA_LINK", "u32"), Read("IFLA_MTU", "u32"),
   Read("IFLA_MASTER", "u32"), Read("IFLA_PROTINFO", "nested"), Read("IFLA_BRPORT_STATE", "u8"),
   Read("IFLA_BRPORT_PRIORITY", "u16"), Read("IFLA_BRPORT_COST", "u32"), Read("IFLA_BRPORT_MODE", "u8"),
   Read("IFLA_BRPORT_GUARD", "u8"), Read("IFLA_BRPORT_PROTECT", "u8"), Read("IFLA_BRPORT_FAST_LEAVE", "u8"),
   Read("IFLA_BRPORT_LEARNING", "u8"), Read("IFLA_BRPORT_LEARNING_SYNC", "u8"), Read("IFLA_BRPORT_UNICAST_FLOOD", "u8"),
   Read("IFLA_AF_SPEC", "nested"), Read("IFLA_BRIDGE_MODE", "u16")}

\* show: the interface that the kernel's dump is filtered for.
OfDevice == Parser(<<Once(Word("dev")), Other>>, {}, Every, << >>)
brlink_show == OfDevice
mdb_show    == OfDevice
vlan_show   == OfDevice

Or3(w, f) == Or(Cmd(w, f), {"lst", "list"})
do_link == Commands(<<Or(Cmd("set", "brlink_modify"), {"change"}), Or3("show", "brlink_show"), Help>>)

-----------------------------------------------------------------------------
(* bridge fdb *)

\* Variants for mutation: brport is abbreviated, and takes br; the bridge is not
\* sent.
fdb_show_abbrev ==
  Requests(Parser(<<OrWord(Opt("brport"), {"dev"}), Word("br"), Help, Other>>,
                  {}, {"brport"}, <<U32(256 + 32, "IFLA_MASTER", "br")>>), "ifinfomsg", 256)
fdb_show_all ==
  Requests(Parser(<<OrWord(Word("brport"), {"dev"}), Word("br"), Help, Other>>, {}, {"brport"}, << >>), "ifinfomsg", 256)

fdb_show ==
  Requests(Parser(<<OrWord(Word("brport"), {"dev"}), Word("br"), Help, Other>>,
                  {}, {"brport"}, <<U32(256 + 32, "IFLA_MASTER", "br")>>), "ifinfomsg", 256)

\* "[to] ADDRESS".  A port of zero and a vni of all ones are none.
fdb_modify ==
  LET M == 256 + 28
  IN Requests(Parser(
       <<Word("dev"), Once(Word("dst")), Sets(Word("port"), {{"port"}, {}}), Sets(Word("vni"), {{"vni"}, {}}), Word("via"),
         WordFlag("self"), Flag("master"), Flag("router"), Or(Flag("local"), {"permanent"}), Flag("temp"), Once(Opt("vlan")),
         Flag("use"), Help, Once(OrWord(Positional("addr"), {"to"}))>>,
       {Need({}, {"dev"}), Need({}, {"addr"})},
       {"dev", "self", "master", "router", "local", "temp", "use"},
       <<Put(M, "NDA_LLADDR", "lladdr6", {"addr"}), PutIf(M, "NDA_DST", "in6_addr", {"dst"}),
         PutIf(M, "NDA_VLAN", "u16", {"vlan"}), PutIf(M, "NDA_PORT", "u16", {"port"}), U32(M, "NDA_VNI", "vni"),
         U32(M, "NDA_IFINDEX", "via")>>),
       "ndmsg", 256)

\* The two addresses are printed in their length.
print_fdb ==
  {Read("NDA_LLADDR", "any"), Read("NDA_DST", "any"), Read("NDA_VLAN", "u16"), Read("NDA_PORT", "u16"),
   Read("NDA_VNI", "u32"), Read("NDA_IFINDEX", "u32"), Read("NDA_LINK_NETNSID", "u32"),
   Read("NDA_CACHEINFO", "nda_cacheinfo"), Read("NDA_MASTER", "u32")}

do_fdb ==
  Commands(Cmds(<<"add", "append", "replace", "delete">>, "fdb_modify") \o <<Or3("show", "fdb_show"), Help>>)

-----------------------------------------------------------------------------
(* bridge mdb *)

\* temp is what an entry is without permanent; delete makes nothing of either.
mdb_modify(keeps) ==
  LET M == 1024 + 24
  IN Requests(Parser(
       <<Word("dev"), Word("grp"), Word("port"), WordFlag("permanent"), Unset(WordFlag("temp")), Word("vid"), Help, Other>>,
       {Need({}, {"dev"}), Need({}, {"grp"}), Need({}, {"port"})}, {"dev"},
       <<Put(M, "MDBA_SET_ENTRY", "br_mdb_entry", {"grp", "port", "vid"} \cup keeps)>>),
       "br_port_msg", 1024)

print_mdb == {Read("MDBA_MDB", "nested"), Read("MDBA_ROUTER", "nested")}

do_mdb == Commands(<<Cmd("add", "mdb_add"), Cmd("delete", "mdb_del"), Or3("show", "mdb_show"), Help>>)

-----------------------------------------------------------------------------
(* bridge vlan *)

\* A range is sent as its two ends; help takes the word after it and goes on.
vlan_modify ==
  LET M == 1024 + 32
      info == Put(M, "IFLA_BRIDGE_VLAN_INFO", "bridge_vlan_info", {"vid", "pvid", "untagged"})
  IN Requests(Parser(
       <<Word("dev"), Sets(Word("vid"), {{"vid"}, {"vid", "range"}}), WordFlag("self"), WordFlag("master"), WordFlag("pvid"),
         WordFlag("untagged"), Unset(Opt("help")), Other>>,
       {Need({}, {"dev"}), Need({}, {"vid"}), Never({"range", "pvid"})}, {"dev"},
       <<Nest(M, "IFLA_AF_SPEC"), PutIf(M, "IFLA_BRIDGE_FLAGS", "u16", {"self", "master"}), info,
         PutIf(M, "IFLA_BRIDGE_VLAN_INFO", "bridge_vlan_info", {"range"})>>),
       "ifinfomsg", 1024)

bridge_print_vlan == {Must("IFLA_AF_SPEC", "nested"), Read("IFLA_BRIDGE_VLAN_INFO", "bridge_vlan_info")}

do_vlan == Commands(Cmds(<<"add", "delete">>, "vlan_modify") \o <<Or3("show", "vlan_show"), Help>>)

-----------------------------------------------------------------------------
(* bridge *)

bridge_do_monitor == Parser(<<Opt("file"), Flag("link"), Flag("fdb"), Flag("mdb"), WordFlag("all"), Help>>, {}, Every, << >>)

bridge_main ==
  LET family(w) == As(WordFlag(w), "family")
  IN Stops(Parser(<<Goes(Unset(WordFlag("--")), "end"), Refused(Flag("-help")), Refused(Flag("-Version")),
                    Or(Flag("-stats"), {"-statistics"}), Flag("-details"), Flag("-oneline"), Flag("-timestamp"), Opt("-family"),
                    family("-4"), family("-6"), Opt("-netns"), Flag("-compressvlans"), Flag("-force"), Opt("-batch")>>,
                  {}, Every, << >>))

bridge_do_cmd ==
  Commands(<<Cmd("link", "do_link"), Cmd("fdb", "do_fdb"), Cmd("mdb", "do_mdb"), Cmd("vlan", "do_vlan"),
             Cmd("monitor", "bridge_do_monitor"), Help>>)

-----------------------------------------------------------------------------
(* genl *)

\* get has exactly one of name and id.  The header of the family is in the buffer.
ctrl_list(get) ==
  LET by == {"name", "id"}
  IN Requests(IF get
              THEN Parser(<<Adds(Not(Opt("name"), by), 128, "CTRL_ATTR_FAMILY_NAME", "name"),
                            Adds(Not(Opt("id"), by), 128, "CTRL_ATTR_FAMILY_ID", "u16")>>, {Need({}, by)}, {}, << >>)
              ELSE Deaf, "genlmsghdr", 4096 - 4)
ctrl_listen == Deaf

parse_ctrl ==
  Commands(<<Cmd("monitor", "ctrl_listen"), Cmd("get", "ctrl_get"), Or3("list", "ctrl_dump"), Cmd("show", "ctrl_dump"), Help>>)

\* A family that no library knows takes no words.
genl_parse_nofopt == Parser(<< Refused(Unset(Positional("other"))) >>, {}, Every, << >>)

\* Variants for mutation: the number of the family is read in four bytes, in one.
genl_ctrl_resolve_family_long  == {Must("CTRL_ATTR_FAMILY_ID", "u32")}
genl_ctrl_resolve_family_short == {Must("CTRL_ATTR_FAMILY_ID", "u8")}

genl_ctrl_resolve_family == {Must("CTRL_ATTR_FAMILY_ID", "u16")}

print_ctrl ==
  {Read("CTRL_ATTR_FAMILY_NAME", "str"), Read("CTRL_ATTR_FAMILY_ID", "u16"), Read("CTRL_ATTR_VERSION", "u32"),
   Read("CTRL_ATTR_HDRSIZE", "u32"), Read("CTRL_ATTR_MAXATTR", "u32"), Read("CTRL_ATTR_OPS", "nested"),
   Read("CTRL_ATTR_MCAST_GROUPS", "nested")}

genl_main ==
  Stops(Parser(<<Or(Flag("-stats"), {"-statistics"}), Flag("-details"), Flag("-raw"), Refused(Flag("-Version")),
                 Refused(Flag("-help"))>>, {}, Every, << >>))
genl_do_cmd == Parser(<<Goes(Calls([Unset(Positional("family")) EXCEPT !.flag = TRUE], "parse_genlopt"), "return")>>,
                      {}, Every, << >>)

-----------------------------------------------------------------------------
(* Catalogue *)

BridgeParsers ==
  [brlink_modify |-> brlink_modify, brlink_show |-> brlink_show, do_link |-> do_link, fdb_show |-> fdb_show,
   fdb_modify |-> fdb_modify, do_fdb |-> do_fdb, mdb_add |-> mdb_modify({"permanent"}), mdb_del |-> mdb_modify({}),
   mdb_show |-> mdb_show, do_mdb |-> do_mdb, vlan_modify |-> vlan_modify, vlan_show |-> vlan_show, do_vlan |-> do_vlan,
   bridge_do_monitor |-> bridge_do_monitor, bridge_main |-> bridge_main, bridge_do_cmd |-> bridge_do_cmd,
   ctrl_get |-> ctrl_list(TRUE), ctrl_dump |-> ctrl_list(FALSE), ctrl_listen |-> ctrl_listen, parse_ctrl |-> parse_ctrl,
   genl_parse_nofopt |-> genl_parse_nofopt, genl_main |-> genl_main, genl_do_cmd |-> genl_do_cmd]

BridgePointers == [parse_genlopt |-> {"parse_ctrl", "genl_parse_nofopt"}]

BridgeReads == bridge_print_linkinfo \cup print_fdb \cup print_mdb \cup bridge_print_vlan \cup genl_ctrl_resolve_family \cup print_ctrl

\* permanent, given to delete.
BridgeForgets == {<<"mdb_del", "permanent">>}
=============================================================================
