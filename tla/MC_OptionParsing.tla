-------------------------- MODULE MC_OptionParsing --------------------------
(***************************************************************************)
(* The parsers of tc, ip, rtmon, bridge and genl, for TLC.                 *)
(***************************************************************************)
EXTENDS OptionParsing, TcCore, TcQdisc, TcAction, IpAddress, IpTunnel, IpRoute, IpXfrm, Bridge, WireTypes, TLC

AllParsers ==
  TcCoreParsers @@ TcQdiscParsers @@ TcFilterParsers @@ TcActionParsers @@ IpLinkParsers @@ IpAddressParsers
  @@ IpTunnelParsers @@ IpRouteParsers @@ IpXfrmParsers @@ BridgeParsers
AllPointers ==
  TcCorePointers @@ TcQdiscPointers @@ TcFilterPointers @@ TcActionPointers @@ IpLinkPointers
  @@ IpRoutePointers @@ BridgePointers @@ [link_parse_opt |-> IpLinkKinds \cup IpTunnelKinds]
AllReads == TcCoreReads \cup TcQdiscReads \cup TcFilterReads \cup TcActionReads \cup IpLinkReads \cup IpAddressReads
  \cup IpTunnelReads \cup IpRouteReads \cup IpXfrmReads \cup BridgeReads
AllKnown ==
  [shadows |-> IpRouteShadows \cup IpXfrmShadows,
   drops   |-> TcFilterDrops \cup TcActionDrops \cup IpXfrmDrops,
   forgets |-> IpLinkForgets \cup IpAddressForgets \cup IpTunnelForgets \cup IpXfrmForgets \cup BridgeForgets,
   narrow  |-> TcFilterNarrow \cup IpTunnelNarrow,
   overruns |-> IpRouteOverruns]

MCParsers  == AllParsers
MCPointers == AllPointers
MCReads    == AllReads
MCKnown    == AllKnown

MCPrograms ==
  {"tc_main", "tc_do_cmd", "ip_main", "ip_do_cmd", "rtmon_main", "bridge_main", "bridge_do_cmd", "genl_main", "genl_do_cmd"}
=============================================================================
