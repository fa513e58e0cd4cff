------------------------------- MODULE TcCore -------------------------------
(***************************************************************************)
(* tc itself: its options and commands (tc.c), classes (tc_class.c), the   *)
(* monitor, exec (tc_exec.c, e_bpf.c) and the statistics (tc_util.c).      *)
(***************************************************************************)
EXTENDS OptionForms

-----------------------------------------------------------------------------
(* tc_class.c *)

\* sizeof(req), the netlink header and struct tcmsg included.
SizeofReq == 4132

tc_class_modify ==
  Hands(Requests(Parser(<<Once(Word("dev")), Once(Word("classid")), Refused(WordFlag("handle")),
                          Once(As(WordFlag("root"), "parent")), Once(Word("parent")),
                          Once(Calls(Flag("estimator"), "parse_estimator")), Usage,
                          Goes(Positional("kind"), "end")>>,
                        {}, {"dev", "classid", "parent"},
                        <<PutIf(SizeofReq, "TCA_KIND", "kind", {"kind"}),
                          PutIf(SizeofReq, "TCA_RATE", "tc_estimator", {"estimator"})>>), "tcmsg", 4096),
        "kind", "parse_copt", << >>)

\* qdisc and classid select what is printed.
tc_class_list ==
  Parser(<<Once(Word("dev")), Once(Word("qdisc")), Once(Word("classid")), Once(As(WordFlag("root"), "parent")),
           Once(Word("parent")), Usage>>, {}, {"dev", "qdisc", "classid", "parent"}, << >>)

print_class ==
  {Must("TCA_KIND", "kind"), Read("TCA_OPTIONS", "any"), Read("TCA_STATS", "any"), Read("TCA_STATS2", "nested"),
   Read("TCA_XSTATS", "any")}

graph_cls_show ==
  {Read("TCA_KIND", "kind"), Read("TCA_OPTIONS", "any"), Read("TCA_STATS", "any"), Read("TCA_STATS2", "nested")}

do_class ==
  Commands(Cmds(<<"add", "change", "replace", "delete">>, "tc_class_modify")
           \o <<Or(Cmd("list", "tc_class_list"), {"show", "lst"}), Goes(Usage, "return")>>)

-----------------------------------------------------------------------------
(* tc_util.c: a statistic is copied, as much of it as there is. *)

print_tcstats2_attr ==
  {Checked("TCA_STATS_BASIC", "gnet_stats_basic"), Checked("TCA_STATS_QUEUE", "gnet_stats_queue"),
   Checked("TCA_STATS_RATE_EST64", "gnet_stats_rate_est64"), Checked("TCA_STATS_RATE_EST", "gnet_stats_rate_est"),
   Read("TCA_STATS_APP", "any")}

print_tcstats_attr ==
  {Read("TCA_STATS2", "nested"), Checked("TCA_STATS", "tc_stats"), Read("TCA_XSTATS", "any")}

-----------------------------------------------------------------------------
(* tc_monitor.c, tc_exec.c, e_bpf.c *)

do_tcmonitor == Parser(<<Opt("file"), Usage>>, {}, {"file"}, << >>)

\* The words after run are those of the program to run.
e_parse_bpf ==
  Parser(<<Goes(Opt("run"), "end"), Or(Opt("import"), {"imp"})>>, {Need({"run"}, {"import"})}, {"run", "import"}, << >>)

\* The functions of a kind that there is no file for take no options.
parse_noeopt == Parser(<< >>, {}, {}, << >>)
parse_noqopt == Parser(<< >>, {}, {}, << >>)
parse_nofopt == Parser(<< >>, {}, {}, << >>)

\* The parse_copt of a qdisc that has none: an error.
classless == Parser(<< >>, {Need({}, {})}, {}, << >>)

do_exec == Commands(<<Goes(Usage, "return"), Goes(Calls(Positional("kind"), "parse_eopt"), "return")>>)

-----------------------------------------------------------------------------
(* tc.c *)

\* Options begin with a dash.  Another word begins the command, with which
\* do_cmd goes on.
tc_main ==
  LET only(b) == Goes(Unset(b), "return")
  IN Stops(Parser(<<Or(Flag("-stats"), {"-statistics"}), Flag("-details"), Flag("-raw"), Flag("-pretty"), Flag("-graph"),
                    only(Flag("-Version")), Flag("-iec"), only(Flag("-help")), Flag("-force"), Opt("-batch"),
                    Opt("-netns"), Or(Flag("-names"), {"-nm"}), Or(Opt("-cf"), {"-conf"}), Flag("-timestamp"),
                    Flag("-tshort"), Refused(WordFlag("-?"))>>, {}, Every, << >>))

tc_do_cmd ==
  Commands(<<Cmd("qdisc", "do_qdisc"), Cmd("class", "do_class"), Cmd("filter", "do_filter"),
             Cmd("actions", "do_action"), Cmd("monitor", "do_tcmonitor"), Cmd("exec", "do_exec"),
             Goes(Usage, "return")>>)

-----------------------------------------------------------------------------
(* Catalogue *)

TcCoreParsers ==
  [tc_class_modify |-> tc_class_modify, tc_class_list |-> tc_class_list, do_class |-> do_class,
   do_tcmonitor |-> do_tcmonitor, e_parse_bpf |-> e_parse_bpf, parse_noeopt |-> parse_noeopt,
   parse_noqopt |-> parse_noqopt, parse_nofopt |-> parse_nofopt, classless |-> classless, do_exec |-> do_exec,
   tc_main |-> tc_main, tc_do_cmd |-> tc_do_cmd]

TcCorePointers == [parse_eopt |-> {"e_parse_bpf", "parse_noeopt"}]

TcCoreReads == print_class \cup graph_cls_show \cup print_tcstats2_attr \cup print_tcstats_attr
=============================================================================
