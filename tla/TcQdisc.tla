------------------------------ MODULE TcQdisc -------------------------------
(***************************************************************************)
(* The option parsers and printers of the queueing disciplines of tc, one  *)
(* definition per C function (tc/q_*.c, tc_stab.c, m_estimator.c,          *)
(* tc_qdisc.c), in the forms of OptionForms.                               *)
(***************************************************************************)
EXTENDS OptionForms

TcaOptions == Nest(1024, "TCA_OPTIONS")

\* The size of the buffer that tc builds a message in.
TCA_BUF_MAX == 64 * 1024

-----------------------------------------------------------------------------
(* q_openqueue.c, q_fifo.c *)

\* Variant for mutation: the bound leaves room for the struct, not for what is
\* before it.
openqueue_parse_opt_tight ==
  Parser(<<Word("policy"), WordHelp>>, {}, {},
         <<PutIf(896, "TCA_OPTIONS", "tc_oq_qopt", {"policy"})>>)

openqueue_parse_opt ==
  Parser(<<Word("policy"), WordHelp>>, {}, {},
         <<PutIf(1024, "TCA_OPTIONS", "tc_oq_qopt", {"policy"})>>)

fifo_parse_opt ==
  Parser(<<Word("limit"), WordHelp>>, {}, {},
         <<PutIf(1024, "TCA_OPTIONS", "tc_fifo_qopt", {"limit"})>>)

\* Both compare the length of TCA_OPTIONS with the struct they read.
openqueue_print_opt == {Checked("TCA_OPTIONS", "tc_oq_qopt")}
fifo_print_opt == {Checked("TCA_OPTIONS", "tc_fifo_qopt")}

-----------------------------------------------------------------------------
(* q_tbf.c, q_htb.c *)

tbf_parse_opt ==
  Parser(<<Not(Opt("limit"), {"limit", "latency"}),
           Not(Opt("latency"), {"latency", "limit"}),
           Once(OrWord(Opt("burst"), {"buffer", "maxburst"})),
           Once(OrWord(Word("mtu"), {"minburst"})),
           Once(Word("mpu")), Once(Word("rate")), Once(Opt("peakrate")),
           Once(Opt("overhead")), Opt("linklayer"), WordHelp>>,
         {Need({}, {"rate"}), Need({}, {"burst"}), Need({"peakrate"}, {"mtu"}),
          Need({}, {"limit", "latency"})},
         {},
         <<TcaOptions,
           Put(2024, "TCA_TBF_PARMS", "tc_tbf_qopt",
               {"rate", "peakrate", "limit", "latency", "burst", "mtu", "mpu", "overhead", "linklayer"}),
           Put(2124, "TCA_TBF_BURST", "u32", {"burst"}),
           Maybe(PutIf(2124, "TCA_TBF_RATE64", "u64", {"rate"})),
           Put(3024, "TCA_TBF_RTAB", "rtab", {"rate", "mpu", "mtu", "linklayer"}),
           Maybe(PutIf(3124, "TCA_TBF_PRATE64", "u64", {"peakrate"})),
           PutWhen(3224, "TCA_TBF_PBURST", "u32", {"mtu"}, {"peakrate"}),
           PutWhen(4096, "TCA_TBF_PTAB", "rtab", {"peakrate", "mpu", "mtu", "linklayer"}, {"peakrate"})>>)

tbf_print_opt ==
  {Must("TCA_TBF_PARMS", "tc_tbf_qopt"), Checked("TCA_TBF_RATE64", "u64"),
   Checked("TCA_TBF_PRATE64", "u64")}

htb_parse_opt ==
  Parser(<<Opt("r2q"), Opt("default"), Opt("debug"), Opt("direct_qlen")>>, {}, {},
         <<TcaOptions,
           Put(2024, "TCA_HTB_INIT", "tc_htb_glob", {"r2q", "default", "debug"}),
           U32(2024, "TCA_HTB_DIRECT_QLEN", "direct_qlen")>>)

htb_parse_class_opt ==
  Parser(<<Opt("prio"), Opt("mtu"), Opt("mpu"), Opt("overhead"), Opt("linklayer"), Opt("quantum"),
           OrWord(Opt("burst"), {"buffer", "maxburst"}),
           OrWord(Opt("cburst"), {"cbuffer", "cmaxburst"}),
           Once(Word("ceil")), Once(Word("rate")), WordHelp>>,
         {Need({}, {"rate"})}, {},
         <<TcaOptions,
           Maybe(PutIf(1124, "TCA_HTB_RATE64", "u64", {"rate"})),
           Maybe(PutIf(1224, "TCA_HTB_CEIL64", "u64", {"ceil", "rate"})),
           Put(2024, "TCA_HTB_PARMS", "tc_htb_opt",
               {"prio", "mpu", "overhead", "linklayer", "quantum", "burst", "cburst", "ceil", "rate"}),
           Put(3024, "TCA_HTB_RTAB", "rtab", {"rate", "mtu", "mpu", "linklayer"}),
           Put(4024, "TCA_HTB_CTAB", "rtab", {"ceil", "mtu", "mpu", "linklayer"})>>)

htb_print_opt ==
  {Checked("TCA_HTB_PARMS", "tc_htb_opt"), Checked("TCA_HTB_RATE64", "u64"),
   Checked("TCA_HTB_CEIL64", "u64"), Checked("TCA_HTB_INIT", "tc_htb_glob"),
   Checked("TCA_HTB_DIRECT_QLEN", "u32")}

-----------------------------------------------------------------------------
(* q_hfsc.c *)

hfsc_parse_opt ==
  Parser(<<Once(Opt("default")), Help>>, {}, {},
         <<Put(1024, "TCA_OPTIONS", "tc_hfsc_qopt", {"default"})>>)

hfsc_parse_class_opt ==
  LET sc(w, keys) == Sets(Calls(Flag(w), "hfsc_get_sc"), {keys})
  IN Parser(<<sc("rt", {"rsc"}), sc("ls", {"fsc"}), sc("sc", {"rsc", "fsc"}), sc("ul", {"usc"}), Help>>,
            {Need({}, {"rsc", "fsc", "usc"}), Need({"usc"}, {"fsc"})}, {},
            <<TcaOptions,
              PutIf(1024, "TCA_HFSC_RSC", "tc_service_curve", {"rsc"}),
              PutIf(1024, "TCA_HFSC_FSC", "tc_service_curve", {"fsc"}),
              PutIf(1024, "TCA_HFSC_USC", "tc_service_curve", {"usc"})>>)

\* The curve has two forms, m1 d m2 and umax dmax rate, each in this order and
\* with only the last one required.  A curve fills the struct of the caller.
hfsc_get_sc1 == <<Not(Opt("m1"), {"m1", "d"}), Not(Opt("d"), {"d"}), Goes(Opt("m2"), "end")>>
hfsc_get_sc2 == <<Not(Opt("umax"), {"umax", "dmax"}), Not(Opt("dmax"), {"dmax"}), Goes(Opt("rate"), "end")>>

\* The second form is tried when the first one fails.
hfsc_get_sc ==
  LET apart(opts, others) == [i \in DOMAIN opts |-> Not(opts[i], others)]
  IN LeavesLast(Parser(apart(hfsc_get_sc1, {"umax", "dmax"}) \o apart(hfsc_get_sc2, {"m1", "d"}),
                       {Need({}, {"m2", "rate"}), Need({"umax"}, {"dmax"})},
                       {"m1", "d", "m2", "umax", "dmax", "rate"}, << >>))

hfsc_print_opt == {Checked("TCA_OPTIONS", "tc_hfsc_qopt")}

hfsc_print_class_opt ==
  {Checked("TCA_HFSC_RSC", "tc_service_curve"), Checked("TCA_HFSC_FSC", "tc_service_curve"),
   Checked("TCA_HFSC_USC", "tc_service_curve")}

-----------------------------------------------------------------------------
(* q_cbq.c *)

cbq_parse_opt ==
  Parser(<<As(Or(Opt("bandwidth"), {"rate"}), "rate"), Opt("ewma"), Opt("cell"), Opt("avpkt"), Opt("mpu"),
           Opt("allot"), Opt("overhead"), Opt("linklayer"), Help>>,
         {Need({}, {"rate"}), Need({}, {"avpkt"})}, {},
         <<TcaOptions,
           Put(1024, "TCA_CBQ_RATE", "tc_ratespec", {"rate", "cell", "mpu", "overhead", "linklayer"}),
           Put(1024, "TCA_CBQ_LSSOPT", "tc_cbq_lssopt", {"ewma", "avpkt", "rate"}),
           Put(3024, "TCA_CBQ_RTAB", "rtab", {"rate", "cell", "allot", "avpkt", "mpu", "linklayer"})>>)

\* As for class add, whose message has NLM_F_EXCL: the priority defaults to the
\* lowest and the allot to one and a half times avpkt, and the WRR part is sent.
cbq_parse_class_opt ==
  LET idle == {"minburst", "maxburst"}
      lss  == {"minidle", "bounded", "isolated", "ewma", "avpkt"} \cup idle
  IN Parser(<<Opt("rate"), Opt("bandwidth"), Opt("minidle"), Opt("minburst"), Opt("maxburst"),
              Flag("bounded"), As(Flag("borrow"), "bounded"), Flag("isolated"), As(Flag("sharing"), "isolated"),
              Opt("ewma"), Opt("cell"), Opt("prio"), Opt("allot"), Opt("avpkt"), Opt("mpu"), Opt("weight"),
              Opt("split"), Opt("defmap"), Opt("overhead"), Opt("linklayer"), Help>>,
            {Whenever(idle, {"avpkt"}), Whenever(idle, {"bandwidth"}), Whenever(idle, {"rate"}),
             Need({}, {"allot", "avpkt"}), Need({"prio"}, {"allot", "rate"})},
            {},
            <<TcaOptions,
              PutWhen(1024, "TCA_CBQ_LSSOPT", "tc_cbq_lssopt", lss \cup {"bandwidth", "rate"}, lss),
              Put(1024, "TCA_CBQ_WRROPT", "tc_cbq_wrropt", {"prio", "weight", "allot", "avpkt", "rate"}),
              PutIf(1024, "TCA_CBQ_FOPT", "tc_cbq_fopt", {"split", "defmap"}),
              PutWhen(1024, "TCA_CBQ_RATE", "tc_ratespec", {"rate", "mpu", "overhead", "cell", "linklayer"}, {"rate"}),
              PutWhen(3024, "TCA_CBQ_RTAB", "rtab", {"rate", "allot", "cell", "mpu", "linklayer"}, {"rate"})>>)

cbq_print_opt ==
  {Checked("TCA_CBQ_RATE", "tc_ratespec"), Checked("TCA_CBQ_LSSOPT", "tc_cbq_lssopt"),
   Checked("TCA_CBQ_WRROPT", "tc_cbq_wrropt"), Checked("TCA_CBQ_FOPT", "tc_cbq_fopt"),
   Checked("TCA_CBQ_OVL_STRATEGY", "tc_cbq_ovl")}

cbq_print_xstats == {Checked("TCA_XSTATS", "tc_cbq_xstats")}

-----------------------------------------------------------------------------
(* q_codel.c, q_fq_codel.c, q_fq.c, q_hhf.c, q_pie.c *)

codel_parse_opt ==
  Parser(<<Word("limit"), Word("target"), Word("ce_threshold"), Word("interval"),
           WordFlag("ecn"), As(WordFlag("noecn"), "ecn"), WordHelp>>, {}, {},
         <<TcaOptions,
           U32(1024, "TCA_CODEL_LIMIT", "limit"), U32(1024, "TCA_CODEL_INTERVAL", "interval"),
           U32(1024, "TCA_CODEL_TARGET", "target"), U32(1024, "TCA_CODEL_ECN", "ecn"),
           U32(1024, "TCA_CODEL_CE_THRESHOLD", "ce_threshold")>>)

codel_print_opt ==
  {Checked(a, "u32") : a \in {"TCA_CODEL_LIMIT", "TCA_CODEL_TARGET", "TCA_CODEL_CE_THRESHOLD",
                              "TCA_CODEL_INTERVAL", "TCA_CODEL_ECN"}}

\* Statistics of an older kernel are shorter: the part that is there is copied.
codel_print_xstats == {Checked("TCA_XSTATS", "tc_codel_xstats")}

fq_codel_parse_opt ==
  Parser(<<Word("limit"), Word("flows"), Word("quantum"), Word("target"), Word("ce_threshold"),
           Word("interval"), WordFlag("ecn"), As(WordFlag("noecn"), "ecn"), WordHelp>>, {}, {},
         <<TcaOptions,
           U32(1024, "TCA_FQ_CODEL_LIMIT", "limit"), U32(1024, "TCA_FQ_CODEL_FLOWS", "flows"),
           U32(1024, "TCA_FQ_CODEL_QUANTUM", "quantum"), U32(1024, "TCA_FQ_CODEL_INTERVAL", "interval"),
           U32(1024, "TCA_FQ_CODEL_TARGET", "target"), U32(1024, "TCA_FQ_CODEL_ECN", "ecn"),
           U32(1024, "TCA_FQ_CODEL_CE_THRESHOLD", "ce_threshold")>>)

fq_codel_print_opt ==
  {Checked(a, "u32") : a \in {"TCA_FQ_CODEL_LIMIT", "TCA_FQ_CODEL_FLOWS", "TCA_FQ_CODEL_QUANTUM",
                              "TCA_FQ_CODEL_TARGET", "TCA_FQ_CODEL_CE_THRESHOLD",
                              "TCA_FQ_CODEL_INTERVAL", "TCA_FQ_CODEL_ECN"}}

fq_codel_print_xstats == {Checked("TCA_XSTATS", "tc_fq_codel_xstats")}

fq_parse_opt ==
  Parser(<<Word("limit"), Word("flow_limit"), Word("buckets"), Word("maxrate"), Word("defrate"),
           Word("quantum"), Word("initial_quantum"), Word("orphan_mask"), Word("refill_delay"),
           WordFlag("pacing"), As(WordFlag("nopacing"), "pacing"), WordHelp>>, {}, {},
         <<TcaOptions,
           U32(1024, "TCA_FQ_BUCKETS_LOG", "buckets"), U32(1024, "TCA_FQ_PLIMIT", "limit"),
           U32(1024, "TCA_FQ_FLOW_PLIMIT", "flow_limit"), U32(1024, "TCA_FQ_QUANTUM", "quantum"),
           U32(1024, "TCA_FQ_INITIAL_QUANTUM", "initial_quantum"), U32(1024, "TCA_FQ_RATE_ENABLE", "pacing"),
           U32(1024, "TCA_FQ_FLOW_MAX_RATE", "maxrate"), U32(1024, "TCA_FQ_FLOW_DEFAULT_RATE", "defrate"),
           U32(1024, "TCA_FQ_FLOW_REFILL_DELAY", "refill_delay"),
           U32(1024, "TCA_FQ_ORPHAN_MASK", "orphan_mask")>>)

fq_print_opt ==
  {Checked(a, "u32") : a \in {"TCA_FQ_PLIMIT", "TCA_FQ_FLOW_PLIMIT", "TCA_FQ_BUCKETS_LOG", "TCA_FQ_ORPHAN_MASK",
                              "TCA_FQ_RATE_ENABLE", "TCA_FQ_QUANTUM", "TCA_FQ_INITIAL_QUANTUM",
                              "TCA_FQ_FLOW_MAX_RATE", "TCA_FQ_FLOW_DEFAULT_RATE", "TCA_FQ_FLOW_REFILL_DELAY"}}

fq_print_xstats == {Checked("TCA_XSTATS", "tc_fq_qd_stats")}

hhf_parse_opt ==
  Parser(<<Word("limit"), Word("quantum"), Word("hh_limit"), Word("reset_timeout"), Word("admit_bytes"),
           Word("evict_timeout"), Word("non_hh_weight"), WordHelp>>, {}, {},
         <<TcaOptions,
           U32(1024, "TCA_HHF_BACKLOG_LIMIT", "limit"), U32(1024, "TCA_HHF_QUANTUM", "quantum"),
           U32(1024, "TCA_HHF_HH_FLOWS_LIMIT", "hh_limit"), U32(1024, "TCA_HHF_RESET_TIMEOUT", "reset_timeout"),
           U32(1024, "TCA_HHF_ADMIT_BYTES", "admit_bytes"), U32(1024, "TCA_HHF_EVICT_TIMEOUT", "evict_timeout"),
           U32(1024, "TCA_HHF_NON_HH_WEIGHT", "non_hh_weight")>>)

hhf_print_opt ==
  {Checked(a, "u32") : a \in {"TCA_HHF_BACKLOG_LIMIT", "TCA_HHF_QUANTUM", "TCA_HHF_HH_FLOWS_LIMIT",
                              "TCA_HHF_RESET_TIMEOUT", "TCA_HHF_ADMIT_BYTES", "TCA_HHF_EVICT_TIMEOUT",
                              "TCA_HHF_NON_HH_WEIGHT"}}

hhf_print_xstats == {Checked("TCA_XSTATS", "tc_hhf_xstats")}

pie_parse_opt ==
  Parser(<<Word("limit"), Word("target"), Word("tupdate"), Word("alpha"), Word("beta"),
           WordFlag("ecn"), As(WordFlag("noecn"), "ecn"),
           WordFlag("bytemode"), As(WordFlag("nobytemode"), "bytemode"), WordHelp>>, {}, {},
         <<TcaOptions,
           U32(1024, "TCA_PIE_LIMIT", "limit"), U32(1024, "TCA_PIE_TUPDATE", "tupdate"),
           U32(1024, "TCA_PIE_TARGET", "target"), U32(1024, "TCA_PIE_ALPHA", "alpha"),
           U32(1024, "TCA_PIE_BETA", "beta"), U32(1024, "TCA_PIE_ECN", "ecn"),
           U32(1024, "TCA_PIE_BYTEMODE", "bytemode")>>)

pie_print_opt ==
  {Checked(a, "u32") : a \in {"TCA_PIE_LIMIT", "TCA_PIE_TARGET", "TCA_PIE_TUPDATE", "TCA_PIE_ALPHA",
                              "TCA_PIE_BETA", "TCA_PIE_ECN", "TCA_PIE_BYTEMODE"}}

pie_print_xstats == {Checked("TCA_XSTATS", "tc_pie_xstats")}

-----------------------------------------------------------------------------
(* q_red.c, q_choke.c, q_gred.c, q_sfb.c, q_sfq.c *)

red_parse_opt ==
  Parser(<<Word("limit"), Word("min"), Word("max"), Word("burst"), Word("avpkt"), Word("probability"),
           Word("bandwidth"), WordFlag("ecn"), WordFlag("harddrop"),
           WordFlag("adaptative"), As(WordFlag("adaptive"), "adaptative"), WordHelp>>,
         {Need({}, {"limit"}), Need({}, {"avpkt"})}, {},
         <<TcaOptions,
           Put(1024, "TCA_RED_PARMS", "tc_red_qopt",
               {"limit", "min", "max", "burst", "avpkt", "probability", "bandwidth", "ecn", "harddrop", "adaptative"}),
           Put(1024, "TCA_RED_STAB", "stab256", {"avpkt", "bandwidth"}),
           Put(1024, "TCA_RED_MAX_P", "u32", {"probability"})>>)

red_print_opt == {Must("TCA_RED_PARMS", "tc_red_qopt"), Checked("TCA_RED_MAX_P", "u32")}
red_print_xstats == {Checked("TCA_XSTATS", "tc_red_xstats")}

choke_parse_opt ==
  Parser(<<Word("limit"), Word("bandwidth"), WordFlag("ecn"), Word("min"), Word("max"), Word("burst"),
           Word("avpkt"), Word("probability"), WordHelp>>,
         {Need({}, {"bandwidth"}), Need({}, {"limit"})}, {},
         <<TcaOptions,
           Put(1024, "TCA_CHOKE_PARMS", "tc_red_qopt",
               {"limit", "bandwidth", "ecn", "min", "max", "burst", "avpkt", "probability"}),
           Put(1024, "TCA_CHOKE_STAB", "stab256", {"avpkt", "bandwidth"}),
           Put(1024, "TCA_CHOKE_MAX_P", "u32", {"probability"})>>)

choke_print_opt == {Must("TCA_CHOKE_PARMS", "tc_red_qopt"), Checked("TCA_CHOKE_MAX_P", "u32")}
choke_print_xstats == {Checked("TCA_XSTATS", "tc_choke_xstats")}

init_gred ==
  Parser(<<As(OrWord(Word("vqs"), {"DPs"}), "DPs"), After(Word("default"), {"DPs"}), WordFlag("grio"),
           Word("limit"), WordHelp>>,
         {Need({}, {"DPs"}), Need({}, {"default"})}, {},
         <<TcaOptions,
           Put(1024, "TCA_GRED_DPS", "tc_gred_sopt", {"DPs", "default", "grio"}),
           U32(1024, "TCA_GRED_LIMIT", "limit")>>)

gred_parse_opt ==
  LET keys == {"limit", "min", "max", "DP", "burst", "avpkt", "probability", "prio", "bandwidth"}
  IN Parser(<<Word("limit"), Goes(Not(Calls(Unset(WordFlag("setup")), "init_gred"), keys), "return"),
              Word("min"), Word("max"), As(OrWord(Word("vq"), {"DP"}), "DP"), Word("burst"),
              Word("avpkt"), Word("probability"), Word("prio"), Word("bandwidth"), WordHelp>>,
            {Need({}, {"DP"}), Need({}, {"limit"}), Need({}, {"min"}), Need({}, {"max"}), Need({}, {"avpkt"})}, {},
            <<TcaOptions,
              Put(1024, "TCA_GRED_PARMS", "tc_gred_qopt", keys),
              Put(1024, "TCA_GRED_STAB", "stab256", {"avpkt", "bandwidth"}),
              Put(1024, "TCA_GRED_MAX_P", "u32", {"probability"})>>)

\* The kernel sends an array of MAX_DPs parameters and limits.  TCA_GRED_DPS is
\* taken to be there when TCA_GRED_PARMS is.
gred_print_opt ==
  {Must("TCA_GRED_PARMS", "tc_gred_qopts"), Checked("TCA_GRED_MAX_P", "u32s"),
   Checked("TCA_GRED_LIMIT", "u32"), Bare("TCA_GRED_DPS", "tc_gred_sopt")}

sfb_parse_opt ==
  LET keys == {"rehash", "db", "limit", "max", "target", "increment", "decrement", "penalty_rate", "penalty_burst"}
  IN Parser(<<Word("rehash"), Word("db"), Word("limit"), Word("max"), Word("target"), Word("increment"),
              Word("decrement"), Word("penalty_rate"), Word("penalty_burst")>>, {}, {},
            <<TcaOptions, Put(1024, "TCA_SFB_PARMS", "tc_sfb_qopt", keys)>>)

sfb_print_opt == {Must("TCA_SFB_PARMS", "tc_sfb_qopt")}
sfb_print_xstats == {Checked("TCA_XSTATS", "tc_sfb_xstats")}

sfq_parse_opt ==
  LET ok  == {"quantum", "perturb", "limit", "divisor", "flows", "depth", "headdrop"}
      red == {"redflowlimit", "min", "max", "burst", "avpkt", "probability", "ecn", "harddrop"}
  IN Parser(<<Word("quantum"), Word("perturb"), Word("limit"), Word("divisor"), Word("flows"), Word("depth"),
              WordFlag("headdrop"), Word("redflowlimit"), Word("min"), Word("max"), Word("burst"),
              Word("avpkt"), Word("probability"), WordFlag("ecn"), WordFlag("harddrop"), WordHelp>>,
            {Whenever(red, {"redflowlimit"})}, {},
            <<PutIf(1024, "TCA_OPTIONS", "tc_sfq_qopt_v1", ok \cup red)>>)

\* The older struct is enough; the newer one is read when it is there.
sfq_print_opt == {Checked("TCA_OPTIONS", "tc_sfq_qopt"), Checked("TCA_OPTIONS", "tc_sfq_qopt_v1")}
sfq_print_xstats == {Checked("TCA_XSTATS", "tc_sfq_xstats")}

hfsc_print_xstats == {Checked("TCA_XSTATS", "tc_hfsc_stats")}
htb_print_xstats == {Checked("TCA_XSTATS", "tc_htb_xstats")}

-----------------------------------------------------------------------------
(* q_netem.c *)

netem_parse_opt ==
  LET loss == {"loss", "gi", "ge"}
  IN [Parser(<<Opt("limit"),
               Sets(Or(Opt("latency"), {"delay"}),
                    {{"latency"}, {"latency", "jitter"}, {"latency", "jitter", "delay_corr"}}),
               Not(Sets(Or(Opt("loss"), {"drop"}), {{"loss"}, {"loss", "loss_corr"}, {"gi"}, {"ge"}}), loss),
               Flag("ecn"),
               Sets(Opt("reorder"), {{"reorder"}, {"reorder", "reorder_corr"}}),
               Sets(Opt("corrupt"), {{"corrupt"}, {"corrupt", "corrupt_corr"}}),
               Opt("gap"),
               Sets(Opt("duplicate"), {{"duplicate"}, {"duplicate", "dup_corr"}}),
               Opt("distribution"),
               Sets(Opt("rate"), {{"rate"}, {"rate", "packet_overhead"}, {"rate", "packet_overhead", "cell_size"},
                                  {"rate", "packet_overhead", "cell_size", "cell_overhead"}}),
               WordHelp>>,
             {Need({"reorder"}, {"latency"}), Need({"gap"}, {"reorder"}), Need({"ecn"}, loss),
              Need({"distribution"}, {"latency"}), Need({"distribution"}, {"jitter"})},
             {},
             <<Put(1024, "TCA_OPTIONS", "tc_netem_qopt", {"limit", "latency", "jitter", "loss", "gap", "duplicate"}),
               PutWhen(1024, "TCA_NETEM_CORR", "tc_netem_corr", {"delay_corr", "loss_corr", "dup_corr"},
                       {"delay_corr", "loss_corr", "reorder_corr", "corrupt_corr"}),
               PutWhen(1024, "TCA_NETEM_REORDER", "tc_netem_reorder", {"reorder", "reorder_corr"}, {"reorder"}),
               U32(1024, "TCA_NETEM_ECN", "ecn"),
               PutWhen(1024, "TCA_NETEM_CORRUPT", "tc_netem_corrupt", {"corrupt", "corrupt_corr"}, {"corrupt"}),
               PutWhen(1024, "TCA_NETEM_LOSS", "nested", {}, {"gi", "ge"}),
               PutIf(1024, "NETEM_LOSS_GI", "tc_netem_gimodel", {"gi"}),
               PutIf(1024, "NETEM_LOSS_GE", "tc_netem_gemodel", {"ge"}),
               Maybe(PutIf(1024, "TCA_NETEM_RATE64", "u64", {"rate"})),
               PutWhen(1024, "TCA_NETEM_RATE", "tc_netem_rate",
                       {"rate", "packet_overhead", "cell_size", "cell_overhead"}, {"rate"}),
               PutIf(32768, "TCA_NETEM_DELAY_DIST", "dist", {"distribution"})>>)
        EXCEPT !.checks = TRUE]

netem_print_opt ==
  {Checked("TCA_OPTIONS", "tc_netem_qopt"), Checked("TCA_NETEM_CORR", "tc_netem_corr"),
   Checked("TCA_NETEM_REORDER", "tc_netem_reorder"), Checked("TCA_NETEM_CORRUPT", "tc_netem_corrupt"),
   Read("TCA_NETEM_LOSS", "nested"), Read("NETEM_LOSS_GI", "tc_netem_gimodel"),
   Read("NETEM_LOSS_GE", "tc_netem_gemodel"), Checked("TCA_NETEM_RATE", "tc_netem_rate"),
   Checked("TCA_NETEM_ECN", "u32"), Checked("TCA_NETEM_RATE64", "u64")}

-----------------------------------------------------------------------------
(* q_prio.c, q_rr.c, q_mqprio.c, q_multiq.c, q_ingress.c *)

\* A number is a band of the priority map, once priomap has been given.
prio_parse_opt ==
  Parser(<<Word("bands"), Once(WordFlag("priomap")), WordFlag("multiqueue"), WordHelp,
           After(Positional("band"), {"priomap"})>>, {}, {},
         <<Put(1024, "TCA_OPTIONS", "tc_prio_qopt", {"bands", "priomap", "band"}),
           PutIf(1024, "TCA_PRIO_MQ", "flag", {"multiqueue"})>>)

prio_print_opt == {Checked("TCA_OPTIONS", "tc_prio_qopt"), Read("TCA_PRIO_MQ", "u8")}

rr_parse_opt ==
  Parser(<<Word("bands"), Once(WordFlag("priomap")), WordHelp, WordFlag("multiqueue"),
           After(Positional("band"), {"priomap"})>>, {}, {},
         <<Put(1024, "TCA_OPTIONS", "tc_prio_qopt", {"bands", "priomap", "band"}),
           PutIf(1024, "TCA_PRIO_MQ", "flag", {"multiqueue"})>>)

rr_print_opt == {Checked("TCA_OPTIONS", "tc_prio_qopt"), Read("TCA_PRIO_MQ", "u8")}

\* map and queues take as many numbers as follow, perhaps none.
mqprio_parse_opt ==
  Parser(<<Word("num_tc"), WordFlag("map"), WordFlag("queues"), Word("hw"), WordHelp>>, {}, {},
         <<Put(1024, "TCA_OPTIONS", "tc_mqprio_qopt", {"num_tc", "map", "queues", "hw"})>>)

mqprio_print_opt == {Read("TCA_OPTIONS", "tc_mqprio_qopt")}

\* Any word is an error.
multiq_parse_opt == Parser(<<WordHelp>>, {}, {}, <<Put(1024, "TCA_OPTIONS", "tc_multiq_qopt", {})>>)
multiq_print_opt == {Checked("TCA_OPTIONS", "tc_multiq_qopt")}

\* The handle is skipped: tc_qdisc_modify has set it.
ingress_parse_opt == Parser(<<Unset(Word("handle"))>>, {}, {}, <<TcaOptions>>)

-----------------------------------------------------------------------------
(* q_drr.c, q_qfq.c, q_dsmark.c, q_atm.c *)

drr_parse_opt == Parser(<<WordHelp>>, {}, {}, << >>)
qfq_parse_opt == Parser(<<Help>>, {}, {}, << >>)
atm_parse_opt == Parser(<< >>, {}, {}, << >>)

\* These three class parsers add their attributes while they read the line; the
\* nest that Begins adds comes first.
drr_parse_class_opt ==
  Begins(Parser(<<Sends(Word("quantum"), <<Put(1024, "TCA_DRR_QUANTUM", "u32", {"quantum"})>>), WordHelp>>,
              {}, {}, << >>),
         <<TcaOptions>>)

qfq_parse_class_opt ==
  Begins(Parser(<<Sends(Opt("weight"), <<Put(4096, "TCA_QFQ_WEIGHT", "u32", {"weight"})>>),
                Sends(Opt("maxpkt"), <<Put(4096, "TCA_QFQ_LMAX", "u32", {"maxpkt"})>>), WordHelp>>,
              {}, {}, << >>),
         <<Nest(4096, "TCA_OPTIONS")>>)

dsmark_parse_class_opt ==
  Begins(Parser(<<Sends(Word("mask"), <<Put(1024, "TCA_DSMARK_MASK", "u8", {"mask"})>>),
                Sends(Word("value"), <<Put(1024, "TCA_DSMARK_VALUE", "u8", {"value"})>>)>>,
              {}, {}, << >>),
         <<TcaOptions>>)

drr_print_opt == {Read("TCA_DRR_QUANTUM", "u32")}
drr_print_xstats == {Checked("TCA_XSTATS", "tc_drr_stats")}
qfq_print_opt == {Read("TCA_QFQ_WEIGHT", "u32"), Read("TCA_QFQ_LMAX", "u32")}

dsmark_parse_opt ==
  Parser(<<Word("indices"), As(OrWord(Word("default_index"), {"default"}), "default"), WordFlag("set_tc_index")>>,
         {Need({}, {"indices"})}, {},
         <<TcaOptions,
           Put(1024, "TCA_DSMARK_INDICES", "u16", {"indices"}),
           PutIf(1024, "TCA_DSMARK_DEFAULT_INDEX", "u16", {"default"}),
           PutIf(1024, "TCA_DSMARK_SET_TC_INDEX", "flag", {"set_tc_index"})>>)

dsmark_print_opt ==
  {Checked("TCA_DSMARK_MASK", "u8"), Checked("TCA_DSMARK_VALUE", "u8"), Checked("TCA_DSMARK_INDICES", "u16"),
   Checked("TCA_DSMARK_DEFAULT_INDEX", "u16"), Read("TCA_DSMARK_SET_TC_INDEX", "flag")}

\* The address, the quality of service, the buffer and the access point go to
\* the socket whose descriptor is sent.  (excess clp is 0, which is not sent.)
atm_parse_class_opt ==
  Parser(<<As(Word("pvc"), "addr"), Sets(Word("svc"), {{"addr", "svc"}}), Word("qos"), Word("sndbuf"),
           After(Word("sap"), {"svc"}), Word("hdr"), Sets(Word("excess"), {{"excess"}, {}}), WordFlag("clip")>>,
         {Need({}, {"addr"})}, {"addr", "svc", "qos", "sndbuf", "sap", "clip"},
         <<TcaOptions,
           Put(1024, "TCA_ATM_FD", "u32", {"addr"}),
           U32(1024, "TCA_ATM_EXCESS", "excess"),
           PutIf(1024, "TCA_ATM_HDR", "atm_hdr", {"hdr"})>>)

atm_print_opt ==
  {Checked("TCA_ATM_ADDR", "sockaddr_atmpvc"), Checked("TCA_ATM_HDR", "atm_hdr"),
   Checked("TCA_ATM_EXCESS", "u32"), Checked("TCA_ATM_STATE", "u32")}

-----------------------------------------------------------------------------
(* tc_stab.c, m_estimator.c, tc_qdisc.c *)

check_size_table_opts == Need({}, {"linklayer", "mpu", "overhead"})

\* It stops at the first word that it does not know, and its caller goes on
\* with that word.
parse_size_table ==
  Stops(Parser(<<Once(Opt("mtu")), Once(Opt("mpu")), Once(Opt("overhead")), Once(Opt("tsize")), Once(Opt("linklayer"))>>,
               {check_size_table_opts}, {"mtu", "mpu", "overhead", "tsize", "linklayer"}, << >>))

print_size_table == {Checked("TCA_STAB_BASE", "tc_sizespec")}

\* Two times follow; it stops on the second one, and its caller goes on with
\* the word after.
parse_estimator ==
  LeavesLast(Parser(<<Goes(Positional("ewma_log"), "end")>>, {Need({}, {"ewma_log"})}, {"ewma_log"}, << >>))

\* The kind ends the options of the qdisc itself; those of the kind follow.  The
\* bound is the size of the request, its buffer and the two headers.
tc_qdisc_modify ==
  LET size == 36 + TCA_BUF_MAX
  IN Hands(Requests(Parser(<<Once(Word("dev")), Once(Word("handle")),
                             Once(As(WordFlag("root"), "parent")),
                             Goes(Not(Sets(WordFlag("ingress"), {{"parent", "handle", "kind"}}), {"parent"}), "end"),
                             Once(Word("parent")),
                             Once(Calls(Flag("estimator"), "parse_estimator")),
                             Goes(Calls(Flag("stab"), "parse_size_table"), "here"),
                             Usage,
                             Goes(Positional("kind"), "end")>>,
                           {}, {"dev", "handle", "parent"},
                           <<PutIf(size, "TCA_KIND", "kind", {"kind"}),
                             PutIf(size, "TCA_RATE", "tc_estimator", {"estimator"})>>), "tcmsg", TCA_BUF_MAX),
           "kind", "parse_qopt",
           <<PutWhen(size, "TCA_STAB", "nested", {}, {"stab"}),
             PutIf(size, "TCA_STAB_BASE", "tc_sizespec", {"stab"}),
             Maybe(PutIf(size, "TCA_STAB_DATA", "stab_data", {"stab"}))>>)

print_qdisc ==
  {Must("TCA_KIND", "kind"), Read("TCA_OPTIONS", "any"), Read("TCA_STAB", "nested"),
   Read("TCA_STATS", "any"), Read("TCA_STATS2", "nested"), Read("TCA_XSTATS", "any")}

tc_qdisc_list == Parser(<<Word("dev"), As(WordFlag("ingress"), "parent"), Usage>>, {}, {"dev", "parent"}, << >>)

do_qdisc ==
  Commands(Cmds(<<"add", "change", "replace", "link", "delete">>, "tc_qdisc_modify")
           \o <<Or(Cmd("list", "tc_qdisc_list"), {"show", "lst"}), Goes(Usage, "return")>>)

-----------------------------------------------------------------------------
(* Catalogue *)

TcQdiscParsers ==
  [openqueue_parse_opt |-> openqueue_parse_opt, fifo_parse_opt |-> fifo_parse_opt,
   tbf_parse_opt |-> tbf_parse_opt, htb_parse_opt |-> htb_parse_opt, hfsc_parse_opt |-> hfsc_parse_opt,
   cbq_parse_opt |-> cbq_parse_opt, codel_parse_opt |-> codel_parse_opt,
   fq_codel_parse_opt |-> fq_codel_parse_opt, fq_parse_opt |-> fq_parse_opt, hhf_parse_opt |-> hhf_parse_opt,
   pie_parse_opt |-> pie_parse_opt, red_parse_opt |-> red_parse_opt, choke_parse_opt |-> choke_parse_opt,
   gred_parse_opt |-> gred_parse_opt, sfb_parse_opt |-> sfb_parse_opt, sfq_parse_opt |-> sfq_parse_opt,
   netem_parse_opt |-> netem_parse_opt, prio_parse_opt |-> prio_parse_opt, rr_parse_opt |-> rr_parse_opt,
   mqprio_parse_opt |-> mqprio_parse_opt, multiq_parse_opt |-> multiq_parse_opt,
   ingress_parse_opt |-> ingress_parse_opt, drr_parse_opt |-> drr_parse_opt, qfq_parse_opt |-> qfq_parse_opt,
   dsmark_parse_opt |-> dsmark_parse_opt, atm_parse_opt |-> atm_parse_opt,
   htb_parse_class_opt |-> htb_parse_class_opt, hfsc_parse_class_opt |-> hfsc_parse_class_opt,
   cbq_parse_class_opt |-> cbq_parse_class_opt, drr_parse_class_opt |-> drr_parse_class_opt,
   qfq_parse_class_opt |-> qfq_parse_class_opt, dsmark_parse_class_opt |-> dsmark_parse_class_opt,
   atm_parse_class_opt |-> atm_parse_class_opt, init_gred |-> init_gred, hfsc_get_sc |-> hfsc_get_sc,
   parse_size_table |-> parse_size_table, parse_estimator |-> parse_estimator,
   tc_qdisc_modify |-> tc_qdisc_modify, tc_qdisc_list |-> tc_qdisc_list, do_qdisc |-> do_qdisc]

\* parse_qopt and parse_copt are function pointers of a qdisc_util.
TcQdiscPointers ==
  [parse_qopt |-> {"openqueue_parse_opt", "fifo_parse_opt", "tbf_parse_opt", "htb_parse_opt",
                   "hfsc_parse_opt", "cbq_parse_opt", "codel_parse_opt", "fq_codel_parse_opt",
                   "fq_parse_opt", "hhf_parse_opt", "pie_parse_opt", "red_parse_opt", "choke_parse_opt",
                   "gred_parse_opt", "sfb_parse_opt", "sfq_parse_opt", "netem_parse_opt", "prio_parse_opt",
                   "rr_parse_opt", "mqprio_parse_opt", "multiq_parse_opt", "ingress_parse_opt",
                   "drr_parse_opt", "qfq_parse_opt", "dsmark_parse_opt", "atm_parse_opt",
                   "parse_noqopt"},
   parse_copt |-> {"htb_parse_class_opt", "hfsc_parse_class_opt", "cbq_parse_class_opt",
                   "drr_parse_class_opt", "qfq_parse_class_opt", "dsmark_parse_class_opt",
                   "atm_parse_class_opt", "classless"}]

TcQdiscReads ==
  UNION {openqueue_print_opt, fifo_print_opt, tbf_print_opt, htb_print_opt, hfsc_print_opt,
         hfsc_print_class_opt, cbq_print_opt, cbq_print_xstats, codel_print_opt, codel_print_xstats,
         fq_codel_print_opt, fq_codel_print_xstats, fq_print_opt, fq_print_xstats, hhf_print_opt,
         hhf_print_xstats, pie_print_opt, pie_print_xstats, red_print_opt, red_print_xstats, choke_print_opt,
         choke_print_xstats, gred_print_opt, sfb_print_opt, sfb_print_xstats, sfq_print_opt,
         sfq_print_xstats, hfsc_print_xstats, htb_print_xstats, netem_print_opt, prio_print_opt,
         rr_print_opt, mqprio_print_opt, multiq_print_opt, drr_print_opt, drr_print_xstats, qfq_print_opt,
         dsmark_print_opt, atm_print_opt, print_size_table, print_qdisc}
=============================================================================
