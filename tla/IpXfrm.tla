------------------------------- MODULE IpXfrm -------------------------------
(***************************************************************************)
(* IPsec: ip xfrm state, ip xfrm policy and ip xfrm monitor (ipxfrm.c,     *)
(* xfrm_state.c, xfrm_policy.c, xfrm_monitor.c).                           *)
(***************************************************************************)
EXTENDS OptionForms

-----------------------------------------------------------------------------
(* Parts of a line *)

\* Variant for mutation: a part that does not step back.
StaysThere(opts, need) == Stops(Parser(opts, need, Every, << >>))

\* These stop at a word that they do not know and step back, so that they leave
\* the line on the last word they used.
StepsBack(opts, need) == LeavesLast(Stops(Parser(opts, need, Every, << >>)))

Words(ws) == [i \in DOMAIN ws |-> Word(ws[i])]
Flags(ws) == [i \in DOMAIN ws |-> WordFlag(ws[i])]

\* A branch for any word that begins a part is the last else of the caller; the
\* part looks at the word again.  Another word is refused there.
IdWords     == {"src", "dst", "proto", "spi"}
UpspecWords == {"proto", "sport", "dport", "type", "code", "key"}
SelWords    == {"src", "dst", "dev"} \cup UpspecWords
Begin(words, key, f) == Calls([WordFlag(key) EXCEPT !.exact = words], f)

\* A mask of zero is no mark.
xfrm_parse_mark == Sets(Word("mark"), {{"mark"}, {}})

xfrm_id_parse(loose) ==
  StepsBack(Words(<<"src", "dst", "proto", "spi">>), {Need({}, IF loose THEN IdWords ELSE {"proto"})})

\* That ports, type and code or key go with the protocol is a matter of values.
xfrm_selector_upspec_parse ==
  StepsBack(Words(<<"proto", "sport", "dport", "type", "code", "key">>), {Need({}, UpspecWords)})

xfrm_selector_parse ==
  StepsBack(Words(<<"src", "dst", "dev">>)
       \o <<Until(Begin(UpspecWords, "upspec", "xfrm_selector_upspec_parse"), {"upspec"})>>,
       {Need({}, {"src", "dst", "dev", "upspec"})})

\* One limit.
xfrm_lifetime_cfg_parse ==
  LET words == <<"time-soft", "time-hard", "time-use-soft", "time-use-hard", "byte-soft", "byte-hard", "packet-soft",
                 "packet-hard">>
  IN LeavesLast(Parser([i \in DOMAIN words |-> Goes(As(Word(words[i]), "limit"), "end")],
                       {Need({}, {"limit"})}, Every, << >>))

\* A number, or names.
xfrm_policy_flag_parse == StepsBack(Flags(<<"localok", "icmp">>), {})
xfrm_state_flag_parse ==
  StepsBack(Flags(<<"noecn", "decap-dscp", "nopmtudisc", "wildrecv", "icmp", "af-unspec", "align4", "esn">>), {})
xfrm_state_extra_flag_parse == StepsBack(Flags(<<"dont-encap-dscp">>), {})

\* Until the id is given, any other word is taken for one and refused.
xfrm_tmpl_parse ==
  StepsBack(Words(<<"mode", "reqid", "level">>)
       \o <<Until(Begin(IdWords, "id", "xfrm_id_parse"), {"id"}), Until(Refused(Unset(Positional("other"))), {"id"})>>,
       {Need({}, {"mode", "reqid", "level", "id"})})

-----------------------------------------------------------------------------
(* ip xfrm policy *)

RTA_BUF_SIZE == 2048

\* The buffer of a request: what its attributes may take, and all of it.
Sizeof(struct) == RTA_BUF_SIZE + 16 + struct
PolicyType(M) == PutIf(M, "XFRMA_POLICY_TYPE", "xfrm_userpolicy_type", {"ptype"})
SecCtx(M)     == PutIf(M, "XFRMA_SEC_CTX", "sec_ctx", {"ctx"})
Mark          == PutIf(RTA_BUF_SIZE, "XFRMA_MARK", "xfrm_mark", {"mark"})

\* As many templates as there is room for.
xfrm_policy_modify ==
  LET M == Sizeof(168)
  IN Requests(Parser(
       <<Once(Word("dir")), Once(Word("ctx")), xfrm_parse_mark, Word("index"), Once(Word("ptype")), Word("action"),
         Word("priority"), Calls(WordFlag("flag"), "xfrm_policy_flag_parse"),
         Calls(WordFlag("limit"), "xfrm_lifetime_cfg_parse"), Calls(WordFlag("tmpl"), "xfrm_tmpl_parse"),
         Once(Begin(SelWords, "selector", "xfrm_selector_parse"))>>,
       {Need({}, {"dir"})},
       {"dir", "index", "action", "priority", "flag", "limit", "selector"},
       <<PolicyType(M), PutIf(M, "XFRMA_TMPL", "xfrm_tmpls", {"tmpl"}), Mark, SecCtx(M)>>),
       "xfrm_userpolicy_info", RTA_BUF_SIZE)

\* A mark is not sent if no bit of it is in the mask.
xfrm_policy_get_or_delete ==
  LET M == Sizeof(64)
  IN Requests(Parser(
       <<Once(Word("dir")), Once(Word("ctx")), xfrm_parse_mark, Once(Word("index")), Once(Word("ptype")),
         Once(Begin(SelWords, "selector", "xfrm_selector_parse"))>>,
       {Need({}, {"dir"}), Need({}, {"selector", "index"}), Never({"selector", "index"})},
       {"dir", "index", "selector"},
       <<PolicyType(M), Mark, SecCtx(M)>>),
       "xfrm_userpolicy_id", RTA_BUF_SIZE)

\* The words are a filter on what the kernel dumps; the request is a header.
xfrm_policy_list_or_deleteall ==
  Requests(Parser(
    Words(<<"dir", "index", "ptype", "action", "priority">>)
    \o <<Calls(WordFlag("flag"), "xfrm_policy_flag_parse"), Once(Begin(SelWords, "selector", "xfrm_selector_parse"))>>,
    {}, Every, << >>), "flag", 4096)

xfrm_spd_setinfo ==
  LET M == Sizeof(4)
      thresh(w, attr) == Adds(Once(Word(w)), M, attr, "xfrmu_spdhthresh")
  IN Requests(Parser(<<thresh("hthresh4", "XFRMA_SPD_IPV4_HTHRESH"), thresh("hthresh6", "XFRMA_SPD_IPV6_HTHRESH")>>,
                     {}, {}, << >>), "u32", RTA_BUF_SIZE)

xfrm_spd_getinfo == Requests(Deaf, "u32", RTA_BUF_SIZE)

\* Variant for mutation: the request is declared without room for an attribute.
xfrm_policy_flush_no_buf == Requests(Parser(<<Once(Word("ptype"))>>, {}, {}, <<PolicyType(Sizeof(0))>>), "flag", 0)

xfrm_policy_flush == Requests(Parser(<<Once(Word("ptype"))>>, {}, {}, <<PolicyType(Sizeof(0))>>), "flag", RTA_BUF_SIZE)

ListWords == <<"list", "show", "lst">>
do_xfrm_policy ==
  Commands(Cmds(<<"add", "update">>, "xfrm_policy_modify")
           \o <<Cmd("delete", "xfrm_policy_get_or_delete")>>
           \o Cmds(<<"deleteall", "delall">> \o ListWords, "xfrm_policy_list_or_deleteall")
           \o <<Cmd("get", "xfrm_policy_get_or_delete"), Cmd("flush", "xfrm_policy_flush"),
                Cmd("count", "xfrm_spd_getinfo"), Cmd("set", "xfrm_spd_setinfo"), Help>>)

-----------------------------------------------------------------------------
(* ip xfrm state *)

\* The length of an algorithm's attribute is that of its struct plus the length
\* of the key in bits, eight times what the key takes.  A key is 64 bytes here,
\* or the 512 that xfrm_algo_parse accepts at most.
Algo(w, attr, type, longest, bars) ==
  LET M == RTA_BUF_SIZE
  IN Not(Sends(Sets(Word(w), {{w}, {w, "longest"}}),
               <<Lacking(Put(M, attr, type, {w}), {"longest"}),
                 Given(Put(M, attr, longest, {w, "longest"}), {"longest"})>>),
         bars)
Auth == {"auth", "auth-trunc"}
Algos ==
  <<Algo("enc", "XFRMA_ALG_CRYPT", "algo_key", "algo_key_longest", {"enc", "aead"}),
    Algo("auth", "XFRMA_ALG_AUTH", "algo_key", "algo_key_longest", Auth \cup {"aead"}),
    Once(Adds(Word("comp"), RTA_BUF_SIZE, "XFRMA_ALG_COMP", "xfrm_algo")),
    Algo("aead", "XFRMA_ALG_AEAD", "aead_key", "aead_key_longest", Auth \cup {"enc", "aead"}),
    Algo("auth-trunc", "XFRMA_ALG_AUTH_TRUNC", "auth_key", "auth_key_longest", Auth \cup {"aead"})>>

\* What an id with protocol esp, ah, comp or, for ro, route2 or hao asks for.  No
\* protocol has both comp or coa and another algorithm.  A mode that does not go
\* with the protocol is a matter of values.
ProtoNeeds ==
  {Need({"esp"}, {"enc", "aead"}), Need({"ah"}, Auth), Need({"comp-id"}, {"comp"}), Need({"ro"}, {"mode"}),
   Need({"ro"}, {"coa"}), Need({"coa"}, {"ro"}), Whenever({"enc", "aead"}, {"esp"}), Need({"comp"}, {"comp-id"}),
   Whenever(Auth, {"esp", "ah"})}
  \cup {Never({c, k}) : c \in {"comp", "coa"}, k \in Auth \cup {"enc", "aead"}}

\* With esn or a window wider than the bitmap of the old attribute, the window and
\* the numbers are sent in the new one; else the window goes into the header,
\* and a line without replay-seq and replay-oseq sends neither.
xfrm_state_modify ==
  LET M == RTA_BUF_SIZE
      Wide == {"esn", "wide"}
      Seqs == {"replay-seq", "replay-oseq"}
  IN Requests(Parser(
       <<Word("mode"), xfrm_parse_mark, Word("reqid"), Word("seq"),
         Sets(Word("replay-window"), {{"replay-window"}, {"wide"}}), Word("replay-seq"), Word("replay-seq-hi"),
         Word("replay-oseq"), Word("replay-oseq-hi"),
         Calls(Sets(WordFlag("flag"), {{"flag"}, {"esn"}}), "xfrm_state_flag_parse"),
         Calls(WordFlag("extra-flag"), "xfrm_state_extra_flag_parse"), Calls(WordFlag("sel"), "xfrm_selector_parse"),
         Calls(WordFlag("limit"), "xfrm_lifetime_cfg_parse"), Adds(Word("encap"), M, "XFRMA_ENCAP", "xfrm_encap_tmpl"),
         Once(Adds(Word("coa"), M, "XFRMA_COADDR", "xfrm_address_t")), Once(Adds(Word("ctx"), M, "XFRMA_SEC_CTX", "sec_ctx"))>>
       \o Algos
       \o <<Once(Sets(Begin(IdWords, "id", "xfrm_id_parse"),
                      {{"id", "esp"}, {"id", "ah"}, {"id", "comp-id"}, {"id", "ro"}, {"id", "ipsec-any"}}))>>,
       {Need({}, {"id"}), Need({"esn"}, {"replay-window", "wide"})} \cup ProtoNeeds,
       {"mode", "reqid", "seq", "replay-window", "flag", "esn", "sel", "limit", "id", "esp", "ah", "comp-id", "ro", "ipsec-any"},
       <<PutWhen(M, "XFRMA_REPLAY_ESN_VAL", "xfrm_replay_state_esn", Seqs \cup {"replay-seq-hi", "replay-oseq-hi", "wide"}, Wide),
         Lacking(PutIf(M, "XFRMA_REPLAY_VAL", "xfrm_replay_state", Seqs), Wide),
         U32(M, "XFRMA_SA_EXTRA_FLAGS", "extra-flag"), Mark>>),
       "xfrm_usersa_info", RTA_BUF_SIZE)

StateId == Once(Begin(IdWords, "id", "xfrm_id_parse"))

\* An id with an spi is refused.
xfrm_state_allocspi ==
  Requests(Parser(<<Word("mode"), xfrm_parse_mark, Word("reqid"), Word("seq"), Once(Word("min")), Once(Word("max")), StateId>>,
                  {Need({}, {"id"}), Need({"min"}, {"max"}), Need({"max"}, {"min"})},
                  {"mode", "reqid", "seq", "min", "max", "id"}, <<Mark>>),
           "xfrm_userspi_info", RTA_BUF_SIZE)

\* The source address is added to the message when the id has been read.
xfrm_state_get_or_delete ==
  Requests(Parser(<<xfrm_parse_mark, Sends(StateId, <<Put(RTA_BUF_SIZE, "XFRMA_SRCADDR", "xfrm_address_t", {"id"})>>)>>,
                  {}, {"id"}, <<Mark>>),
           "xfrm_usersa_id", RTA_BUF_SIZE)

\* A filter as for policies; list asks the kernel for a part of it.
xfrm_state_list_or_deleteall(deleteall) ==
  LET M == 4096 + 16
  IN Requests(Parser(<<Word("mode"), Word("reqid"), Calls(WordFlag("flag"), "xfrm_state_flag_parse"),
                       Once(Begin(IdWords, "id", "xfrm_id_parse_loose"))>>,
                     {}, {"mode", "reqid", "flag", "id"},
                     IF deleteall THEN << >>
                     ELSE <<Maybe(Put(M, "XFRMA_PROTO", "u8", {"id"})),
                            Put(M, "XFRMA_ADDRESS_FILTER", "xfrm_address_filter", {"id"})>>),
              "flag", 4096)

xfrm_sad_getinfo == Requests(Deaf, "u32", RTA_BUF_SIZE)

xfrm_state_flush == Requests(Parser(<<Once(Word("proto"))>>, {}, {"proto"}, << >>), "xfrm_usersa_flush", RTA_BUF_SIZE)

do_xfrm_state ==
  Commands(Cmds(<<"add", "update">>, "xfrm_state_modify")
           \o <<Cmd("allocspi", "xfrm_state_allocspi"), Cmd("delete", "xfrm_state_get_or_delete")>>
           \o Cmds(<<"deleteall", "delall">>, "xfrm_state_deleteall")
           \o Cmds(ListWords, "xfrm_state_list")
           \o <<Cmd("get", "xfrm_state_get_or_delete"), Cmd("flush", "xfrm_state_flush"), Cmd("count", "xfrm_sad_getinfo"),
                Help>>)

-----------------------------------------------------------------------------
(* ip xfrm monitor *)

do_xfrm_monitor ==
  Parser(<<Opt("file"), Flag("all-nsid"), Flag("acquire"), Flag("expire"), Flag("SA"), Flag("aevent"), Flag("policy"),
           Flag("report"), Help, WordFlag("all")>>, {}, Every, << >>)

do_xfrm ==
  Commands(<<Or(Cmd("state", "do_xfrm_state"), {"sa"}), Cmd("policy", "do_xfrm_policy"), Cmd("monitor", "do_xfrm_monitor"),
             Help>>)

-----------------------------------------------------------------------------
(* Printers *)

\* The templates and the bitmap of the window are as many as their length says.
xfrm_xfrma_print ==
  {Read("XFRMA_MARK", "xfrm_mark"), Checked("XFRMA_ALG_AUTH", "xfrm_algo"), Read("XFRMA_ALG_AUTH_TRUNC", "xfrm_algo_auth"),
   Read("XFRMA_ALG_AEAD", "xfrm_algo_aead"), Checked("XFRMA_ALG_CRYPT", "xfrm_algo"), Checked("XFRMA_ALG_COMP", "xfrm_algo"),
   Checked("XFRMA_ENCAP", "xfrm_encap_tmpl"), Checked("XFRMA_TMPL", "xfrm_user_tmpl"),
   Checked("XFRMA_COADDR", "xfrm_address_t"), Checked("XFRMA_LASTUSED", "u64"),
   Checked("XFRMA_REPLAY_VAL", "xfrm_replay_state"), Checked("XFRMA_REPLAY_ESN_VAL", "xfrm_replay_state_esn")}

\* A security context that is too short is printed all the same, after the words
\* "(ERROR truncated)"; so is a type of policy.
xfrm_state_info_print == {Read("XFRMA_SA_EXTRA_FLAGS", "u32"), Read("XFRMA_SEC_CTX", "xfrm_user_sec_ctx")} \cup xfrm_xfrma_print
xfrm_policy_info_print ==
  {Read("XFRMA_SEC_CTX", "xfrm_user_sec_ctx"), Read("XFRMA_POLICY_TYPE", "xfrm_userpolicy_type")} \cup xfrm_xfrma_print
xfrm_policy_flush_print == {Read("XFRMA_POLICY_TYPE", "xfrm_userpolicy_type")}

xfrm_state_print  == {Checked("XFRMA_SA", "xfrm_usersa_info")}
xfrm_policy_print == {Checked("XFRMA_POLICY_TYPE", "xfrm_userpolicy_type"), Checked("XFRMA_POLICY", "xfrm_userpolicy_info")}
xfrm_policy_keep  == {Checked("XFRMA_POLICY_TYPE", "xfrm_userpolicy_type")}

print_spdinfo ==
  {Checked("XFRMA_SPD_INFO", "xfrmu_spdinfo"), Checked("XFRMA_SPD_HINFO", "xfrmu_spdhinfo"),
   Checked("XFRMA_SPD_IPV4_HTHRESH", "xfrmu_spdhthresh"), Checked("XFRMA_SPD_IPV6_HTHRESH", "xfrmu_spdhthresh")}
print_sadinfo == {Read("XFRMA_SAD_CNT", "u32"), Checked("XFRMA_SAD_HINFO", "xfrmu_sadhinfo")}

-----------------------------------------------------------------------------
(* Catalogue *)

IpXfrmParsers ==
  [xfrm_id_parse |-> xfrm_id_parse(FALSE), xfrm_id_parse_loose |-> xfrm_id_parse(TRUE),
   xfrm_selector_upspec_parse |-> xfrm_selector_upspec_parse, xfrm_selector_parse |-> xfrm_selector_parse,
   xfrm_lifetime_cfg_parse |-> xfrm_lifetime_cfg_parse, xfrm_policy_flag_parse |-> xfrm_policy_flag_parse,
   xfrm_state_flag_parse |-> xfrm_state_flag_parse, xfrm_state_extra_flag_parse |-> xfrm_state_extra_flag_parse,
   xfrm_tmpl_parse |-> xfrm_tmpl_parse, xfrm_policy_modify |-> xfrm_policy_modify,
   xfrm_policy_get_or_delete |-> xfrm_policy_get_or_delete,
   xfrm_policy_list_or_deleteall |-> xfrm_policy_list_or_deleteall, xfrm_spd_setinfo |-> xfrm_spd_setinfo,
   xfrm_spd_getinfo |-> xfrm_spd_getinfo, xfrm_policy_flush |-> xfrm_policy_flush, do_xfrm_policy |-> do_xfrm_policy,
   xfrm_state_modify |-> xfrm_state_modify, xfrm_state_allocspi |-> xfrm_state_allocspi,
   xfrm_state_get_or_delete |-> xfrm_state_get_or_delete, xfrm_state_list |-> xfrm_state_list_or_deleteall(FALSE),
   xfrm_state_deleteall |-> xfrm_state_list_or_deleteall(TRUE), xfrm_sad_getinfo |-> xfrm_sad_getinfo,
   xfrm_state_flush |-> xfrm_state_flush, do_xfrm_state |-> do_xfrm_state, do_xfrm_monitor |-> do_xfrm_monitor,
   do_xfrm |-> do_xfrm]

IpXfrmReads ==
  xfrm_state_info_print \cup xfrm_policy_info_print \cup xfrm_policy_flush_print \cup xfrm_state_print \cup xfrm_policy_print
  \cup xfrm_policy_keep \cup print_spdinfo \cup print_sadinfo

\* As in ip monitor.
IpXfrmShadows == {<<"do_xfrm_monitor", "all">>}

\* Keys that make the attribute longer than the whole buffer.
IpXfrmDrops == {"XFRMA_ALG_CRYPT", "XFRMA_ALG_AUTH", "XFRMA_ALG_AEAD", "XFRMA_ALG_AUTH_TRUNC"}

\* The high halves of the numbers, without esn and with a narrow window.
IpXfrmForgets == {<<"xfrm_state_modify", "replay-seq-hi">>, <<"xfrm_state_modify", "replay-oseq-hi">>}
=============================================================================
