----------------------------- MODULE WireTypes ------------------------------
(***************************************************************************)
(* The length in bytes of what attributes carry: numbers, structs of the   *)
(* kernel's headers (include/linux), tables, and names and addresses of    *)
(* the longest form that the parsers accept.                               *)
(***************************************************************************)
EXTENDS Integers

Bytes ==
  [addr |-> 16, aead_key |-> 584, aead_key_longest |-> 4168, algo_key |-> 580,
   algo_key_longest |-> 4164, any |-> 0, arp_ip_targets |-> 128, atm_hdr |-> 64,
   auth_key |-> 584, auth_key_longest |-> 4168, bpf_name |-> 256,
   bpf_ops |-> 32768, canid_rules |-> 3200, cookie |-> 8, dist |-> 8192,
   flag |-> 0, ifalias |-> 256, ifname |-> 16, int |-> 4, kind |-> 16,
   lladdr |-> 32, lladdr20 |-> 20, lladdr6 |-> 6, name |-> 16, nested |-> 0,
   pedit_sel |-> 3096, rtab |-> 1024, sec_ctx |-> 264, simp_data |-> 32,
   sockaddr_atmpvc |-> 20, stab256 |-> 256, stab_data |-> 1024, str |-> 1,
   tc_gred_qopts |-> 0, u16 |-> 2, u32 |-> 4, u32_sel |-> 2064, u32s |-> 64,
   u64 |-> 8, u8 |-> 1, via |-> 18, xfrm_address_t |-> 16, xfrm_tmpls |-> 1024,
   br_mdb_entry |-> 28, br_port_msg |-> 8, bridge_vlan_info |-> 4,
   can_berr_counter |-> 4, can_bittiming |-> 32, can_bittiming_const |-> 48,
   can_clock |-> 4, can_ctrlmode |-> 8, genlmsghdr |-> 4,
   gnet_stats_basic |-> 16, gnet_stats_queue |-> 20, gnet_stats_rate_est |-> 8,
   gnet_stats_rate_est64 |-> 16, ifa_cacheinfo |-> 16, ifaddrlblmsg |-> 12,
   ifaddrmsg |-> 8, ifinfomsg |-> 16, ifla_vf_link_state |-> 8,
   ifla_vf_mac |-> 36, ifla_vf_rate |-> 12, ifla_vf_spoofchk |-> 8,
   ifla_vf_tx_rate |-> 8, ifla_vf_vlan |-> 12, ifla_vlan_flags |-> 8,
   ifla_vlan_qos_mapping |-> 8, ifla_vxlan_port_range |-> 4, in6_addr |-> 16,
   nda_cacheinfo |-> 16, ndmsg |-> 12, ndt_config |-> 32, ndt_stats |-> 88,
   ndtmsg |-> 4, netconfmsg |-> 1, prefix_cacheinfo |-> 8, rta_cacheinfo |-> 32,
   rta_mfc_stats |-> 24, rtgenmsg |-> 1, rtmsg |-> 12, rtnexthop |-> 8,
   rtnl_link_stats |-> 92, rtnl_link_stats64 |-> 184, rtvia |-> 2,
   tc_act_bpf |-> 20, tc_cbq_fopt |-> 12, tc_cbq_lssopt |-> 20, tc_cbq_ovl |-> 8,
   tc_cbq_wrropt |-> 12, tc_cbq_xstats |-> 16, tc_choke_xstats |-> 20,
   tc_cnt |-> 8, tc_codel_xstats |-> 36, tc_connmark |-> 24, tc_csum |-> 24,
   tc_defact |-> 20, tc_drr_stats |-> 4, tc_estimator |-> 2, tc_fifo_qopt |-> 4,
   tc_fq_codel_xstats |-> 32, tc_fq_qd_stats |-> 80, tc_gact |-> 20,
   tc_gact_p |-> 8, tc_gred_qopt |-> 52, tc_gred_sopt |-> 12, tc_hfsc_qopt |-> 2,
   tc_hfsc_stats |-> 24, tc_hhf_xstats |-> 16, tc_htb_glob |-> 20,
   tc_htb_opt |-> 44, tc_htb_xstats |-> 20, tc_mirred |-> 28,
   tc_mqprio_qopt |-> 82, tc_multiq_qopt |-> 4, tc_nat |-> 36,
   tc_netem_corr |-> 12, tc_netem_corrupt |-> 8, tc_netem_gemodel |-> 16,
   tc_netem_gimodel |-> 20, tc_netem_qopt |-> 24, tc_netem_rate |-> 16,
   tc_netem_reorder |-> 8, tc_oq_qopt |-> 872, tc_pedit_sel |-> 24,
   tc_pie_xstats |-> 32, tc_police |-> 56, tc_prio_qopt |-> 20,
   tc_ratespec |-> 12, tc_red_qopt |-> 16, tc_red_xstats |-> 16,
   tc_rsvp_pinfo |-> 28, tc_service_curve |-> 12, tc_sfb_qopt |-> 36,
   tc_sfb_xstats |-> 36, tc_sfq_qopt |-> 20, tc_sfq_qopt_v1 |-> 72,
   tc_sfq_xstats |-> 4, tc_sizespec |-> 24, tc_skbedit |-> 20, tc_stats |-> 40,
   tc_tbf_qopt |-> 36, tc_u32_key |-> 16, tc_u32_mark |-> 12, tc_u32_pcnt |-> 16,
   tc_u32_sel |-> 16, tc_vlan |-> 24, tcamsg |-> 4, tcf_em_cmp |-> 12,
   tcf_em_nbyte |-> 4, tcf_ematch_hdr |-> 8, tcf_ematch_tree_hdr |-> 4,
   tcf_meta_hdr |-> 8, tcf_t |-> 24, tcmsg |-> 20, xfrm_address_filter |-> 36,
   xfrm_algo |-> 68, xfrm_algo_aead |-> 72, xfrm_algo_auth |-> 72,
   xfrm_encap_tmpl |-> 24, xfrm_mark |-> 8, xfrm_replay_state |-> 12,
   xfrm_replay_state_esn |-> 24, xfrm_user_sec_ctx |-> 8, xfrm_user_tmpl |-> 64,
   xfrm_userpolicy_id |-> 64, xfrm_userpolicy_info |-> 168,
   xfrm_userpolicy_type |-> 6, xfrm_usersa_flush |-> 1, xfrm_usersa_id |-> 24,
   xfrm_usersa_info |-> 224, xfrm_userspi_info |-> 232, xfrmu_sadhinfo |-> 8,
   xfrmu_spdhinfo |-> 8, xfrmu_spdhthresh |-> 2, xfrmu_spdinfo |-> 24,
   xt_entry_target |-> 32, xt_set_info |-> 4]
=============================================================================
