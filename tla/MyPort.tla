------------------------------- MODULE MyPort -------------------------------
(***************************************************************************)
(* The policy that the repository ships (MyPort.oqp, the generated module  *)
(* policy/oqp_my_port and routine/routines.c), on the qdisc of module      *)
(* OpenQueue.  A configuration gives the policy's functions to the         *)
(* constants of OpenQueue; keys stay arbitrary, since they come from the   *)
(* packet (its type of service and its length).  The lengths that the      *)
(* policy names are constants, 128, 1024, 256 and 1024 in the source.      *)
(***************************************************************************)
EXTENDS OpenQueue

CONSTANTS
  Q1_SIZE,    \* max_len of q1
  Q2_SIZE,    \* max_len of q2
  Q1_CONG,    \* len at which q1 is congested
  Q2_CONG     \* len at which q2 is congested

\* TCQ_OQ_NO_QUEUES and the indices init_port gives the two queues.
TCQ_OQ_NO_QUEUES == 2
q1 == 0
q2 == 1

oqp_my_port_init_port == [q \in {q1, q2} |-> IF q = q1 THEN Q1_SIZE ELSE Q2_SIZE]

my_congestion_condition(Q) == Q.len = Q2_CONG

\* Variant for mutation: the condition holds at the limit and above it.
oqp_my_port_cong_func_above(q, Q) ==
  \/ q = q1 /\ Q.len >= Q1_CONG
  \/ q = q2 /\ my_congestion_condition(Q)

oqp_my_port_cong_func(q, Q) ==
  \/ q = q1 /\ Q.len = Q1_CONG
  \/ q = q2 /\ my_congestion_condition(Q)

\* cong_act of the routines, for either queue: drop tail.
oqp_my_port_cong_act_func == {2}

\* select_admission_queue and my_schd_prio of the routines.
oqp_my_port_qselc_func == {q1}
oqp_my_port_schd_func == {q1}

-----------------------------------------------------------------------------

\* The policy drops only through do_drop_tail, which leaves len alone: on a port
\* configured once, len is the number of packets held plus the number dropped.
LenExact ==
  \A q \in Queue :
    queues[q].len = Cardinality(Stored(queues[q].admn)) + queues[q].dropped

\* q1 drops at most Q1_CONG packets in the life of a configuration, however
\* many arrive: each drop raises the length at which the queue is empty, and
\* when that length reaches Q1_CONG the queue is congested only when it is
\* empty, and do_drop_tail finds no victim.
DropsBounded == queues[q1].dropped <= Q1_CONG

=============================================================================
