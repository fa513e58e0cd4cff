---------------------------- MODULE MyPortProofs ----------------------------
(***************************************************************************)
(* Proofs about the policy that the repository ships, for all its lengths: *)
(* on a port configured once, len counts the packets dropped as well as    *)
(* the packets held, and the first queue stops dropping.                   *)
(***************************************************************************)
EXTENDS MyPort, OpenQueueProofs

\* The policy's functions are those the qdisc calls.
Installed ==
  /\ NumQ = TCQ_OQ_NO_QUEUES
  /\ CongAct = oqp_my_port_cong_act_func
  /\ \A q, Q : cong_fn(q, Q) <=> oqp_my_port_cong_func(q, Q)
  /\ Q1_CONG \in Nat

\* The invariant of the shipped policy.
PInv == RInv /\ LenExact /\ DropsBounded

\* The queues start empty.
LEMMA InitPInv == Installed /\ Init => PInv
<1> SUFFICES ASSUME Installed, Init PROVE PInv
  OBVIOUS
<1>1. ASSUME NEW q \in Queue
      PROVE  /\ queues[q].admn = EmptyTree
             /\ queues[q].len = 0 /\ queues[q].dropped = 0
  BY InitQueueWell, Zenon DEF Init
<1>2. LenExact
  BY <1>1, EmptyCount DEF LenExact
<1>3. DropsBounded
  BY <1>1 DEF Installed, Queue, q1, TCQ_OQ_NO_QUEUES, DropsBounded
<1> QED BY <1>2, <1>3, InitRInv, Zenon DEF PInv

\* A step that replaces one queue by one whose len is exact, and that drops
\* within the bound if the queue is q1.
LEMMA OneQueueExact ==
  ASSUME Installed, PInv, RInv', NEW q \in Queue, NEW Q1,
         queues' = [queues EXCEPT ![q] = Q1],
         Q1.len = Cardinality(Stored(Q1.admn)) + Q1.dropped,
         q = q1 => Q1.dropped <= Q1_CONG
  PROVE  PInv'
<1>1. \A r \in Queue : queues'[r] = IF r = q THEN Q1 ELSE queues[r]
  BY Zenon DEF PInv, RInv, IInv, TypeOK
<1>2. LenExact'
  BY <1>1, Zenon DEF PInv, LenExact
<1>3. q1 \in Queue
  BY DEF Installed, Queue, q1, TCQ_OQ_NO_QUEUES
<1>4. DropsBounded'
  BY <1>1, <1>3, Zenon DEF PInv, DropsBounded
<1> QED BY <1>2, <1>4, Zenon DEF PInv

\* What the invariant says of the queue an operation works on.
LEMMA PInvQueue ==
  ASSUME Installed, PInv, NEW q \in Queue
  PROVE  /\ queues[q].admn \in Tree
         /\ queues[q].len \in Int /\ queues[q].dropped \in Nat
         /\ Cardinality(Stored(queues[q].admn)) \in Nat
         /\ Stored(queues[q].admn) = Stored(queues[q].proc)
         /\ queues[q].len = Cardinality(Stored(queues[q].admn)) + queues[q].dropped
         /\ q = q1 => queues[q].dropped <= Q1_CONG
BY RInvQueue, Zenon DEF PInv, LenExact, DropsBounded

\* An admission counts the packet once.
LEMMA AdmitExact ==
  ASSUME Installed, PInv, RInv', NEW skb \in Skb, NEW q \in Queue,
         NEW a \in Key, NEW b \in Key, EnqueueAdmit(skb, q, a, b)
  PROVE  PInv'
<1> DEFINE Q == queues[q]
<1>1. PICK Q1 :
        /\ queues' = [queues EXCEPT ![q] = Q1]
        /\ PutIn(Q, Q1, skb, a, b)
        /\ Q1.len = Q.len + 1
        /\ Q1.dropped = Q.dropped
  BY AdmitEffect DEF PInv
<1>2. /\ Q.admn \in Tree /\ Q.len \in Int /\ Q.dropped \in Nat
      /\ Cardinality(Stored(Q.admn)) \in Nat
      /\ Q.len = Cardinality(Stored(Q.admn)) + Q.dropped
      /\ q = q1 => Q.dropped <= Q1_CONG
  BY PInvQueue, Zenon
<1> HIDE DEF Q
<1>3. Cardinality(Stored(Q1.admn)) = Cardinality(Stored(Q.admn)) + 1
  BY <1>1, <1>2, CountPlus, Zenon DEF PutIn
<1>4. /\ Q1.len = Cardinality(Stored(Q1.admn)) + Q1.dropped
      /\ q = q1 => Q1.dropped <= Q1_CONG
  BY <1>1, <1>2, <1>3
<1> QED BY <1>1, <1>4, OneQueueExact, Zenon

\* A tail drop moves a packet from the held to the dropped.  In q1 it needs len
\* to be Q1_CONG and a packet held, so fewer than Q1_CONG were dropped before.
LEMMA DropTailExact ==
  ASSUME Installed, PInv, RInv', NEW skb \in Skb, NEW q \in Queue,
         NEW a \in Key, NEW b \in Key, EnqueueDropTail(skb, q, a, b)
  PROVE  PInv'
<1> DEFINE Q == queues[q]
           v == Head(Q.admn[btree_last(Q.admn)]).skb
<1>1. PICK Q1, D : DropTailResult(skb, q, a, b, Q1, D)
  BY DropTailEffect, Zenon DEF PInv
<1>2. /\ queues' = [queues EXCEPT ![q] = Q1]
      /\ PutIn(D, Q1, skb, a, b)
      /\ Q1.len = Q.len + 1
      /\ Q1.dropped = D.dropped
      /\ \/ D = Q
         \/ /\ TakenOut(Q, D, v)
            /\ v \in Stored(Q.admn)
            /\ D.dropped = Q.dropped + 1
  BY <1>1, Zenon DEF DropTailResult
<1>3. /\ Q.admn \in Tree /\ Q.len \in Int /\ Q.dropped \in Nat
      /\ Cardinality(Stored(Q.admn)) \in Nat
      /\ Q.len = Cardinality(Stored(Q.admn)) + Q.dropped
      /\ q = q1 => Q.dropped <= Q1_CONG
  BY PInvQueue
<1>4. q = q1 => Q.len = Q1_CONG /\ Q1_CONG \in Nat
  BY DEF Installed, EnqueueDropTail, oqp_my_port_cong_func, q1, q2
<1>t. Well(Q)
  BY RInvQueue, Zenon DEF PInv
<1> HIDE DEF Q, v
<1>5. /\ D.admn \in Tree /\ D.dropped \in Nat
      /\ Cardinality(Stored(D.admn)) \in Nat
      /\ Q.len = Cardinality(Stored(D.admn)) + D.dropped
      /\ q = q1 => D.dropped <= Q1_CONG
  <2>1. CASE D = Q
    BY <1>3, <2>1, Zenon
  <2>2. CASE /\ TakenOut(Q, D, v) /\ v \in Stored(Q.admn)
             /\ D.dropped = Q.dropped + 1
    <3>1. Stored(D.admn) = Stored(Q.admn) \ {v} /\ D.admn \in Tree
      BY <2>2, Zenon DEF TakenOut, Well, QueueRec
    <3>2. /\ Cardinality(Stored(D.admn)) = Cardinality(Stored(Q.admn)) - 1
          /\ Cardinality(Stored(D.admn)) \in Nat
      BY <1>3, <2>2, <3>1, CountMinus, StoredFinite
    <3> QED BY <1>3, <1>4, <2>2, <3>1, <3>2
  <2> QED BY <1>2, <2>1, <2>2, Zenon
<1>6. Cardinality(Stored(Q1.admn)) = Cardinality(Stored(D.admn)) + 1
  BY <1>2, <1>5, CountPlus DEF PutIn
<1>7. /\ Q1.len = Cardinality(Stored(Q1.admn)) + Q1.dropped
      /\ q = q1 => Q1.dropped <= Q1_CONG
  BY <1>2, <1>3, <1>5, <1>6
<1> QED BY <1>2, <1>7, OneQueueExact, Zenon

\* oq_dequeue takes one packet and one from len.
LEMMA DequeueExact ==
  ASSUME Installed, PInv, RInv', NEW q \in Queue, oq_dequeue(q)
  PROVE  PInv'
<1> DEFINE Q == queues[q]
<1>1. PICK Q1, v :
        /\ queues' = [queues EXCEPT ![q] = Q1]
        /\ TakenOut(Q, Q1, v)
        /\ Q1.dropped = Q.dropped
        /\ v = Head(Q.proc[btree_last(Q.proc)]).skb
        /\ v \in Stored(Q.admn) => Q1.len = Q.len - 1
  BY DequeueEffect, Zenon DEF PInv, RInv
<1>2. /\ Q.admn \in Tree /\ Q.len \in Int /\ Q.dropped \in Nat
      /\ Cardinality(Stored(Q.admn)) \in Nat
      /\ Q.len = Cardinality(Stored(Q.admn)) + Q.dropped
      /\ q = q1 => Q.dropped <= Q1_CONG
  BY PInvQueue, Zenon
<1>3. v \in Stored(Q.admn)
  <2>1. Q.proc \in Tree /\ Occupied(Q.proc) # {} /\ Stored(Q.admn) = Stored(Q.proc)
    BY RInvQueue, Zenon DEF PInv, oq_dequeue
  <2> HIDE DEF Q
  <2> QED BY <1>1, <2>1, LastStored, Zenon
<1> HIDE DEF Q
<1>4. Cardinality(Stored(Q1.admn)) = Cardinality(Stored(Q.admn)) - 1
  BY <1>1, <1>2, <1>3, CountMinus, Zenon DEF TakenOut
<1>5. /\ Q1.len = Cardinality(Stored(Q1.admn)) + Q1.dropped
      /\ q = q1 => Q1.dropped <= Q1_CONG
  BY <1>1, <1>2, <1>3, <1>4
<1> QED BY <1>1, <1>5, OneQueueExact, Zenon

\* Every step of the data path keeps the invariant: the policy has neither of
\* the congestion actions that would not.
LEMMA NextPInv == Installed /\ PInv /\ [DataPath]_vars => PInv'
<1> SUFFICES ASSUME Installed, PInv, [DataPath]_vars PROVE PInv'
  OBVIOUS
<1>1. RInv'
  BY NextRInv, Zenon DEF PInv
<1>2. ASSUME NEW skb \in Skb, oq_enqueue(skb) PROVE PInv'
  <2>1. PICK q \in Queue :
          \/ \E a, b \in Key : \/ EnqueueAdmit(skb, q, a, b)
                               \/ EnqueueDropTail(skb, q, a, b)
          \/ EnqueueDropPkt(skb, q)
          \/ EnqueueUnhandled(skb, q)
    BY <1>2, Zenon DEF oq_enqueue
  <2>2. ~EnqueueDropPkt(skb, q) /\ ~EnqueueUnhandled(skb, q)
    BY DEF Installed, oqp_my_port_cong_act_func, EnqueueDropPkt, EnqueueUnhandled,
           OQ_CON_ACT_DROP_TAIL, OQ_CON_ACT_DROP_PKT
  <2> QED BY <1>1, <2>1, <2>2, AdmitExact, DropTailExact
<1>3. ASSUME NEW q \in Queue, oq_dequeue(q) PROVE PInv'
  BY <1>1, <1>3, DequeueExact, Zenon
<1>4. CASE UNCHANGED vars
  BY <1>1, <1>4, Zenon DEF vars, PInv, LenExact, DropsBounded
<1> QED BY <1>2, <1>3, <1>4, Zenon DEF DataPath

\* With the policy's functions, len is exactly the packets held plus the
\* packets do_drop_tail has dropped, in both queues and for all lengths.
THEOREM PolicyLenExact == ASSUME Installed PROVE DataSpec => []LenExact
<1>1. Init => PInv
  BY InitPInv, Zenon
<1>2. PInv /\ [DataPath]_vars => PInv'
  BY NextPInv, Zenon
<1>3. PInv => LenExact
  BY DEF PInv
<1> QED BY <1>1, <1>2, <1>3, PTL DEF DataSpec

\* With the policy's functions, the first queue drops at most Q1_CONG packets
\* in the life of a configuration.
THEOREM PolicyDropsBounded == ASSUME Installed PROVE DataSpec => []DropsBounded
<1>1. Init => PInv
  BY InitPInv
<1>2. PInv /\ [DataPath]_vars => PInv'
  BY NextPInv
<1>3. PInv => DropsBounded
  BY Zenon DEF PInv
<1> QED BY <1>1, <1>2, <1>3, PTL DEF DataSpec

=============================================================================
