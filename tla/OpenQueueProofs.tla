--------------------------- MODULE OpenQueueProofs ---------------------------
(***************************************************************************)
(* Proofs that the qdisc keeps its two trees together, for every set of    *)
(* packets, every key width, every number of queues and every policy.      *)
(***************************************************************************)
EXTENDS OpenQueueLemmas

\* The inductive invariant under all reconfigurations.
IInv == TypeOK /\ AdmnCovered /\ NoStaleSkb /\ LenCovers

\* What the invariant says of one queue.
LEMMA IInvWell ==
  ASSUME IInv, NEW q \in Queue
  PROVE  /\ Well(queues[q])
         /\ queues[q].admn \in Tree /\ queues[q].proc \in Tree
         /\ queues[q].len \in Int /\ queues[q].dropped \in Nat
         /\ queues[q].total \in Nat
BY Zenon DEF IInv, TypeOK, AdmnCovered, Well, QueueRec

\* init_queue yields an empty queue that meets the invariant.
LEMMA InitQueueWell ==
  ASSUME NEW q \in Queue
  PROVE  /\ Well(init_queue(q))
         /\ init_queue(q).admn = EmptyTree /\ init_queue(q).proc = EmptyTree
         /\ init_queue(q).len = 0 /\ init_queue(q).dropped = 0
         /\ init_queue(q).total = 0
<1>1. MaxLen[q] \in Int
  BY ConstantsAssumption, Zenon
<1> QED BY <1>1, EmptyTreeFacts DEF init_queue, Well, QueueRec

\* An empty tree holds no packet.
LEMMA EmptyCount == Cardinality(Stored(EmptyTree)) = 0
BY EmptyTreeFacts, FS_EmptySet, Zenon

\* The queues start in the invariant.
LEMMA InitIInv == Init => IInv
<1> SUFFICES ASSUME Init PROVE IInv
  OBVIOUS
<1>1. ASSUME NEW q \in Queue
      PROVE  /\ Well(queues[q]) /\ queues[q].admn = EmptyTree
             /\ queues[q].proc = EmptyTree /\ queues[q].len = 0
  BY InitQueueWell, Zenon DEF Init
<1>2. TypeOK
  BY <1>1, Zenon DEF Init, TypeOK, Well
<1>3. AdmnCovered
  BY <1>1, Zenon DEF AdmnCovered, Well
<1>4. NoStaleSkb
  BY <1>1, EmptyTreeFacts, Zenon DEF NoStaleSkb
<1>5. LenCovers
  BY <1>1, EmptyCount DEF LenCovers
<1> QED BY <1>2, <1>3, <1>4, <1>5, Zenon DEF IInv

\* A step that replaces one queue and gives back no buffer of another keeps
\* the invariant.
LEMMA OneQueueStep ==
  ASSUME IInv, NEW q \in Queue, NEW Q1,
         queues' = [queues EXCEPT ![q] = Q1],
         Well(Q1),
         Cardinality(Stored(Q1.admn)) <= Q1.len,
         owned' \subseteq Skb,
         at' \in [Skb -> Nat],
         Stored(Q1.proc) \subseteq owned',
         owned \ Stored(queues[q].proc) \subseteq owned',
         Stored(Q1.proc) \cap (owned \ Stored(queues[q].proc)) = {}
  PROVE  IInv'
<1>1. \A r \in Queue : queues'[r] = IF r = q THEN Q1 ELSE queues[r]
  BY Zenon DEF IInv, TypeOK
<1>2. TypeOK'
  BY Zenon DEF IInv, TypeOK, Well
<1>3. AdmnCovered'
  BY <1>1, Zenon DEF IInv, AdmnCovered, Well
<1>4. NoStaleSkb'
  <2>1. ASSUME NEW r \in Queue, r # q
        PROVE  Stored(queues[r].proc) \subseteq owned \ Stored(queues[q].proc)
    BY <2>1, Zenon DEF IInv, NoStaleSkb
  <2>2. ASSUME NEW r \in Queue
        PROVE  Stored(queues'[r].proc) \subseteq owned'
    BY <1>1, <2>1, Zenon
  <2>3. ASSUME NEW r \in Queue, NEW s \in Queue, r # s
        PROVE  Stored(queues'[r].proc) \cap Stored(queues'[s].proc) = {}
    <3>1. CASE r # q /\ s # q
      BY <1>1, <2>3, <3>1, Zenon DEF IInv, NoStaleSkb
    <3>2. CASE r = q
      BY <1>1, <2>1, <2>3, <3>2, Zenon
    <3>3. CASE s = q
      BY <1>1, <2>1, <2>3, <3>3, Zenon
    <3> QED BY <3>1, <3>2, <3>3, Zenon
  <2> QED BY <2>2, <2>3, Zenon DEF NoStaleSkb
<1>5. LenCovers'
  BY <1>1, Zenon DEF IInv, LenCovers
<1> QED BY <1>2, <1>3, <1>4, <1>5, Zenon DEF IInv

\* A buffer the qdisc does not own is in none of its queues.
LEMMA NotOwned ==
  ASSUME IInv, NEW q \in Queue, NEW skb, skb \notin owned
  PROVE  skb \notin Stored(queues[q].proc)
BY Zenon DEF IInv, NoStaleSkb

\* The number of packets after adding one, and after removing one.
LEMMA CountPlus ==
  ASSUME NEW T \in Tree, NEW p, p \notin Stored(T)
  PROVE  Cardinality(Stored(T) \cup {p}) = Cardinality(Stored(T)) + 1
BY StoredFinite, FS_AddElement, Zenon

\* The number of packets after unlinking one.
LEMMA CountMinus ==
  ASSUME NEW T \in Tree, NEW p
  PROVE  Cardinality(Stored(T) \ {p}) =
           IF p \in Stored(T) THEN Cardinality(Stored(T)) - 1
                              ELSE Cardinality(Stored(T))
BY StoredFinite, FS_RemoveElement, Zenon

\* oq_enqueue without congestion keeps the invariant.
LEMMA AdmitStep ==
  ASSUME IInv, NEW skb \in Skb, NEW q \in Queue, NEW a \in Key, NEW b \in Key,
         EnqueueAdmit(skb, q, a, b)
  PROVE  IInv'
<1> DEFINE Q == queues[q]
           Q1 == do_enqueue(Q, skb, a, b)
<1>1. skb \notin owned /\ skb \notin Stored(Q.proc)
  BY NotOwned, Zenon DEF EnqueueAdmit, Arrives
<1>2. Well(Q) /\ Q.admn \in Tree /\ Q.len \in Int /\ Q.total \in Nat
  BY IInvWell, Zenon
<1>3. /\ Well(Q1) /\ skb \notin Stored(Q.admn)
      /\ Stored(Q1.admn) = Stored(Q.admn) \cup {skb}
      /\ Stored(Q1.proc) = Stored(Q.proc) \cup {skb}
      /\ Q1.len = Q.len + 1
  <2> HIDE DEF Q
  <2>1. PutIn(Q, Q1, skb, a, b) /\ Q1.len = Q.len + 1
    BY <1>1, <1>2, Enqueued, Zenon
  <2> HIDE DEF Q1
  <2> QED BY <2>1, Zenon DEF PutIn
<1>4. /\ queues' = [queues EXCEPT ![q] = Q1]
      /\ owned' = owned \cup {skb}
      /\ at' = [at EXCEPT ![skb] = Q.total + 1]
  BY Zenon DEF EnqueueAdmit
<1> HIDE DEF Q1
<1>5. Cardinality(Stored(Q1.admn)) <= Q1.len
  <2>1. Cardinality(Stored(Q.admn)) <= Q.len
    BY Zenon DEF IInv, LenCovers
  <2>2. Cardinality(Stored(Q.admn)) \in Nat
    BY <1>2, StoredFinite, Zenon
  <2> QED BY <1>2, <1>3, <2>1, <2>2, CountPlus
<1>6. owned' \subseteq Skb /\ at' \in [Skb -> Nat]
  BY <1>2, <1>4 DEF IInv, TypeOK
<1>7. /\ Stored(Q1.proc) \subseteq owned'
      /\ owned \ Stored(Q.proc) \subseteq owned'
      /\ Stored(Q1.proc) \cap (owned \ Stored(Q.proc)) = {}
  BY <1>1, <1>3, <1>4, Zenon DEF IInv, NoStaleSkb
<1> QED BY <1>3, <1>4, <1>5, <1>6, <1>7, OneQueueStep, Zenon

\* do_drop_tail followed by do_enqueue, whether or not there was a victim.
LEMMA DropTailStep ==
  ASSUME IInv, NEW skb \in Skb, NEW q \in Queue, NEW a \in Key, NEW b \in Key,
         EnqueueDropTail(skb, q, a, b)
  PROVE  IInv'
<1> DEFINE Q == queues[q]
           d == do_drop_tail(Q)
           D == d.queue
           Q1 == do_enqueue(D, skb, a, b)
<1>1. skb \notin owned /\ skb \notin Stored(Q.proc)
  BY NotOwned, Zenon DEF EnqueueDropTail, Arrives
<1>2. Well(Q) /\ Q.admn \in Tree /\ Q.len \in Int /\ Q.total \in Nat
  BY IInvWell
<1>3. /\ Cardinality(Stored(Q.admn)) <= Q.len
      /\ Cardinality(Stored(Q.admn)) \in Nat
  BY <1>2, StoredFinite, Zenon DEF IInv, LenCovers
<1>4. /\ Well(D)
      /\ Stored(D.proc) = Stored(Q.proc) \ d.freed
      /\ d.freed \subseteq Stored(Q.proc)
      /\ Cardinality(Stored(D.admn)) <= Q.len
      /\ D.len = Q.len
  <2>1. CASE Occupied(Q.admn) = {}
    <3>1. d = [queue |-> Q, freed |-> {}]
      BY <2>1, Zenon DEF do_drop_tail
    <3> QED BY <1>2, <1>3, <3>1
  <2>2. CASE Occupied(Q.admn) # {}
    <3> DEFINE v == Head(Q.admn[btree_last(Q.admn)]).skb
    <3> HIDE DEF Q
    <3>1. TakenOut(Q, D, v) /\ d.freed = {v} /\ D.len = Q.len
      BY <1>2, <2>2, Dropped, Zenon
    <3> HIDE DEF v, d, D
    <3>2. Cardinality(Stored(Q.admn) \ {v}) <= Cardinality(Stored(Q.admn))
      BY <1>2, <1>3, CountMinus
    <3>3. Cardinality(Stored(Q.admn) \ {v}) <= Q.len
      BY <1>2, <1>3, <3>2, CountMinus
    <3> QED BY <3>1, <3>3, Zenon DEF TakenOut
  <2> QED BY <2>1, <2>2, Zenon
<1>5. /\ queues' = [queues EXCEPT ![q] = Q1]
      /\ owned' = (owned \ d.freed) \cup {skb}
      /\ at' = [at EXCEPT ![skb] = Q.total + 1]
  BY Zenon DEF EnqueueDropTail
<1> HIDE DEF D, d
<1>6. /\ Well(Q1) /\ skb \notin Stored(D.admn)
      /\ Stored(Q1.admn) = Stored(D.admn) \cup {skb}
      /\ Stored(Q1.proc) = Stored(D.proc) \cup {skb}
      /\ Q1.len = D.len + 1
  <2>1. PutIn(D, Q1, skb, a, b) /\ Q1.len = D.len + 1
    BY <1>1, <1>4, Enqueued
  <2> HIDE DEF Q1
  <2> QED BY <2>1 DEF PutIn
<1> HIDE DEF Q1
<1>7. Cardinality(Stored(Q1.admn)) <= Q1.len
  <2>1. D.admn \in Tree
    BY <1>4, Zenon DEF Well, QueueRec
  <2>2. Cardinality(Stored(D.admn)) \in Nat
    BY <2>1, StoredFinite, Zenon
  <2> QED BY <1>2, <1>4, <1>6, <2>1, <2>2, CountPlus
<1>8. owned' \subseteq Skb /\ at' \in [Skb -> Nat]
  BY <1>2, <1>5 DEF IInv, TypeOK
<1>9. /\ Stored(Q1.proc) \subseteq owned'
      /\ owned \ Stored(Q.proc) \subseteq owned'
      /\ Stored(Q1.proc) \cap (owned \ Stored(Q.proc)) = {}
  BY <1>1, <1>4, <1>5, <1>6 DEF IInv, NoStaleSkb
<1> QED BY <1>5, <1>6, <1>7, <1>8, <1>9, OneQueueStep, Zenon

\* oq_enqueue that frees the arriving packet keeps the invariant.
LEMMA DropPktStep ==
  ASSUME IInv, NEW skb \in Skb, NEW q \in Queue, EnqueueDropPkt(skb, q)
  PROVE  IInv'
<1> DEFINE Q == queues[q]
           Q1 == [Q EXCEPT !.dropped = @ + 1]
<1>1. queues' = [queues EXCEPT ![q] = Q1] /\ owned' = owned /\ at' = at
  BY Zenon DEF EnqueueDropPkt, IInv, TypeOK
<1>2. Well(Q)
  BY IInvWell, Zenon
<1> HIDE DEF Q
<1>3. /\ Q1 \in QueueRec /\ Q1.admn = Q.admn /\ Q1.proc = Q.proc
      /\ Q1.len = Q.len
  BY <1>2 DEF Well, QueueRec
<1> HIDE DEF Q1
<1>4. Well(Q1)
  BY <1>2, <1>3, Zenon DEF Well
<1>5. Cardinality(Stored(Q.admn)) <= Q.len /\ Stored(Q.proc) \subseteq owned
  BY Zenon DEF Q, IInv, LenCovers, NoStaleSkb
<1>6. owned \subseteq Skb /\ at \in [Skb -> Nat]
  BY Zenon DEF IInv, TypeOK
<1> QED BY <1>1, <1>3, <1>4, <1>5, <1>6, OneQueueStep, Zenon DEF Q

\* oq_enqueue with an unknown congestion action keeps the invariant.
LEMMA UnhandledStep ==
  ASSUME IInv, NEW skb \in Skb, NEW q \in Queue, EnqueueUnhandled(skb, q)
  PROVE  IInv'
<1>1. queues' = queues /\ owned' = owned \cup {skb} /\ at' = at
  BY Zenon DEF EnqueueUnhandled
<1>2. TypeOK' /\ AdmnCovered' /\ LenCovers'
  BY <1>1, Zenon DEF IInv, TypeOK, AdmnCovered, LenCovers
<1>3. NoStaleSkb'
  BY <1>1, Zenon DEF IInv, NoStaleSkb
<1> QED BY <1>2, <1>3, Zenon DEF IInv

\* What oq_dequeue does to the queue it serves, twin found or not.
LEMMA DequeueEffect ==
  ASSUME IInv, NEW q \in Queue, oq_dequeue(q)
  PROVE  \E Q1, v :
           /\ queues' = [queues EXCEPT ![q] = Q1]
           /\ TakenOut(queues[q], Q1, v)
           /\ v = Head(queues[q].proc[btree_last(queues[q].proc)]).skb
           /\ Q1.total = queues[q].total /\ Q1.dropped = queues[q].dropped
           /\ at' = at
           /\ \/ /\ v \in Stored(queues[q].admn)
                 /\ owned' = owned \ {v}
                 /\ Q1.len = queues[q].len - 1
              \/ /\ v \notin Stored(queues[q].admn)
                 /\ ~Covered(queues[q].proc, queues[q].admn)
                 /\ owned' = owned
                 /\ Q1.len = queues[q].len
<1> DEFINE Q == queues[q]
           u == Unlink(Q.proc, Q.admn)
           v == Head(Q.proc[btree_last(Q.proc)]).skb
           Q2(n) == [Q EXCEPT !.proc = u.tree, !.admn = u.twin, !.len = n]
<1>1. Well(Q) /\ Q.len \in Int /\ Q \in QueueRec
  BY IInvWell, Zenon DEF Well
<1>2. Occupied(Q.proc) # {}
  BY SMTT(30) DEF oq_dequeue
<1>3. ASSUME NEW n \in Int
      PROVE  /\ TakenOut(Q, Q2(n), v)
             /\ u.skb = v
             /\ Covered(Q.proc, Q.admn) => u.found
             /\ u.found <=> v \in Stored(Q.admn)
             /\ ~u.found => u.twin = Q.admn
             /\ Q2(n).len = n
             /\ Q2(n).total = Q.total
             /\ Q2(n).dropped = Q.dropped
  <2> HIDE DEF Q
  <2> QED BY <1>1, <1>2, Dequeued, ZenonT(60)
<1>4. CASE u.found
  <2>1. /\ queues' = [queues EXCEPT ![q].proc = u.tree, ![q].admn = u.twin,
                                    ![q].len = @ - 1]
        /\ owned' = owned \ {u.skb} /\ at' = at
    BY <1>4, Zenon DEF oq_dequeue
  <2>2. queues' = [queues EXCEPT ![q] = Q2(Q.len - 1)]
    <3> HIDE DEF u
    <3> QED BY <2>1, Zenon DEF IInv, TypeOK
  <2>3. Q.len - 1 \in Int
    BY <1>1
  <2> HIDE DEF u, v, Q2
  <2>4. /\ TakenOut(Q, Q2(Q.len - 1), v) /\ u.skb = v
        /\ v \in Stored(Q.admn)
        /\ Q2(Q.len - 1).len = Q.len - 1
        /\ Q2(Q.len - 1).total = Q.total
        /\ Q2(Q.len - 1).dropped = Q.dropped
    BY <1>3, <1>4, <2>3, Zenon
  <2> QED BY <2>1, <2>2, <2>4, Zenon DEF v
<1>5. CASE ~u.found
  <2>1. /\ queues' = [queues EXCEPT ![q].proc = u.tree]
        /\ owned' = owned /\ at' = at
    BY <1>5, Zenon DEF oq_dequeue
  <2>2. /\ TakenOut(Q, Q2(Q.len), v) /\ u.twin = Q.admn
        /\ v \notin Stored(Q.admn) /\ ~Covered(Q.proc, Q.admn)
        /\ Q2(Q.len).len = Q.len
        /\ Q2(Q.len).total = Q.total
        /\ Q2(Q.len).dropped = Q.dropped
    BY <1>1, <1>3, <1>5, Zenon
  <2>3. queues' = [queues EXCEPT ![q] = Q2(Q.len)]
    <3>1. PICK t : t = u.tree
      OBVIOUS
    <3>2. Q2(Q.len) = [Q EXCEPT !.proc = t, !.admn = Q.admn, !.len = Q.len]
      BY <2>2, <3>1, Zenon
    <3>3. queues' = [queues EXCEPT ![q] = [Q EXCEPT !.proc = t]]
      BY <2>1, <3>1, Zenon DEF IInv, TypeOK
    <3> HIDE DEF u, Q2, Q
    <3>4. [Q EXCEPT !.proc = t, !.admn = Q.admn, !.len = Q.len]
            = [Q EXCEPT !.proc = t]
      BY <1>1, Zenon DEF QueueRec
    <3> QED BY <3>2, <3>3, <3>4, Zenon
  <2> HIDE DEF u, v, Q2
  <2> QED BY <2>1, <2>2, <2>3, Zenon DEF v
<1> QED BY <1>4, <1>5, Zenon

\* oq_dequeue keeps the invariant, twin found or not.
LEMMA DequeueStep ==
  ASSUME IInv, NEW q \in Queue, oq_dequeue(q)
  PROVE  IInv'
<1> DEFINE Q == queues[q]
<1>1. PICK Q1, v :
        /\ queues' = [queues EXCEPT ![q] = Q1]
        /\ TakenOut(Q, Q1, v)
        /\ at' = at
        /\ \/ /\ v \in Stored(Q.admn)
              /\ owned' = owned \ {v}
              /\ Q1.len = Q.len - 1
           \/ /\ v \notin Stored(Q.admn)
              /\ owned' = owned
              /\ Q1.len = Q.len
  BY DequeueEffect
<1>2. /\ Well(Q1) /\ v \in Stored(Q.proc)
      /\ Stored(Q1.admn) = Stored(Q.admn) \ {v}
      /\ Stored(Q1.proc) = Stored(Q.proc) \ {v}
  BY <1>1, Zenon DEF TakenOut
<1>3. Q.admn \in Tree /\ Q.len \in Int
  BY IInvWell, Zenon
<1>4. Cardinality(Stored(Q1.admn)) <= Q1.len
  <2>1. /\ Cardinality(Stored(Q.admn)) <= Q.len
        /\ Cardinality(Stored(Q.admn)) \in Nat
    BY <1>3, StoredFinite, Zenon DEF IInv, LenCovers
  <2> QED BY <1>1, <1>2, <1>3, <2>1, CountMinus
<1>5. owned' \subseteq Skb /\ at' \in [Skb -> Nat]
  BY <1>1, Zenon DEF IInv, TypeOK
<1>6. /\ Stored(Q1.proc) \subseteq owned'
      /\ owned \ Stored(Q.proc) \subseteq owned'
      /\ Stored(Q1.proc) \cap (owned \ Stored(Q.proc)) = {}
  BY <1>1, <1>2, Zenon DEF IInv, NoStaleSkb
<1> QED BY <1>1, <1>2, <1>4, <1>5, <1>6, OneQueueStep, Zenon

\* A step that only empties trees keeps the invariant.
LEMMA EmptyingStep ==
  ASSUME IInv, owned' = owned, at' = at,
         queues' \in [Queue -> QueueRec],
         \A q \in Queue :
           /\ Well(queues'[q])
           /\ Stored(queues'[q].proc) \subseteq Stored(queues[q].proc)
           /\ Cardinality(Stored(queues'[q].admn)) <= queues'[q].len
  PROVE  IInv'
<1>1. TypeOK'
  BY Zenon DEF IInv, TypeOK
<1>2. AdmnCovered'
  BY Zenon DEF AdmnCovered, Well
<1>3. NoStaleSkb'
  BY Zenon DEF IInv, NoStaleSkb
<1>4. LenCovers'
  BY Zenon DEF LenCovers
<1> QED BY <1>1, <1>2, <1>3, <1>4, Zenon DEF IInv

\* Reconfiguration by oq_init keeps the invariant.
LEMMA ChangeStep ==
  ASSUME IInv, oq_change
  PROVE  IInv'
<1>1. owned' = owned /\ at' = at /\ queues' = [q \in Queue |-> init_queue(q)]
  BY Zenon DEF oq_change
<1>2. ASSUME NEW q \in Queue
      PROVE  /\ Well(queues'[q]) /\ queues'[q] \in QueueRec
             /\ Stored(queues'[q].proc) \subseteq Stored(queues[q].proc)
             /\ Cardinality(Stored(queues'[q].admn)) <= queues'[q].len
  <2>1. queues'[q] = init_queue(q)
    BY <1>1, Zenon
  <2> QED BY <2>1, InitQueueWell, EmptyTreeFacts, EmptyCount DEF Well
<1>3. queues' \in [Queue -> QueueRec]
  BY <1>1, <1>2, Zenon
<1> QED BY <1>1, <1>2, <1>3, EmptyingStep, Zenon

\* Reconfiguration that runs out of memory at any btree_init keeps the invariant.
LEMMA ChangeEnomemStep ==
  ASSUME IInv, NEW f \in Queue, oq_change_enomem(f)
  PROVE  IInv'
<1>1. PICK failing \in {"admn", "proc"} :
        queues' = [q \in Queue |->
                     IF q < f THEN init_queue(q)
                     ELSE IF q = f THEN init_queue_enomem(queues[q], failing)
                     ELSE queues[q]]
  BY Zenon DEF oq_change_enomem
<1>2. owned' = owned /\ at' = at
  BY Zenon DEF oq_change_enomem
<1>3. ASSUME NEW q \in Queue
      PROVE  /\ Well(queues'[q]) /\ queues'[q] \in QueueRec
             /\ Stored(queues'[q].proc) \subseteq Stored(queues[q].proc)
             /\ Cardinality(Stored(queues'[q].admn)) <= queues'[q].len
  <2> DEFINE Q == queues[q]
  <2>1. /\ Well(Q) /\ Q \in QueueRec /\ Q.proc \in Tree /\ Q.len \in Int
        /\ Cardinality(Stored(Q.admn)) <= Q.len
        /\ Cardinality(Stored(Q.admn)) \in Nat
    BY IInvWell, StoredFinite, Zenon DEF IInv, LenCovers, Well
  <2>2. CASE q < f
    <3>1. queues'[q] = init_queue(q)
      BY <1>1, <2>2, Zenon
    <3> QED BY <3>1, InitQueueWell, EmptyTreeFacts, EmptyCount DEF Well
  <2>3. CASE q = f
    <3> DEFINE Q1 == init_queue_enomem(Q, failing)
    <3>1. queues'[q] = Q1
      BY <1>1, <2>3 DEF Queue
    <3> HIDE DEF Q
    <3>2. /\ Q1.admn = EmptyTree /\ Q1.len = Q.len
          /\ Q1.proc = Q.proc \/ Q1.proc = EmptyTree
          /\ Q1 \in QueueRec
      BY <2>1, EmptyTreeFacts, Zenon DEF init_queue_enomem, QueueRec
    <3> HIDE DEF Q1
    <3>3. Well(Q1)
      BY <2>1, <3>2, EmptyTreeFacts, Zenon DEF Well
    <3>4. Stored(Q1.proc) \subseteq Stored(Q.proc)
      BY <3>2, EmptyTreeFacts, Zenon
    <3>5. Cardinality(Stored(Q1.admn)) <= Q1.len
      BY <2>1, <3>2, EmptyCount
    <3> QED BY <3>1, <3>2, <3>3, <3>4, <3>5, Zenon DEF Q
  <2>4. CASE ~(q < f) /\ q # f
    BY <1>1, <2>1, <2>4, Zenon
  <2> QED BY <2>2, <2>3, <2>4, Zenon
<1>4. queues' \in [Queue -> QueueRec]
  BY <1>1, <1>3, Zenon
<1> QED BY <1>2, <1>3, <1>4, EmptyingStep, Zenon

\* Every operation the network stack drives keeps the invariant.
LEMMA DataPathIInv ==
  ASSUME IInv, DataPath
  PROVE  IInv'
<1>1. ASSUME NEW skb \in Skb, oq_enqueue(skb) PROVE IInv'
  BY <1>1, AdmitStep, DropTailStep, DropPktStep, UnhandledStep, Zenon DEF oq_enqueue
<1>2. ASSUME NEW q \in Queue, oq_dequeue(q) PROVE IInv'
  BY <1>2, DequeueStep, Zenon
<1> QED BY <1>1, <1>2, Zenon DEF DataPath

\* Every step of the qdisc keeps the invariant.
LEMMA NextIInv == IInv /\ [Next]_vars => IInv'
<1> SUFFICES ASSUME IInv, [Next]_vars PROVE IInv'
  OBVIOUS
<1>1. CASE DataPath
  BY <1>1, DataPathIInv, Zenon
<1>2. CASE oq_change
  BY <1>2, ChangeStep, Zenon
<1>3. CASE \E f \in Queue : oq_change_enomem(f)
  BY <1>3, ChangeEnomemStep, Zenon
<1>4. CASE UNCHANGED vars
  BY <1>4, Zenon DEF vars, IInv, TypeOK, AdmnCovered, NoStaleSkb, LenCovers
<1> QED BY <1>1, <1>2, <1>3, <1>4, Zenon DEF Next

\* The variables keep their types.
THEOREM TypeCorrect == Spec => []TypeOK
<1>1. IInv => TypeOK
  BY Zenon DEF IInv
<1> QED BY <1>1, InitIInv, NextIInv, PTL DEF Spec

\* In every queue each packet is filed once per tree and every admission
\* container has its processing twin, so that do_drop_tail always finds it,
\* also after a reconfiguration that ran out of memory.
THEOREM AdmissionCovered == Spec => []AdmnCovered
<1>1. IInv => AdmnCovered
  BY Zenon DEF IInv
<1> QED BY <1>1, InitIInv, NextIInv, PTL DEF Spec

\* No queue refers to a buffer that was freed by a drop or handed back by
\* oq_dequeue, and no packet is in two queues.
THEOREM NoStaleBuffer == Spec => []NoStaleSkb
<1>1. IInv => NoStaleSkb
  BY Zenon DEF IInv
<1> QED BY <1>1, InitIInv, NextIInv, PTL DEF Spec

\* The length that congestion conditions read is never below the number of
\* packets in the admission tree.
THEOREM LenCoversQueue == Spec => []LenCovers
<1>1. IInv => LenCovers
  BY Zenon DEF IInv
<1> QED BY <1>1, InitIInv, NextIInv, PTL DEF Spec

-----------------------------------------------------------------------------
(* Reconfigurations that find the memory they need *)

\* The lists are in order of arrival, and no packet is younger than the count
\* of arrivals.
Aged ==
  \A q \in Queue :
    /\ Fifo(queues[q].admn, at)
    /\ Fifo(queues[q].proc, at)
    /\ \A p \in Stored(queues[q].proc) : at[p] <= queues[q].total

\* The inductive invariant when reconfigurations succeed.
RInv == IInv /\ ProcCovered /\ LenDrift /\ Aged

\* The queues start in the stronger invariant.
LEMMA InitRInv == Init => RInv
<1> SUFFICES ASSUME Init PROVE RInv
  OBVIOUS
<1>1. ASSUME NEW q \in Queue
      PROVE  /\ queues[q].admn = EmptyTree /\ queues[q].proc = EmptyTree
             /\ queues[q].len = 0 /\ queues[q].dropped = 0
  BY InitQueueWell, Zenon DEF Init
<1>2. IInv
  BY InitIInv, Zenon
<1>3. ProcCovered
  BY <1>1, EmptyTreeFacts, Zenon DEF ProcCovered
<1>4. LenDrift
  BY <1>1, EmptyCount DEF LenDrift
<1>5. Aged
  BY <1>1, EmptyTreeFacts, Zenon DEF Aged
<1> QED BY <1>2, <1>3, <1>4, <1>5, Zenon DEF RInv

\* A step that replaces one queue, and numbers no packet of another one.
LEMMA OneQueueReliable ==
  ASSUME RInv, IInv', NEW q \in Queue, NEW Q1,
         queues' = [queues EXCEPT ![q] = Q1],
         Covered(Q1.proc, Q1.admn),
         Q1.len <= Cardinality(Stored(Q1.admn)) + Q1.dropped,
         \A r \in Queue \ {q} : \A p \in Stored(queues[r].proc) : at'[p] = at[p],
         Fifo(Q1.admn, at'), Fifo(Q1.proc, at'),
         \A p \in Stored(Q1.proc) : at'[p] <= Q1.total
  PROVE  RInv'
<1>1. \A r \in Queue : queues'[r] = IF r = q THEN Q1 ELSE queues[r]
  BY Zenon DEF RInv, IInv, TypeOK
<1>2. ProcCovered'
  BY <1>1, Zenon DEF RInv, ProcCovered
<1>3. LenDrift'
  BY <1>1, Zenon DEF RInv, LenDrift
<1>4. Aged'
  <2>1. ASSUME NEW r \in Queue, r # q
        PROVE  Fifo(queues[r].admn, at') /\ Fifo(queues[r].proc, at')
    <3>1. /\ queues[r].admn \in Tree /\ queues[r].proc \in Tree
          /\ Covered(queues[r].admn, queues[r].proc)
      BY IInvWell, Zenon DEF RInv, Well
    <3>2. Stored(queues[r].admn) \subseteq Stored(queues[r].proc)
      BY <3>1, StoredCovered, Zenon
    <3>3. \A p \in Stored(queues[r].proc) : at'[p] = at[p]
      BY <2>1, Zenon
    <3>4. Fifo(queues[r].admn, at) /\ Fifo(queues[r].proc, at)
      BY Zenon DEF RInv, Aged
    <3>5. ASSUME NEW T \in Tree, Fifo(T, at), \A p \in Stored(T) : at'[p] = at[p]
          PROVE  Fifo(T, at')
      <4> SUFFICES ASSUME NEW k \in Key, NEW i \in 1 .. Len(T[k]),
                          NEW j \in 1 .. Len(T[k]), i < j
                   PROVE  at'[T[k][i].skb] < at'[T[k][j].skb]
        BY Zenon DEF Fifo
      <4>1. T[k][i].skb \in Stored(T) /\ T[k][j].skb \in Stored(T)
        BY ListElements, Zenon DEF Stored
      <4>2. at[T[k][i].skb] < at[T[k][j].skb]
        BY <3>5, Zenon DEF Fifo
      <4> QED BY <3>5, <4>1, <4>2
    <3> QED BY <3>1, <3>2, <3>3, <3>4, <3>5, Zenon
  <2>2. ASSUME NEW r \in Queue
        PROVE  \A p \in Stored(queues'[r].proc) : at'[p] <= queues'[r].total
    BY <1>1 DEF RInv, Aged
  <2> QED BY <1>1, <2>1, <2>2 DEF Aged
<1> QED BY <1>2, <1>3, <1>4, Zenon DEF RInv

\* What the stronger invariant says of one queue.
LEMMA RInvQueue ==
  ASSUME RInv, NEW q \in Queue
  PROVE  /\ Well(queues[q])
         /\ queues[q].admn \in Tree /\ queues[q].proc \in Tree
         /\ Covered(queues[q].proc, queues[q].admn)
         /\ Stored(queues[q].admn) = Stored(queues[q].proc)
         /\ queues[q].len \in Int /\ queues[q].dropped \in Nat
         /\ queues[q].total \in Nat
         /\ Cardinality(Stored(queues[q].admn)) \in Nat
         /\ queues[q].len <= Cardinality(Stored(queues[q].admn)) + queues[q].dropped
         /\ Fifo(queues[q].admn, at) /\ Fifo(queues[q].proc, at)
         /\ \A p \in Stored(queues[q].proc) : at[p] \in Nat /\ at[p] <= queues[q].total
<1>1. /\ Well(queues[q])
      /\ queues[q].admn \in Tree /\ queues[q].proc \in Tree
      /\ queues[q].len \in Int /\ queues[q].dropped \in Nat
      /\ queues[q].total \in Nat
  BY IInvWell, Zenon DEF RInv
<1>2. Covered(queues[q].proc, queues[q].admn) /\ Covered(queues[q].admn, queues[q].proc)
  BY <1>1, Zenon DEF RInv, ProcCovered, Well
<1>3. Stored(queues[q].admn) = Stored(queues[q].proc)
  <2>1. Stored(queues[q].admn) \subseteq Stored(queues[q].proc)
    BY <1>1, <1>2, StoredCovered, Zenon
  <2>2. Stored(queues[q].proc) \subseteq Stored(queues[q].admn)
    BY <1>1, <1>2, StoredCovered, Zenon
  <2> QED BY <2>1, <2>2, Zenon
<1>4. Stored(queues[q].proc) \subseteq Skb /\ at \in [Skb -> Nat]
  BY <1>1, StoredHolds, Zenon DEF RInv, IInv, TypeOK
<1>5. Cardinality(Stored(queues[q].admn)) \in Nat
  BY <1>1, StoredFinite, Zenon
<1> QED BY <1>1, <1>2, <1>3, <1>4, <1>5, Zenon DEF RInv, LenDrift, Aged

\* What an admission does to its queue.
LEMMA AdmitEffect ==
  ASSUME RInv, NEW skb \in Skb, NEW q \in Queue, NEW a \in Key, NEW b \in Key,
         EnqueueAdmit(skb, q, a, b)
  PROVE  \E Q1 :
           /\ queues' = [queues EXCEPT ![q] = Q1]
           /\ PutIn(queues[q], Q1, skb, a, b)
           /\ Q1.len = queues[q].len + 1
           /\ Q1.total = queues[q].total + 1
           /\ Q1.dropped = queues[q].dropped
<1> DEFINE Q == queues[q]
           Q1 == do_enqueue(Q, skb, a, b)
<1>1. Well(Q) /\ skb \notin Stored(Q.proc)
  BY IInvWell, NotOwned, Zenon DEF RInv, EnqueueAdmit, Arrives
<1>2. queues' = [queues EXCEPT ![q] = Q1]
  BY Zenon DEF EnqueueAdmit
<1>3. /\ PutIn(Q, Q1, skb, a, b) /\ Q1.len = Q.len + 1
      /\ Q1.total = Q.total + 1 /\ Q1.dropped = Q.dropped
  <2> HIDE DEF Q
  <2> QED BY <1>1, Enqueued, Zenon
<1> HIDE DEF Q1
<1> QED BY <1>2, <1>3, Zenon

\* Queue q after a tail drop: D is the queue between the drop and the
\* admission, Q1 the queue after it.
DropTailResult(skb, q, a, b, Q1, D) ==
  /\ queues' = [queues EXCEPT ![q] = Q1]
  /\ PutIn(D, Q1, skb, a, b)
  /\ Q1.len = queues[q].len + 1
  /\ Q1.total = queues[q].total + 1
  /\ Q1.dropped = D.dropped
  /\ \/ /\ D = queues[q]
        /\ owned' = owned \cup {skb}
     \/ /\ Occupied(queues[q].admn) # {}
        /\ LET v == Head(queues[q].admn[btree_last(queues[q].admn)]).skb
           IN  /\ TakenOut(queues[q], D, v)
               /\ v \in Stored(queues[q].admn)
               /\ owned' = (owned \ {v}) \cup {skb}
        /\ D.dropped = queues[q].dropped + 1

\* What a tail drop does to its queue: the victim, if there is one, leaves both
\* trees before the new packet is put in both.
LEMMA DropTailEffect ==
  ASSUME RInv, NEW skb \in Skb, NEW q \in Queue, NEW a \in Key, NEW b \in Key,
         EnqueueDropTail(skb, q, a, b)
  PROVE  \E Q1, D : DropTailResult(skb, q, a, b, Q1, D)
<1> DEFINE Q == queues[q]
           d == do_drop_tail(Q)
           D == d.queue
           Q1 == do_enqueue(D, skb, a, b)
           v == Head(Q.admn[btree_last(Q.admn)]).skb
<1>1. Well(Q) /\ skb \notin Stored(Q.proc)
  BY IInvWell, NotOwned, Zenon DEF RInv, EnqueueDropTail, Arrives
<1>2. /\ queues' = [queues EXCEPT ![q] = Q1]
      /\ owned' = (owned \ d.freed) \cup {skb}
  BY SMTT(30) DEF EnqueueDropTail
<1>3. \/ d = [queue |-> Q, freed |-> {}]
      \/ /\ Occupied(Q.admn) # {}
         /\ TakenOut(Q, D, v) /\ d.freed = {v} /\ v \in Stored(Q.admn)
         /\ D.len = Q.len /\ D.total = Q.total /\ D.dropped = Q.dropped + 1
  <2>1. CASE Occupied(Q.admn) = {}
    BY <2>1, Zenon DEF do_drop_tail
  <2>2. CASE Occupied(Q.admn) # {}
    <3> HIDE DEF Q
    <3> QED BY <1>1, <2>2, Dropped, Zenon
  <2> QED BY <2>1, <2>2, Zenon
<1> HIDE DEF d
<1>4. Well(D) /\ skb \notin Stored(D.proc) /\ D.len = Q.len /\ D.total = Q.total
  <2>1. CASE d = [queue |-> Q, freed |-> {}]
    <3>1. D = Q
      BY <2>1, Zenon
    <3> QED BY <1>1, <3>1, Zenon
  <2>2. CASE ~(d = [queue |-> Q, freed |-> {}])
    <3>1. TakenOut(Q, D, v) /\ D.len = Q.len /\ D.total = Q.total
      BY <1>3, <2>2, SMTT(30)
    <3>2. Well(D) /\ Stored(D.proc) = Stored(Q.proc) \ {v}
      BY ONLY <3>1, Zenon DEF TakenOut
    <3> QED BY <1>1, <3>1, <3>2
  <2> QED BY <2>1, <2>2, Zenon
<1>5. /\ PutIn(D, Q1, skb, a, b) /\ Q1.len = D.len + 1
      /\ Q1.total = D.total + 1 /\ Q1.dropped = D.dropped
  <2> HIDE DEF D
  <2> QED BY <1>4, Enqueued, Zenon
<1> HIDE DEF Q1, v
<1>6. Q1.len = Q.len + 1 /\ Q1.total = Q.total + 1
  BY <1>4, <1>5, Zenon
<1>7. DropTailResult(skb, q, a, b, Q1, D)
  <2>1. CASE d = [queue |-> Q, freed |-> {}]
    <3>1. D = Q /\ owned' = owned \cup {skb}
      BY <1>2, <2>1, SMTT(30)
    <3> HIDE DEF D
    <3> QED BY <1>2, <1>5, <1>6, <3>1, Zenon DEF DropTailResult
  <2>2. CASE ~(d = [queue |-> Q, freed |-> {}])
    <3> HIDE DEF D
    <3> QED BY <1>2, <1>3, <1>5, <1>6, <2>2, Zenon DEF v, DropTailResult
  <2> QED BY <2>1, <2>2, Zenon
<1> QED BY <1>7, Zenon

\* The numbering after an arrival: the new packet is the youngest of its
\* queue, and no stored packet gets another number.
LEMMA ArrivalNumber ==
  ASSUME RInv, NEW skb \in Skb, NEW q \in Queue, skb \notin owned,
         at' = [at EXCEPT ![skb] = queues[q].total + 1]
  PROVE  /\ at'[skb] = queues[q].total + 1
         /\ \A r \in Queue : \A p \in Stored(queues[r].proc) : at'[p] = at[p]
         /\ \A p \in Stored(queues[q].proc) : at[p] < at'[skb]
<1>1. at \in [Skb -> Nat] /\ at'[skb] = queues[q].total + 1
  BY Zenon DEF RInv, IInv, TypeOK
<1>2. ASSUME NEW r \in Queue, NEW p \in Stored(queues[r].proc)
      PROVE  at'[p] = at[p]
  <2>1. p # skb
    BY NotOwned, Zenon DEF RInv
  <2>2. p \in Skb
    BY RInvQueue, StoredHolds, Zenon
  <2> QED BY <1>1, <2>1, <2>2, Zenon
<1>3. ASSUME NEW p \in Stored(queues[q].proc)
      PROVE  at[p] < at'[skb]
  BY <1>1, RInvQueue
<1> QED BY <1>1, <1>2, <1>3, Zenon

\* oq_enqueue without congestion keeps the stronger invariant.
LEMMA AdmitReliable ==
  ASSUME RInv, NEW skb \in Skb, NEW q \in Queue, NEW a \in Key, NEW b \in Key,
         EnqueueAdmit(skb, q, a, b)
  PROVE  RInv'
<1> DEFINE Q == queues[q]
<1>1. IInv'
  BY AdmitStep, Zenon DEF RInv
<1>2. PICK Q1 :
        /\ queues' = [queues EXCEPT ![q] = Q1]
        /\ PutIn(Q, Q1, skb, a, b)
        /\ Q1.len = Q.len + 1
        /\ Q1.total = Q.total + 1
        /\ Q1.dropped = Q.dropped
  BY AdmitEffect
<1>3. skb \notin owned /\ at' = [at EXCEPT ![skb] = Q.total + 1]
  BY Zenon DEF EnqueueAdmit, Arrives
<1>4. /\ at'[skb] = Q.total + 1
      /\ \A r \in Queue : \A p \in Stored(queues[r].proc) : at'[p] = at[p]
      /\ \A p \in Stored(Q.proc) : at[p] < at'[skb]
  BY <1>3, ArrivalNumber, Zenon
<1>5. /\ Q.admn \in Tree /\ Q.proc \in Tree /\ Covered(Q.proc, Q.admn)
      /\ Q.len \in Int /\ Q.dropped \in Nat /\ Q.total \in Nat
      /\ Cardinality(Stored(Q.admn)) \in Nat
      /\ Q.len <= Cardinality(Stored(Q.admn)) + Q.dropped
      /\ Fifo(Q.admn, at) /\ Fifo(Q.proc, at)
      /\ \A p \in Stored(Q.proc) : at[p] \in Nat /\ at[p] <= Q.total
  BY RInvQueue, Zenon
<1> HIDE DEF Q
<1>6. Covered(Q1.proc, Q1.admn)
  BY <1>2, <1>5, Zenon DEF PutIn
<1>7. Q1.len <= Cardinality(Stored(Q1.admn)) + Q1.dropped
  <2>1. /\ Stored(Q1.admn) = Stored(Q.admn) \cup {skb}
        /\ skb \notin Stored(Q.admn)
    BY <1>2, Zenon DEF PutIn
  <2>2. Cardinality(Stored(Q1.admn)) = Cardinality(Stored(Q.admn)) + 1
    BY <1>5, <2>1, CountPlus
  <2> QED BY <1>2, <1>5, <2>2
<1>8. Fifo(Q1.admn, at') /\ Fifo(Q1.proc, at')
  <2>1. \A x \in Stored(Q.proc) : at'[x] = at[x] /\ at[x] < at'[skb]
    BY <1>4, Zenon DEF Q
  <2> QED BY <1>2, <1>5, <2>1, Zenon DEF PutIn
<1>9. \A p \in Stored(Q1.proc) : at'[p] <= Q1.total
  <2>1. Stored(Q1.proc) = Stored(Q.proc) \cup {skb}
    BY <1>2, Zenon DEF PutIn
  <2>2. \A p \in Stored(Q.proc) : at'[p] = at[p]
    BY <1>4, Zenon DEF Q
  <2> QED BY <1>2, <1>4, <1>5, <2>1, <2>2
<1> QED
  BY <1>1, <1>2, <1>4, <1>6, <1>7, <1>8, <1>9, OneQueueReliable, Zenon

\* A tail drop and the admission after it keep the stronger invariant.
LEMMA DropTailReliable ==
  ASSUME RInv, NEW skb \in Skb, NEW q \in Queue, NEW a \in Key, NEW b \in Key,
         EnqueueDropTail(skb, q, a, b)
  PROVE  RInv'
<1> DEFINE Q == queues[q]
           v == Head(Q.admn[btree_last(Q.admn)]).skb
<1>1. IInv'
  BY DropTailStep DEF RInv
<1>d. PICK Q1, D : DropTailResult(skb, q, a, b, Q1, D)
  BY DropTailEffect, Zenon
<1>2. /\ queues' = [queues EXCEPT ![q] = Q1]
      /\ PutIn(D, Q1, skb, a, b)
      /\ Q1.len = Q.len + 1
      /\ Q1.total = Q.total + 1
      /\ Q1.dropped = D.dropped
      /\ \/ D = Q
         \/ /\ TakenOut(Q, D, v)
            /\ v \in Stored(Q.admn)
            /\ D.dropped = Q.dropped + 1
  BY <1>d, Zenon DEF DropTailResult
<1>3. skb \notin owned /\ at' = [at EXCEPT ![skb] = Q.total + 1]
  BY Zenon DEF EnqueueDropTail, Arrives
<1>4. /\ at'[skb] = Q.total + 1
      /\ \A r \in Queue : \A p \in Stored(queues[r].proc) : at'[p] = at[p]
      /\ \A p \in Stored(Q.proc) : at[p] < at'[skb]
  BY <1>3, ArrivalNumber, Zenon
<1>5. /\ Well(Q) /\ Q.admn \in Tree /\ Covered(Q.proc, Q.admn)
      /\ Q.len \in Int /\ Q.dropped \in Nat /\ Q.total \in Nat
      /\ Cardinality(Stored(Q.admn)) \in Nat
      /\ Q.len <= Cardinality(Stored(Q.admn)) + Q.dropped
      /\ Fifo(Q.admn, at) /\ Fifo(Q.proc, at)
      /\ \A p \in Stored(Q.proc) : at[p] \in Nat /\ at[p] <= Q.total
  BY RInvQueue
<1>m. \A p \in Stored(Q.proc) : at'[p] = at[p]
  BY <1>4
<1> HIDE DEF Q, v
<1>6. /\ Well(D) /\ Covered(D.proc, D.admn)
      /\ Fifo(D.admn, at) /\ Fifo(D.proc, at)
      /\ Stored(D.proc) \subseteq Stored(Q.proc)
  BY <1>2, <1>5, Zenon DEF TakenOut
<1>7. /\ D.dropped \in Nat /\ D.admn \in Tree
      /\ Cardinality(Stored(D.admn)) \in Nat
      /\ Q.len <= Cardinality(Stored(D.admn)) + D.dropped
  <2>1. D.dropped \in Nat /\ D.admn \in Tree
    BY <1>6, Zenon DEF Well, QueueRec
  <2>2. CASE D = Q
    BY <1>5, <2>1, <2>2, Zenon
  <2>3. CASE ~(D = Q)
    <3>1. Stored(D.admn) = Stored(Q.admn) \ {v} /\ v \in Stored(Q.admn)
      BY <1>2, <2>3, Zenon DEF TakenOut
    <3>2. D.dropped = Q.dropped + 1
      BY <1>2, <2>3, Zenon
    <3>3. Cardinality(Stored(D.admn)) = Cardinality(Stored(Q.admn)) - 1
      BY <1>5, <3>1, CountMinus, Zenon
    <3>4. Cardinality(Stored(D.admn)) \in Nat
      BY <2>1, StoredFinite
    <3> QED BY <1>5, <2>1, <3>2, <3>3, <3>4
  <2> QED BY <2>2, <2>3, Zenon
<1>8. Covered(Q1.proc, Q1.admn)
  BY <1>2, <1>6, Zenon DEF PutIn
<1>9. Q1.len <= Cardinality(Stored(Q1.admn)) + Q1.dropped
  <2>1. /\ Stored(Q1.admn) = Stored(D.admn) \cup {skb}
        /\ skb \notin Stored(D.admn)
    BY <1>2, Zenon DEF PutIn
  <2>2. Cardinality(Stored(Q1.admn)) = Cardinality(Stored(D.admn)) + 1
    BY <1>7, <2>1, CountPlus, Zenon
  <2> QED BY <1>2, <1>5, <1>7, <2>2
<1>10. Fifo(Q1.admn, at') /\ Fifo(Q1.proc, at')
  <2>1. \A x \in Stored(D.proc) : at'[x] = at[x] /\ at[x] < at'[skb]
    BY <1>4, <1>6, <1>m, SMTT(30)
  <2> QED BY <1>2, <1>6, <2>1, Zenon DEF PutIn
<1>11. \A p \in Stored(Q1.proc) : at'[p] <= Q1.total
  <2>1. Stored(Q1.proc) = Stored(D.proc) \cup {skb}
    BY <1>2, Zenon DEF PutIn
  <2> QED BY <1>2, <1>4, <1>5, <1>6, <1>m, <2>1, SMTT(30)
<1> QED
  BY <1>1, <1>2, <1>4, <1>8, <1>9, <1>10, <1>11, OneQueueReliable, Zenon

\* Freeing the arriving packet keeps the stronger invariant.
LEMMA DropPktReliable ==
  ASSUME RInv, NEW skb \in Skb, NEW q \in Queue, EnqueueDropPkt(skb, q)
  PROVE  RInv'
<1> DEFINE Q == queues[q]
           Q1 == [Q EXCEPT !.dropped = @ + 1]
<1>1. IInv'
  BY DropPktStep, Zenon DEF RInv
<1>2. queues' = [queues EXCEPT ![q] = Q1] /\ at' = at
  BY Zenon DEF EnqueueDropPkt, RInv, IInv, TypeOK
<1>3. /\ Well(Q) /\ Covered(Q.proc, Q.admn)
      /\ Q.len \in Int /\ Q.dropped \in Nat
      /\ Cardinality(Stored(Q.admn)) \in Nat
      /\ Q.len <= Cardinality(Stored(Q.admn)) + Q.dropped
      /\ Fifo(Q.admn, at) /\ Fifo(Q.proc, at)
      /\ \A p \in Stored(Q.proc) : at[p] <= Q.total
  BY RInvQueue, Zenon
<1> HIDE DEF Q
<1>4. /\ Q1.admn = Q.admn /\ Q1.proc = Q.proc /\ Q1.len = Q.len
      /\ Q1.total = Q.total /\ Q1.dropped = Q.dropped + 1
  BY <1>3, Zenon DEF Well, QueueRec
<1> HIDE DEF Q1
<1>5. Q1.len <= Cardinality(Stored(Q1.admn)) + Q1.dropped
  BY <1>3, <1>4
<1> QED BY <1>1, <1>2, <1>3, <1>4, <1>5, OneQueueReliable, Zenon

\* oq_dequeue keeps the stronger invariant.
LEMMA DequeueReliable ==
  ASSUME RInv, NEW q \in Queue, oq_dequeue(q)
  PROVE  RInv'
<1> DEFINE Q == queues[q]
<1>1. IInv'
  BY DequeueStep, Zenon DEF RInv
<1>2. /\ Q.admn \in Tree /\ Covered(Q.proc, Q.admn)
      /\ Q.len \in Int /\ Q.dropped \in Nat
      /\ Cardinality(Stored(Q.admn)) \in Nat
      /\ Q.len <= Cardinality(Stored(Q.admn)) + Q.dropped
      /\ Fifo(Q.admn, at) /\ Fifo(Q.proc, at)
      /\ \A p \in Stored(Q.proc) : at[p] <= Q.total
  BY RInvQueue, Zenon
<1>3. PICK Q1, v :
        /\ queues' = [queues EXCEPT ![q] = Q1]
        /\ TakenOut(Q, Q1, v)
        /\ Q1.total = Q.total /\ Q1.dropped = Q.dropped
        /\ at' = at
        /\ v \in Stored(Q.admn)
        /\ Q1.len = Q.len - 1
  BY <1>2, DequeueEffect, Zenon DEF RInv
<1> HIDE DEF Q
<1>4. /\ Covered(Q1.proc, Q1.admn)
      /\ Fifo(Q1.admn, at) /\ Fifo(Q1.proc, at)
      /\ Stored(Q1.proc) \subseteq Stored(Q.proc)
      /\ Stored(Q1.admn) = Stored(Q.admn) \ {v}
  BY <1>2, <1>3, Zenon DEF TakenOut
<1>5. Q1.len <= Cardinality(Stored(Q1.admn)) + Q1.dropped
  <2>1. Cardinality(Stored(Q1.admn)) = Cardinality(Stored(Q.admn)) - 1
    BY <1>2, <1>3, <1>4, CountMinus, Zenon
  <2> QED BY <1>2, <1>3, <2>1
<1>6. \A p \in Stored(Q1.proc) : at[p] <= Q1.total
  BY <1>2, <1>3, <1>4
<1> QED BY <1>1, <1>3, <1>4, <1>5, <1>6, OneQueueReliable, Zenon

\* A reconfiguration that succeeds keeps the stronger invariant.
LEMMA ChangeReliable ==
  ASSUME RInv, oq_change
  PROVE  RInv'
<1>1. IInv'
  BY ChangeStep, Zenon DEF RInv
<1>2. ASSUME NEW q \in Queue
      PROVE  /\ queues'[q].admn = EmptyTree /\ queues'[q].proc = EmptyTree
             /\ queues'[q].len = 0 /\ queues'[q].dropped = 0
  BY InitQueueWell, Zenon DEF oq_change
<1>3. ProcCovered' /\ Aged'
  BY <1>2, EmptyTreeFacts, Zenon DEF ProcCovered, Aged
<1>4. LenDrift'
  BY <1>2, EmptyCount DEF LenDrift
<1> QED BY <1>1, <1>3, <1>4, Zenon DEF RInv

\* Every step keeps the stronger invariant while reconfigurations succeed.
LEMMA NextRInv == RInv /\ [DataPath \/ oq_change]_vars => RInv'
<1> SUFFICES ASSUME RInv, [DataPath \/ oq_change]_vars PROVE RInv'
  OBVIOUS
<1>1. ASSUME NEW skb \in Skb, NEW q \in Queue, EnqueueUnhandled(skb, q)
      PROVE  RInv'
  <2>1. IInv' /\ queues' = queues /\ at' = at
    BY <1>1, UnhandledStep DEF RInv, EnqueueUnhandled
  <2> QED BY <2>1, Zenon DEF RInv, ProcCovered, LenDrift, Aged
<1>2. ASSUME NEW skb \in Skb, oq_enqueue(skb) PROVE RInv'
  BY <1>1, <1>2, AdmitReliable, DropTailReliable, DropPktReliable DEF oq_enqueue
<1>3. ASSUME NEW q \in Queue, oq_dequeue(q) PROVE RInv'
  BY <1>3, DequeueReliable
<1>4. CASE oq_change
  BY <1>4, ChangeReliable
<1>5. CASE UNCHANGED vars
  BY <1>5 DEF vars, RInv, ProcCovered, LenDrift, Aged,
              IInv, TypeOK, AdmnCovered, NoStaleSkb, LenCovers
<1> QED BY <1>2, <1>3, <1>4, <1>5 DEF DataPath

\* While reconfigurations succeed, every processing container has its
\* admission twin, so that oq_dequeue returns NULL for an empty queue only.
THEOREM ProcessingCovered == ReliableSpec => []ProcCovered
<1>1. RInv => ProcCovered
  BY DEF RInv
<1> QED BY <1>1, InitRInv, NextRInv, PTL DEF ReliableSpec

\* While reconfigurations succeed, len exceeds the number of packets held by
\* at most the number dropped.
THEOREM LenDriftBounded == ReliableSpec => []LenDrift
<1>1. RInv => LenDrift
  BY Zenon DEF RInv
<1> QED BY <1>1, InitRInv, NextRInv, PTL DEF ReliableSpec

-----------------------------------------------------------------------------
(* Leaks *)

\* A step that replaces one queue leaks nothing if every buffer owned after
\* it, and not before, is in the queue, and what leaves the queue is given
\* back.
LEMMA OneQueueLeaks ==
  ASSUME RInv, NEW q \in Queue, NEW Q1,
         queues' = [queues EXCEPT ![q] = Q1],
         owned' \ owned \subseteq Stored(Q1.proc),
         \A x \in Stored(queues[q].proc) : x \in owned' => x \in Stored(Q1.proc)
  PROVE  Leaked' \subseteq Leaked
<1>1. \A r \in Queue : queues'[r] = IF r = q THEN Q1 ELSE queues[r]
  BY Zenon DEF RInv, IInv, TypeOK
<1> SUFFICES ASSUME NEW x \in owned',
                    \A r \in Queue : x \notin Stored(queues'[r].proc)
             PROVE  x \in owned /\ \A r \in Queue : x \notin Stored(queues[r].proc)
  BY Zenon DEF Leaked
<1> QED BY <1>1, Zenon

\* A buffer leaves the qdisc's books only through an unknown congestion
\* action or a reconfiguration: admission, tail drop, packet drop and dequeue
\* keep every owned buffer in a queue or give it back.
THEOREM OnlyKnownLeaks == ReliableSpec => LeakSources
<1> DEFINE Step == \/ Leaked' \subseteq Leaked
                   \/ oq_change
                   \/ \E skb \in Skb, q \in Queue : EnqueueUnhandled(skb, q)
<1>1. ASSUME RInv, NEW skb \in Skb, NEW q \in Queue, NEW a \in Key, NEW b \in Key,
             EnqueueAdmit(skb, q, a, b)
      PROVE  Leaked' \subseteq Leaked
  <2>1. PICK Q1 : /\ queues' = [queues EXCEPT ![q] = Q1]
                  /\ PutIn(queues[q], Q1, skb, a, b)
    BY <1>1, AdmitEffect, Zenon
  <2>2. Stored(Q1.proc) = Stored(queues[q].proc) \cup {skb}
    BY <2>1, Zenon DEF PutIn
  <2>3. owned' = owned \cup {skb}
    BY <1>1, Zenon DEF EnqueueAdmit
  <2> QED BY <1>1, <2>1, <2>2, <2>3, OneQueueLeaks, Zenon
<1>2. ASSUME RInv, NEW skb \in Skb, NEW q \in Queue, NEW a \in Key, NEW b \in Key,
             EnqueueDropTail(skb, q, a, b)
      PROVE  Leaked' \subseteq Leaked
  <2> DEFINE Q == queues[q]
             v == Head(Q.admn[btree_last(Q.admn)]).skb
  <2>d. PICK Q1, D : DropTailResult(skb, q, a, b, Q1, D)
    BY <1>2, DropTailEffect, Zenon
  <2>1. /\ queues' = [queues EXCEPT ![q] = Q1]
        /\ PutIn(D, Q1, skb, a, b)
        /\ \/ /\ D = Q
              /\ owned' = owned \cup {skb}
           \/ /\ TakenOut(Q, D, v)
              /\ owned' = (owned \ {v}) \cup {skb}
    BY <2>d, Zenon DEF DropTailResult
  <2> HIDE DEF Q, v
  <2>2. Stored(Q1.proc) = Stored(D.proc) \cup {skb}
    BY <2>1, Zenon DEF PutIn
  <2>3. /\ owned' \ owned \subseteq Stored(Q1.proc)
        /\ \A x \in Stored(Q.proc) : x \in owned' => x \in Stored(Q1.proc)
    <3>1. CASE D = Q /\ owned' = owned \cup {skb}
      BY <2>2, <3>1, Zenon
    <3>2. CASE TakenOut(Q, D, v) /\ owned' = (owned \ {v}) \cup {skb}
      <4>1. Stored(D.proc) = Stored(Q.proc) \ {v}
        BY <3>2, Zenon DEF TakenOut
      <4> QED BY <2>2, <3>2, <4>1, Zenon
    <3> QED BY <2>1, <3>1, <3>2, Zenon
  <2> QED BY <1>2, <2>1, <2>3, OneQueueLeaks, Zenon DEF Q
<1>3. ASSUME RInv, NEW skb \in Skb, NEW q \in Queue, EnqueueDropPkt(skb, q)
      PROVE  Leaked' \subseteq Leaked
  <2> DEFINE Q1 == [queues[q] EXCEPT !.dropped = @ + 1]
  <2>1. queues' = [queues EXCEPT ![q] = Q1] /\ owned' = owned
    BY <1>3, Zenon DEF EnqueueDropPkt, RInv, IInv, TypeOK
  <2>2. Q1.proc = queues[q].proc
    BY <1>3, RInvQueue, Zenon DEF Well, QueueRec
  <2> HIDE DEF Q1
  <2> QED BY <1>3, <2>1, <2>2, OneQueueLeaks, Zenon
<1>4. ASSUME RInv, NEW q \in Queue, oq_dequeue(q)
      PROVE  Leaked' \subseteq Leaked
  <2>1. IInv /\ Covered(queues[q].proc, queues[q].admn)
    BY <1>4, RInvQueue, Zenon DEF RInv
  <2>2. PICK Q1, v :
          /\ queues' = [queues EXCEPT ![q] = Q1]
          /\ TakenOut(queues[q], Q1, v)
          /\ owned' = owned \ {v}
    BY <1>4, <2>1, DequeueEffect
  <2>3. Stored(Q1.proc) = Stored(queues[q].proc) \ {v}
    BY <2>2, Zenon DEF TakenOut
  <2> QED BY <1>4, <2>2, <2>3, OneQueueLeaks, Zenon
<1>5. ASSUME RInv, [DataPath \/ oq_change]_vars
      PROVE  [Step]_vars
  <2>1. ASSUME NEW skb \in Skb, oq_enqueue(skb) PROVE Step
    <3>1. PICK q \in Queue :
            \/ \E a, b \in Key :
                 \/ EnqueueAdmit(skb, q, a, b)
                 \/ EnqueueDropTail(skb, q, a, b)
            \/ EnqueueDropPkt(skb, q)
            \/ EnqueueUnhandled(skb, q)
      BY <2>1, Zenon DEF oq_enqueue
    <3> QED BY <1>1, <1>2, <1>3, <1>5, <3>1
  <2>2. ASSUME NEW q \in Queue, oq_dequeue(q) PROVE Step
    BY <1>4, <1>5, <2>2, Zenon
  <2> HIDE DEF Step
  <2>3. oq_change => Step
    BY Zenon DEF Step
  <2> QED BY <1>5, <2>1, <2>2, <2>3, Zenon DEF DataPath
<1> QED
  <2>1. RInv /\ [DataPath \/ oq_change]_vars => [Step]_vars
    BY <1>5, Zenon
  <2> QED BY <2>1, InitRInv, NextRInv, PTL DEF ReliableSpec, LeakSources
=============================================================================
