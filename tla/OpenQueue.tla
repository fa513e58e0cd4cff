------------------------------ MODULE OpenQueue ------------------------------
(***************************************************************************)
(* The data path of the OpenQueue qdisc (qdisc/mod_sch_openqueue.c): the   *)
(* queues of one port, as oq_enqueue, oq_dequeue and oq_init change them.  *)
(*                                                                         *)
(* A queue keeps every packet twice: in a B+tree ordered by admission key  *)
(* and in a B+tree ordered by processing key.  A tree maps a key to a      *)
(* circular list of containers, oldest first; each container carries the   *)
(* key of its twin in the other tree.  Here a tree is a function from keys *)
(* to sequences of containers and the empty sequence is an absent key; the *)
(* list pointers are below this level of detail.                           *)
(*                                                                         *)
(* The kernel calls enqueue and dequeue of one qdisc under its root lock,  *)
(* so each is one step.  The policy is a parameter: it may select, order   *)
(* and drop as it likes among the values the constants allow.              *)
(***************************************************************************)
EXTENDS Integers, Sequences, FiniteSetsExt

CONSTANTS
  Skb,             \* addresses of packet buffers (struct sk_buff *)
  ULONG_MAX,       \* largest key (unsigned long)
  NumQ,            \* number of queues the policy initialises (num_q)
  MaxLen,          \* max_len of each queue in the policy
  SelectQ,         \* queues that q_select returns
  SchedQ,          \* queues that sched_fn returns
  CongAct,         \* results of cong_act_fn
  cong_fn(_, _),   \* congestion condition, on a queue's index and contents
  MaxCount         \* bound on the counters total and dropped

Key == 0 .. ULONG_MAX
Queue == 0 .. NumQ - 1

ASSUME ConstantsAssumption ==
  /\ IsFiniteSet(Skb)
  /\ ULONG_MAX \in Nat
  /\ NumQ \in Nat
  /\ MaxLen \in [Queue -> Int]
  /\ SelectQ \subseteq Queue
  /\ SchedQ \subseteq Queue
  /\ MaxCount \in Nat

VARIABLES
  queues,   \* priv->queues
  owned,    \* buffers handed to the qdisc and neither sent nor freed since
  at        \* history: the number a buffer had among its queue's arrivals

vars == <<queues, owned, at>>

OQ_CON_ACT_DROP_TAIL == 2
OQ_CON_ACT_DROP_PKT == 3

Container == [skb : Skb, other_key : Key]
Tree == [Key -> Seq(Container)]
QueueRec == [admn : Tree, proc : Tree, max_len : Int,
             len : Int, dropped : Nat, total : Nat]

-----------------------------------------------------------------------------
(* B+trees and container lists *)

EmptyTree == [k \in Key |-> << >>]

\* Keys that have a list in the tree.
Occupied(tree) == {k \in Key : tree[k] # << >>}

\* btree_last on a tree that is not empty: the largest key.
btree_last(tree) == Max(Occupied(tree))

\* The walk along a circular list for the container of a packet; 0 if none.
Position(list, skb) ==
  LET places == {i \in 1 .. Len(list) : list[i].skb = skb}
  IN  IF places = {} THEN 0 ELSE Min(places)

\* A list without its container at place i.
Without(list, i) == SubSeq(list, 1, i - 1) \o SubSeq(list, i + 1, Len(list))

\* Unlink the container at the head of the last list of a tree, and its twin
\* in the other tree.
Unlink(tree, twin) ==
  LET key  == btree_last(tree)
      c    == Head(tree[key])
      pos  == Position(twin[c.other_key], c.skb)
  IN  [skb   |-> c.skb,
       found |-> pos # 0,
       tree  |-> [tree EXCEPT ![key] = Tail(@)],
       twin  |-> IF pos = 0
                 THEN twin
                 ELSE [twin EXCEPT ![c.other_key] = Without(@, pos)]]

-----------------------------------------------------------------------------
(* Operations on one queue *)

init_queue(q) ==
  [admn |-> EmptyTree, proc |-> EmptyTree, max_len |-> MaxLen[q],
   len |-> 0, dropped |-> 0, total |-> 0]

\* Variant for mutation: each container keeps its own key, not its twin's.
do_enqueue_own_key(Q, skb, admn_key, proc_key) ==
  [Q EXCEPT
     !.admn[admn_key] = Append(@, [skb |-> skb, other_key |-> admn_key]),
     !.proc[proc_key] = Append(@, [skb |-> skb, other_key |-> proc_key]),
     !.len = @ + 1,
     !.total = @ + 1]

\* Variant for mutation: a new container becomes the head of its list.
do_enqueue_at_head(Q, skb, admn_key, proc_key) ==
  [Q EXCEPT
     !.admn[admn_key] = <<[skb |-> skb, other_key |-> proc_key]>> \o @,
     !.proc[proc_key] = <<[skb |-> skb, other_key |-> admn_key]>> \o @,
     !.len = @ + 1,
     !.total = @ + 1]

do_enqueue(Q, skb, admn_key, proc_key) ==
  [Q EXCEPT
     !.admn[admn_key] = Append(@, [skb |-> skb, other_key |-> proc_key]),
     !.proc[proc_key] = Append(@, [skb |-> skb, other_key |-> admn_key]),
     !.len = @ + 1,
     !.total = @ + 1]

\* Variant for mutation: the processing tree is initialised first.
init_queue_enomem_proc_first(Q, failing) ==
  [Q EXCEPT !.proc = EmptyTree,
            !.admn = IF failing = "admn" THEN EmptyTree ELSE @]

\* init_queue when btree_init cannot allocate: each btree_init empties its tree
\* before it fails, and the first failure leaves the rest of the queue as it is.
init_queue_enomem(Q, failing) ==
  [Q EXCEPT !.admn = EmptyTree,
            !.proc = IF failing = "proc" THEN EmptyTree ELSE @]

\* Variant for mutation: the victim's buffer is not freed.
do_drop_tail_no_kfree(Q) ==
  IF Occupied(Q.admn) = {} THEN [queue |-> Q, freed |-> {}]
  ELSE LET u == Unlink(Q.admn, Q.proc)
       IN  [queue |-> [Q EXCEPT !.admn = u.tree, !.proc = u.twin, !.dropped = @ + 1],
            freed |-> {}]

\* Variant for mutation: the victim is freed before its processing container is
\* looked for, and that container stays.
do_drop_tail_one_tree(Q) ==
  IF Occupied(Q.admn) = {} THEN [queue |-> Q, freed |-> {}]
  ELSE LET u == Unlink(Q.admn, Q.proc)
       IN  [queue |-> [Q EXCEPT !.admn = u.tree, !.dropped = @ + 1],
            freed |-> {u.skb}]

\* The queue after do_drop_tail and the buffers it frees.
do_drop_tail(Q) ==
  IF Occupied(Q.admn) = {} THEN [queue |-> Q, freed |-> {}]
  ELSE LET u == Unlink(Q.admn, Q.proc)
       IN  IF u.found
           THEN [queue |-> [Q EXCEPT !.admn = u.tree, !.proc = u.twin,
                                     !.dropped = @ + 1],
                 freed |-> {u.skb}]
           ELSE [queue |-> [Q EXCEPT !.admn = u.tree], freed |-> {}]

-----------------------------------------------------------------------------
(* Actions *)

Init ==
  /\ queues = [q \in Queue |-> init_queue(q)]
  /\ owned = {}
  /\ at = [p \in Skb |-> 0]

\* The stack hands skb to oq_enqueue and q_select picks queue q.
Arrives(skb, q) ==
  /\ skb \notin owned
  /\ q \in SelectQ
  /\ queues[q].total < MaxCount
  /\ queues[q].dropped < MaxCount

\* oq_enqueue on a queue that is not congested.
EnqueueAdmit(skb, q, admn_key, proc_key) ==
  /\ Arrives(skb, q)
  /\ ~cong_fn(q, queues[q])
  /\ queues' = [queues EXCEPT ![q] = do_enqueue(@, skb, admn_key, proc_key)]
  /\ owned' = owned \cup {skb}
  /\ at' = [at EXCEPT ![skb] = queues[q].total + 1]

\* oq_enqueue on a congested queue, action OQ_CON_ACT_DROP_TAIL.
EnqueueDropTail(skb, q, admn_key, proc_key) ==
  /\ Arrives(skb, q)
  /\ cong_fn(q, queues[q])
  /\ OQ_CON_ACT_DROP_TAIL \in CongAct
  /\ LET d == do_drop_tail(queues[q])
     IN  /\ queues' = [queues EXCEPT
                         ![q] = do_enqueue(d.queue, skb, admn_key, proc_key)]
         /\ owned' = (owned \ d.freed) \cup {skb}
  /\ at' = [at EXCEPT ![skb] = queues[q].total + 1]

\* Variant for mutation: the count of drops goes down.
EnqueueDropPkt_count_down(skb, q) ==
  /\ Arrives(skb, q)
  /\ cong_fn(q, queues[q])
  /\ OQ_CON_ACT_DROP_PKT \in CongAct
  /\ queues' = [queues EXCEPT ![q].dropped = @ - 1]
  /\ UNCHANGED <<owned, at>>

\* oq_enqueue on a congested queue, action OQ_CON_ACT_DROP_PKT: the arriving
\* packet is freed.
EnqueueDropPkt(skb, q) ==
  /\ Arrives(skb, q)
  /\ cong_fn(q, queues[q])
  /\ OQ_CON_ACT_DROP_PKT \in CongAct
  /\ queues' = [queues EXCEPT ![q].dropped = @ + 1]
  /\ UNCHANGED <<owned, at>>

\* oq_enqueue on a congested queue, any other action: the switch has no case
\* for it, and the function returns without touching the packet.
EnqueueUnhandled(skb, q) ==
  /\ Arrives(skb, q)
  /\ cong_fn(q, queues[q])
  /\ CongAct \ {OQ_CON_ACT_DROP_TAIL, OQ_CON_ACT_DROP_PKT} # {}
  /\ owned' = owned \cup {skb}
  /\ UNCHANGED <<queues, at>>

\* Variant for mutation: len is not decremented.
oq_dequeue_keep_len(q) ==
  /\ q \in SchedQ
  /\ Occupied(queues[q].proc) # {}
  /\ LET u == Unlink(queues[q].proc, queues[q].admn)
     IN  /\ queues' = [queues EXCEPT ![q].proc = u.tree, ![q].admn = u.twin]
         /\ owned' = owned \ {u.skb}
  /\ UNCHANGED at

\* Variant for mutation: len is decremented before the queue is known to hold
\* a packet.
oq_dequeue_len_first(q) ==
  /\ q \in SchedQ
  /\ queues[q].len > -2
  /\ IF Occupied(queues[q].proc) = {}
     THEN /\ queues' = [queues EXCEPT ![q].len = @ - 1]
          /\ UNCHANGED owned
     ELSE LET u == Unlink(queues[q].proc, queues[q].admn)
          IN  /\ queues' = [queues EXCEPT ![q].proc = u.tree,
                                          ![q].admn = u.twin,
                                          ![q].len = @ - 1]
              /\ owned' = owned \ {u.skb}
  /\ UNCHANGED at

\* Variant for mutation: a list with a single container is left alone.
oq_dequeue_skip_last(q) ==
  /\ q \in SchedQ
  /\ Occupied(queues[q].proc) # {}
  /\ Len(queues[q].proc[btree_last(queues[q].proc)]) # 1
  /\ LET u == Unlink(queues[q].proc, queues[q].admn)
     IN  /\ queues' = [queues EXCEPT ![q].proc = u.tree,
                                     ![q].admn = u.twin,
                                     ![q].len = @ - 1]
         /\ owned' = owned \ {u.skb}
  /\ UNCHANGED at

\* oq_dequeue when sched_fn picks a queue whose processing tree is not empty.
\* On an empty one it returns NULL and changes nothing.
oq_dequeue(q) ==
  /\ q \in SchedQ
  /\ Occupied(queues[q].proc) # {}
  /\ LET u == Unlink(queues[q].proc, queues[q].admn)
     IN  IF u.found
         THEN /\ queues' = [queues EXCEPT ![q].proc = u.tree,
                                          ![q].admn = u.twin,
                                          ![q].len = @ - 1]
              /\ owned' = owned \ {u.skb}
         ELSE /\ queues' = [queues EXCEPT ![q].proc = u.tree]
              /\ UNCHANGED owned
  /\ UNCHANGED at

\* oq_init as the change operation: init_port_fn initialises every queue
\* again, whatever the queues hold.
oq_change ==
  /\ queues' = [q \in Queue |-> init_queue(q)]
  /\ UNCHANGED <<owned, at>>

\* oq_init as the change operation, out of memory at queue f: the queues before
\* it are initialised, those after it are not.
oq_change_enomem(f) ==
  /\ \E failing \in {"admn", "proc"} :
       queues' = [q \in Queue |->
                    IF q < f THEN init_queue(q)
                    ELSE IF q = f THEN init_queue_enomem(queues[q], failing)
                    ELSE queues[q]]
  /\ UNCHANGED <<owned, at>>

oq_enqueue(skb) ==
  \E q \in Queue :
    \/ \E admn_key, proc_key \in Key :
         \/ EnqueueAdmit(skb, q, admn_key, proc_key)
         \/ EnqueueDropTail(skb, q, admn_key, proc_key)
    \/ EnqueueDropPkt(skb, q)
    \/ EnqueueUnhandled(skb, q)

\* What the network stack drives, without reconfiguration.
DataPath ==
  \/ \E skb \in Skb : oq_enqueue(skb)
  \/ \E q \in Queue : oq_dequeue(q)

Next ==
  \/ DataPath
  \/ oq_change
  \/ \E f \in Queue : oq_change_enomem(f)

Spec == Init /\ [][Next]_vars

\* Every reconfiguration finds the memory it needs.
ReliableSpec == Init /\ [][DataPath \/ oq_change]_vars

\* The port is configured once.
DataSpec == Init /\ [][DataPath]_vars

-----------------------------------------------------------------------------
(* Properties *)

TypeOK ==
  /\ queues \in [Queue -> QueueRec]
  /\ owned \subseteq Skb
  /\ at \in [Skb -> Nat]

\* The tree has a container for packet p, filed under key k, twin key o.
Holds(tree, p, k, o) ==
  \E i \in 1 .. Len(tree[k]) : tree[k][i] = [skb |-> p, other_key |-> o]

\* The packets filed in a tree.
Stored(tree) ==
  {p \in Skb : \E k \in Key : \E i \in 1 .. Len(tree[k]) : tree[k][i].skb = p}

\* No packet is filed twice in a tree.
Once(tree) ==
  \A k, l \in Key : \A i \in 1 .. Len(tree[k]), j \in 1 .. Len(tree[l]) :
    tree[k][i].skb = tree[l][j].skb => k = l /\ i = j

\* The lists of a tree are in order of arrival, oldest at the head.
Fifo(tree, number) ==
  \A k \in Key : \A i, j \in 1 .. Len(tree[k]) :
    i < j => number[tree[k][i].skb] < number[tree[k][j].skb]

\* Each container of a tree has its twin in the other one.
Covered(tree, twin) ==
  \A p \in Skb, k, o \in Key : Holds(tree, p, k, o) => Holds(twin, p, o, k)

\* Each packet is filed once in a tree of a queue, and the admission container
\* has its twin in the processing tree, under the key it names: do_drop_tail
\* never takes its "Not likely though" return after it has unlinked a packet.
\* This survives a reconfiguration that runs out of memory half way.
AdmnCovered ==
  \A q \in Queue :
    /\ Once(queues[q].admn)
    /\ Once(queues[q].proc)
    /\ Covered(queues[q].admn, queues[q].proc)

\* The converse: oq_dequeue never takes its "Not likely though" return, so it
\* returns NULL only when the queue is empty.  It needs every reconfiguration
\* to succeed.
ProcCovered ==
  \A q \in Queue : Covered(queues[q].proc, queues[q].admn)

\* A packet is in one queue at most, and no tree refers to a buffer that was
\* freed or handed back to the stack (whose address may be used again).
NoStaleSkb ==
  /\ \A q \in Queue : Stored(queues[q].proc) \subseteq owned
  /\ \A q, r \in Queue :
       q # r => Stored(queues[q].proc) \cap Stored(queues[r].proc) = {}

\* len never falls below the number of packets do_drop_tail can reach, so a
\* congestion condition on len never misses packets; it is never negative.
LenCovers ==
  \A q \in Queue : Cardinality(Stored(queues[q].admn)) <= queues[q].len

\* How far len is above the number of packets held: do_drop_tail removes a
\* packet and leaves len alone, so len exceeds it by at most dropped.
LenDrift ==
  \A q \in Queue :
    queues[q].len <= Cardinality(Stored(queues[q].admn)) + queues[q].dropped

\* len is the number of packets held, what tc shows as "Curr".
CurrIsOccupancy ==
  \A q \in Queue : queues[q].len = Cardinality(Stored(queues[q].proc))

\* Buffers the qdisc owns and can never send.
Leaked == owned \ UNION {Stored(queues[q].proc) : q \in Queue}

\* A buffer is leaked by a congestion action the switch does not know or by
\* reconfiguration, and never by dropping or dequeuing.
LeakSources ==
  [][\/ Leaked' \subseteq Leaked
     \/ oq_change
     \/ \E skb \in Skb, q \in Queue : EnqueueUnhandled(skb, q)]_vars

\* The contents of an admission tree, as the abstract specification sees them.
Entries(tree, number) ==
  {[skb |-> t[1], admn |-> t[2], proc |-> t[3], at |-> number[t[1]]] :
     t \in {x \in Skb \X Key \X Key : Holds(tree, x[1], x[2], x[3])}}

Abstract == INSTANCE DualQueue WITH
  held <- [q \in Queue |-> Entries(queues[q].admn, at)],
  arrivals <- [q \in Queue |-> queues[q].total]

\* The trees implement the port's promise: the next packet out is the oldest
\* of those with the largest processing key, the victim of a tail drop the
\* oldest of those with the largest admission key.
ImplementsDualQueue == Abstract!Spec

=============================================================================
