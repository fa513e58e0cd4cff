----------------------------- MODULE PortChange -----------------------------
(***************************************************************************)
(* A port that is reconfigured and dumped while packets flow.  The kernel  *)
(* runs enqueue and dequeue of a qdisc one at a time, under its root lock; *)
(* it calls change and dump under the RTNL mutex only, so either of them   *)
(* runs beside the data path.  Here each call of a B+tree function, of a   *)
(* policy function, and each load and store of a shared field is a step.   *)
(*                                                                         *)
(* A tree is a set of entries.  An entry that do_enqueue adds to a list it *)
(* looked up before btree_init emptied the tree is in no tree; likewise    *)
(* btree_remove takes out whatever list has the key by then.  Which of the *)
(* packets of a key is the oldest does not matter here, so any is taken.   *)
(* max_len and dropped are left out: only dump reads them.                 *)
(***************************************************************************)
EXTENDS Integers, FiniteSetsExt, Sequences

CONSTANTS
  Skb,          \* packet buffers
  Policy,       \* policies that are registered
  NameOf,       \* policy -> names of its queues, by index from 0
  PickOf,       \* policy -> queues its q_select and sched_fn return
  AdmnKey,      \* keys that admn_fn and proc_fn give, 0 among them
  ProcKey,
  Limit,        \* length at which every policy calls a queue congested
  MaxTotal,     \* bound on the packets that enter the queues
  MaxChange,    \* bound on the reconfigurations
  NULL

\* A policy numbers its queues from 0 and names each; its functions return the
\* numbers of queues it has.
ASSUME PortAssumption ==
  /\ NULL \notin Policy \cup Skb
  /\ AdmnKey \subseteq Nat /\ ProcKey \subseteq Nat
  /\ \A p \in Policy :
       /\ DOMAIN NameOf[p] \subseteq Nat
       /\ 0 \in DOMAIN NameOf[p]
       /\ \A q \in DOMAIN NameOf[p] : 0 .. q \subseteq DOMAIN NameOf[p]
       /\ \A q \in DOMAIN NameOf[p] : NameOf[p][q] # NULL
       /\ PickOf[p] \subseteq DOMAIN NameOf[p]

Queue == UNION {DOMAIN NameOf[p] : p \in Policy}

VARIABLES
  tree,     \* queue -> "admn" and "proc" -> set of entries
  count,    \* queue -> "len" and "total" -> counter
  name,     \* queue -> its name, NULL before the first init_queue
  fn,       \* the six function pointers: the policy they point into
  d,        \* the data path: where it is and what it has in registers
  c,        \* change or dump: where it is, the policy, the queue, the copy
  changes,  \* reconfigurations begun
  failed,   \* the last reconfiguration returned an error
  owned,    \* buffers neither sent nor freed since they came
  touched,  \* history: a packet was in hand since change began this queue
  raced     \* history: queues whose last complete initialisation met a packet

vars == <<tree, count, name, fn, d, c, changes, failed, owned, touched, raced>>

Pointers == <<"cong_fn", "cong_act_fn", "admn_fn", "proc_fn", "q_select", "sched_fn">>
Pointer == {Pointers[i] : i \in 1 .. Len(Pointers)}
Twin(t) == IF t = "admn" THEN "proc" ELSE "admn"

AtRest == [pc |-> "idle", q |-> 0, skb |-> NULL, entry |-> NULL, tree |-> "admn",
           alone |-> FALSE, stale |-> FALSE, reg |-> 0]
NoCall == [pc |-> "idle", policy |-> NULL, q |-> 0, i |-> 1, len |-> 0, total |-> 0]

\* The port starts with policy p, installed by oq_init as the init operation.
Init ==
  \E p \in Policy :
    /\ tree = [q \in Queue |-> [t \in {"admn", "proc"} |-> {}]]
    /\ count = [q \in Queue |-> [f \in {"len", "total"} |-> 0]]
    /\ name = [q \in Queue |-> IF q \in DOMAIN NameOf[p] THEN NameOf[p][q] ELSE NULL]
    /\ fn = [f \in Pointer |-> p]
    /\ d = AtRest
    /\ c = NoCall
    /\ changes = 0
    /\ failed = FALSE
    /\ owned = {}
    /\ touched = FALSE
    /\ raced = {}

\* The generated functions tell queues apart by name; a name of another policy
\* matches none of their cases.
Matches(f) == \E q \in DOMAIN NameOf[fn[f]] : NameOf[fn[f]][q] = name[d.q]

Keys(f, keys) == IF Matches(f) THEN keys ELSE {0}

-----------------------------------------------------------------------------
(* Data path *)

Shared == <<name, fn, c, changes, failed>>

Go(pc) == d' = [d EXCEPT !.pc = pc]

Entered == MapThenSumSet(LAMBDA q : count[q]["total"], Queue)

\* oq_enqueue is called and q_select picks a queue.
Arrive(skb) ==
  /\ d.pc = "idle"
  /\ skb \notin owned
  /\ Entered < MaxTotal
  /\ owned' = owned \cup {skb}
  /\ \E q \in PickOf[fn["q_select"]] :
       d' = [AtRest EXCEPT !.pc = "cong", !.q = q, !.skb = skb]
  /\ UNCHANGED <<tree, count>>

cong_fn ==
  /\ d.pc = "cong"
  /\ Go(IF Matches("cong_fn") /\ count[d.q]["len"] = Limit THEN "act" ELSE "keys")
  /\ UNCHANGED <<tree, count, owned>>

\* The action is to drop at the tail or to drop the packet; an unmatched name
\* gives action 0, for which the switch has no case.
cong_act_fn ==
  /\ d.pc = "act"
  /\ \/ /\ Matches("cong_act_fn")
        /\ d' = [d EXCEPT !.pc = "last", !.tree = "admn"]
        /\ UNCHANGED owned
     \/ /\ Matches("cong_act_fn")
        /\ owned' = owned \ {d.skb}
        /\ d' = AtRest
     \/ ~Matches("cong_act_fn") /\ d' = AtRest /\ UNCHANGED owned
  /\ UNCHANGED <<tree, count>>

\* What follows a call of do_drop_tail or the end of oq_dequeue.
AfterRemoval ==
  IF d.tree = "admn" THEN [AtRest EXCEPT !.pc = "keys", !.q = d.q, !.skb = d.skb] ELSE AtRest

\* oq_dequeue is called; sched_fn picks a queue.
Poll ==
  /\ d.pc = "idle"
  /\ \E q \in PickOf[fn["sched_fn"]] :
       /\ tree[q]["proc"] # {}
       /\ d' = [AtRest EXCEPT !.pc = "last", !.q = q, !.tree = "proc"]
  /\ UNCHANGED <<tree, count, owned>>

Others(t, e) == {x \in tree[d.q][t] : x[t] = e[t]} \ {e}

\* btree_last: an entry of the largest key, if the tree is not empty.
btree_last ==
  /\ d.pc = "last"
  /\ LET entries == tree[d.q][d.tree]
     IN  \/ entries = {} /\ d' = AfterRemoval
         \/ \E e \in entries :
              /\ \A x \in entries : x[d.tree] <= e[d.tree]
              /\ d' = [d EXCEPT !.pc = "unlink", !.entry = e, !.alone = Others(d.tree, e) = {}]
  /\ UNCHANGED <<tree, count, owned>>

\* Tree t after the entry in hand was unlinked: btree_remove of its key if it
\* was alone on its list, else only that list changes, which is in the tree
\* unless btree_init came between.
Unlinked(t) ==
  CASE d.alone -> {x \in tree[d.q][t] : x[t] # d.entry[t]}
    [] ~d.alone /\ d.stale -> tree[d.q][t]
    [] ~d.alone /\ ~d.stale -> tree[d.q][t] \ {d.entry}

\* Variant for mutation: do_drop_tail frees the buffer before it looks for the
\* twin.
unlink_free_early ==
  /\ d.pc = "unlink"
  /\ tree' = [tree EXCEPT ![d.q][d.tree] = Unlinked(d.tree)]
  /\ d' = [d EXCEPT !.pc = "lookup", !.alone = FALSE, !.stale = FALSE]
  /\ owned' = IF d.tree = "admn" THEN owned \ {d.entry.skb} ELSE owned
  /\ UNCHANGED count

unlink ==
  /\ d.pc = "unlink"
  /\ tree' = [tree EXCEPT ![d.q][d.tree] = Unlinked(d.tree)]
  /\ d' = [d EXCEPT !.pc = "lookup", !.alone = FALSE, !.stale = FALSE]
  /\ UNCHANGED <<count, owned>>

\* The twin is looked for; "Not likely though" if it is missing.
lookup ==
  /\ d.pc = "lookup"
  /\ LET t == Twin(d.tree)
     IN  IF d.entry \in tree[d.q][t]
         THEN d' = [d EXCEPT !.pc = "unlink_twin", !.alone = Others(t, d.entry) = {}]
         ELSE d' = AfterRemoval
  /\ UNCHANGED <<tree, count, owned>>

\* The twin is unlinked; do_drop_tail then frees the buffer.
unlink_twin ==
  /\ d.pc = "unlink_twin"
  /\ LET t == Twin(d.tree)
     IN  tree' = [tree EXCEPT ![d.q][t] = Unlinked(t)]
  /\ IF d.tree = "admn"
     THEN owned' = owned \ {d.entry.skb} /\ d' = AfterRemoval
     ELSE UNCHANGED owned /\ d' = [d EXCEPT !.pc = "load_len", !.alone = FALSE, !.stale = FALSE]
  /\ UNCHANGED count

\* do_enqueue: both keys, then one tree after the other.  The two calls are one
\* step: as 0 is among the keys, a change that comes between them gives no pair
\* that it would not give before or after them.
admn_proc_keys ==
  /\ d.pc = "keys"
  /\ \E a \in Keys("admn_fn", AdmnKey), p \in Keys("proc_fn", ProcKey) :
       d' = [d EXCEPT !.pc = "find", !.tree = "admn",
                      !.entry = [skb |-> d.skb, admn |-> a, proc |-> p]]
  /\ UNCHANGED <<tree, count, owned>>

find ==
  /\ d.pc = "find"
  /\ d' = [d EXCEPT !.pc = "file", !.alone = Others(d.tree, d.entry) = {}]
  /\ UNCHANGED <<tree, count, owned>>

\* btree_insert of a new list, or a container more on the list that was found.
file ==
  /\ d.pc = "file"
  /\ IF d.alone \/ ~d.stale
     THEN tree' = [tree EXCEPT ![d.q][d.tree] = @ \cup {d.entry}]
     ELSE UNCHANGED tree
  /\ d' = IF d.tree = "admn"
          THEN [d EXCEPT !.pc = "find", !.tree = "proc", !.alone = FALSE, !.stale = FALSE]
          ELSE [AtRest EXCEPT !.pc = "load_len", !.q = d.q, !.skb = d.skb]
  /\ UNCHANGED <<count, owned>>

\* len++ of do_enqueue and len-- of oq_dequeue, a load and a store.
load_len ==
  /\ d.pc = "load_len"
  /\ d' = [d EXCEPT !.pc = "store_len", !.reg = count[d.q]["len"]]
  /\ UNCHANGED <<tree, count, owned>>

\* oq_dequeue returns the packet, do_enqueue goes on to total++.
store_len ==
  /\ d.pc = "store_len"
  /\ IF d.skb = NULL
     THEN /\ count' = [count EXCEPT ![d.q]["len"] = d.reg - 1]
          /\ owned' = owned \ {d.entry.skb}
          /\ d' = AtRest
     ELSE /\ count' = [count EXCEPT ![d.q]["len"] = d.reg + 1]
          /\ d' = [d EXCEPT !.pc = "load_total", !.reg = 0]
          /\ UNCHANGED owned
  /\ UNCHANGED tree

load_total ==
  /\ d.pc = "load_total"
  /\ d' = [d EXCEPT !.pc = "store_total", !.reg = count[d.q]["total"]]
  /\ UNCHANGED <<tree, count, owned>>

store_total ==
  /\ d.pc = "store_total"
  /\ count' = [count EXCEPT ![d.q]["total"] = d.reg + 1]
  /\ d' = AtRest
  /\ UNCHANGED <<tree, owned>>

-----------------------------------------------------------------------------
(* Reconfiguration: oq_init as the change operation, and dump *)

\* Variant for mutation: the pointers are installed before the queues are
\* initialised.
change_pointers_first(p) ==
  /\ c.pc = "idle"
  /\ changes < MaxChange
  /\ changes' = changes + 1
  /\ fn' = [f \in Pointer |-> p]
  /\ c' = [NoCall EXCEPT !.pc = "init_admn", !.policy = p]
  /\ UNCHANGED <<tree, count, name, failed, d, owned>>

\* oq_init finds the policy by its name and calls its init_port.
change(p) ==
  /\ c.pc = "idle"
  /\ changes < MaxChange
  /\ changes' = changes + 1
  /\ c' = [NoCall EXCEPT !.pc = "init_admn", !.policy = p]
  /\ UNCHANGED <<tree, count, name, fn, failed, d, owned>>

\* The tree whose list the data path has in hand.
InHandTree == IF d.pc = "unlink_twin" THEN Twin(d.tree) ELSE d.tree

\* Variant for mutation: the processing tree is initialised first.
btree_init_proc_first(pc, t, next) ==
  /\ c.pc = pc
  /\ tree' = [tree EXCEPT ![c.q][Twin(t)] = {}]
  /\ d' = [d EXCEPT !.stale = @ \/ ( /\ d.pc \in {"unlink", "unlink_twin", "file"}
                                     /\ d.q = c.q
                                     /\ InHandTree # t )]
  /\ \/ c' = [c EXCEPT !.pc = next] /\ UNCHANGED failed
     \/ c' = NoCall /\ failed' = TRUE
  /\ UNCHANGED <<count, name, fn, changes, owned>>

\* btree_init empties its tree, then allocates; init_port returns on a failure.
\* A list that the data path has found there before is in the tree no more.
btree_init(pc, t, next) ==
  /\ c.pc = pc
  /\ tree' = [tree EXCEPT ![c.q][t] = {}]
  /\ d' = [d EXCEPT !.stale = @ \/ ( /\ d.pc \in {"unlink", "unlink_twin", "file"}
                                     /\ d.q = c.q
                                     /\ InHandTree = t )]
  /\ \/ c' = [c EXCEPT !.pc = next] /\ UNCHANGED failed
     \/ c' = NoCall /\ failed' = TRUE
  /\ UNCHANGED <<count, name, fn, changes, owned>>

reset_count(pc, f, next) ==
  /\ c.pc = pc
  /\ count' = [count EXCEPT ![c.q][f] = 0]
  /\ c' = [c EXCEPT !.pc = next]
  /\ UNCHANGED <<tree, name, fn, changes, failed, d, owned>>

\* Variant for mutation: the queue keeps its old name.
queue_name_kept ==
  /\ c.pc = "queue_name"
  /\ c' = IF c.q + 1 \in DOMAIN NameOf[c.policy]
          THEN [c EXCEPT !.pc = "init_admn", !.q = @ + 1]
          ELSE [c EXCEPT !.pc = "pointers"]
  /\ UNCHANGED <<tree, count, name, fn, changes, failed, d, owned>>

\* The name is the last field; then comes the next queue.
queue_name ==
  /\ c.pc = "queue_name"
  /\ name' = [name EXCEPT ![c.q] = NameOf[c.policy][c.q]]
  /\ c' = IF c.q + 1 \in DOMAIN NameOf[c.policy]
          THEN [c EXCEPT !.pc = "init_admn", !.q = @ + 1]
          ELSE [c EXCEPT !.pc = "pointers"]
  /\ UNCHANGED <<tree, count, fn, changes, failed, d, owned>>

\* The six stores, in program order; the last one ends the change.  (The caches
\* are created after it; see module Containers.)
install ==
  /\ c.pc = "pointers"
  /\ fn' = [fn EXCEPT ![Pointers[c.i]] = c.policy]
  /\ IF c.i = Len(Pointers)
     THEN c' = NoCall /\ failed' = FALSE
     ELSE c' = [c EXCEPT !.i = @ + 1] /\ UNCHANGED failed
  /\ UNCHANGED <<tree, count, name, changes, d, owned>>

Reconfigure ==
  /\ \/ \E p \in Policy : change(p)
     \/ btree_init("init_admn", "admn", "init_proc")
     \/ btree_init("init_proc", "proc", "len")
     \/ reset_count("len", "len", "total")
     \/ reset_count("total", "total", "queue_name")
     \/ queue_name
     \/ install

\* Variant for mutation: total is copied before len.
copy_total_first ==
  \/ c.pc = "copy_len" /\ c' = [c EXCEPT !.pc = "copy_total", !.total = count[c.q]["total"]]
  \/ c.pc = "copy_total" /\ c' = [c EXCEPT !.pc = "copied", !.len = count[c.q]["len"]]

\* oq_dump copies a queue's counters one after the other, without the root lock.
copy ==
  \/ c.pc = "copy_len" /\ c' = [c EXCEPT !.pc = "copy_total", !.len = count[c.q]["len"]]
  \/ c.pc = "copy_total" /\ c' = [c EXCEPT !.pc = "copied", !.total = count[c.q]["total"]]

\* One queue after the other, num_q of them: those of the policy in place.
oq_dump ==
  /\ \/ c.pc = "idle" /\ c' = [NoCall EXCEPT !.pc = "copy_len"]
     \/ copy
     \/ /\ c.pc = "copied"
        /\ c' = IF c.q + 1 \in DOMAIN NameOf[fn["sched_fn"]]
                THEN [NoCall EXCEPT !.pc = "copy_len", !.q = c.q + 1]
                ELSE NoCall
  /\ UNCHANGED <<tree, count, name, fn, changes, failed, d, owned>>

-----------------------------------------------------------------------------

Insertion ==
  \/ (\E skb \in Skb : Arrive(skb))
  \/ cong_fn \/ cong_act_fn \/ admn_proc_keys \/ find \/ file \/ load_total \/ store_total

Removal == Poll \/ btree_last \/ unlink \/ lookup \/ unlink_twin \/ load_len \/ store_len

InHand == d.pc # "idle" /\ d.q = c.q
Using(q) == d.pc # "idle" /\ d.q = q
Initialising == c.pc \in {"init_admn", "init_proc", "len", "total", "queue_name"}
Changing(q) == Initialising /\ c.q = q

\* A queue is raced from when a packet is in hand during its initialisation
\* until it is next initialised with none in hand.
Track ==
  /\ touched' = (Initialising' /\ ((touched /\ c'.pc # "init_admn") \/ InHand'))
  /\ raced' = CASE Initialising /\ touched -> raced \cup {c.q}
                [] c.pc = "queue_name" /\ c' # c /\ ~touched -> raced \ {c.q}
                [] OTHER -> raced

Next ==
  /\ \/ (Insertion \/ Removal) /\ UNCHANGED Shared
     \/ Reconfigure
     \/ oq_dump
  /\ Track

Spec == Init /\ [][Next]_vars

-----------------------------------------------------------------------------
(* Properties *)

\* No tree holds a buffer that was sent or freed, and none is used in hand,
\* whatever change does beside do_drop_tail and oq_dequeue.
NoStaleSkb ==
  /\ \A q \in Queue, t \in {"admn", "proc"} : \A e \in tree[q][t] : e.skb \in owned
  /\ d.pc \in {"unlink_twin", "load_len", "store_len"} /\ d.skb = NULL => d.entry.skb \in owned

\* Between packets, a queue that was not raced has in its processing tree what
\* is in its admission tree, and its len covers it: a change that met no packet
\* repairs what an earlier race left, and one that fails half-way breaks none
\* of it.
Repaired ==
  \A q \in Queue \ raced :
    (~Using(q) /\ ~Changing(q)) =>
      /\ tree[q]["admn"] \subseteq tree[q]["proc"]
      /\ Cardinality(tree[q]["proc"]) <= count[q]["len"]

\* What oq_dump reports of a queue that was not raced: at most one packet more
\* in the queue than ever entered it, the one whose total++ is still to come.
DumpOrdered ==
  (c.pc = "copied" /\ c.q \notin raced) => c.len <= c.total + 1

\* The data path works on no queue that was never initialised.
QueueReady == d.pc # "idle" => name[d.q] # NULL

\* Once a change has succeeded, all the functions are those of one policy and
\* its queues have the names these functions know.
OnePolicy ==
  (c.policy = NULL /\ ~failed) =>
    \A f, g \in Pointer :
      /\ fn[f] = fn[g]
      /\ \A q \in DOMAIN NameOf[fn[f]] : name[q] = NameOf[fn[f]][q]
=============================================================================
