-------------------------- MODULE PortChangeLemmas --------------------------
(***************************************************************************)
(* The inductive invariant of module PortChange, and what each step of the *)
(* data path and of oq_change and oq_dump does to it.                      *)
(*                                                                         *)
(* Every step of the data path has an effect lemma that states its primed  *)
(* fields; the lemmas about the invariant use those and never expand an    *)
(* action.  A step that keeps one queue in order (Works, Keeps) keeps the  *)
(* part of the invariant about all queues, whoever takes it.  Facts about  *)
(* Cardinality enter as the hypothesis Sizes, which PortChangeProofs       *)
(* discharges.                                                             *)
(***************************************************************************)
EXTENDS PortChange, TLAPS

\* The two trees of a queue.
TreeName == {"admn", "proc"}
\* What a container files: the buffer and its two keys.
Entry == [skb : Skb, admn : Nat, proc : Nat]

\* The steps of oq_enqueue,
Enqueuing == {"cong", "act", "keys", "find", "file", "load_total", "store_total"}
\* of taking a packet out of a queue,
Removing == {"last", "unlink", "lookup", "unlink_twin"}
\* and of len++ and len--.
Counting == {"load_len", "store_len"}
\* The pcs of the data path,
DataPc == {"idle"} \cup Enqueuing \cup Removing \cup Counting
\* of the initialisation of a queue in oq_change,
InitPc == {"init_admn", "init_proc", "len", "total", "queue_name"}
\* and of oq_dump.
DumpPc == {"copy_len", "copy_total", "copied"}

\* The pcs at which d.entry is the entry in hand.
HasEntry == d.pc \in {"unlink", "lookup", "unlink_twin", "find", "file"}
              \/ (d.pc \in Counting /\ d.skb = NULL)

\* The values of the data path.
DataState == [pc : DataPc, q : Nat, skb : Skb \cup {NULL}, entry : Entry \cup {NULL},
              tree : TreeName, alone : BOOLEAN, stale : BOOLEAN, reg : Int]
\* The values of a call of oq_change or oq_dump.
CallState == [pc : {"idle", "pointers"} \cup InitPc \cup DumpPc, policy : Policy \cup {NULL},
              q : Nat, i : 1 .. 6, len : Int, total : Int]

\* The variables have their types.
Types ==
  /\ tree \in [Queue -> [TreeName -> SUBSET Entry]]
  /\ count \in [Queue -> [{"len", "total"} -> Int]]
  /\ fn \in [Pointer -> Policy]
  /\ DOMAIN name = Queue
  /\ d \in DataState
  /\ c \in CallState
  /\ owned \subseteq Skb
  /\ touched \in BOOLEAN
  /\ raced \subseteq Queue

\* What the data path has in hand at each of its steps.
DataControl ==
  /\ d.pc # "idle" => d.q \in Queue
  /\ HasEntry => d.entry \in Entry
  /\ d.pc \in Enqueuing => d.skb \in Skb
  /\ d.pc \in {"find", "file"} => d.entry.skb = d.skb
  /\ d.pc \in Removing => (d.skb = NULL <=> d.tree = "proc")
  /\ d.stale => d.pc \in {"unlink", "unlink_twin", "file"}

\* Which policy and queue a call of change or dump is at.
CallControl ==
  /\ c.pc \in InitPc => c.policy \in Policy /\ c.q \in DOMAIN NameOf[c.policy] /\ c.i = 1
  /\ c.pc = "pointers" => c.policy \in Policy
  /\ c.pc \in DumpPc => c.policy = NULL /\ c.q \in Queue
  /\ c.pc = "idle" => c.policy = NULL

\* Where the two actors are.
Control == DataControl /\ CallControl

\* No tree files the buffer.
NoEntryOf(skb) == \A q \in Queue, t \in TreeName : \A e \in tree[q][t] : e.skb # skb
\* The buffer of the entry in hand is filed nowhere else.
OnlyInHand == \A q \in Queue, t \in TreeName : \A e \in tree[q][t] :
                e.skb = d.entry.skb => q = d.q /\ e = d.entry

\* Trees file buffers the qdisc owns.
Held == \A q \in Queue, t \in TreeName : \A e \in tree[q][t] : e.skb \in owned
\* A buffer is filed in one queue, under one pair of keys.
Unique ==
  \A q, r \in Queue, t, u \in TreeName : \A e \in tree[q][t], f \in tree[r][u] :
    e.skb = f.skb => q = r /\ e = f

\* The buffer in hand is owned, and filed where its step says.
Hand ==
  /\ d.pc \in {"cong", "act", "keys"} \cup Removing /\ d.skb # NULL =>
       d.skb \in owned /\ NoEntryOf(d.skb)
  /\ HasEntry => d.entry.skb \in owned /\ OnlyInHand
  /\ d.pc \in {"unlink", "lookup", "unlink_twin"} => d.entry.skb # d.skb
  /\ d.pc \in {"find", "file"} => d.entry \notin tree[d.q]["proc"]
  /\ d.pc \in {"lookup", "unlink_twin"} => d.entry \notin tree[d.q][d.tree]
  /\ d.pc \in Counting /\ d.skb = NULL => NoEntryOf(d.entry.skb)
  /\ d.stale => tree[d.q][InHandTree] = {}

\* The part of the invariant about buffers.
Buffers == Held /\ Unique /\ Hand

\* The queue was not initialised under a packet in hand, nor is it now.
Clean(q) == q \notin raced /\ ~(Changing(q) /\ touched)

\* When no list is shared, the key of the entry in hand is its own.
Alone(t) == d.alone => \A x \in tree[d.q][t] : x[t] = d.entry[t] => x = d.entry

\* The len of a queue,
Length(q) == count[q]["len"]
\* The total of a queue,
Total(q) == count[q]["total"]
\* and how many packets its processing tree holds.
Size(q) == Cardinality(tree[q]["proc"])

\* A queue between packets.
Settled(q) ==
  /\ tree[q]["admn"] \subseteq tree[q]["proc"]
  /\ Size(q) <= Length(q)
  /\ Length(q) <= Total(q)

\* A queue that the data path is at, step by step.
Midway(q) ==
  LET a == tree[q]["admn"]  p == tree[q]["proc"]  e == d.entry
  IN  
  /\ ~d.stale
  /\ d.pc \in {"cong", "act", "keys", "last"} => Settled(q)
  /\ d.pc = "unlink" => Settled(q) /\ e \in tree[q][d.tree] /\ Alone(d.tree)
  /\ d.pc \in {"lookup", "unlink_twin"} /\ d.tree = "admn" =>
       Settled(q) /\ e \in p
  /\ d.pc \in {"lookup", "unlink_twin"} /\ d.tree = "proc" =>
       /\ a \subseteq p \cup {e}
       /\ Size(q) + 1 <= Length(q)
       /\ Length(q) <= Total(q)
  /\ d.pc = "unlink_twin" => Alone(Twin(d.tree))
  /\ d.pc \in {"find", "file"} =>
       /\ a \subseteq IF d.tree = "admn" THEN p ELSE p \cup {e}
       /\ Size(q) <= Length(q)
       /\ Length(q) <= Total(q)
  /\ d.pc \in Counting =>
       /\ a \subseteq p
       /\ IF d.skb = NULL THEN Size(q) + 1 <= Length(q) ELSE Size(q) <= Length(q) + 1
       /\ Length(q) <= Total(q)
       /\ d.pc = "store_len" => d.reg = Length(q)
  /\ d.pc \in {"load_total", "store_total"} =>
       /\ a \subseteq p
       /\ Size(q) <= Length(q)
       /\ Length(q) <= Total(q) + 1
       /\ d.pc = "store_total" => d.reg = Total(q)

\* A queue that no initialisation raced.
Local(q) == IF Using(q) THEN Midway(q) ELSE Settled(q)

\* The part about queues, initialised or not, and about the counters a dump
\* copied.
Races ==
  /\ touched => Initialising
  /\ Initialising /\ InHand => touched
  /\ Initialising /\ ~touched =>
       /\ c.pc # "init_admn" => tree[c.q]["admn"] = {}
       /\ c.pc \notin {"init_admn", "init_proc"} => tree[c.q]["proc"] = {}
       /\ c.pc \in {"total", "queue_name"} => Length(c.q) = 0
       /\ c.pc = "queue_name" => Total(c.q) = 0
  /\ \A q \in Queue : Clean(q) => Local(q)
  /\ c.pc = "copy_total" /\ c.q \notin raced => c.len <= Total(c.q) + 1
  /\ DumpOrdered
  /\ \A q \in Queue : Total(q) >= 0
  /\ d.pc = "store_total" => d.reg >= 0
  /\ \A q \in Queue, t \in TreeName : IsFiniteSet(tree[q][t])

\* The part about names and pointers.
Names ==
  /\ \A f \in Pointer : \A q \in DOMAIN NameOf[fn[f]] : name[q] # NULL
  /\ Initialising => \A q \in DOMAIN NameOf[c.policy] : q < c.q => name[q] = NameOf[c.policy][q]
  /\ c.pc = "pointers" =>
       /\ \A q \in DOMAIN NameOf[c.policy] : name[q] = NameOf[c.policy][q]
       /\ \A j \in 1 .. 6 : j < c.i => fn[Pointers[j]] = c.policy
  /\ OnePolicy
  /\ QueueReady

\* The inductive invariant.
IInv == Types /\ Control /\ Buffers /\ Races /\ Names

-----------------------------------------------------------------------------
(* What each step of the data path does, field by field *)

\* What the constants give.
LEMMA Constants ==
  /\ NULL \notin Skb /\ NULL \notin Policy
  /\ \A p \in Policy : /\ DOMAIN NameOf[p] \subseteq Queue
                       /\ PickOf[p] \subseteq DOMAIN NameOf[p]
                       /\ 0 \in DOMAIN NameOf[p]
  /\ Queue \subseteq Nat
  /\ Pointer = {"cong_fn", "cong_act_fn", "admn_fn", "proc_fn", "q_select", "sched_fn"}
  /\ Len(Pointers) = 6
BY PortAssumption DEF Queue, Pointer, Pointers

\* Keys are natural numbers.
LEMMA KeysNat ==
  ASSUME NEW f, NEW keys \in SUBSET Nat
  PROVE  Keys(f, keys) \subseteq Nat
BY DEF Keys

\* The fields of an idle data path.
LEMMA AtRestFields ==
  /\ AtRest \in DataState
  /\ AtRest.pc = "idle" /\ AtRest.q = 0 /\ AtRest.skb = NULL /\ AtRest.entry = NULL
  /\ AtRest.tree = "admn" /\ ~AtRest.alone /\ ~AtRest.stale
BY DEF AtRest, DataState, DataPc, TreeName

\* The data path after a step.
Now(pc, q, skb, entry, t) ==
  /\ d' \in DataState
  /\ d'.pc = pc /\ d'.q = q /\ d'.skb = skb /\ d'.entry = entry /\ d'.tree = t

\* One tree is replaced.
Put(q, t, S) ==
  /\ tree' \in [Queue -> [TreeName -> SUBSET Entry]]
  /\ \A r \in Queue, u \in TreeName :
       tree'[r][u] = IF r = q /\ u = t THEN S ELSE tree[r][u]

\* One counter is replaced.
Store(q, f, n) ==
  /\ count' \in [Queue -> [{"len", "total"} -> Int]]
  /\ \A r \in Queue, g \in {"len", "total"} :
       count'[r][g] = IF r = q /\ g = f THEN n ELSE count[r][g]

\* Replacing a tree.
LEMMA PutIn ==
  ASSUME Types, NEW q \in Queue, NEW t \in TreeName, NEW S \in SUBSET Entry,
         tree' = [tree EXCEPT ![q][t] = S]
  PROVE  Put(q, t, S)
BY Zenon DEF Types, Put

\* Replacing a counter.
LEMMA StoreIn ==
  ASSUME Types, NEW q \in Queue, NEW f \in {"len", "total"}, NEW n \in Int,
         count' = [count EXCEPT ![q][f] = n]
  PROVE  Store(q, f, n)
BY Zenon DEF Types, Store

\* A packet arrives.
LEMMA ArriveEffect ==
  ASSUME Types, Control, NEW skb \in Skb, Arrive(skb)
  PROVE  /\ d.pc = "idle" /\ ~d'.stale
         /\ \E q \in PickOf[fn["q_select"]] : Now("cong", q, skb, NULL, "admn")
         /\ skb \notin owned /\ owned' = owned \cup {skb}
         /\ UNCHANGED <<tree, count>>
<1>1. PICK q \in PickOf[fn["q_select"]] :
        d' = [AtRest EXCEPT !.pc = "cong", !.q = q, !.skb = skb]
  BY Zenon DEF Arrive
<1>2. q \in Nat
  BY Constants, Zenon DEF Types
<1>3. Now("cong", q, skb, NULL, "admn") /\ ~d'.stale
  BY <1>1, <1>2, AtRestFields, Zenon DEF Now, DataState, DataPc, Enqueuing
<1> QED BY <1>3, Zenon DEF Arrive

\* cong_fn.
LEMMA CongEffect ==
  ASSUME Types, Control, cong_fn
  PROVE  /\ d.pc = "cong" /\ d'.stale = d.stale
         /\ \E pc \in {"act", "keys"} : Now(pc, d.q, d.skb, d.entry, d.tree)
         /\ UNCHANGED <<tree, count, owned>>
<1>1. PICK pc \in {"act", "keys"} : d' = [d EXCEPT !.pc = pc]
  BY Zenon DEF cong_fn, Go
<1>2. Now(pc, d.q, d.skb, d.entry, d.tree) /\ d'.stale = d.stale
  BY <1>1, Zenon DEF Now, Types, DataState, DataPc, Enqueuing
<1> QED BY <1>2, Zenon DEF cong_fn

\* cong_act_fn.
LEMMA ActEffect ==
  ASSUME Types, Control, cong_act_fn
  PROVE  /\ d.pc = "act"
         /\ \/ /\ Now("last", d.q, d.skb, d.entry, "admn")
               /\ d'.stale = d.stale /\ UNCHANGED owned
            \/ d' = AtRest /\ owned' = owned \ {d.skb}
            \/ d' = AtRest /\ UNCHANGED owned
         /\ UNCHANGED <<tree, count>>
<1>1. ASSUME d' = [d EXCEPT !.pc = "last", !.tree = "admn"]
      PROVE  Now("last", d.q, d.skb, d.entry, "admn") /\ d'.stale = d.stale
  BY <1>1, Zenon DEF Now, Types, DataState, DataPc, Removing, TreeName
<1> QED BY <1>1, Zenon DEF cong_act_fn

\* Where a removal goes on.
LEMMA AfterRemovalFields ==
  ASSUME Types, Control, d.pc \in Removing, d' = AfterRemoval
  PROVE  \/ d.tree = "admn" /\ Now("keys", d.q, d.skb, NULL, "admn") /\ ~d'.stale
         \/ d.tree = "proc" /\ d' = AtRest
<1>1. CASE d.tree = "admn"
  <2>1. d' = [AtRest EXCEPT !.pc = "keys", !.q = d.q, !.skb = d.skb]
    BY <1>1, Zenon DEF AfterRemoval
  <2> QED BY <1>1, <2>1, AtRestFields, Zenon
          DEF Now, Types, DataState, DataPc, Enqueuing
<1>2. CASE d.tree = "proc"
  BY <1>2, Zenon DEF AfterRemoval
<1> QED BY <1>1, <1>2, Zenon DEF Types, DataState, TreeName

\* oq_dequeue is called.
LEMMA PollEffect ==
  ASSUME Types, Control, Poll
  PROVE  /\ d.pc = "idle" /\ ~d'.stale
         /\ \E q \in PickOf[fn["sched_fn"]] : Now("last", q, NULL, NULL, "proc")
         /\ UNCHANGED <<tree, count, owned>>
<1>1. PICK q \in PickOf[fn["sched_fn"]] :
        d' = [AtRest EXCEPT !.pc = "last", !.q = q, !.tree = "proc"]
  BY Zenon DEF Poll
<1>2. q \in Nat
  BY Constants, Zenon DEF Types
<1>3. Now("last", q, NULL, NULL, "proc") /\ ~d'.stale
  BY <1>1, <1>2, AtRestFields, Zenon DEF Now, DataState, DataPc, Removing, TreeName
<1> QED BY <1>3, Zenon DEF Poll

\* btree_last.
LEMMA LastEffect ==
  ASSUME Types, Control, btree_last
  PROVE  /\ d.pc = "last"
         /\ \/ d' = AfterRemoval
            \/ \E e \in tree[d.q][d.tree] :
                 /\ Now("unlink", d.q, d.skb, e, d.tree)
                 /\ d'.stale = d.stale
                 /\ d'.alone = (Others(d.tree, e) = {})
         /\ UNCHANGED <<tree, count, owned>>
<1>1. ASSUME NEW e \in tree[d.q][d.tree],
             d' = [d EXCEPT !.pc = "unlink", !.entry = e, !.alone = Others(d.tree, e) = {}]
      PROVE  /\ Now("unlink", d.q, d.skb, e, d.tree)
             /\ d'.stale = d.stale
             /\ d'.alone = (Others(d.tree, e) = {})
  <2>1. d.q \in Queue /\ d.tree \in TreeName
    BY Zenon DEF Types, Control, DataControl, btree_last, DataState
  <2>2. e \in Entry
    BY <2>1 DEF Types
  <2> QED BY <1>1, <2>2, Zenon DEF Now, Types, DataState, DataPc, Removing
<1> QED BY <1>1, Zenon DEF btree_last

\* Unlinking leaves a part of the tree.
LEMMA UnlinkedType ==
  ASSUME Types, Control, d.pc \in {"unlink", "unlink_twin"}, NEW t \in TreeName
  PROVE  /\ Unlinked(t) \subseteq tree[d.q][t]
         /\ Unlinked(t) \in SUBSET Entry
         /\ (~d.stale \/ d.alone) => d.entry \notin Unlinked(t)
BY DEF Types, Control, DataControl, Unlinked

\* The container is unlinked.
LEMMA UnlinkEffect ==
  ASSUME Types, Control, unlink
  PROVE  /\ d.pc = "unlink"
         /\ Put(d.q, d.tree, Unlinked(d.tree))
         /\ Now("lookup", d.q, d.skb, d.entry, d.tree)
         /\ ~d'.stale
         /\ UNCHANGED <<count, owned>>
<1>1. d.q \in Queue /\ d.tree \in TreeName
  BY Zenon DEF Types, Control, DataControl, unlink, DataState
<1>2. Put(d.q, d.tree, Unlinked(d.tree))
  BY <1>1, UnlinkedType, PutIn, Zenon DEF unlink
<1>3. Now("lookup", d.q, d.skb, d.entry, d.tree) /\ ~d'.stale
  BY Zenon DEF Now, unlink, Types, DataState, DataPc, Removing
<1> QED BY <1>2, <1>3, Zenon DEF unlink

\* Its twin is looked up.
LEMMA LookupEffect ==
  ASSUME Types, Control, lookup
  PROVE  /\ d.pc = "lookup"
         /\ \/ /\ d.entry \in tree[d.q][Twin(d.tree)]
               /\ Now("unlink_twin", d.q, d.skb, d.entry, d.tree)
               /\ d'.stale = d.stale
               /\ d'.alone = (Others(Twin(d.tree), d.entry) = {})
            \/ d.entry \notin tree[d.q][Twin(d.tree)] /\ d' = AfterRemoval
         /\ UNCHANGED <<tree, count, owned>>
<1>1. ASSUME d' = [d EXCEPT !.pc = "unlink_twin",
                            !.alone = Others(Twin(d.tree), d.entry) = {}]
      PROVE  /\ Now("unlink_twin", d.q, d.skb, d.entry, d.tree)
             /\ d'.stale = d.stale
             /\ d'.alone = (Others(Twin(d.tree), d.entry) = {})
  BY <1>1, Zenon DEF Now, Types, DataState, DataPc, Removing
<1> QED BY <1>1, Zenon DEF lookup

\* The twin is unlinked.
LEMMA UnlinkTwinEffect ==
  ASSUME Types, Control, unlink_twin
  PROVE  /\ d.pc = "unlink_twin"
         /\ Put(d.q, Twin(d.tree), Unlinked(Twin(d.tree)))
         /\ \/ /\ d.tree = "admn"
               /\ owned' = owned \ {d.entry.skb}
               /\ Now("keys", d.q, d.skb, NULL, "admn")
            \/ /\ d.tree = "proc"
               /\ UNCHANGED owned
               /\ Now("load_len", d.q, d.skb, d.entry, d.tree)
         /\ ~d'.stale
         /\ UNCHANGED count
<1>1. d.q \in Queue /\ Twin(d.tree) \in TreeName
  BY Zenon DEF Types, Control, DataControl, unlink_twin, DataState, Twin, TreeName
<1>2. Put(d.q, Twin(d.tree), Unlinked(Twin(d.tree)))
  BY <1>1, UnlinkedType, PutIn, Zenon DEF unlink_twin
<1>3. CASE d.tree = "admn"
  BY <1>2, <1>3, AfterRemovalFields, Zenon DEF unlink_twin, Removing
<1>4. CASE d.tree = "proc"
  <2>1. d' = [d EXCEPT !.pc = "load_len", !.alone = FALSE, !.stale = FALSE]
    BY <1>4, Zenon DEF unlink_twin
  <2>2. Now("load_len", d.q, d.skb, d.entry, d.tree) /\ ~d'.stale
    BY <2>1, Zenon DEF Now, Types, DataState, DataPc, Counting
  <2> QED BY <1>2, <1>4, <2>2, Zenon DEF unlink_twin
<1> QED BY <1>3, <1>4, Zenon DEF Types, DataState, TreeName

\* The keys are computed.
LEMMA KeysEffect ==
  ASSUME Types, Control, admn_proc_keys
  PROVE  /\ d.pc = "keys"
         /\ \E e \in Entry : e.skb = d.skb /\ Now("find", d.q, d.skb, e, "admn")
         /\ d'.stale = d.stale
         /\ UNCHANGED <<tree, count, owned>>
<1>1. PICK a \in Keys("admn_fn", AdmnKey), p \in Keys("proc_fn", ProcKey) :
        d' = [d EXCEPT !.pc = "find", !.tree = "admn",
                       !.entry = [skb |-> d.skb, admn |-> a, proc |-> p]]
  BY Zenon DEF admn_proc_keys
<1> DEFINE e == [skb |-> d.skb, admn |-> a, proc |-> p]
<1>2. e \in Entry /\ e.skb = d.skb
  BY KeysNat, PortAssumption, Zenon
  DEF Control, DataControl, admn_proc_keys, Enqueuing, Entry
<1> HIDE DEF e
<1>3. Now("find", d.q, d.skb, e, "admn") /\ d'.stale = d.stale
  <2>1. d' = [d EXCEPT !.pc = "find", !.tree = "admn", !.entry = e]
    BY <1>1, Zenon DEF e
  <2> QED BY <1>2, <2>1, Zenon
          DEF Now, Types, DataState, DataPc, Enqueuing, TreeName
<1> QED BY <1>2, <1>3, Zenon DEF admn_proc_keys

\* The list of the key is found.
LEMMA FindEffect ==
  ASSUME Types, Control, find
  PROVE  /\ d.pc = "find"
         /\ Now("file", d.q, d.skb, d.entry, d.tree)
         /\ d'.stale = d.stale
         /\ UNCHANGED <<tree, count, owned>>
<1>1. Now("file", d.q, d.skb, d.entry, d.tree) /\ d'.stale = d.stale
  BY Zenon DEF Now, find, Types, DataState, DataPc, Enqueuing
<1> QED BY <1>1, Zenon DEF find

\* The container is filed.
LEMMA FileEffect ==
  ASSUME Types, Control, file
  PROVE  /\ d.pc = "file"
         /\ \/ Put(d.q, d.tree, tree[d.q][d.tree] \cup {d.entry})
            \/ d.stale /\ UNCHANGED tree
         /\ \/ d.tree = "admn" /\ Now("find", d.q, d.skb, d.entry, "proc")
            \/ d.tree = "proc" /\ Now("load_len", d.q, d.skb, NULL, "admn")
         /\ ~d'.stale
         /\ UNCHANGED <<count, owned>>
<1>1. d.q \in Queue /\ d.tree \in TreeName /\ d.entry \in Entry
  BY Zenon DEF Types, Control, DataControl, file, DataState, HasEntry
<1> DEFINE S == tree[d.q][d.tree] \cup {d.entry}
<1>2. S \in SUBSET Entry
  BY <1>1 DEF Types
<1>3. \/ tree' = [tree EXCEPT ![d.q][d.tree] = S]
      \/ d.stale /\ UNCHANGED tree
  BY Zenon DEF file
<1>4. \/ Put(d.q, d.tree, S)
      \/ d.stale /\ UNCHANGED tree
  <2> HIDE DEF S
  <2> QED BY <1>1, <1>2, <1>3, PutIn, Zenon
<1>5. CASE d.tree = "admn"
  <2>1. Now("find", d.q, d.skb, d.entry, "proc") /\ ~d'.stale
    BY <1>5, Zenon DEF Now, file, Types, DataState, DataPc, Enqueuing, TreeName
  <2> QED BY <1>4, <1>5, <2>1, Zenon DEF file
<1>6. CASE d.tree = "proc"
  <2>1. d' = [AtRest EXCEPT !.pc = "load_len", !.q = d.q, !.skb = d.skb]
    BY <1>6, Zenon DEF file
  <2>2. Now("load_len", d.q, d.skb, NULL, "admn") /\ ~d'.stale
    BY <2>1, AtRestFields, Zenon DEF Now, Types, DataState, DataPc, Counting
  <2> QED BY <1>4, <1>6, <2>2, Zenon DEF file
<1> QED BY <1>1, <1>5, <1>6, Zenon DEF TreeName

\* A counter is read.
LEMMA LoadEffect ==
  ASSUME Types, Control
  PROVE  /\ load_len =>
              /\ d.pc = "load_len"
              /\ Now("store_len", d.q, d.skb, d.entry, d.tree)
              /\ d'.stale = d.stale
              /\ d'.reg = count[d.q]["len"]
              /\ UNCHANGED <<tree, count, owned>>
         /\ load_total =>
              /\ d.pc = "load_total"
              /\ Now("store_total", d.q, d.skb, d.entry, d.tree)
              /\ d'.stale = d.stale
              /\ d'.reg = count[d.q]["total"]
              /\ UNCHANGED <<tree, count, owned>>
<1>1. d.pc # "idle" => count[d.q]["len"] \in Int /\ count[d.q]["total"] \in Int
  BY Zenon DEF Types, Control, DataControl
<1>2. ASSUME load_len
      PROVE  /\ Now("store_len", d.q, d.skb, d.entry, d.tree)
             /\ d'.stale = d.stale
             /\ d'.reg = count[d.q]["len"]
  BY <1>1, <1>2, Zenon DEF Now, load_len, Types, DataState, DataPc, Counting
<1>3. ASSUME load_total
      PROVE  /\ Now("store_total", d.q, d.skb, d.entry, d.tree)
             /\ d'.stale = d.stale
             /\ d'.reg = count[d.q]["total"]
  BY <1>1, <1>3, Zenon DEF Now, load_total, Types, DataState, DataPc, Enqueuing
<1> QED BY <1>2, <1>3, Zenon DEF load_len, load_total

\* len is written back.
LEMMA StoreLenEffect ==
  ASSUME Types, Control, store_len
  PROVE  /\ d.pc = "store_len"
         /\ \/ /\ d.skb = NULL
               /\ Store(d.q, "len", d.reg - 1)
               /\ owned' = owned \ {d.entry.skb}
               /\ d' = AtRest
            \/ /\ d.skb # NULL
               /\ Store(d.q, "len", d.reg + 1)
               /\ UNCHANGED owned
               /\ Now("load_total", d.q, d.skb, d.entry, d.tree)
               /\ d'.stale = d.stale
         /\ UNCHANGED tree
<1>1. d.q \in Queue /\ d.reg - 1 \in Int /\ d.reg + 1 \in Int
  BY DEF Types, Control, DataControl, store_len, DataState
<1>2. CASE d.skb = NULL
  BY <1>1, <1>2, StoreIn, Zenon DEF store_len
<1>3. CASE d.skb # NULL
  <2>1. d' = [d EXCEPT !.pc = "load_total", !.reg = 0]
    BY <1>3, Zenon DEF store_len
  <2>2. Now("load_total", d.q, d.skb, d.entry, d.tree) /\ d'.stale = d.stale
    <3> DEFINE zero == 0
    <3>1. zero \in Int
      OBVIOUS
    <3>2. d' = [d EXCEPT !.pc = "load_total", !.reg = zero]
      BY <2>1, Zenon
    <3> HIDE DEF zero
    <3> QED BY <3>1, <3>2, Zenon DEF Now, Types, DataState, DataPc, Enqueuing
  <2> QED BY <1>1, <1>3, <2>2, StoreIn, Zenon DEF store_len
<1> QED BY <1>2, <1>3, Zenon

\* total is written back.
LEMMA StoreTotalEffect ==
  ASSUME Types, Control, store_total
  PROVE  /\ d.pc = "store_total"
         /\ Store(d.q, "total", d.reg + 1)
         /\ d' = AtRest
         /\ UNCHANGED <<tree, owned>>
<1>1. d.q \in Queue /\ d.reg + 1 \in Int
  BY DEF Types, Control, DataControl, store_total, DataState
<1> QED BY <1>1, StoreIn, Zenon DEF store_total

\* The history variables keep their types.
LEMMA TrackTyped ==
  ASSUME Types, Control, Track
  PROVE  touched' \in BOOLEAN /\ raced' \subseteq Queue
<1>1. Initialising \/ c.pc = "queue_name" => c.q \in Queue
  BY Constants, Zenon DEF Control, CallControl, Initialising, InitPc
<1>2. raced' \subseteq Queue
  BY <1>1, Zenon DEF Track, Types
<1>3. touched' \in BOOLEAN
  BY Zenon DEF Track
<1> QED BY <1>2, <1>3, Zenon

\* A data step does not touch the call.
Data == (Insertion \/ Removal) /\ UNCHANGED Shared

\* How the data path goes on after one of its steps.
LEMMA DataControlled ==
  ASSUME Types, Control, Insertion \/ Removal
  PROVE  d' \in DataState /\ DataControl'
<1> USE DEF DataControl, Enqueuing, Removing, Counting, HasEntry
<1>0. ASSUME d' = AtRest PROVE d' \in DataState /\ DataControl'
  BY <1>0, AtRestFields, Zenon
<1>1. ASSUME NEW skb \in Skb, Arrive(skb) PROVE d' \in DataState /\ DataControl'
  BY <1>1, ArriveEffect, Constants DEF Now, Types
<1>2. CASE cong_fn
  BY <1>2, CongEffect, Zenon DEF Now, Control
<1>3. CASE cong_act_fn
  BY <1>3, <1>0, ActEffect, Constants, Zenon DEF Now, Control
<1>4. CASE admn_proc_keys
  BY <1>4, KeysEffect, Zenon DEF Now, Control
<1>5. CASE find
  BY <1>5, FindEffect, Zenon DEF Now, Control
<1>6. CASE file
  BY <1>6, FileEffect, Constants, Zenon DEF Now, Control
<1>7. CASE load_total \/ load_len
  BY <1>7, LoadEffect, Zenon DEF Now, Control
<1>8. CASE store_total
  BY <1>8, <1>0, StoreTotalEffect, Zenon
<1>9. CASE Poll
  BY <1>9, PollEffect, Constants, Zenon DEF Now, Types
<1>10. ASSUME d.pc \in Removing, d' = AfterRemoval PROVE d' \in DataState /\ DataControl'
  BY <1>10, <1>0, AfterRemovalFields, Constants, Zenon
  DEF Now, Control, Types, DataState, TreeName
<1>11. CASE btree_last
  <2>1. CASE d' = AfterRemoval
    BY <1>11, <1>10, <2>1, LastEffect, Zenon
  <2>2. ASSUME NEW e \in tree[d.q][d.tree], Now("unlink", d.q, d.skb, e, d.tree),
               d'.stale = d.stale
        PROVE  d' \in DataState /\ DataControl'
    <3>1. d.q \in Queue /\ d.tree \in TreeName
      BY <1>11, LastEffect, Zenon DEF Types, Control, DataState
    <3>2. e \in Entry
      BY <3>1 DEF Types
    <3> QED BY <1>11, <2>2, <3>2, LastEffect, Zenon DEF Now, Control
  <2> QED BY <1>11, <2>1, <2>2, LastEffect, Zenon
<1>12. CASE unlink
  BY <1>12, UnlinkEffect, Zenon DEF Now, Control
<1>13. CASE lookup
  BY <1>13, <1>10, LookupEffect, Zenon DEF Now, Control
<1>14. CASE unlink_twin
  BY <1>14, UnlinkTwinEffect, Constants, Zenon DEF Now, Control, Types, DataState
<1>15. CASE store_len
  BY <1>15, <1>0, StoreLenEffect, Constants, Zenon
  DEF Now, Control, Types, DataState
<1> QED
  BY <1>1, <1>2, <1>3, <1>4, <1>5, <1>6, <1>7, <1>8, <1>9, <1>11, <1>12, <1>13,
     <1>14, <1>15, Zenon
  DEF Insertion, Removal

\* Types and control under a step of the data path.
LEMMA DataTyped ==
  ASSUME Types, Control, Data, Track
  PROVE  Types' /\ Control'
<1>1. d' \in DataState /\ DataControl'
  BY DataControlled, Zenon DEF Data
<1>2. tree' \in [Queue -> [TreeName -> SUBSET Entry]]
  <2>1. UNCHANGED tree \/ \E q, t, S : Put(q, t, S)
    BY ArriveEffect, CongEffect, ActEffect, KeysEffect, FindEffect, FileEffect,
       LoadEffect,
       StoreTotalEffect, PollEffect, LastEffect, UnlinkEffect, LookupEffect,
       UnlinkTwinEffect, StoreLenEffect, Zenon DEF Data, Insertion, Removal
  <2> QED BY <2>1, Zenon DEF Put, Types
<1>3. count' \in [Queue -> [{"len", "total"} -> Int]]
  <2>1. UNCHANGED count \/ \E q, f, n : Store(q, f, n)
    BY ArriveEffect, CongEffect, ActEffect, KeysEffect, FindEffect, FileEffect,
       LoadEffect,
       StoreTotalEffect, PollEffect, LastEffect, UnlinkEffect, LookupEffect,
       UnlinkTwinEffect, StoreLenEffect, Zenon DEF Data, Insertion, Removal
  <2> QED BY <2>1, Zenon DEF Store, Types
<1>4. owned' \subseteq Skb
  <2>1. owned' \subseteq owned \/ \E skb \in Skb : owned' = owned \cup {skb}
    BY ArriveEffect, CongEffect, ActEffect, KeysEffect, FindEffect, FileEffect,
       LoadEffect,
       StoreTotalEffect, PollEffect, LastEffect, UnlinkEffect, LookupEffect,
       UnlinkTwinEffect, StoreLenEffect, Zenon DEF Data, Insertion, Removal
  <2> QED BY <2>1, Zenon DEF Types
<1>5. UNCHANGED <<c, fn, name>>
  BY Zenon DEF Data, Shared
<1>6. CallControl'
  BY <1>5, Zenon DEF Control, CallControl
<1>7. Types'
  BY <1>1, <1>2, <1>3, <1>4, <1>5, TrackTyped, Zenon DEF Types
<1> QED BY <1>1, <1>6, <1>7, Zenon DEF Control

-----------------------------------------------------------------------------
(* Queues that were not raced *)

\* The data path works on queue q in this step.
Works(q) ==
  /\ d.pc # "idle" => d.q = q
  /\ d'.pc # "idle" => d'.q = q
  /\ d.pc # "idle" \/ d'.pc # "idle"
  /\ \A r \in Queue \ {q} :
       /\ \A t \in TreeName : tree'[r][t] = tree[r][t]
       /\ \A f \in {"len", "total"} : count'[r][f] = count[r][f]

\* The step keeps queue q in order.
Keeps(q) ==
  /\ Local(q) => Local(q)' /\ count[q]["total"] <= count'[q]["total"]
  /\ count'[q]["total"] >= 0
  /\ d'.pc = "store_total" => d'.reg >= 0
  /\ \A t \in TreeName : IsFiniteSet(tree'[q][t])

\* A step on queue q0 that keeps it in order keeps Races.
LEMMA DataRaces ==
  ASSUME Types, Types', Control, Races, UNCHANGED c, Track, NEW q0 \in Queue,
         Works(q0), Keeps(q0)
  PROVE  Races'
<1>1. /\ touched' = (Initialising /\ ((touched /\ c.pc # "init_admn") \/ InHand'))
      /\ raced' = IF Initialising /\ touched THEN raced \cup {c.q} ELSE raced
      /\ Initialising' = Initialising
  BY Zenon DEF Track, Initialising
<1>2. InHand => c.q = q0
  BY Zenon DEF InHand, Works
<1>3. InHand' => c.q = q0
  BY Zenon DEF InHand, Works
<1>4. c.q = q0 => InHand \/ InHand'
  BY Zenon DEF InHand, Works
<1>5. /\ touched' => Initialising'
      /\ Initialising' /\ InHand' => touched'
  BY <1>1, Zenon
<1>6. ASSUME Initialising, ~touched', c.pc # "init_admn"
      PROVE  ~touched /\ c.q # q0
  BY <1>1, <1>4, <1>6, Zenon DEF Races
<1>7. Initialising => c.q \in Queue
  BY Constants, Zenon DEF Control, CallControl, Initialising, InitPc
<1>8. ASSUME Initialising', ~touched'
      PROVE  /\ c'.pc # "init_admn" => tree'[c'.q]["admn"] = {}
             /\ c'.pc \notin {"init_admn", "init_proc"} => tree'[c'.q]["proc"] = {}
             /\ c'.pc \in {"total", "queue_name"} => Length(c.q)' = 0
             /\ c'.pc = "queue_name" => Total(c.q)' = 0
  <2>1. CASE c.pc = "init_admn"
    BY <2>1, Zenon
  <2>2. CASE c.pc # "init_admn"
    BY <1>1, <1>6, <1>7, <1>8, <2>2, Zenon DEF Races, Works, TreeName, Length, Total
  <2> QED BY <2>1, <2>2, Zenon
<1>9. ASSUME NEW q \in Queue, Clean(q)' PROVE Local(q)'
  <2>1. Clean(q)
    BY <1>1, <1>9, Zenon DEF Clean, Changing, Races
  <2>2. Local(q)
    BY <2>1, Zenon DEF Races
  <2>3. CASE q = q0
    BY <2>2, <2>3, Zenon DEF Keeps
  <2>4. CASE q # q0
    <3>1. ~Using(q) /\ ~Using(q)'
      BY <2>4, Zenon DEF Using, Works
    <3>2. Settled(q)'
      BY <2>2, <2>4, <3>1, Zenon
      DEF Local, Settled, Size, Length, Total, Works, TreeName
    <3> QED BY <3>1, <3>2, Zenon DEF Local
  <2> QED BY <2>3, <2>4, Zenon
<1>10. ASSUME c.pc \in DumpPc
       PROVE  raced' = raced /\ (c.q \notin raced => count[c.q]["total"] <= count'[c.q]["total"])
  <2>1. ~Initialising /\ c.q \in Queue
    BY <1>10, Zenon DEF Initialising, DumpPc, Control, CallControl
  <2>2. CASE c.q = q0
    <3>1. c.q \notin raced => Local(q0)
      BY <2>1, <2>2, Zenon DEF Races, Clean, Changing
    <3> QED BY <1>1, <2>1, <2>2, <3>1, Zenon DEF Keeps
  <2>3. CASE c.q # q0
    BY <1>1, <2>1, <2>3 DEF Works, Types
  <2> QED BY <2>2, <2>3, Zenon
<1>11. c'.pc = "copy_total" /\ c'.q \notin raced' => c'.len <= Total(c.q)' + 1
  <2> SUFFICES ASSUME c.pc = "copy_total", c.q \notin raced'
               PROVE  c.len <= count'[c.q]["total"] + 1
    BY Zenon DEF Total
  <2>1. c.q \in Queue /\ c.q \notin raced /\ count[c.q]["total"] <= count'[c.q]["total"]
    BY <1>10, Zenon DEF DumpPc, Control, CallControl
  <2>2. c.len <= count[c.q]["total"] + 1
    BY <2>1, Zenon DEF Races, Total
  <2>3. /\ c.len \in Int /\ count[c.q]["total"] \in Int /\ count'[c.q]["total"] \in Int
    BY <2>1 DEF Types, CallState
  <2> QED BY <2>1, <2>2, <2>3
<1>12. DumpOrdered'
  BY <1>10, Zenon DEF Races, DumpOrdered, DumpPc
<1>13. \A q \in Queue : Total(q)' >= 0
  BY Zenon DEF Races, Total, Keeps, Works
<1>14. d'.pc = "store_total" => d'.reg >= 0
  BY Zenon DEF Keeps
<1>15. \A q \in Queue, t \in TreeName : IsFiniteSet(tree'[q][t])
  BY Zenon DEF Races, Keeps, Works
<1> QED BY <1>5, <1>8, <1>9, <1>11, <1>12, <1>13, <1>14, <1>15, Zenon DEF Races

-----------------------------------------------------------------------------
(* Sizes of finite sets *)

\* What the data path's lemmas use of Cardinality; SizesHold proves it.
Sizes ==
  \A S : IsFiniteSet(S) =>
    /\ Cardinality(S) \in Nat
    /\ \A T \in SUBSET S : IsFiniteSet(T)
    /\ \A e : /\ IsFiniteSet(S \cup {e})
              /\ Cardinality(S \cup {e}) <= Cardinality(S) + 1
              /\ Cardinality(S \ {e}) \in Nat
              /\ Cardinality(S \ {e}) <= Cardinality(S)
              /\ e \in S => Cardinality(S \ {e}) + 1 <= Cardinality(S)

\* A finite set has a size.
LEMMA SizeNat ==
  ASSUME Sizes, NEW S, IsFiniteSet(S) PROVE Cardinality(S) \in Nat
BY Zenon DEF Sizes

\* Its subsets are finite.
LEMMA SizeSubset ==
  ASSUME Sizes, NEW S, IsFiniteSet(S), NEW T \in SUBSET S PROVE IsFiniteSet(T)
BY Zenon DEF Sizes

\* An element more.
LEMMA SizeAdd ==
  ASSUME Sizes, NEW S, IsFiniteSet(S), NEW e
  PROVE  /\ IsFiniteSet(S \cup {e})
         /\ Cardinality(S \cup {e}) <= Cardinality(S) + 1
BY Zenon DEF Sizes

\* An element less.
LEMMA SizeRemove ==
  ASSUME Sizes, NEW S, IsFiniteSet(S), NEW e
  PROVE  /\ Cardinality(S \ {e}) \in Nat
         /\ Cardinality(S \ {e}) <= Cardinality(S)
         /\ e \in S => Cardinality(S \ {e}) + 1 <= Cardinality(S)
BY Zenon DEF Sizes

\* A step that changes neither trees nor counters.
LEMMA StillKeeps ==
  ASSUME Types, Races, UNCHANGED <<tree, count>>, NEW q \in Queue,
         d.pc # "idle" => d.q = q, d'.pc # "idle" => d'.q = q,
         d.pc # "idle" \/ d'.pc # "idle",
         Local(q) => Local(q)',
         d'.pc = "store_total" => d'.reg >= 0
  PROVE  Works(q) /\ Keeps(q)
BY DEF Works, Keeps, Races, Total, Types

\* The queue is in order once the data path rests, and while a packet that
\* arrived is not filed yet.
LEMMA SettledLocal ==
  ASSUME NEW q \in Queue, Settled(q)',
         d'.pc \in {"idle", "cong", "act", "keys", "last"}, ~d'.stale
  PROVE  Local(q)'
BY Zenon DEF Local, Midway, Counting

\* A removal that ends leaves its queue in order if it is settled.
LEMMA AfterRemovalLocal ==
  ASSUME Types, Control, d.pc \in Removing, d' = AfterRemoval, NEW q \in Queue, d.q = q
  PROVE  /\ d'.pc # "idle" => d'.q = q
         /\ d'.pc # "store_total"
         /\ Settled(q)' => Local(q)'
<1>1. /\ d'.pc \in {"idle", "keys"} /\ ~d'.stale
      /\ d'.pc # "idle" => d'.q = q
  BY AfterRemovalFields, AtRestFields, Zenon DEF Now
<1> QED BY <1>1, SettledLocal, Zenon

\* The steps that change no tree and no counter.
LEMMA StillKeepsActions ==
  ASSUME Sizes, Types, Types', Control, Buffers, Races,
         \/ \E skb \in Skb : Arrive(skb)
         \/ Poll \/ cong_fn \/ cong_act_fn \/ admn_proc_keys \/ find
         \/ load_len \/ load_total \/ btree_last \/ lookup
  PROVE  \E q \in Queue : Works(q) /\ Keeps(q)
<1>1. CASE (\E skb \in Skb : Arrive(skb)) \/ Poll
  <2>1. PICK q \in Queue : d'.q = q
    BY <1>1, ArriveEffect, PollEffect, Constants, Zenon DEF Now, Types
  <2>2. /\ d.pc = "idle" /\ d'.pc \in {"cong", "last"} /\ ~d'.stale
        /\ UNCHANGED <<tree, count>>
    BY <1>1, ArriveEffect, PollEffect, Zenon DEF Now
  <2>3. Local(q) => Settled(q)'
    BY <2>2, Zenon DEF Local, Using, Settled, Size, Length, Total
  <2>4. Local(q) => Local(q)'
    BY <2>2, <2>3, SettledLocal, Zenon
  <2> QED BY <2>1, <2>2, <2>4, StillKeeps, Zenon
<1> SUFFICES ASSUME \/ cong_fn \/ cong_act_fn \/ admn_proc_keys \/ find
                    \/ load_len \/ load_total \/ btree_last \/ lookup
             PROVE  \E q \in Queue : Works(q) /\ Keeps(q)
  BY <1>1, Zenon
<1>2. PICK q \in Queue : d.q = q
  BY CongEffect, ActEffect, KeysEffect, FindEffect, LoadEffect, LastEffect,
     LookupEffect, Zenon
  DEF Control, DataControl
<1>3. UNCHANGED <<tree, count>> /\ d.pc # "idle"
  BY CongEffect, ActEffect, KeysEffect, FindEffect, LoadEffect, LastEffect,
     LookupEffect, Zenon
<1>4. /\ \A t \in TreeName : tree'[q][t] = tree[q][t]
      /\ Length(q)' = Length(q) /\ Total(q)' = Total(q) /\ Size(q)' = Size(q)
      /\ Settled(q)' = Settled(q)
  BY <1>3, Zenon DEF Length, Total, Size, Settled
<1>5. Local(q) => Midway(q)
  BY <1>2, <1>3, Zenon DEF Local, Using
<1>6. CASE cong_fn \/ cong_act_fn
  <2>1. /\ d.pc \in {"cong", "act"}
        /\ d'.pc \in {"act", "keys", "last", "idle"}
        /\ d'.pc # "idle" => d'.q = q
        /\ Local(q) => ~d'.stale
    BY <1>2, <1>5, <1>6, CongEffect, ActEffect, AtRestFields, Zenon DEF Now, Midway
  <2>2. Local(q) => Settled(q)'
    BY <1>4, <1>5, <2>1, Zenon DEF Midway
  <2>3. Local(q) => Local(q)'
    BY <2>1, <2>2, SettledLocal, Zenon
  <2> QED BY <1>2, <1>3, <2>1, <2>3, StillKeeps, Zenon
<1>7. CASE admn_proc_keys \/ find
  <2>1. /\ \/ d.pc = "keys" /\ d'.pc = "find" /\ d'.tree = "admn"
           \/ /\ d.pc = "find" /\ d'.pc = "file"
              /\ d'.tree = d.tree /\ d'.entry = d.entry
        /\ d'.q = q
        /\ d'.stale = d.stale
    BY <1>2, <1>7, KeysEffect, FindEffect, Zenon DEF Now
  <2>2. Local(q) => Midway(q)'
    BY <1>4, <1>5, <2>1, Zenon DEF Midway, Settled, Counting, TreeName
  <2>3. Using(q)'
    BY <2>1, Zenon DEF Using
  <2> QED BY <1>2, <1>3, <2>1, <2>2, <2>3, StillKeeps, Zenon DEF Local
<1>8. CASE load_len \/ load_total
  <2>1. /\ \/ /\ d.pc = "load_len" /\ d'.pc = "store_len" /\ d'.reg = Length(q)
              /\ d'.skb = d.skb
           \/ d.pc = "load_total" /\ d'.pc = "store_total" /\ d'.reg = Total(q)
        /\ d'.q = q
        /\ d'.stale = d.stale
    BY <1>2, <1>8, LoadEffect, Zenon DEF Now, Length, Total
  <2>2. Local(q) => Midway(q)'
    BY <1>4, <1>5, <2>1, Zenon DEF Midway, Settled, Counting, TreeName
  <2>3. Using(q)'
    BY <2>1, Zenon DEF Using
  <2>4. d'.pc = "store_total" => d'.reg >= 0
    BY <2>1, Zenon DEF Races
  <2> QED BY <1>2, <1>3, <2>1, <2>2, <2>3, <2>4, StillKeeps, Zenon DEF Local
<1>9. CASE btree_last
  <2>1. d.pc = "last"
    BY <1>9, LastEffect, Zenon
  <2>2. CASE d' = AfterRemoval
    <3>1. Local(q) => Settled(q)'
      BY <1>4, <1>5, <2>1, Zenon DEF Midway
    <3> QED BY <1>2, <1>3, <2>1, <2>2, <3>1, AfterRemovalLocal, StillKeeps, Zenon
            DEF Removing
  <2>3. ASSUME NEW e \in tree[d.q][d.tree], Now("unlink", d.q, d.skb, e, d.tree),
               d'.stale = d.stale, d'.alone = (Others(d.tree, e) = {})
        PROVE  Works(q) /\ Keeps(q)
    <3>1. d.tree \in TreeName
      BY Zenon DEF Types, DataState
    <3>2. d'.alone => \A x \in tree[q][d.tree] : x[d.tree] = e[d.tree] => x = e
      BY <1>2, <2>3, Zenon DEF Others
    <3>3. Alone(d.tree)'
      BY <1>2, <1>4, <2>3, <3>1, <3>2 DEF Alone, Now
    <3>4. Local(q) => Midway(q)'
      BY <1>2, <1>4, <1>5, <2>1, <2>3, <3>1, <3>3, Zenon DEF Midway, Now, Counting
    <3>5. Using(q)' /\ d'.pc = "unlink" /\ d'.q = q
      BY <1>2, <2>3, Zenon DEF Using, Now
    <3> QED BY <1>2, <1>3, <3>4, <3>5, StillKeeps, Zenon DEF Local
  <2> QED BY <1>9, <2>2, <2>3, LastEffect, Zenon
<1>10. CASE lookup
  <2>1. d.pc = "lookup" /\ d.tree \in TreeName
    BY <1>10, LookupEffect, Zenon DEF Types, DataState
  <2>2. CASE d.entry \notin tree[d.q][Twin(d.tree)] /\ d' = AfterRemoval
    <3>0. Size(q) \in Int /\ Length(q) \in Int
      BY SizeNat DEF Size, Length, Types, Races, TreeName
    <3>1. Local(q) => Settled(q)
      BY <1>2, <1>5, <2>1, <2>2, <3>0 DEF Midway, Settled, TreeName, Twin
    <3> QED BY <1>2, <1>3, <1>4, <2>1, <2>2, <3>1, AfterRemovalLocal, StillKeeps,
               Zenon
            DEF Removing
  <2>3. ASSUME Now("unlink_twin", d.q, d.skb, d.entry, d.tree),
               d'.stale = d.stale, d'.alone = (Others(Twin(d.tree), d.entry) = {})
        PROVE  Works(q) /\ Keeps(q)
    <3>1. Twin(d.tree) \in TreeName
      BY Zenon DEF Twin, TreeName
    <3>2. d'.alone => \A x \in tree[q][Twin(d.tree)] :
                        x[Twin(d.tree)] = d.entry[Twin(d.tree)] => x = d.entry
      BY <1>2, <2>3, Zenon DEF Others
    <3>3. Alone(Twin(d.tree))'
      BY <1>2, <1>4, <2>3, <3>1, <3>2 DEF Alone, Now
    <3>4. Local(q) => Midway(q)'
      BY <1>2, <1>4, <1>5, <2>1, <2>3, <3>1, <3>3, Zenon
      DEF Midway, Now, Counting, TreeName
    <3>5. Using(q)' /\ d'.pc = "unlink_twin" /\ d'.q = q
      BY <1>2, <2>3, Zenon DEF Using, Now
    <3> QED BY <1>2, <1>3, <3>4, <3>5, StillKeeps, Zenon DEF Local
  <2> QED BY <1>10, <2>2, <2>3, LookupEffect, Zenon
<1> QED BY <1>6, <1>7, <1>8, <1>9, <1>10, Zenon

\* A step that changes one tree of the queue the data path is at.
LEMMA PutKeeps ==
  ASSUME Types, Races, NEW q \in Queue, d.q = q, d.pc # "idle",
         NEW t \in TreeName, NEW S, Put(q, t, S), IsFiniteSet(S), UNCHANGED count,
         d'.pc # "idle" => d'.q = q, d'.pc # "store_total", Local(q) => Local(q)'
  PROVE  Works(q) /\ Keeps(q)
<1>1. Works(q)
  BY Zenon DEF Works, Put
<1>2. \A u \in TreeName : IsFiniteSet(tree'[q][u])
  BY Zenon DEF Put, Races
<1>3. Keeps(q)
  BY <1>2 DEF Keeps, Races, Total, Types
<1> QED BY <1>1, <1>3, Zenon

\* Unlinking takes out the entry in hand and nothing else.
LEMMA UnlinkedEntry ==
  ASSUME Types, Control, d.pc \in {"unlink", "unlink_twin"}, NEW t \in TreeName,
         ~d.stale, Alone(t)
  PROVE  Unlinked(t) = tree[d.q][t] \ {d.entry}
BY Zenon DEF Unlinked, Alone, Types

\* Unlinking keeps the queue in order.
LEMMA UnlinkKeeps ==
  ASSUME Sizes, Types, Types', Control, Buffers, Races, unlink
  PROVE  \E q \in Queue : Works(q) /\ Keeps(q)
<1>1. PICK q \in Queue : d.q = q
  BY UnlinkEffect, Zenon DEF Control, DataControl
<1>2. /\ d.pc = "unlink" /\ d.tree \in TreeName /\ UNCHANGED count /\ ~d'.stale
      /\ Put(q, d.tree, Unlinked(d.tree))
      /\ Now("lookup", q, d.skb, d.entry, d.tree)
  BY <1>1, UnlinkEffect, Zenon DEF Types, DataState
<1>3. IsFiniteSet(Unlinked(d.tree))
  <2>1. Unlinked(d.tree) \subseteq tree[q][d.tree] /\ IsFiniteSet(tree[q][d.tree])
    BY <1>1, <1>2, UnlinkedType, Zenon DEF Races
  <2> QED BY <2>1, SizeSubset, Zenon
<1>4. ASSUME Local(q) PROVE Local(q)'
  <2>1. /\ Settled(q) /\ d.entry \in tree[q][d.tree] /\ Alone(d.tree) /\ ~d.stale
    BY <1>1, <1>2, <1>4, Zenon DEF Local, Using, Midway
  <2>2. Unlinked(d.tree) = tree[q][d.tree] \ {d.entry}
    BY <1>1, <1>2, <2>1, UnlinkedEntry, Zenon
  <2>3. Length(q)' = Length(q) /\ Total(q)' = Total(q)
    BY <1>2, Zenon DEF Length, Total
  <2>4. Size(q) \in Nat /\ Length(q) \in Int /\ Total(q) \in Int
    BY SizeNat DEF Size, Length, Total, Types, Races, TreeName
  <2>5. CASE d.tree = "admn"
    <3>1. /\ tree'[q]["admn"] = tree[q]["admn"] \ {d.entry}
          /\ tree'[q]["proc"] = tree[q]["proc"]
      BY <1>2, <2>2, <2>5, Zenon DEF Put, TreeName
    <3>2. Settled(q)' /\ d.entry \in tree'[q]["proc"]
      BY <2>1, <2>3, <2>5, <3>1, Zenon DEF Settled, Size
    <3> QED BY <1>2, <2>5, <3>2, Zenon DEF Local, Using, Midway, Now, Counting
  <2>6. CASE d.tree = "proc"
    <3>1. /\ tree'[q]["admn"] = tree[q]["admn"]
          /\ tree'[q]["proc"] = tree[q]["proc"] \ {d.entry}
      BY <1>2, <2>2, <2>6, Zenon DEF Put, TreeName
    <3>2. Size(q)' \in Nat /\ Size(q)' + 1 <= Size(q)
      <4>1. IsFiniteSet(tree[q]["proc"])
        BY Zenon DEF Races, TreeName
      <4>2. /\ Cardinality(tree'[q]["proc"]) \in Nat
            /\ Cardinality(tree'[q]["proc"]) + 1 <= Cardinality(tree[q]["proc"])
        BY <2>1, <2>6, <3>1, <4>1, SizeRemove
      <4> QED BY <4>2, Zenon DEF Size
    <3>3. Size(q)' + 1 <= Length(q)' /\ Length(q)' <= Total(q)'
      BY <2>1, <2>3, <2>4, <3>2 DEF Settled
    <3>4. tree'[q]["admn"] \subseteq tree'[q]["proc"] \cup {d.entry}
      BY <2>1, <3>1, Zenon DEF Settled
    <3> QED BY <1>2, <2>6, <3>3, <3>4, Zenon DEF Local, Using, Midway, Now, Counting
  <2> QED BY <1>2, <2>5, <2>6, Zenon DEF TreeName
<1> QED BY <1>1, <1>2, <1>3, <1>4, PutKeeps, Zenon DEF Now

\* So does unlinking the twin,
LEMMA UnlinkTwinKeeps ==
  ASSUME Sizes, Types, Types', Control, Buffers, Races, unlink_twin
  PROVE  \E q \in Queue : Works(q) /\ Keeps(q)
<1>1. PICK q \in Queue : d.q = q
  BY UnlinkTwinEffect, Zenon DEF Control, DataControl
<1> DEFINE t == Twin(d.tree)
<1>2. /\ d.pc = "unlink_twin" /\ d.tree \in TreeName /\ t \in TreeName
      /\ UNCHANGED count /\ ~d'.stale
      /\ Put(q, t, Unlinked(t))
      /\ \/ d.tree = "admn" /\ t = "proc" /\ Now("keys", q, d.skb, NULL, "admn")
         \/ d.tree = "proc" /\ t = "admn" /\ Now("load_len", q, d.skb, d.entry, d.tree)
  BY <1>1, UnlinkTwinEffect, Zenon DEF Types, DataState, Twin, TreeName
<1>3. IsFiniteSet(Unlinked(t))
  <2>1. Unlinked(t) \subseteq tree[q][t] /\ IsFiniteSet(tree[q][t])
    BY <1>1, <1>2, UnlinkedType, Zenon DEF Races
  <2> QED BY <2>1, SizeSubset, Zenon
<1>4. ASSUME Local(q) PROVE Local(q)'
  <2>1. Midway(q) /\ Alone(t) /\ ~d.stale
    BY <1>1, <1>2, <1>4, Zenon DEF Local, Using, Midway
  <2>2. Unlinked(t) = tree[q][t] \ {d.entry}
    BY <1>1, <1>2, <2>1, UnlinkedEntry, Zenon
  <2>3. Length(q)' = Length(q) /\ Total(q)' = Total(q)
    BY <1>2, Zenon DEF Length, Total
  <2>4. Size(q) \in Nat /\ Length(q) \in Int /\ Total(q) \in Int
    BY SizeNat DEF Size, Length, Total, Types, Races, TreeName
  <2>5. d.entry \notin tree[q][d.tree]
    BY <1>1, <1>2, Zenon DEF Buffers, Hand
  <2>6. CASE d.tree = "admn"
    <3>1. /\ tree'[q]["proc"] = tree[q]["proc"] \ {d.entry}
          /\ tree'[q]["admn"] = tree[q]["admn"]
      BY <1>2, <2>2, <2>6, Zenon DEF Put, TreeName
    <3>2. Settled(q)
      BY <1>2, <2>1, <2>6, Zenon DEF Midway
    <3>3. Size(q)' \in Nat /\ Size(q)' <= Size(q)
      <4>1. IsFiniteSet(tree[q]["proc"])
        BY DEF Races, TreeName
      <4>2. /\ Cardinality(tree'[q]["proc"]) \in Nat
            /\ Cardinality(tree'[q]["proc"]) <= Cardinality(tree[q]["proc"])
        BY <3>1, <4>1, SizeRemove
      <4> QED BY <4>2, Zenon DEF Size
    <3>4. tree'[q]["admn"] \subseteq tree'[q]["proc"]
      BY <2>5, <2>6, <3>1, <3>2, Zenon DEF Settled
    <3>5. Settled(q)'
      BY <2>3, <2>4, <3>2, <3>3, <3>4 DEF Settled
    <3> QED BY <1>2, <2>6, <3>5, SettledLocal, Zenon DEF Now
  <2>7. CASE d.tree = "proc"
    <3>1. /\ tree'[q]["admn"] = tree[q]["admn"] \ {d.entry}
          /\ tree'[q]["proc"] = tree[q]["proc"]
      BY <1>2, <2>2, <2>7, Zenon DEF Put, TreeName
    <3>2. /\ tree[q]["admn"] \subseteq tree[q]["proc"] \cup {d.entry}
          /\ Size(q) + 1 <= Length(q) /\ Length(q) <= Total(q)
      BY <1>2, <2>1, <2>7, Zenon DEF Midway
    <3>3. /\ tree'[q]["admn"] \subseteq tree'[q]["proc"]
          /\ Size(q)' + 1 <= Length(q)' /\ Length(q)' <= Total(q)'
      BY <2>3, <3>1, <3>2, Zenon DEF Size
    <3>4. d.skb = NULL
      BY <1>2, <2>7, Zenon DEF Control, DataControl, Removing
    <3> QED BY <1>2, <2>7, <3>3, <3>4, Zenon DEF Local, Using, Midway, Now, Counting
  <2> QED BY <1>2, <2>6, <2>7, Zenon DEF TreeName
<1> HIDE DEF t
<1> QED BY <1>1, <1>2, <1>3, <1>4, PutKeeps, Zenon DEF Now

\* filing a container,
LEMMA FileKeeps ==
  ASSUME Sizes, Types, Types', Control, Buffers, Races, file
  PROVE  \E q \in Queue : Works(q) /\ Keeps(q)
<1>1. PICK q \in Queue : d.q = q
  BY FileEffect, Zenon DEF Control, DataControl
<1>2. /\ d.pc = "file" /\ d.tree \in TreeName /\ UNCHANGED count /\ ~d'.stale
      /\ d.skb # NULL
      /\ \/ d.tree = "admn" /\ Now("find", q, d.skb, d.entry, "proc")
         \/ d.tree = "proc" /\ Now("load_len", q, d.skb, NULL, "admn")
  BY <1>1, FileEffect, Constants, Zenon
  DEF Types, DataState, Control, DataControl, Enqueuing
<1>3. CASE d.stale /\ UNCHANGED tree
  <2>1. ~Local(q)
    BY <1>1, <1>2, <1>3, Zenon DEF Local, Using, Midway
  <2> QED BY <1>1, <1>2, <1>3, <2>1, StillKeeps, Zenon DEF Now
<1>4. CASE Put(q, d.tree, tree[q][d.tree] \cup {d.entry})
  <2>1. ASSUME NEW t \in TreeName PROVE IsFiniteSet(tree[q][t] \cup {d.entry})
    BY SizeAdd, Zenon DEF Races
  <2>2. ASSUME Local(q) PROVE Local(q)'
    <3>1. Midway(q)
      BY <1>1, <1>2, <2>2, Zenon DEF Local, Using
    <3>2. Length(q)' = Length(q) /\ Total(q)' = Total(q)
      BY <1>2, Zenon DEF Length, Total
    <3>3. Size(q) \in Nat /\ Length(q) \in Int /\ Total(q) \in Int
      BY SizeNat DEF Size, Length, Total, Types, Races, TreeName
    <3>4. CASE d.tree = "admn"
      <4>1. /\ tree'[q]["admn"] = tree[q]["admn"] \cup {d.entry}
            /\ tree'[q]["proc"] = tree[q]["proc"]
        BY <1>4, <3>4, Zenon DEF Put, TreeName
      <4>2. /\ tree'[q]["admn"] \subseteq tree'[q]["proc"] \cup {d.entry}
            /\ Size(q)' <= Length(q)' /\ Length(q)' <= Total(q)'
        BY <1>2, <3>1, <3>2, <3>4, <4>1, Zenon DEF Midway, Size
      <4> QED BY <1>2, <3>4, <4>2, Zenon DEF Local, Using, Midway, Now, Counting
    <3>5. CASE d.tree = "proc"
      <4>1. /\ tree'[q]["admn"] = tree[q]["admn"]
            /\ tree'[q]["proc"] = tree[q]["proc"] \cup {d.entry}
        BY <1>4, <3>5, Zenon DEF Put, TreeName
      <4>2. Size(q)' \in Nat /\ Size(q)' <= Size(q) + 1
        <5>1. IsFiniteSet(tree[q]["proc"])
          BY DEF Races, TreeName
        <5> QED BY <4>1, <5>1, SizeAdd, SizeNat, Zenon DEF Size
      <4>3. /\ tree[q]["admn"] \subseteq tree[q]["proc"] \cup {d.entry}
            /\ Size(q) <= Length(q) /\ Length(q) <= Total(q)
        BY <1>2, <3>1, <3>5, Zenon DEF Midway
      <4>4. /\ tree'[q]["admn"] \subseteq tree'[q]["proc"]
            /\ Size(q)' <= Length(q)' + 1 /\ Length(q)' <= Total(q)'
        BY <3>2, <3>3, <4>1, <4>2, <4>3
      <4> QED BY <1>2, <3>5, <4>4, Zenon DEF Local, Using, Midway, Now, Counting
    <3> QED BY <1>2, <3>4, <3>5, Zenon DEF TreeName
  <2> QED BY <1>1, <1>2, <1>4, <2>1, <2>2, PutKeeps, Zenon DEF Now
<1> QED BY <1>1, <1>3, <1>4, FileEffect, Zenon

\* and writing a counter.
LEMMA StoreKeeps ==
  ASSUME Sizes, Types, Types', Control, Buffers, Races, store_len \/ store_total
  PROVE  \E q \in Queue : Works(q) /\ Keeps(q)
<1>1. PICK q \in Queue : d.q = q
  BY StoreLenEffect, StoreTotalEffect, Zenon DEF Control, DataControl
<1>2. /\ Size(q) \in Nat /\ Length(q) \in Int /\ Total(q) \in Int /\ d.reg \in Int
      /\ Total(q) >= 0
      /\ d.pc = "store_total" => d.reg >= 0
  BY SizeNat DEF Size, Length, Total, Types, Races, TreeName, DataState
<1>3. UNCHANGED tree
  BY StoreLenEffect, StoreTotalEffect, Zenon
<1>4. /\ \A t \in TreeName : tree'[q][t] = tree[q][t] /\ IsFiniteSet(tree'[q][t])
      /\ Size(q)' = Size(q)
  BY <1>3, Zenon DEF Races, Size
<1>5. CASE store_len /\ d.skb = NULL
  <2>1. /\ d.pc = "store_len" /\ Store(q, "len", d.reg - 1) /\ d' = AtRest
    BY <1>1, <1>5, StoreLenEffect, Zenon
  <2>2. /\ Length(q)' = d.reg - 1 /\ Total(q)' = Total(q)
    BY <2>1, Zenon DEF Store, Length, Total
  <2>3. Works(q)
    BY <1>1, <1>3, <2>1, AtRestFields, Zenon DEF Works, Store
  <2>4. ASSUME Local(q) PROVE Local(q)'
    <3>1. /\ tree[q]["admn"] \subseteq tree[q]["proc"]
          /\ Size(q) + 1 <= Length(q) /\ Length(q) <= Total(q) /\ d.reg = Length(q)
      BY <1>1, <1>5, <2>1, <2>4, Zenon DEF Local, Using, Midway, Counting
    <3>2. Settled(q)'
      BY <1>2, <1>4, <2>2, <3>1 DEF Settled, TreeName
    <3> QED BY <2>1, <3>2, AtRestFields, SettledLocal, Zenon
  <2>5. Keeps(q)
    BY <1>2, <1>4, <2>1, <2>2, <2>4, AtRestFields DEF Keeps, Total
  <2> QED BY <2>3, <2>5, Zenon
<1>6. CASE store_len /\ d.skb # NULL
  <2>1. /\ d.pc = "store_len" /\ Store(q, "len", d.reg + 1)
        /\ Now("load_total", q, d.skb, d.entry, d.tree) /\ d'.stale = d.stale
    BY <1>1, <1>6, StoreLenEffect, Zenon
  <2>2. /\ Length(q)' = d.reg + 1 /\ Total(q)' = Total(q)
    BY <2>1, Zenon DEF Store, Length, Total
  <2>3. Works(q)
    BY <1>1, <1>3, <2>1, Zenon DEF Works, Store, Now
  <2>4. ASSUME Local(q) PROVE Local(q)'
    <3>1. /\ tree[q]["admn"] \subseteq tree[q]["proc"] /\ ~d.stale
          /\ Size(q) <= Length(q) + 1 /\ Length(q) <= Total(q) /\ d.reg = Length(q)
      BY <1>1, <1>6, <2>1, <2>4, Zenon DEF Local, Using, Midway, Counting
    <3>2. /\ tree'[q]["admn"] \subseteq tree'[q]["proc"]
          /\ Size(q)' <= Length(q)' /\ Length(q)' <= Total(q)' + 1
      BY <1>2, <1>4, <2>2, <3>1 DEF TreeName
    <3> QED BY <2>1, <3>1, <3>2, Zenon DEF Local, Using, Midway, Now, Counting
  <2>5. Keeps(q)
    BY <1>2, <1>4, <2>1, <2>2, <2>4 DEF Keeps, Total, Now
  <2> QED BY <2>3, <2>5
<1>7. CASE store_total
  <2>1. /\ d.pc = "store_total" /\ Store(q, "total", d.reg + 1) /\ d' = AtRest
    BY <1>1, <1>7, StoreTotalEffect, Zenon
  <2>2. /\ Length(q)' = Length(q) /\ Total(q)' = d.reg + 1
    BY <2>1, Zenon DEF Store, Length, Total
  <2>3. Works(q)
    BY <1>1, <1>3, <2>1, AtRestFields, Zenon DEF Works, Store
  <2>4. ASSUME Local(q) PROVE Local(q)' /\ Total(q) <= Total(q)'
    <3>1. /\ tree[q]["admn"] \subseteq tree[q]["proc"]
          /\ Size(q) <= Length(q) /\ Length(q) <= Total(q) + 1 /\ d.reg = Total(q)
      BY <1>1, <2>1, <2>4, Zenon DEF Local, Using, Midway, Counting
    <3>2. Settled(q)' /\ Total(q) <= Total(q)'
      BY <1>2, <1>4, <2>2, <3>1 DEF Settled, TreeName
    <3> QED BY <2>1, <3>2, AtRestFields, SettledLocal, Zenon
  <2>5. Keeps(q)
    BY <1>2, <1>4, <2>1, <2>2, <2>4, AtRestFields DEF Keeps, Total
  <2> QED BY <2>3, <2>5
<1> QED BY <1>5, <1>6, <1>7, Zenon

-----------------------------------------------------------------------------
(* The buffers *)

\* Every tree after the step is part of the tree before it.
Shrunk == \A q \in Queue, t \in TreeName : tree'[q][t] \subseteq tree[q][t]

\* No entry of the buffer is left after the step.
Gone(skb) == \A q \in Queue, t \in TreeName : \A e \in tree'[q][t] : e.skb # skb

\* Trees that shrink file no buffer twice.
LEMMA ShrunkUnique ==
  ASSUME Unique, Shrunk PROVE Unique'
BY DEF Unique, Shrunk

\* A buffer that no tree files is in no tree that shrank.
LEMMA ShrunkNoEntry ==
  ASSUME NEW skb, NoEntryOf(skb), Shrunk PROVE Gone(skb)
BY Zenon DEF NoEntryOf, Gone, Shrunk

\* What was filed only as the entry in hand still is.
LEMMA ShrunkOnly ==
  ASSUME OnlyInHand, Shrunk, d'.entry = d.entry, d'.q = d.q PROVE OnlyInHand'
BY DEF OnlyInHand, Shrunk

\* Replacing a tree by a part of it.
LEMMA PutShrinks ==
  ASSUME NEW q \in Queue, NEW t \in TreeName, NEW S \in SUBSET tree[q][t], Put(q, t, S)
  PROVE  Shrunk
BY Zenon DEF Put, Shrunk

\* Leaving the trees alone.
LEMMA SameShrinks == ASSUME UNCHANGED tree PROVE Shrunk
BY Zenon DEF Shrunk

\* An idle data path has nothing in hand.
LEMMA RestHand == ASSUME d' = AtRest PROVE Hand'
BY AtRestFields, Zenon DEF Hand, HasEntry, Removing, Counting

\* The packet a removal goes on with.
LEMMA AfterRemovalHand ==
  ASSUME Types, Control, Hand, d.pc \in Removing, d' = AfterRemoval, Shrunk,
         d.skb \in owned => d.skb \in owned'
  PROVE  Hand'
<1>1. CASE d.tree = "proc"
  BY <1>1, AfterRemovalFields, RestHand, Zenon
<1>2. CASE d.tree = "admn"
  <2>1. d.skb # NULL /\ d.skb \in owned' /\ Gone(d.skb)
    BY <1>2, ShrunkNoEntry, Zenon DEF Hand, Control, DataControl
  <2>2. Now("keys", d.q, d.skb, NULL, "admn") /\ ~d'.stale
    BY <1>2, AfterRemovalFields, Zenon
  <2> QED BY <2>1, <2>2, Zenon
          DEF Hand, HasEntry, Now, Removing, Counting, NoEntryOf, Gone
<1> QED BY <1>1, <1>2, Zenon DEF Types, DataState, TreeName

\* The buffers under each step of the data path: a packet arrives.
LEMMA ArriveBuffers ==
  ASSUME Types, Control, Buffers, Types', NEW skb \in Skb, Arrive(skb) PROVE Buffers'
<1> USE DEF Buffers
<1>1. Shrunk /\ owned' = owned \cup {skb} /\ skb \notin owned /\ UNCHANGED tree
  BY ArriveEffect, SameShrinks, Zenon
<1>2. Held' /\ Unique'
  BY <1>1, ShrunkUnique, Zenon DEF Held
<1>3. Gone(skb)
  BY <1>1, Zenon DEF Held, NoEntryOf, Gone
<1>4. Hand'
  BY <1>1, <1>3, ArriveEffect
  DEF Hand, HasEntry, Now, Removing, Counting, NoEntryOf, Gone
<1> QED BY <1>2, <1>4, Zenon

\* cong_fn: no tree changes.
LEMMA CongBuffers ==
  ASSUME Types, Control, Buffers, Types', cong_fn PROVE Buffers'
BY CongEffect
DEF Hand, HasEntry, Now, Removing, Counting, NoEntryOf, Gone, Held, Unique, Control,
   DataControl, Buffers

\* cong_act_fn picks what to drop.
LEMMA ActBuffers ==
  ASSUME Types, Control, Buffers, Types', cong_act_fn PROVE Buffers'
<1> USE DEF Buffers
<1>0. d.pc = "act" /\ UNCHANGED tree /\ d.skb # NULL
  BY ActEffect, Constants, Zenon DEF Control, DataControl, Enqueuing
<1>1. CASE /\ Now("last", d.q, d.skb, d.entry, "admn")
           /\ d'.stale = d.stale /\ UNCHANGED owned
  BY <1>0, <1>1
  DEF Hand, HasEntry, Now, Removing, Counting, NoEntryOf, Gone, Held, Unique,
      Control, DataControl
<1>2. CASE d' = AtRest /\ owned' = owned \ {d.skb}
  BY <1>0, <1>2, RestHand DEF Held, Unique, Hand, NoEntryOf, Gone
<1>3. CASE d' = AtRest /\ UNCHANGED owned
  BY <1>0, <1>3, RestHand DEF Held, Unique
<1> QED BY <1>1, <1>2, <1>3, ActEffect, Zenon

\* The keys of the packet are computed.
LEMMA KeysBuffers ==
  ASSUME Types, Control, Buffers, Types', admn_proc_keys PROVE Buffers'
<1> USE DEF Buffers
<1>1. PICK e \in Entry : e.skb = d.skb /\ Now("find", d.q, d.skb, e, "admn")
  BY KeysEffect, Zenon
<1>2. /\ d.pc = "keys" /\ d'.stale = d.stale /\ UNCHANGED <<tree, owned>>
      /\ d.skb # NULL /\ d.q \in Queue
  BY KeysEffect, Constants, Zenon DEF Control, DataControl, Enqueuing
<1>3. d.skb \in owned /\ NoEntryOf(d.skb)
  BY <1>2, Zenon DEF Hand
<1>4. Held' /\ Unique'
  BY <1>2 DEF Held, Unique
<1>5. OnlyInHand' /\ e \notin tree'[d.q]["proc"] /\ ~d'.stale
  BY <1>1, <1>2, <1>3, Zenon
  DEF NoEntryOf, Gone, OnlyInHand, TreeName, Now, Control, DataControl
<1> QED BY <1>1, <1>2, <1>3, <1>4, <1>5, Zenon
        DEF Hand, HasEntry, Now, Removing, Counting

\* Its list is found.
LEMMA FindBuffers ==
  ASSUME Types, Control, Buffers, Types', find PROVE Buffers'
BY FindEffect
DEF Hand, HasEntry, Now, Removing, Counting, NoEntryOf, Gone, OnlyInHand, Held,
   Unique, Control, DataControl, Buffers

\* Its container is filed.
LEMMA FileBuffers ==
  ASSUME Types, Control, Buffers, Types', file PROVE Buffers'
<1> USE DEF Buffers
<1>1. /\ d.pc = "file" /\ ~d'.stale /\ UNCHANGED owned
      /\ d.q \in Queue /\ d.tree \in TreeName
      /\ d.skb \in Skb /\ d.skb # NULL /\ d.entry \in Entry
      /\ d.entry.skb \in owned /\ OnlyInHand
  BY FileEffect, Constants, Zenon
  DEF Types, Control, DataControl, DataState, Enqueuing, HasEntry, Hand
<1>2. CASE d.stale /\ UNCHANGED tree
  <2>1. Held' /\ Unique'
    BY <1>1, <1>2 DEF Held, Unique
  <2>2. CASE d.tree = "admn" /\ Now("find", d.q, d.skb, d.entry, "proc")
    BY <1>1, <1>2, <2>1, <2>2
    DEF Hand, HasEntry, Now, Removing, Counting, OnlyInHand
  <2>3. CASE d.tree = "proc" /\ Now("load_len", d.q, d.skb, NULL, "admn")
    BY <1>1, <2>1, <2>3, Zenon DEF Hand, HasEntry, Now, Removing, Counting
  <2> QED BY <2>2, <2>3, FileEffect, Zenon
<1>3. CASE Put(d.q, d.tree, tree[d.q][d.tree] \cup {d.entry})
  <2>0. \A r \in Queue, u \in TreeName : \A e \in tree'[r][u] :
          \/ e \in tree[r][u]
          \/ r = d.q /\ e = d.entry /\ u = d.tree
    BY <1>3 DEF Put
  <2>1. Held'
    BY <1>1, <2>0, Zenon DEF Held
  <2>2. Unique'
    BY <1>1, <2>0 DEF Unique, OnlyInHand
  <2>3. CASE d.tree = "admn" /\ Now("find", d.q, d.skb, d.entry, "proc")
    <3>1. OnlyInHand'
      BY <1>1, <2>0, <2>3 DEF OnlyInHand, Now
    <3>2. d.entry \notin tree'[d.q]["proc"]
      BY <1>1, <2>0, <2>3, Zenon DEF Hand, TreeName
    <3> QED BY <1>1, <2>1, <2>2, <2>3, <3>1, <3>2, Zenon
            DEF Hand, HasEntry, Now, Removing, Counting
  <2>4. CASE d.tree = "proc" /\ Now("load_len", d.q, d.skb, NULL, "admn")
    BY <1>1, <2>1, <2>2, <2>4, Zenon DEF Hand, HasEntry, Now, Removing, Counting
  <2> QED BY <2>3, <2>4, FileEffect
<1> QED BY <1>2, <1>3, FileEffect, Zenon

\* total is read.
LEMMA LoadTotalBuffers ==
  ASSUME Types, Control, Buffers, Types', load_total PROVE Buffers'
<1> USE DEF Buffers
<1>1. /\ d.pc = "load_total" /\ UNCHANGED <<tree, owned>> /\ ~d'.stale /\ d.skb # NULL
      /\ Now("store_total", d.q, d.skb, d.entry, d.tree)
  BY LoadEffect, Constants, Zenon DEF Control, DataControl, Enqueuing
<1> QED BY <1>1 DEF Hand, HasEntry, Now, Removing, Counting, Held, Unique

\* total is written back.
LEMMA StoreTotalBuffers ==
  ASSUME Types, Control, Buffers, Types', store_total PROVE Buffers'
BY RestHand, StoreTotalEffect DEF Held, Unique, Buffers

\* oq_dequeue is called.
LEMMA PollBuffers ==
  ASSUME Types, Control, Buffers, Types', Poll PROVE Buffers'
<1> USE DEF Buffers
<1>1. /\ UNCHANGED <<tree, owned>> /\ ~d'.stale
      /\ \E q : Now("last", q, NULL, NULL, "proc")
  BY PollEffect, Zenon
<1> QED BY <1>1 DEF Hand, HasEntry, Now, Removing, Counting, Held, Unique

\* The last container is taken in hand.
LEMMA LastBuffers ==
  ASSUME Types, Control, Buffers, Types', btree_last PROVE Buffers'
<1> USE DEF Buffers
<1>1. /\ d.pc = "last" /\ UNCHANGED <<tree, owned>> /\ d.q \in Queue /\ d.tree \in TreeName
      /\ ~d.stale
  BY LastEffect, Zenon DEF Types, Control, DataControl, DataState, Removing
<1>2. Held' /\ Unique' /\ Shrunk
  BY <1>1, SameShrinks DEF Held, Unique
<1>3. CASE d' = AfterRemoval
  BY <1>1, <1>2, <1>3, AfterRemovalHand, Zenon DEF Removing
<1>4. ASSUME NEW e \in tree[d.q][d.tree], Now("unlink", d.q, d.skb, e, d.tree),
             d'.stale = d.stale
      PROVE  Hand'
  <2>1. e.skb \in owned /\ e.skb # d.skb
    BY <1>1, Constants, Zenon DEF Held, Hand, Removing, NoEntryOf, Types
  <2>2. OnlyInHand'
    BY <1>1, <1>4 DEF OnlyInHand, Unique, Now
  <2>3. d.skb # NULL => d.skb \in owned /\ Gone(d.skb)
    BY <1>1, <1>2, ShrunkNoEntry, Zenon DEF Hand, Removing
  <2> QED BY <1>1, <1>4, <2>1, <2>2, <2>3, Zenon
          DEF Hand, HasEntry, Now, Removing, Counting, NoEntryOf, Gone
<1> QED BY <1>2, <1>3, <1>4, LastEffect, Zenon

\* It is unlinked.
LEMMA UnlinkBuffers ==
  ASSUME Types, Control, Buffers, Types', unlink PROVE Buffers'
<1> USE DEF Buffers
<1>1. /\ d.pc = "unlink" /\ UNCHANGED owned /\ d.q \in Queue /\ d.tree \in TreeName /\ ~d'.stale
      /\ Put(d.q, d.tree, Unlinked(d.tree)) /\ Now("lookup", d.q, d.skb, d.entry, d.tree)
  BY UnlinkEffect, Zenon DEF Types, Control, DataControl, DataState
<1>2. Shrunk
  BY <1>1, PutShrinks, UnlinkedType, Zenon
<1>3. Held' /\ Unique'
  BY <1>1, <1>2, ShrunkUnique, Zenon DEF Held, Shrunk
<1>4. d.entry \notin tree'[d.q][d.tree]
  <2>1. tree'[d.q][d.tree] = Unlinked(d.tree)
    BY <1>1, Zenon DEF Put
  <2>2. d.stale => Unlinked(d.tree) \subseteq {}
    BY <1>1, UnlinkedType, Zenon DEF Hand, InHandTree
  <2> QED BY <1>1, <2>1, <2>2, UnlinkedType, Zenon
<1>5. OnlyInHand' /\ d.entry.skb \in owned
  BY <1>1, <1>2, ShrunkOnly, Zenon DEF Hand, HasEntry, Now
<1>6. d.skb # NULL => d.skb \in owned /\ Gone(d.skb)
  BY <1>1, <1>2, ShrunkNoEntry, Zenon DEF Hand, Removing
<1> QED BY <1>1, <1>3, <1>4, <1>5, <1>6, Zenon
        DEF Hand, HasEntry, Now, Removing, Counting, NoEntryOf, Gone

\* Its twin is looked up.
LEMMA LookupBuffers ==
  ASSUME Types, Control, Buffers, Types', lookup PROVE Buffers'
<1> USE DEF Buffers
<1>1. /\ d.pc = "lookup" /\ UNCHANGED <<tree, owned>> /\ d.q \in Queue /\ d.tree \in TreeName
      /\ ~d.stale
  BY LookupEffect, Zenon DEF Types, Control, DataControl, DataState, Removing
<1>2. Held' /\ Unique' /\ Shrunk
  BY <1>1, SameShrinks DEF Held, Unique
<1>3. CASE d' = AfterRemoval
  BY <1>1, <1>2, <1>3, AfterRemovalHand, Zenon DEF Removing
<1>4. ASSUME Now("unlink_twin", d.q, d.skb, d.entry, d.tree),
             d'.stale = d.stale
      PROVE  Hand'
  <2>1. d.entry.skb \in owned /\ d.entry \notin tree[d.q][d.tree]
    BY <1>1, Zenon DEF Hand, HasEntry
  <2>2. OnlyInHand'
    BY <1>1, <1>2, <1>4, ShrunkOnly, Zenon DEF Now, Hand, HasEntry
  <2>3. d.skb # NULL => d.skb \in owned /\ Gone(d.skb)
    BY <1>1, <1>2, ShrunkNoEntry, Zenon DEF Hand, Removing
  <2> QED BY <1>1, <1>4, <2>1, <2>2, <2>3, Zenon
          DEF Hand, HasEntry, Now, Removing, Counting, NoEntryOf, Gone
<1> QED BY <1>2, <1>3, <1>4, LookupEffect, Zenon

\* The twin is unlinked.
LEMMA UnlinkTwinBuffers ==
  ASSUME Types, Control, Buffers, Types', unlink_twin PROVE Buffers'
<1> USE DEF Buffers
<1>1. /\ d.pc = "unlink_twin" /\ d.q \in Queue /\ d.tree \in TreeName /\ ~d'.stale
      /\ Twin(d.tree) \in TreeName /\ Twin(d.tree) # d.tree
      /\ Put(d.q, Twin(d.tree), Unlinked(Twin(d.tree)))
  BY UnlinkTwinEffect, Zenon
  DEF Types, Control, DataControl, DataState, Twin, TreeName
<1>2. Shrunk
  BY <1>1, PutShrinks, UnlinkedType, Zenon
<1>3. /\ d.entry.skb \in owned /\ d.entry \in Entry
      /\ d.entry \notin tree[d.q][d.tree]
      /\ OnlyInHand
  BY <1>1, Zenon DEF Hand, HasEntry, Control, DataControl
<1>4. d.entry \notin tree'[d.q][Twin(d.tree)]
  <2>1. tree'[d.q][Twin(d.tree)] = Unlinked(Twin(d.tree))
    BY <1>1, Zenon DEF Put
  <2>2. d.stale => Unlinked(Twin(d.tree)) \subseteq {}
    BY <1>1, UnlinkedType, Zenon DEF Hand, InHandTree
  <2> QED BY <1>1, <2>1, <2>2, UnlinkedType, Zenon
<1>5. Gone(d.entry.skb)
  <2>1. \A t \in TreeName : d.entry \notin tree'[d.q][t]
    BY <1>1, <1>2, <1>3, <1>4, Zenon DEF Shrunk, Twin, TreeName
  <2>2. \A q \in Queue, t \in TreeName : \A e \in tree'[q][t] :
          e.skb = d.entry.skb => q = d.q /\ e = d.entry
    BY <1>2, <1>3, Zenon DEF Shrunk, OnlyInHand
  <2> QED BY <2>1, <2>2, Zenon DEF NoEntryOf, Gone
<1>6. d.skb # NULL => d.skb \in owned /\ Gone(d.skb)
  BY <1>1, <1>2, ShrunkNoEntry, Zenon DEF Hand, Removing
<1>7. Unique'
  BY <1>2, ShrunkUnique, Zenon
<1>8. CASE /\ d.tree = "admn"
           /\ owned' = owned \ {d.entry.skb}
           /\ Now("keys", d.q, d.skb, NULL, "admn")
  <2>1. Held'
    BY <1>2, <1>5, <1>8, Zenon DEF Held, Shrunk, NoEntryOf, Gone
  <2>2. d.skb # NULL => d.skb \in owned'
    BY <1>1, <1>6, <1>8, Zenon DEF Hand, Removing
  <2> QED BY <1>1, <1>6, <1>7, <1>8, <2>1, <2>2, Zenon
          DEF Hand, HasEntry, Now, Removing, Counting, NoEntryOf, Gone
<1>9. CASE /\ d.tree = "proc"
           /\ UNCHANGED owned
           /\ Now("load_len", d.q, d.skb, d.entry, d.tree)
  <2>1. Held'
    BY <1>2, <1>9, Zenon DEF Held, Shrunk
  <2>2. OnlyInHand'
    BY <1>2, <1>3, <1>9, ShrunkOnly, Zenon DEF Now
  <2> QED BY <1>1, <1>3, <1>5, <1>7, <1>9, <2>1, <2>2, Zenon
          DEF Hand, HasEntry, Now, Removing, Counting, NoEntryOf, Gone
<1> QED BY <1>8, <1>9, UnlinkTwinEffect, Zenon

\* len is read.
LEMMA LoadLenBuffers ==
  ASSUME Types, Control, Buffers, Types', load_len PROVE Buffers'
<1> USE DEF Buffers
<1>1. /\ d.pc = "load_len" /\ UNCHANGED <<tree, owned>> /\ ~d'.stale
      /\ Now("store_len", d.q, d.skb, d.entry, d.tree)
  BY LoadEffect, Zenon DEF Control, DataControl
<1> QED BY <1>1
        DEF Hand, HasEntry, Now, Removing, Counting, Held, Unique, NoEntryOf, Gone,
            OnlyInHand

\* len is written back; a packet taken out leaves the qdisc.
LEMMA StoreLenBuffers ==
  ASSUME Types, Control, Buffers, Types', store_len PROVE Buffers'
<1> USE DEF Buffers
<1>1. d.pc = "store_len" /\ UNCHANGED tree
  BY StoreLenEffect, Zenon
<1>2. Unique'
  BY <1>1 DEF Unique
<1>3. CASE d.skb = NULL /\ owned' = owned \ {d.entry.skb} /\ d' = AtRest
  <2>1. NoEntryOf(d.entry.skb)
    BY <1>1, <1>3, Zenon DEF Hand, Counting
  <2>2. Held'
    BY <1>1, <1>3, <2>1, Zenon DEF Held, NoEntryOf, Gone
  <2> QED BY <1>2, <1>3, <2>2, RestHand, Zenon
<1>4. CASE /\ d.skb # NULL /\ UNCHANGED owned
           /\ Now("load_total", d.q, d.skb, d.entry, d.tree)
           /\ d'.stale = d.stale
  BY <1>1, <1>2, <1>4, Zenon
  DEF Hand, HasEntry, Now, Removing, Counting, Held, Control, DataControl
<1> QED BY <1>3, <1>4, StoreLenEffect, Zenon

\* No step of the data path spoils the buffers.
LEMMA DataBuffers ==
  ASSUME Types, Control, Buffers, Insertion \/ Removal, Types'
  PROVE  Buffers'
BY ArriveBuffers, CongBuffers, ActBuffers, KeysBuffers, FindBuffers, FileBuffers,
   LoadTotalBuffers, StoreTotalBuffers, PollBuffers, LastBuffers, UnlinkBuffers,
   LookupBuffers, UnlinkTwinBuffers, LoadLenBuffers, StoreLenBuffers, Zenon
DEF Insertion, Removal

\* Names and pointers under a step of the data path.
LEMMA DataNames ==
  ASSUME Types, Control, Names, Data, NEW q \in Queue, Works(q)
  PROVE  Names'
<1>1. UNCHANGED <<name, fn, c, failed>>
  BY Zenon DEF Data, Shared
<1>2. QueueReady'
  <2>1. CASE d.pc # "idle"
    BY <1>1, <2>1, Zenon DEF Names, QueueReady, Works
  <2>2. CASE d.pc = "idle"
    <3>1. Poll \/ \E skb \in Skb : Arrive(skb)
      BY <2>2, CongEffect, ActEffect, KeysEffect, FindEffect, FileEffect,
         LoadEffect,
         StoreTotalEffect, LastEffect, UnlinkEffect, LookupEffect, UnlinkTwinEffect,
         StoreLenEffect, Zenon DEF Data, Insertion, Removal
    <3>2. \E f \in Pointer : d'.q \in PickOf[fn[f]]
      BY <3>1, ArriveEffect, PollEffect, Constants, Zenon DEF Now
    <3> QED BY <1>1, <3>2, Constants, Zenon DEF Names, QueueReady, Types
  <2> QED BY <2>1, <2>2, Zenon
<1> QED BY <1>1, <1>2, Zenon DEF Names, OnePolicy, Initialising

\* A step of the data path.
LEMMA DataStep == ASSUME Sizes, IInv, Data, Track PROVE IInv'
<1>1. Types' /\ Control'
  BY DataTyped, Zenon DEF IInv
<1>2. Buffers'
  BY <1>1, DataBuffers, Zenon DEF IInv, Data
<1>3. PICK q \in Queue : Works(q) /\ Keeps(q)
  BY <1>1, StillKeepsActions, UnlinkKeeps, UnlinkTwinKeeps, FileKeeps, StoreKeeps,
     Zenon
  DEF IInv, Data, Insertion, Removal
<1>4. Races'
  BY <1>1, <1>3, DataRaces, Zenon DEF IInv, Data, Shared
<1>5. Names'
  BY <1>3, DataNames, Zenon DEF IInv
<1> QED BY <1>1, <1>2, <1>4, <1>5, Zenon DEF IInv

-----------------------------------------------------------------------------
(* Change and dump *)

\* The fields of a call that is not there.
LEMMA NoCallFields ==
  /\ NoCall \in CallState
  /\ NoCall.pc = "idle" /\ NoCall.policy = NULL /\ NoCall.q = 0 /\ NoCall.i = 1
BY DEF NoCall, CallState

\* The call after a step.
Then(pc, policy, q) ==
  c' \in CallState /\ c'.pc = pc /\ c'.policy = policy /\ c'.q = q /\ c'.i = 1

\* The data path keeps what it has in hand.
SameHand ==
  /\ d' \in DataState
  /\ d'.pc = d.pc /\ d'.q = d.q /\ d'.skb = d.skb /\ d'.entry = d.entry
  /\ d'.tree = d.tree /\ d'.alone = d.alone /\ d'.reg = d.reg
  /\ d'.stale => \/ d.stale
                 \/ /\ Initialising /\ InHand
                    /\ d.pc \in {"unlink", "unlink_twin", "file"}
                    /\ tree'[d.q][InHandTree] = {}

\* A step that leaves the data path alone.
LEMMA SameHandData ==
  ASSUME Types, Control, UNCHANGED d PROVE SameHand /\ DataControl'
<1>1. SameHand
  BY Zenon DEF SameHand, Types
<1> QED BY <1>1, Zenon DEF Control, DataControl, HasEntry

\* A step that keeps what is in hand keeps the control.
LEMMA SameHandControl ==
  ASSUME Types, Control, SameHand PROVE DataControl'
BY Zenon DEF SameHand, Control, DataControl, HasEntry

\* A step of change that empties trees at most keeps the buffers.
LEMMA CallBuffers ==
  ASSUME Types, Control, Buffers, SameHand, Shrunk, UNCHANGED owned PROVE Buffers'
<1>1. Held' /\ Unique'
  BY ShrunkUnique, Zenon DEF Buffers, Held, Shrunk
<1>2. OnlyInHand => OnlyInHand'
  BY ShrunkOnly, Zenon DEF SameHand
<1>3. \A skb : NoEntryOf(skb) => Gone(skb)
  BY ShrunkNoEntry, Zenon
<1>4. d'.stale => tree'[d'.q][InHandTree'] = {}
  <2>1. InHandTree' = InHandTree /\ InHandTree \in TreeName
    BY Zenon DEF InHandTree, SameHand, Twin, Types, DataState, TreeName
  <2>2. d.stale => d.q \in Queue
    BY Zenon DEF Control, DataControl
  <2> QED BY <2>1, <2>2, Zenon DEF SameHand, Buffers, Hand, Shrunk
<1>5. d.pc # "idle" => d.q \in Queue
  BY Zenon DEF Control, DataControl
<1>6. \A t \in TreeName : d.pc # "idle" /\ d.entry \notin tree[d.q][t] => d.entry \notin tree'[d.q][t]
  BY <1>5, Zenon DEF Shrunk
<1>7. Hand'
  <2>1. d.pc \in {"find", "file"} => d'.entry \notin tree'[d'.q]["proc"]
    BY <1>6, Zenon DEF SameHand, Buffers, Hand, TreeName
  <2>2. d.pc \in {"lookup", "unlink_twin"} => d'.entry \notin tree'[d'.q][d'.tree]
    BY <1>6, Zenon DEF SameHand, Buffers, Hand, Types, DataState
  <2>3. HasEntry' = HasEntry
    BY Zenon DEF SameHand, HasEntry
  <2>4. /\ d.pc \in {"cong", "act", "keys"} \cup Removing /\ d.skb # NULL => NoEntryOf(d.skb)'
        /\ d.pc \in Counting /\ d.skb = NULL => NoEntryOf(d.entry.skb)'
    BY <1>3 DEF SameHand, Buffers, Hand, NoEntryOf, Gone
  <2> QED BY <1>2, <1>4, <2>1, <2>2, <2>3, <2>4 DEF SameHand, Buffers, Hand
<1> QED BY <1>1, <1>7, Zenon DEF Buffers

\* The call leaves the trees and counters of queue q alone.
Apart(q) ==
  /\ \A t \in TreeName : tree'[q][t] = tree[q][t]
  /\ \A f \in {"len", "total"} : count'[q][f] = count[q][f]

\* A queue left alone stays in order.
LEMMA ApartLocal ==
  ASSUME SameHand, NEW q \in Queue, Apart(q), Local(q), d'.stale => d.stale \/ d.q # q
  PROVE  Local(q)'
<1>1. /\ Size(q)' = Size(q) /\ Length(q)' = Length(q) /\ Total(q)' = Total(q)
      /\ Settled(q)' = Settled(q) /\ Using(q)' = Using(q)
  BY Zenon DEF Apart, Size, Length, Total, Settled, TreeName, Using, SameHand
<1>2. CASE ~Using(q)
  BY <1>1, <1>2, Zenon DEF Local
<1>3. CASE Using(q)
  <2>1. Midway(q) /\ d.q = q
    BY <1>3, Zenon DEF Local, Using
  <2>2. ASSUME NEW t \in TreeName, Alone(t) PROVE Alone(t)'
    BY <2>1, <2>2 DEF Alone, SameHand, Apart
  <2>3. d.pc = "unlink" => Alone(d.tree)' /\ d.entry \in tree'[q][d.tree]
    BY <2>1, <2>2, Zenon DEF Midway, SameHand, DataState, Apart
  <2>4. d.pc = "unlink_twin" => Alone(Twin(d.tree))'
    BY <2>1, <2>2, Zenon DEF Midway, SameHand, DataState, Twin, TreeName
  <2>5. Midway(q)'
    <3>1. /\ ~d'.stale /\ d'.pc = d.pc /\ d'.tree = d.tree /\ d'.entry = d.entry
          /\ d'.skb = d.skb /\ d'.reg = d.reg
          /\ tree'[q]["admn"] = tree[q]["admn"] /\ tree'[q]["proc"] = tree[q]["proc"]
      BY <2>1, Zenon DEF Midway, SameHand, Apart, TreeName
    <3> QED BY <1>1, <2>1, <2>3, <2>4, <3>1, Zenon DEF Midway
  <2> QED BY <1>1, <1>3, <2>5, Zenon DEF Local
<1> QED BY <1>2, <1>3, Zenon

\* What a step of change or dump owes to the queues: it works on queue q at
\* most, keeps it in order if no packet was in hand, and says the truth of the
\* stage it has come to.
CallKeeps(q) ==
  /\ \A r \in Queue \ {q} : Apart(r)
  /\ ~Initialising => Apart(q)
  /\ Initialising /\ ~touched /\ (c.pc = "queue_name" \/ Settled(q)) => Settled(q)'
  /\ Initialising' /\ ~touched' =>
       /\ c'.pc # "init_admn" => tree'[c'.q]["admn"] = {}
       /\ c'.pc \notin {"init_admn", "init_proc"} => tree'[c'.q]["proc"] = {}
       /\ c'.pc \in {"total", "queue_name"} => count'[c'.q]["len"] = 0
       /\ c'.pc = "queue_name" => count'[c'.q]["total"] = 0
  /\ c'.pc = "copy_total" /\ c'.q \notin raced => c'.len <= count'[c'.q]["total"] + 1
  /\ c'.pc = "copied" /\ c'.q \notin raced => c'.len <= c'.total + 1
  /\ \A r \in Queue : count'[r]["total"] >= 0
  /\ \A r \in Queue, t \in TreeName : IsFiniteSet(tree'[r][t])

\* A step of change or dump that owes nothing to the queues keeps Races.
LEMMA CallRaces ==
  ASSUME Types, Types', Control, Control', Races, Track, SameHand, NEW q0 \in Queue,
         Initialising => c.q = q0, CallKeeps(q0), c.pc = "queue_name" => c' # c,
         c'.pc \in {"copy_total", "copied"} => ~Initialising
  PROVE  Races'
<1>1. touched' = (Initialising' /\ ((touched /\ c'.pc # "init_admn") \/ InHand'))
  BY Zenon DEF Track
<1>2. /\ Initialising /\ touched => raced' = raced \cup {q0}
      /\ ~(Initialising /\ touched) /\ c.pc = "queue_name" => raced' = raced \ {q0}
      /\ ~(Initialising /\ touched) /\ c.pc # "queue_name" => raced' = raced
  BY Zenon DEF Track, Initialising
<1>3. c.pc = "queue_name" => Initialising
  BY Zenon DEF Initialising
<1>4. ASSUME NEW q \in Queue, Clean(q)' PROVE Local(q)'
  <2>1. q \notin raced'
    BY <1>4, Zenon DEF Clean
  <2>2. CASE q = q0 /\ Initialising
    <3>1. ~touched
      BY <1>2, <2>1, <2>2, Zenon
    <3>2. ~InHand /\ ~Using(q) /\ ~Using(q)'
      BY <2>2, <3>1, Zenon DEF Races, InHand, Using, SameHand
    <3>3. c.pc # "queue_name" => Settled(q)
      BY <1>2, <2>1, <2>2, <3>1, <3>2 DEF Races, Clean, Local
    <3>4. Settled(q)'
      BY <2>2, <3>1, <3>3, Zenon DEF CallKeeps
    <3> QED BY <3>2, <3>4, Zenon DEF Local
  <2>3. CASE q # q0 \/ ~Initialising
    <3>1. Clean(q)
      BY <1>2, <1>3, <2>1, <2>3, Zenon DEF Clean, Changing
    <3>2. Apart(q)
      BY <2>3, Zenon DEF CallKeeps
    <3>3. d'.stale => d.stale \/ d.q # q
      BY <2>3, Zenon DEF SameHand, InHand
    <3> QED BY <3>1, <3>2, <3>3, ApartLocal, Zenon DEF Races
  <2> QED BY <2>2, <2>3, Zenon
<1>5. /\ touched' => Initialising'
      /\ Initialising' /\ InHand' => touched'
  BY <1>1, Zenon
<1>6. Initialising' /\ ~touched' =>
       /\ c'.pc # "init_admn" => tree'[c'.q]["admn"] = {}
       /\ c'.pc \notin {"init_admn", "init_proc"} => tree'[c'.q]["proc"] = {}
       /\ c'.pc \in {"total", "queue_name"} => Length(c.q)' = 0
       /\ c'.pc = "queue_name" => Total(c.q)' = 0
  BY Zenon DEF CallKeeps, Length, Total
<1>7. c'.pc \in {"copy_total", "copied"} => raced' = raced
  BY <1>2, <1>3, Zenon
<1>8. /\ c'.pc = "copy_total" /\ c'.q \notin raced' => c'.len <= Total(c.q)' + 1
      /\ DumpOrdered'
  BY <1>7, Zenon DEF CallKeeps, DumpOrdered, Total
<1>9. /\ \A q \in Queue : Total(q)' >= 0
      /\ d'.pc = "store_total" => d'.reg >= 0
      /\ \A q \in Queue, t \in TreeName : IsFiniteSet(tree'[q][t])
  BY Zenon DEF CallKeeps, Total, SameHand, Races
<1> QED BY <1>4, <1>5, <1>6, <1>8, <1>9, Zenon DEF Races

\* A step of change or dump that leaves trees, counters and the data path alone.
LEMMA QuietKeeps ==
  ASSUME Types, Races, UNCHANGED <<tree, count, d>>, NEW q \in Queue
  PROVE  /\ \A r \in Queue : Apart(r)
         /\ Settled(q)' = Settled(q)
         /\ \A r \in Queue : count'[r]["total"] >= 0
         /\ \A r \in Queue, t \in TreeName : IsFiniteSet(tree'[r][t])
BY Zenon DEF Apart, Settled, Size, Length, Total, Races

\* No queue that was not raced holds more than entered it, but for the packet
\* whose total++ is still to come.
LEMMA LocalOrdered ==
  ASSUME Types, Control, NEW q \in Queue, Local(q)
  PROVE  Length(q) <= Total(q) + 1
<1>1. Length(q) \in Int /\ Total(q) \in Int
  BY Zenon DEF Types, Length, Total
<1>2. CASE ~Using(q)
  BY <1>1, <1>2 DEF Local, Settled
<1>3. CASE Using(q)
  <2>1. Midway(q) /\ d.pc \in DataPc /\ d.pc # "idle" /\ d.tree \in TreeName
    BY <1>3, Zenon DEF Local, Using, Types, DataState
  <2> QED BY <1>1, <2>1
          DEF Midway, Settled, DataPc, Enqueuing, Removing, Counting, TreeName
<1> QED BY <1>2, <1>3, Zenon

\* oq_change is called.
LEMMA ChangeStep ==
  ASSUME IInv, NEW p \in Policy, change(p), Track PROVE IInv'
<1>1. /\ c.pc = "idle" /\ UNCHANGED <<tree, count, name, fn, failed, d, owned>>
      /\ c' = [NoCall EXCEPT !.pc = "init_admn", !.policy = p]
  BY Zenon DEF change
<1>2. Then("init_admn", p, 0)
  BY <1>1, NoCallFields, Zenon DEF Then, CallState, InitPc
<1>3. 0 \in DOMAIN NameOf[p] /\ 0 \in Queue
  BY Constants, Zenon
<1>4. SameHand /\ DataControl'
  BY <1>1, SameHandData, Zenon DEF IInv
<1>5. Types' /\ Control'
  BY <1>1, <1>2, <1>3, <1>4, TrackTyped, Zenon
  DEF IInv, Types, Control, CallControl, Then, InitPc, DumpPc
<1>6. Buffers'
  BY <1>1, <1>4, CallBuffers, SameShrinks, Zenon DEF IInv
<1>7. Races'
  <2>1. ~Initialising /\ c.pc # "queue_name" /\ c'.pc = "init_admn"
    BY <1>1, <1>2, Zenon DEF Initialising, Then
  <2>2. CallKeeps(0)
    BY <1>1, <1>3, <2>1, QuietKeeps, Zenon DEF CallKeeps, IInv
  <2> QED BY <1>3, <1>4, <1>5, <2>1, <2>2, CallRaces DEF IInv
<1>8. Names'
  BY <1>1, <1>2, <1>3, PortAssumption, Constants
  DEF IInv, Names, OnePolicy, QueueReady, Then, Initialising, Types
<1> QED BY <1>5, <1>6, <1>7, <1>8, Zenon DEF IInv

\* btree_init changes nothing of what the data path has in hand but, if the
\* list in hand is of the tree it empties, that the list is in a tree.
LEMMA InitTreeHand ==
  ASSUME Types, Control, NEW pc \in {"init_admn", "init_proc"}, NEW t \in TreeName, NEW next,
         btree_init(pc, t, next)
  PROVE  /\ c.pc = pc /\ c.q \in Queue /\ Initialising
         /\ Put(c.q, t, {})
         /\ SameHand
<1>1. c.pc = pc /\ c.q \in Queue /\ Initialising
  BY Constants, Zenon DEF btree_init, Control, CallControl, InitPc, Initialising
<1>2. Put(c.q, t, {})
  BY <1>1, PutIn, Zenon DEF btree_init
<1> DEFINE hit == /\ d.pc \in {"unlink", "unlink_twin", "file"}
                  /\ d.q = c.q
                  /\ InHandTree = t
<1>3. d' = [d EXCEPT !.stale = @ \/ hit]
  BY Zenon DEF btree_init
<1>4. (d.stale \/ hit) \in BOOLEAN
  OBVIOUS
<1>5. hit => InHand /\ d.pc \in {"unlink", "unlink_twin", "file"} /\ tree'[d.q][InHandTree] = {}
  BY <1>1, <1>2, Zenon DEF InHand, Put
<1> HIDE DEF hit
<1>6. /\ d' \in DataState
      /\ d'.pc = d.pc /\ d'.q = d.q /\ d'.skb = d.skb /\ d'.entry = d.entry
      /\ d'.tree = d.tree /\ d'.alone = d.alone /\ d'.reg = d.reg
      /\ d'.stale = (d.stale \/ hit)
  BY <1>3, <1>4, Zenon DEF Types, DataState
<1>7. SameHand
  BY <1>1, <1>5, <1>6, Zenon DEF SameHand
<1> QED BY <1>1, <1>2, <1>7, Zenon

\* A step outside the initialisation of a queue that changes no tree and no
\* counter.
LEMMA QuietRaces ==
  ASSUME Types, Types', Control, Control', Races, Track, UNCHANGED <<tree, count, d>>,
         NEW q \in Queue, ~Initialising, ~Initialising',
         c'.pc = "copy_total" /\ c'.q \notin raced => c'.len <= count[c'.q]["total"] + 1,
         c'.pc = "copied" /\ c'.q \notin raced => c'.len <= c'.total + 1
  PROVE  Races'
<1>1. SameHand
  BY SameHandData, Zenon
<1>2. CallKeeps(q)
  BY QuietKeeps, Zenon DEF CallKeeps
<1> QED BY <1>1, <1>2, CallRaces, Zenon DEF Initialising

\* oq_change installs a pointer.
LEMMA InstallStep == ASSUME IInv, install, Track PROVE IInv'
<1>1. /\ c.pc = "pointers" /\ c.policy \in Policy /\ c.i \in 1 .. 6
      /\ ~Initialising /\ Pointers[c.i] \in Pointer
  BY Constants, Zenon
  DEF install, IInv, Control, CallControl, Types, CallState, Initialising, Pointer
<1>2. /\ UNCHANGED <<tree, count, name, d, owned>>
      /\ fn' = [fn EXCEPT ![Pointers[c.i]] = c.policy]
  BY Zenon DEF install
<1>3. \/ c.i = 6 /\ Then("idle", NULL, 0) /\ failed' = FALSE
      \/ /\ c.i # 6 /\ UNCHANGED failed /\ c' \in CallState
         /\ c'.pc = "pointers" /\ c'.policy = c.policy /\ c'.i = c.i + 1
  <2>1. CASE c.i = 6
    BY <2>1, NoCallFields, Constants, Zenon DEF install, Then
  <2>2. CASE c.i # 6
    <3> DEFINE n == c.i + 1
    <3>1. n \in 1 .. 6 /\ c \in CallState
      BY <1>1, <2>2 DEF IInv, Types
    <3>2. c' = [c EXCEPT !.i = n] /\ UNCHANGED failed
      BY <2>2, Constants, Zenon DEF install
    <3>3. c' \in CallState /\ c'.pc = "pointers" /\ c'.policy = c.policy /\ c'.i = n
      <4> HIDE DEF n
      <4> QED BY <1>1, <3>1, <3>2, Zenon DEF CallState
    <3> QED BY <2>2, <3>2, <3>3, Zenon
  <2> QED BY <2>1, <2>2, Zenon
<1>4. SameHand /\ DataControl'
  BY <1>2, SameHandData, Zenon DEF IInv
<1>5. Types' /\ Control'
  <2>1. CallControl'
    BY <1>1, <1>3, Zenon DEF CallControl, Then, InitPc, DumpPc
  <2>2. Types'
    BY <1>1, <1>2, <1>3, <1>4, TrackTyped DEF IInv, Types, Then
  <2> QED BY <1>4, <2>1, <2>2 DEF Control
<1>6. Buffers'
  BY <1>2, <1>4, CallBuffers, SameShrinks, Zenon DEF IInv
<1>7. Races'
  <2>1. c'.pc \in {"idle", "pointers"}
    BY <1>3, Zenon DEF Then
  <2>2. 0 \in Queue
    BY <1>1, Constants, Zenon
  <2> QED BY <1>1, <1>2, <1>5, <2>1, <2>2, QuietRaces DEF IInv, Initialising
<1>8. Names'
  <2>1. /\ \A q \in DOMAIN NameOf[c.policy] : name[q] = NameOf[c.policy][q]
        /\ \A j \in 1 .. 6 : j < c.i => fn[Pointers[j]] = c.policy
    BY <1>1, Zenon DEF IInv, Names
  <2>2. \A f \in Pointer : fn'[f] = IF f = Pointers[c.i] THEN c.policy ELSE fn[f]
    BY <1>2, Zenon DEF IInv, Types
  <2>3. \A f \in Pointer : \A q \in DOMAIN NameOf[fn'[f]] : name'[q] # NULL
    <3>1. \A q \in DOMAIN NameOf[c.policy] : name[q] # NULL
      BY <1>1, <2>1, PortAssumption, Zenon
    <3> QED BY <1>2, <2>2, <3>1 DEF IInv, Names
  <2>4. QueueReady'
    BY <1>2, Zenon DEF IInv, Names, QueueReady
  <2>5. \A j \in 1 .. 6 : j < c.i \/ j = c.i => fn'[Pointers[j]] = c.policy
    <3>1. \A j \in 1 .. 6 : Pointers[j] \in Pointer
      BY Constants, Zenon DEF Pointer
    <3> QED BY <2>1, <2>2, <3>1
  <2>6. CASE c.i = 6 /\ Then("idle", NULL, 0) /\ failed' = FALSE
    <3>1. \A f \in Pointer : fn'[f] = c.policy
      BY <2>5, <2>6, Constants DEF Pointer
    <3>2. OnePolicy'
      BY <1>2, <2>1, <3>1, Zenon DEF OnePolicy
    <3> QED BY <2>3, <2>4, <2>6, <3>2, Zenon DEF Names, Then, Initialising
  <2>7. CASE /\ c.i # 6 /\ UNCHANGED failed
             /\ c'.pc = "pointers" /\ c'.policy = c.policy /\ c'.i = c.i + 1
    <3>1. OnePolicy'
      BY <1>1, <2>7, Constants, Zenon DEF OnePolicy
    <3>2. \A j \in 1 .. 6 : j < c'.i => fn'[Pointers[j]] = c'.policy
      BY <1>1, <2>5, <2>7
    <3> QED BY <1>2, <2>1, <2>3, <2>4, <2>7, <3>1, <3>2, Zenon
            DEF Names, Initialising
  <2> QED BY <1>3, <2>6, <2>7, Zenon
<1> QED BY <1>5, <1>6, <1>7, <1>8 DEF IInv

\* oq_dump copies a counter.
LEMMA DumpStep == ASSUME IInv, oq_dump, Track PROVE IInv'
<1>1. UNCHANGED <<tree, count, name, fn, failed, d, owned>>
  BY Zenon DEF oq_dump
<1>2. 0 \in Queue /\ fn["sched_fn"] \in Policy
  BY Constants, Zenon DEF IInv, Types
<1>3. /\ c.pc \in {"idle"} \cup DumpPc /\ c.policy = NULL
      /\ c' \in CallState /\ c'.pc \in {"idle"} \cup DumpPc /\ c'.policy = NULL
      /\ c'.pc \in DumpPc => c'.q \in Queue
      /\ c'.pc = "copy_total" => c'.q = c.q /\ c'.len = count[c.q]["len"]
      /\ c'.pc = "copied" =>
           c.pc = "copy_total" /\ c'.q = c.q /\ c'.len = c.len /\ c'.total = count[c.q]["total"]
  <2>1. CASE c.pc = "idle" /\ c' = [NoCall EXCEPT !.pc = "copy_len"]
    <3>1. Then("copy_len", NULL, 0)
      BY <2>1, NoCallFields, Zenon DEF Then, CallState, DumpPc
    <3> QED BY <1>2, <2>1, <3>1, Zenon DEF Then, DumpPc, IInv, Control, CallControl
  <2>2. CASE c.pc = "copy_len"
    <3>1. c' = [c EXCEPT !.pc = "copy_total", !.len = count[c.q]["len"]]
      BY <2>2, Zenon DEF oq_dump, copy
    <3>2. c.policy = NULL /\ c.q \in Queue /\ c \in CallState
      BY <2>2, Zenon DEF IInv, Control, CallControl, DumpPc, Types
    <3>3. count[c.q]["len"] \in Int
      BY <3>2, Zenon DEF IInv, Types
    <3> QED BY <2>2, <3>1, <3>2, <3>3, Zenon DEF CallState, DumpPc
  <2>3. CASE c.pc = "copy_total"
    <3>1. c' = [c EXCEPT !.pc = "copied", !.total = count[c.q]["total"]]
      BY <2>3, Zenon DEF oq_dump, copy
    <3>2. c.policy = NULL /\ c.q \in Queue /\ c \in CallState
      BY <2>3, Zenon DEF IInv, Control, CallControl, DumpPc, Types
    <3>3. count[c.q]["total"] \in Int
      BY <3>2, Zenon DEF IInv, Types
    <3> QED BY <2>3, <3>1, <3>2, <3>3, Zenon DEF CallState, DumpPc
  <2>4. CASE c.pc = "copied"
    <3>1. c.policy = NULL
      BY <2>4, Zenon DEF IInv, Control, CallControl, DumpPc
    <3>2. CASE c.q + 1 \in DOMAIN NameOf[fn["sched_fn"]]
      <4> DEFINE n == c.q + 1
      <4>1. n \in Queue /\ n \in Nat
        BY <1>2, <3>2, Constants, Zenon
      <4>2. c' = [NoCall EXCEPT !.pc = "copy_len", !.q = n]
        BY <2>4, <3>2, Zenon DEF oq_dump, copy
      <4> HIDE DEF n
      <4>3. Then("copy_len", NULL, n)
        BY <4>1, <4>2, NoCallFields, Zenon DEF Then, CallState, DumpPc
      <4> QED BY <2>4, <3>1, <4>1, <4>3 DEF Then, DumpPc
    <3>3. CASE c.q + 1 \notin DOMAIN NameOf[fn["sched_fn"]]
      <4>1. c' = NoCall
        BY <2>4, <3>3, Zenon DEF oq_dump, copy
      <4> QED BY <2>4, <3>1, <4>1, NoCallFields, Zenon DEF DumpPc
    <3> QED BY <3>2, <3>3, Zenon
  <2> QED BY <2>1, <2>2, <2>3, <2>4, Zenon DEF oq_dump, copy
<1>4. SameHand /\ DataControl'
  BY <1>1, SameHandData DEF IInv
<1>5. Types' /\ Control'
  <2>1. CallControl'
    BY <1>3, Zenon DEF CallControl, InitPc, DumpPc
  <2>2. Types'
    BY <1>1, <1>3, <1>4, TrackTyped DEF IInv, Types
  <2> QED BY <1>4, <2>1, <2>2 DEF Control
<1>6. Buffers'
  BY <1>1, <1>4, CallBuffers, SameShrinks, Zenon DEF IInv
<1>7. Races'
  <2>1. ~Initialising /\ ~Initialising'
    BY <1>3, Zenon DEF Initialising, DumpPc
  <2>2. ASSUME c'.pc = "copy_total", c'.q \notin raced
        PROVE  c'.len <= count[c'.q]["total"] + 1
    <3>1. PICK q \in Queue : c'.q = q
      BY <1>3, <2>2, Zenon DEF DumpPc
    <3>2. Local(q)
      BY <2>1, <2>2, <3>1 DEF IInv, Races, Clean, Changing
    <3> QED BY <1>3, <2>2, <3>1, <3>2, LocalOrdered DEF IInv, Length, Total
  <2>3. ASSUME c'.pc = "copied", c'.q \notin raced
        PROVE  c'.len <= c'.total + 1
    BY <1>3, <2>3, Zenon DEF IInv, Races, Total
  <2> QED BY <1>1, <1>2, <1>5, <2>1, <2>2, <2>3, QuietRaces DEF IInv
<1>8. Names'
  BY <1>1, <1>3, Zenon DEF IInv, Names, OnePolicy, QueueReady, Initialising, DumpPc
<1> QED BY <1>5, <1>6, <1>7, <1>8 DEF IInv

=============================================================================
