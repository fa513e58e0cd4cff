-------------------------- MODULE PortChangeProofs --------------------------
(***************************************************************************)
(* Proofs that oq_change and oq_dump may run beside the data path, for     *)
(* every set of packets, policies, names and keys: buffers are never used  *)
(* after they are freed, a race damages no queue but the one initialised,  *)
(* and names and pointers are complete when the data path uses them.       *)
(***************************************************************************)
EXTENDS PortChangeLemmas, FiniteSetTheorems

\* Finite sets have the sizes the lemmas use.
LEMMA SizesHold == Sizes
<1> SUFFICES ASSUME NEW S, IsFiniteSet(S)
             PROVE  /\ Cardinality(S) \in Nat
                    /\ \A T \in SUBSET S : IsFiniteSet(T)
                    /\ \A e : /\ IsFiniteSet(S \cup {e})
                              /\ Cardinality(S \cup {e}) <= Cardinality(S) + 1
                              /\ Cardinality(S \ {e}) \in Nat
                              /\ Cardinality(S \ {e}) <= Cardinality(S)
                              /\ e \in S => Cardinality(S \ {e}) + 1 <= Cardinality(S)
  BY Zenon DEF Sizes
<1>1. Cardinality(S) \in Nat /\ \A T \in SUBSET S : IsFiniteSet(T)
  BY FS_CardinalityType, FS_Subset, Zenon
<1>2. ASSUME NEW e
      PROVE  /\ IsFiniteSet(S \cup {e})
             /\ Cardinality(S \cup {e}) <= Cardinality(S) + 1
             /\ Cardinality(S \ {e}) \in Nat
             /\ Cardinality(S \ {e}) <= Cardinality(S)
             /\ e \in S => Cardinality(S \ {e}) + 1 <= Cardinality(S)
  <2> DEFINE n == Cardinality(S)
             more == Cardinality(S \cup {e})
             less == Cardinality(S \ {e})
  <2>1. IsFiniteSet(S \cup {e}) /\ more = IF e \in S THEN n ELSE n + 1
    BY FS_AddElement, Zenon
  <2>2. IsFiniteSet(S \ {e}) /\ less = IF e \in S THEN n - 1 ELSE n
    BY FS_RemoveElement, Zenon
  <2>3. n \in Nat /\ less \in Nat
    BY <2>2, FS_CardinalityType, Zenon
  <2> HIDE DEF n, more, less
  <2>4. more <= n + 1 /\ less <= n /\ (e \in S => less + 1 <= n)
    BY <2>1, <2>2, <2>3
  <2> QED BY <2>1, <2>3, <2>4, Zenon DEF n, more, less
<1> QED BY <1>1, <1>2, Zenon

\* The queue that change has just initialised, with no packet in hand.
LEMMA EmptySettled ==
  ASSUME Types, Races, Initialising, ~touched, c.pc = "queue_name", NEW q \in Queue, c.q = q
  PROVE  Settled(q)
<1>1. tree[q]["admn"] = {} /\ tree[q]["proc"] = {} /\ Length(q) = 0 /\ Total(q) = 0
  BY Zenon DEF Races
<1>2. Size(q) = 0
  BY <1>1, FS_EmptySet, Zenon DEF Size
<1> QED BY <1>1, <1>2 DEF Settled

\* btree_init empties a tree.
LEMMA InitTreeStep ==
  ASSUME IInv, NEW pc \in {"init_admn", "init_proc"}, NEW t, NEW next, Track,
         btree_init(pc, t, next),
         \/ pc = "init_admn" /\ t = "admn" /\ next = "init_proc"
         \/ pc = "init_proc" /\ t = "proc" /\ next = "len"
  PROVE  IInv'
<1>0. t \in TreeName
  BY Zenon DEF TreeName
<1>1. /\ c.pc = pc /\ c.q \in Queue /\ Initialising
      /\ Put(c.q, t, {})
      /\ SameHand
  BY <1>0, InitTreeHand, Zenon DEF IInv
<1>2. UNCHANGED <<count, name, fn, owned>>
  BY Zenon DEF btree_init
<1>3. \/ Then(next, c.policy, c.q) /\ UNCHANGED failed
      \/ c' = NoCall /\ Then("idle", NULL, 0) /\ failed'
  <2>1. ASSUME c' = [c EXCEPT !.pc = next] PROVE Then(next, c.policy, c.q)
    BY <1>1, <2>1, Zenon
    DEF Then, IInv, Types, CallState, InitPc, Control, CallControl
  <2> QED BY <2>1, NoCallFields, Zenon DEF btree_init, Then
<1>4. DataControl'
  BY <1>1, SameHandControl, Zenon DEF IInv
<1>5. Types' /\ Control'
  <2>1. c.policy \in Policy /\ c.q \in DOMAIN NameOf[c.policy]
    BY <1>1, Zenon DEF IInv, Control, CallControl, InitPc
  <2>2. CallControl'
    BY <1>3, <2>1, Zenon DEF CallControl, Then, InitPc, DumpPc
  <2>3. Types'
    BY <1>1, <1>2, <1>3, TrackTyped, Zenon DEF IInv, Types, Put, Then, SameHand
  <2> QED BY <1>4, <2>2, <2>3, Zenon DEF Control
<1>6. Shrunk
  BY <1>0, <1>1, PutShrinks, Zenon
<1>7. Buffers'
  BY <1>1, <1>2, <1>6, CallBuffers, Zenon DEF IInv
<1>8. Races'
  <2>1. PICK q \in Queue : c.q = q
    BY <1>1, Zenon
  <2>2. \A r \in Queue \ {q} : Apart(r)
    BY <1>1, <1>2, <2>1, Zenon DEF Apart, Put
  <2>3. /\ tree'[q][t] = {}
        /\ \A u \in TreeName : u # t => tree'[q][u] = tree[q][u]
    BY <1>0, <1>1, <2>1, Zenon DEF Put
  <2>4. ~touched /\ pc = "init_proc" => tree[q]["admn"] = {}
    BY <1>1, <2>1, Zenon DEF IInv, Races
  <2>5. \A r \in Queue, u \in TreeName : IsFiniteSet(tree'[r][u])
    BY <1>1, FS_EmptySet, Zenon DEF Put, IInv, Races
  <2>6. ASSUME ~touched, Settled(q) PROVE Settled(q)'
    <3>1. Size(q) \in Nat /\ Length(q) \in Int /\ Length(q)' = Length(q) /\ Total(q)' = Total(q)
      BY <1>2, SizesHold, SizeNat
      DEF Size, Length, Total, IInv, Types, Races, TreeName
    <3>2. CASE t = "admn"
      BY <2>3, <2>6, <3>1, <3>2, Zenon DEF Settled, Size, TreeName
    <3>3. CASE t = "proc"
      <4>1. Size(q)' = 0
        BY <2>3, <3>3, FS_EmptySet, Zenon DEF Size
      <4>2. tree'[q]["admn"] = {}
        BY <2>3, <2>4, <2>6, <3>3, Zenon DEF TreeName
      <4> QED BY <2>6, <3>1, <4>1, <4>2 DEF Settled
    <3> QED BY <3>2, <3>3, Zenon
  <2>7. ASSUME Initialising', ~touched'
        PROVE  /\ c'.pc # "init_admn" => tree'[c'.q]["admn"] = {}
               /\ c'.pc \notin {"init_admn", "init_proc"} => tree'[c'.q]["proc"] = {}
               /\ c'.pc \notin {"total", "queue_name"}
    <3>1. Then(next, c.policy, c.q)
      BY <1>3, <2>7, Zenon DEF Then, Initialising
    <3>2. ~touched
      BY <2>7, <3>1, Zenon DEF Track, Then
    <3> QED BY <2>1, <2>3, <2>4, <3>1, <3>2, Zenon DEF Then, TreeName
  <2>8. \A r \in Queue : count'[r]["total"] >= 0
    BY <1>2, Zenon DEF IInv, Races, Total
  <2>9. c'.pc \notin {"copy_total", "copied"}
    BY <1>3, Zenon DEF Then
  <2>10. CallKeeps(q)
    BY <1>1, <2>2, <2>5, <2>6, <2>7, <2>8, <2>9 DEF CallKeeps
  <2> QED BY <1>1, <1>5, <2>1, <2>9, <2>10, CallRaces DEF IInv
<1>9. Names'
  <2>1. QueueReady'
    BY <1>1, <1>2, Zenon DEF IInv, Names, QueueReady, SameHand
  <2>2. CASE Then(next, c.policy, c.q) /\ UNCHANGED failed
    <3>1. c'.policy # NULL /\ c'.pc # "pointers"
      BY <1>1, <2>2, Constants, Zenon DEF Then, IInv, Control, CallControl, InitPc
    <3> QED BY <1>1, <1>2, <2>1, <2>2, <3>1, Zenon DEF IInv, Names, OnePolicy, Then
  <2>3. CASE c' = NoCall /\ Then("idle", NULL, 0) /\ failed'
    BY <1>2, <2>1, <2>3, Zenon DEF IInv, Names, OnePolicy, Then, Initialising
  <2> QED BY <1>3, <2>2, <2>3, Zenon
<1> QED BY <1>5, <1>7, <1>8, <1>9, Zenon DEF IInv

\* len and total are set to 0.
LEMMA ResetStep ==
  ASSUME IInv, NEW pc, NEW f, NEW next, Track, reset_count(pc, f, next),
         \/ pc = "len" /\ f = "len" /\ next = "total"
         \/ pc = "total" /\ f = "total" /\ next = "queue_name"
  PROVE  IInv'
<1>1. /\ c.pc = pc /\ c.q \in Queue /\ Initialising
      /\ c.policy \in Policy /\ c.q \in DOMAIN NameOf[c.policy]
  BY Constants, Zenon
  DEF reset_count, IInv, Control, CallControl, InitPc, Initialising
<1>2. Store(c.q, f, 0)
  <2>1. f \in {"len", "total"} /\ 0 \in Int
    OBVIOUS
  <2> QED BY <1>1, <2>1, StoreIn, Zenon DEF reset_count, IInv
<1>3. UNCHANGED <<tree, name, fn, failed, d, owned>>
  BY Zenon DEF reset_count
<1>4. Then(next, c.policy, c.q)
  BY Zenon
  DEF reset_count, Then, IInv, Types, CallState, InitPc, Control, CallControl
<1>5. SameHand /\ DataControl'
  BY <1>3, SameHandData, Zenon DEF IInv
<1>6. Types' /\ Control'
  <2>1. CallControl'
    BY <1>1, <1>4, Zenon DEF CallControl, Then, InitPc, DumpPc
  <2>2. Types'
    BY <1>2, <1>3, <1>4, <1>5, TrackTyped DEF IInv, Types, Store, Then, SameHand
  <2> QED BY <1>5, <2>1, <2>2, Zenon DEF Control
<1>7. Buffers'
  BY <1>3, <1>5, CallBuffers, SameShrinks, Zenon DEF IInv
<1>8. Races'
  <2>1. PICK q \in Queue : c.q = q
    BY <1>1, Zenon
  <2>2. \A r \in Queue \ {q} : Apart(r)
    BY <1>2, <1>3, <2>1, Zenon DEF Apart, Store
  <2>3. /\ f = "len" => Length(q)' = 0 /\ Total(q)' = Total(q)
        /\ f = "total" => Length(q)' = Length(q) /\ Total(q)' = 0
    BY <1>2, <2>1, Zenon DEF Store, Length, Total
  <2>4. ~touched => /\ tree[q]["admn"] = {} /\ tree[q]["proc"] = {}
                    /\ pc = "total" => Length(q) = 0
    BY <1>1, <2>1, Zenon DEF IInv, Races
  <2>5. \A r \in Queue, u \in TreeName : IsFiniteSet(tree'[r][u])
    BY <1>3, Zenon DEF IInv, Races
  <2>6. \A r \in Queue : count'[r]["total"] >= 0
    BY <1>2 DEF IInv, Races, Total, Store
  <2>7. ASSUME ~touched PROVE Settled(q)'
    <3>1. Size(q)' = 0
      BY <1>3, <2>4, <2>7, FS_EmptySet, Zenon DEF Size
    <3>2. Total(q) >= 0
      BY Zenon DEF IInv, Races
    <3> QED BY <1>3, <2>3, <2>4, <2>7, <3>1, <3>2 DEF Settled
  <2>8. ASSUME ~touched'
        PROVE  /\ tree'[c'.q]["admn"] = {}
               /\ tree'[c'.q]["proc"] = {}
               /\ count'[c'.q]["len"] = 0
               /\ c'.pc = "queue_name" => count'[c'.q]["total"] = 0
    <3>1. ~touched
      BY <1>4, <2>8, Zenon DEF Track, Then, Initialising
    <3> QED BY <1>3, <1>4, <2>1, <2>3, <2>4, <3>1, Zenon DEF Then, Length, Total
  <2>9. c'.pc \notin {"copy_total", "copied"}
    BY <1>4, Zenon DEF Then
  <2>10. CallKeeps(q)
    BY <1>1, <2>2, <2>5, <2>6, <2>7, <2>8, <2>9 DEF CallKeeps
  <2> QED BY <1>1, <1>5, <1>6, <2>1, <2>9, <2>10, CallRaces DEF IInv
<1>9. Names'
  <2>1. c'.policy # NULL /\ c'.pc # "pointers"
    BY <1>1, <1>4, Constants, Zenon DEF Then
  <2> QED BY <1>1, <1>3, <1>4, <2>1, Zenon
          DEF IInv, Names, OnePolicy, QueueReady, Then
<1> QED BY <1>6, <1>7, <1>8, <1>9, Zenon DEF IInv

\* The queue gets its name.
LEMMA QueueNameStep == ASSUME IInv, queue_name, Track PROVE IInv'
<1>1. /\ c.pc = "queue_name" /\ c.q \in Queue /\ Initialising
      /\ c.policy \in Policy /\ c.q \in DOMAIN NameOf[c.policy]
  BY Constants, Zenon
  DEF queue_name, IInv, Control, CallControl, InitPc, Initialising
<1>2. /\ UNCHANGED <<tree, count, fn, failed, d, owned>>
      /\ name' = [name EXCEPT ![c.q] = NameOf[c.policy][c.q]]
  BY Zenon DEF queue_name
<1>3. \/ Then("init_admn", c.policy, c.q + 1) /\ c.q + 1 \in DOMAIN NameOf[c.policy]
      \/ /\ Then("pointers", c.policy, c.q)
         /\ c.q + 1 \notin DOMAIN NameOf[c.policy]
  <2> DEFINE n == c.q + 1
  <2>1. n \in Nat /\ c \in CallState /\ c.i = 1
    BY <1>1 DEF IInv, Types, CallState, Control, CallControl, InitPc
  <2>2. ASSUME c' = [c EXCEPT !.pc = "init_admn", !.q = n]
        PROVE  Then("init_admn", c.policy, n)
    <3> HIDE DEF n
    <3> QED BY <2>1, <2>2, Zenon DEF Then, CallState, InitPc
  <2>3. ASSUME c' = [c EXCEPT !.pc = "pointers"]
        PROVE  Then("pointers", c.policy, c.q)
    BY <2>1, <2>3, Zenon DEF Then, CallState
  <2> QED BY <2>2, <2>3, Zenon DEF queue_name
<1>4. SameHand /\ DataControl'
  BY <1>2, SameHandData, Zenon DEF IInv
<1>5. Types' /\ Control'
  <2>1. CallControl'
    BY <1>1, <1>3, Zenon DEF CallControl, Then, InitPc, DumpPc
  <2>2. Types'
    BY <1>2, <1>3, <1>4, TrackTyped, Zenon DEF IInv, Types, Then
  <2> QED BY <1>4, <2>1, <2>2, Zenon DEF Control
<1>6. Buffers'
  BY <1>2, <1>4, CallBuffers, SameShrinks, Zenon DEF IInv
<1>7. Races'
  <2>1. PICK q \in Queue : c.q = q
    BY <1>1, Zenon
  <2>2. c'.pc \in {"init_admn", "pointers"} /\ c' # c
    BY <1>1, <1>3, Zenon DEF Then
  <2>3. ~touched => Settled(q)
    BY <1>1, <2>1, EmptySettled, Zenon DEF IInv
  <2>4. CallKeeps(q)
    BY <1>1, <1>2, <2>2, <2>3, QuietKeeps DEF CallKeeps, IInv, Initialising
  <2> QED BY <1>1, <1>4, <1>5, <2>1, <2>2, <2>4, CallRaces DEF IInv
<1>8. Names'
  <2>1. NameOf[c.policy][c.q] # NULL
    BY <1>1, PortAssumption, Zenon
  <2>2. /\ \A r \in Queue : name'[r] = IF r = c.q THEN NameOf[c.policy][c.q] ELSE name[r]
    BY <1>2, Zenon DEF IInv, Types
  <2>3. \A f \in Pointer : \A q \in DOMAIN NameOf[fn[f]] : name'[q] # NULL
    <3>1. \A f \in Pointer : DOMAIN NameOf[fn[f]] \subseteq Queue
      BY Constants, Zenon DEF IInv, Types
    <3> QED BY <2>1, <2>2, <3>1, Zenon DEF IInv, Names
  <2>4. QueueReady'
    BY <1>2, <2>1, <2>2, Zenon DEF IInv, Names, QueueReady, Control, DataControl
  <2>5. \A q \in DOMAIN NameOf[c.policy] :
          q < c.q \/ q = c.q => name'[q] = NameOf[c.policy][q]
    <3>1. DOMAIN NameOf[c.policy] \subseteq Queue
      BY <1>1, Constants, Zenon
    <3> QED BY <1>1, <2>2, <3>1, Zenon DEF IInv, Names
  <2>6. \A q \in DOMAIN NameOf[c.policy] : q \in Nat
    BY <1>1, PortAssumption, Zenon
  <2>7. c'.policy # NULL
    BY <1>1, <1>3, Constants, Zenon DEF Then
  <2>8. CASE Then("init_admn", c.policy, c.q + 1)
    <3>1. \A q \in DOMAIN NameOf[c'.policy] : q < c'.q => name'[q] = NameOf[c'.policy][q]
      BY <1>1, <2>5, <2>6, <2>8 DEF Then
    <3> QED BY <1>2, <2>3, <2>4, <2>7, <2>8, <3>1 DEF Names, OnePolicy, Then
  <2>9. CASE /\ Then("pointers", c.policy, c.q)
             /\ c.q + 1 \notin DOMAIN NameOf[c.policy]
    <3>1. \A q \in DOMAIN NameOf[c.policy] : q <= c.q
      <4> SUFFICES ASSUME NEW q \in DOMAIN NameOf[c.policy], q > c.q PROVE FALSE
        BY <1>1, <2>6
      <4>1. 0 .. q \subseteq DOMAIN NameOf[c.policy] /\ c.q + 1 \in 0 .. q
        BY <1>1, <2>6, PortAssumption
      <4> QED BY <2>9, <4>1, Zenon
    <3>2. \A q \in DOMAIN NameOf[c'.policy] : name'[q] = NameOf[c'.policy][q]
      BY <1>1, <2>5, <2>6, <2>9, <3>1 DEF Then
    <3>3. \A j \in 1 .. 6 : j < c'.i => fn'[Pointers[j]] = c'.policy
      BY <2>9 DEF Then
    <3> QED BY <2>3, <2>4, <2>7, <2>9, <3>2, <3>3, <1>2, Zenon
            DEF Names, OnePolicy, Then, Initialising
  <2> QED BY <1>3, <2>8, <2>9, Zenon
<1> QED BY <1>5, <1>6, <1>7, <1>8, Zenon DEF IInv

-----------------------------------------------------------------------------
(* Theorems *)

\* The port starts in the invariant.
LEMMA InitIInv == Init => IInv
<1> SUFFICES ASSUME Init PROVE IInv
  OBVIOUS
<1>1. PICK p \in Policy :
        /\ tree = [q \in Queue |-> [t \in {"admn", "proc"} |-> {}]]
        /\ count = [q \in Queue |-> [f \in {"len", "total"} |-> 0]]
        /\ name = [q \in Queue |-> IF q \in DOMAIN NameOf[p] THEN NameOf[p][q] ELSE NULL]
        /\ fn = [f \in Pointer |-> p]
        /\ d = AtRest
        /\ c = NoCall
        /\ owned = {}
        /\ touched = FALSE
        /\ raced = {}
  BY Zenon DEF Init
<1>2. /\ d.pc = "idle" /\ ~d.stale /\ d \in DataState
      /\ c.pc = "idle" /\ c.policy = NULL /\ c \in CallState
  BY <1>1, AtRestFields, NoCallFields, Zenon
<1>3. /\ \A q \in Queue, t \in TreeName : tree[q][t] = {}
      /\ tree \in [Queue -> [TreeName -> SUBSET Entry]]
      /\ \A q \in Queue : Length(q) = 0 /\ Total(q) = 0
      /\ count \in [Queue -> [{"len", "total"} -> Int]]
  BY <1>1 DEF TreeName, Length, Total
<1>4. Types
  BY <1>1, <1>2, <1>3, Zenon DEF Types
<1>5. Control
  BY <1>2, Zenon
  DEF Control, DataControl, CallControl, HasEntry, Enqueuing, Removing, Counting,
      InitPc, DumpPc
<1>6. Buffers
  BY <1>2, <1>3, Zenon DEF Buffers, Held, Unique, Hand, HasEntry, Removing, Counting
<1>7. Races
  <2>1. \A q \in Queue : Size(q) = 0
    BY <1>3, FS_EmptySet, Zenon DEF Size, TreeName
  <2>2. \A q \in Queue : Local(q)
    BY <1>2, <1>3, <2>1 DEF Local, Using, Settled, TreeName
  <2> QED BY <1>1, <1>2, <1>3, <2>2, FS_EmptySet
          DEF Races, Initialising, DumpOrdered
<1>8. Names
  <2>1. DOMAIN NameOf[p] \subseteq Queue
    BY Constants, Zenon
  <2> QED BY <1>1, <1>2, <2>1, PortAssumption, Zenon
          DEF Names, OnePolicy, QueueReady, Initialising
<1> QED BY <1>4, <1>5, <1>6, <1>7, <1>8 DEF IInv

\* Every step keeps it.
LEMMA NextIInv == IInv /\ [Next]_vars => IInv'
<1> SUFFICES ASSUME IInv, [Next]_vars PROVE IInv'
  OBVIOUS
<1>1. CASE UNCHANGED vars
  <2>1. UNCHANGED <<tree, count, name, fn, d, c, failed, owned, touched, raced>>
    BY <1>1, Zenon DEF vars
  <2>2. SameHand /\ DataControl'
    BY <2>1, SameHandData, Zenon DEF IInv
  <2>3. Types' /\ Control'
    BY <2>1, <2>2, Zenon DEF IInv, Types, Control, CallControl
  <2>4. Buffers'
    BY <2>1, <2>2, CallBuffers, SameShrinks DEF IInv
  <2>5. Races'
    <3>1. ASSUME NEW q \in Queue, Clean(q)' PROVE Local(q)'
      <4>1. Apart(q) /\ Clean(q)
        BY <2>1, <3>1, Zenon DEF Apart, Clean, Changing, Initialising
      <4> QED BY <2>1, <2>2, <4>1, ApartLocal DEF IInv, Races
    <3> QED BY <2>1, <3>1
            DEF IInv, Races, Initialising, InHand, Length, Total, DumpOrdered
  <2>6. Names'
    BY <2>1 DEF IInv, Names, OnePolicy, QueueReady, Initialising
  <2> QED BY <2>3, <2>4, <2>5, <2>6, Zenon DEF IInv
<1>2. CASE Next
  <2>1. Track
    BY <1>2, Zenon DEF Next
  <2>2. CASE (Insertion \/ Removal) /\ UNCHANGED Shared
    BY <2>1, <2>2, SizesHold, DataStep, Zenon DEF Data
  <2>3. CASE Reconfigure
    BY <2>1, <2>3, ChangeStep, InitTreeStep, ResetStep, QueueNameStep, InstallStep
    DEF Reconfigure
  <2>4. CASE oq_dump
    BY <2>1, <2>4, DumpStep, Zenon
  <2> QED BY <1>2, <2>2, <2>3, <2>4, Zenon DEF Next
<1> QED BY <1>1, <1>2, Zenon

\* The invariant holds in every state: whatever the interleaving of packets,
\* configuration changes and dumps.
THEOREM Inductive == Spec => []IInv
BY InitIInv, NextIInv, PTL DEF Spec

\* No tree, and no container in hand, refers to a buffer that was freed or
\* handed back to the kernel, however oq_change interleaves with the data path.
THEOREM ChangeNoStaleSkb == Spec => []NoStaleSkb
<1>1. IInv => NoStaleSkb
  <2> SUFFICES ASSUME IInv PROVE NoStaleSkb
    OBVIOUS
  <2>1. d.pc \in {"unlink_twin", "load_len", "store_len"} /\ d.skb = NULL => HasEntry
    BY Zenon DEF HasEntry, Counting
  <2> QED BY <2>1, Zenon DEF IInv, Buffers, Held, Hand, NoStaleSkb, TreeName
<1> QED BY <1>1, Inductive, PTL

\* Between packets a queue that no initialisation raced has in its processing
\* tree what is in its admission tree, and its len covers it; an initialisation
\* that met no packet ends what an earlier race left.
THEOREM ChangeRepairs == Spec => []Repaired
<1>1. IInv => Repaired
  <2> SUFFICES ASSUME IInv, NEW q \in Queue \ raced, ~Using(q), ~Changing(q)
               PROVE  /\ tree[q]["admn"] \subseteq tree[q]["proc"]
                      /\ Cardinality(tree[q]["proc"]) <= count[q]["len"]
    BY Zenon DEF Repaired
  <2>1. Settled(q)
    BY Zenon DEF IInv, Races, Clean, Local
  <2> QED BY <2>1, Zenon DEF Settled, Size, Length
<1> QED BY <1>1, Inductive, PTL

\* The len that oq_dump copies from a queue no change raced exceeds the total
\* it copies a moment later by at most the packet whose total++ is to come.
THEOREM DumpInOrder == Spec => []DumpOrdered
<1>1. IInv => DumpOrdered
  BY Zenon DEF IInv, Races
<1> QED BY <1>1, Inductive, PTL

\* The data path works on no queue that was never initialised, also while
\* oq_change replaces the functions of the port one by one.
THEOREM QueuesReady == Spec => []QueueReady
<1>1. IInv => QueueReady
  BY Zenon DEF IInv, Names
<1> QED BY <1>1, Inductive, PTL

\* Once a change has succeeded, the six functions of the port are of one
\* policy and its queues have the names that policy knows.
THEOREM PolicyWhole == Spec => []OnePolicy
<1>1. IInv => OnePolicy
  BY Zenon DEF IInv, Names
<1> QED BY <1>1, Inductive, PTL

=============================================================================
