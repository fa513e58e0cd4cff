------------------------- MODULE OpenQueueRefinement ------------------------
(***************************************************************************)
(* Proof that a port whose reconfigurations find the memory they need does *)
(* what module DualQueue promises.                                         *)
(***************************************************************************)
EXTENDS OpenQueueProofs

\* The entry of packet p under admission key k and processing key o.
EntryOf(p, k, o, number) ==
  [skb |-> p, admn |-> k, proc |-> o, at |-> number[p]]

\* The abstract entries of a tree are its containers.
LEMMA EntriesHold ==
  ASSUME NEW T, NEW f
  PROVE  \A e : e \in Entries(T, f) <=>
                \E p \in Skb, k, o \in Key : Holds(T, p, k, o) /\ e = EntryOf(p, k, o, f)
<1> SUFFICES ASSUME NEW e
             PROVE  e \in Entries(T, f) <=>
                      \E p \in Skb, k, o \in Key :
                         Holds(T, p, k, o) /\ e = EntryOf(p, k, o, f)
  OBVIOUS
<1>1. ASSUME e \in Entries(T, f)
      PROVE  \E p \in Skb, k, o \in Key : Holds(T, p, k, o) /\ e = EntryOf(p, k, o, f)
  <2>1. PICK t \in Skb \X Key \X Key :
          /\ Holds(T, t[1], t[2], t[3])
          /\ e = [skb |-> t[1], admn |-> t[2], proc |-> t[3], at |-> f[t[1]]]
    BY <1>1, Zenon DEF Entries
  <2>2. t[1] \in Skb /\ t[2] \in Key /\ t[3] \in Key
    OBVIOUS
  <2> QED BY <2>1, <2>2, Zenon DEF EntryOf
<1>2. ASSUME NEW p \in Skb, NEW k \in Key, NEW o \in Key,
             Holds(T, p, k, o), e = EntryOf(p, k, o, f)
      PROVE  e \in Entries(T, f)
  <2> DEFINE t == <<p, k, o>>
  <2>1. t \in Skb \X Key \X Key /\ t[1] = p /\ t[2] = k /\ t[3] = o
    OBVIOUS
  <2> HIDE DEF t
  <2>2. e = [skb |-> t[1], admn |-> t[2], proc |-> t[3], at |-> f[t[1]]]
    BY <1>2, <2>1, Zenon DEF EntryOf
  <2>3. Holds(T, t[1], t[2], t[3])
    BY <1>2, <2>1
  <2> QED BY <2>1, <2>2, <2>3, Zenon DEF Entries
<1> QED BY <1>1, <1>2, Zenon

\* A packet with a container in a tree is one of its packets.
LEMMA HoldsStored ==
  ASSUME NEW T \in Tree, NEW p \in Skb, NEW k \in Key, NEW o \in Key,
         Holds(T, p, k, o)
  PROVE  p \in Stored(T)
BY StoredHolds, Zenon

\* Renumbering packets that are not in the tree changes no entry.
LEMMA EntriesSame ==
  ASSUME NEW T \in Tree, NEW f, NEW g, \A p \in Stored(T) : g[p] = f[p]
  PROVE  Entries(T, g) = Entries(T, f)
<1>1. ASSUME NEW p \in Skb, NEW k \in Key, NEW o \in Key, Holds(T, p, k, o)
      PROVE  EntryOf(p, k, o, g) = EntryOf(p, k, o, f)
  BY <1>1, HoldsStored, Zenon DEF EntryOf
<1>2. \A e : e \in Entries(T, g) <=> e \in Entries(T, f)
  BY <1>1, EntriesHold
<1> QED BY <1>2, Zenon

\* The abstract entries after do_enqueue: one more.
LEMMA EntriesAdded ==
  ASSUME NEW T \in Tree, NEW T1, NEW f, NEW g, \A x \in Stored(T) : g[x] = f[x],
         NEW p \in Skb, NEW a \in Key, NEW b \in Key, Added(T, T1, p, a, b)
  PROVE  Entries(T1, g) = Entries(T, f) \cup {EntryOf(p, a, b, g)}
<1>1. \A x \in Skb, k, o \in Key :
        Holds(T1, x, k, o) <=> Holds(T, x, k, o) \/ (x = p /\ k = a /\ o = b)
  BY Zenon DEF Added
<1>2. Entries(T, g) = Entries(T, f)
  BY EntriesSame, Zenon
<1>3. \A e : e \in Entries(T1, g) <=> e \in Entries(T, g) \/ e = EntryOf(p, a, b, g)
  BY <1>1, EntriesHold
<1> QED BY <1>2, <1>3, Zenon

\* The abstract entries after a container and its twin are unlinked: one fewer.
LEMMA EntriesRemoved ==
  ASSUME NEW T \in Tree, Once(T), NEW T1, NEW f, NEW v \in Skb,
         NEW a \in Key, NEW b \in Key, Holds(T, v, a, b), Removed(T, T1, v)
  PROVE  Entries(T1, f) = Entries(T, f) \ {EntryOf(v, a, b, f)}
<1>1. \A x \in Skb, k, o \in Key :
        Holds(T1, x, k, o) <=> Holds(T, x, k, o) /\ x # v
  BY Zenon DEF Removed
<1>2. ASSUME NEW x \in Skb, NEW k \in Key, NEW o \in Key, Holds(T, x, k, o)
      PROVE  x # v <=> EntryOf(x, k, o, f) # EntryOf(v, a, b, f)
  <2>1. x = v => k = a /\ o = b
    BY <1>2, HoldsUnique
  <2>2. EntryOf(x, k, o, f).skb = x /\ EntryOf(v, a, b, f).skb = v
    BY Zenon DEF EntryOf
  <2> QED BY <2>1, <2>2, Zenon
<1>3. \A e : e \in Entries(T1, f) <=>
              e \in Entries(T, f) /\ e # EntryOf(v, a, b, f)
  <2> SUFFICES ASSUME NEW e
               PROVE  e \in Entries(T1, f) <=>
                        e \in Entries(T, f) /\ e # EntryOf(v, a, b, f)
    OBVIOUS
  <2>1. ASSUME e \in Entries(T1, f)
        PROVE  e \in Entries(T, f) /\ e # EntryOf(v, a, b, f)
    <3>1. PICK p \in Skb, k \in Key, o \in Key :
            Holds(T1, p, k, o) /\ e = EntryOf(p, k, o, f)
      BY <2>1, EntriesHold
    <3>2. Holds(T, p, k, o) /\ p # v
      BY <1>1, <3>1, Zenon
    <3> QED BY <1>2, <3>1, <3>2, EntriesHold, Zenon
  <2>2. ASSUME e \in Entries(T, f), e # EntryOf(v, a, b, f)
        PROVE  e \in Entries(T1, f)
    <3>1. PICK p \in Skb, k \in Key, o \in Key :
            Holds(T, p, k, o) /\ e = EntryOf(p, k, o, f)
      BY <2>2, EntriesHold
    <3>2. p # v
      BY <1>2, <2>2, <3>1, Zenon
    <3>3. Holds(T1, p, k, o)
      BY <1>1, <3>1, <3>2, Zenon
    <3> QED BY <3>1, <3>3, EntriesHold, Zenon
  <2> QED BY <2>1, <2>2, Zenon
<1> QED BY <1>3, Zenon

\* A tree fresh from btree_init has no entries.
LEMMA EntriesEmpty == \A f : Entries(EmptyTree, f) = {}
<1> TAKE f
<1>1. \A p \in Skb, k, o \in Key : ~Holds(EmptyTree, p, k, o)
  BY EmptyTreeFacts, HoldsStored, Zenon
<1> QED BY <1>1, EntriesHold, Zenon

\* The refinement mapping.
Held == [q \in Queue |-> Entries(queues[q].admn, at)]
Arrivals == [q \in Queue |-> queues[q].total]

\* A step that replaces one queue and numbers no packet of another one is a
\* step of that queue alone.
LEMMA OneQueueHeld ==
  ASSUME RInv, NEW q \in Queue, NEW Q1,
         queues' = [queues EXCEPT ![q] = Q1],
         \A r \in Queue \ {q} : \A p \in Stored(queues[r].proc) : at'[p] = at[p]
  PROVE  /\ Held' = [Held EXCEPT ![q] = Entries(Q1.admn, at')]
         /\ Arrivals' = [Arrivals EXCEPT ![q] = Q1.total]
<1>1. \A r \in Queue : queues'[r] = IF r = q THEN Q1 ELSE queues[r]
  BY Zenon DEF RInv, IInv, TypeOK
<1>2. ASSUME NEW r \in Queue, r # q
      PROVE  Entries(queues[r].admn, at') = Entries(queues[r].admn, at)
  <2>1. /\ queues[r].admn \in Tree
        /\ Stored(queues[r].admn) = Stored(queues[r].proc)
    BY RInvQueue, Zenon
  <2>2. \A p \in Stored(queues[r].admn) : at'[p] = at[p]
    BY <1>2, <2>1, Zenon
  <2> QED BY <2>1, <2>2, EntriesSame, Zenon
<1>3. Held' = [Held EXCEPT ![q] = Entries(Q1.admn, at')]
  <2>1. Held' = [r \in Queue |-> Entries(queues'[r].admn, at')]
    BY Zenon DEF Held
  <2>2. ASSUME NEW r \in Queue
        PROVE  Held'[r] = IF r = q THEN Entries(Q1.admn, at') ELSE Held[r]
    <3>1. Held'[r] = Entries(queues'[r].admn, at')
      BY <2>1, Zenon
    <3>2. CASE r = q
      BY <1>1, <3>1, <3>2
    <3>3. CASE r # q
      <4>1. Held[r] = Entries(queues[r].admn, at)
        BY Zenon DEF Held
      <4> QED BY <1>1, <1>2, <3>1, <3>3, <4>1
    <3> QED BY <3>2, <3>3, Zenon
  <2>3. Held \in [Queue -> {Held[r] : r \in Queue}]
    BY Zenon DEF Held
  <2>4. Held' = [r \in Queue |-> Held'[r]]
    BY <2>1
  <2> QED BY ONLY <2>2, <2>3, <2>4, q \in Queue, Zenon
<1>4. Arrivals' = [Arrivals EXCEPT ![q] = Q1.total]
  <2>1. Arrivals' = [r \in Queue |-> queues'[r].total]
    BY Zenon DEF Arrivals
  <2>2. ASSUME NEW r \in Queue
        PROVE  Arrivals'[r] = IF r = q THEN Q1.total ELSE Arrivals[r]
    <3>1. Arrivals'[r] = queues'[r].total /\ Arrivals[r] = queues[r].total
      BY <2>1, Zenon DEF Arrivals
    <3> QED BY <1>1, <3>1, Zenon
  <2>3. Arrivals \in [Queue -> {Arrivals[r] : r \in Queue}]
    BY Zenon DEF Arrivals
  <2>4. Arrivals' = [r \in Queue |-> Arrivals'[r]]
    BY <2>1
  <2> QED BY ONLY <2>2, <2>3, <2>4, q \in Queue, Zenon
<1> QED BY <1>3, <1>4, Zenon

\* An arriving buffer is in no queue.
LEMMA ArrivingAbsent ==
  ASSUME RInv, NEW skb \in Skb, skb \notin owned
  PROVE  \A r \in Queue : \A e \in Held[r] : e.skb # skb
<1> SUFFICES ASSUME NEW r \in Queue, NEW e \in Held[r], e.skb = skb
             PROVE  FALSE
  OBVIOUS
<1>1. e \in Entries(queues[r].admn, at)
  BY Zenon DEF Held
<1>2. PICK p \in Skb, k \in Key, o \in Key :
        Holds(queues[r].admn, p, k, o) /\ e = EntryOf(p, k, o, at)
  BY <1>1, EntriesHold
<1>3. p = skb
  BY <1>2, Zenon DEF EntryOf
<1>4. skb \in Stored(queues[r].proc)
  BY <1>2, <1>3, RInvQueue, HoldsStored, Zenon
<1> QED BY <1>4, NotOwned, Zenon DEF RInv

\* oq_enqueue without congestion is an abstract admission.
LEMMA AdmitAbstract ==
  ASSUME RInv, NEW skb \in Skb, NEW q \in Queue, NEW a \in Key, NEW b \in Key,
         EnqueueAdmit(skb, q, a, b)
  PROVE  Abstract!Accept(q, skb, a, b)
<1> DEFINE Q == queues[q]
<1>1. PICK Q1 : /\ queues' = [queues EXCEPT ![q] = Q1]
                /\ PutIn(Q, Q1, skb, a, b)
                /\ Q1.total = Q.total + 1
  BY AdmitEffect
<1>2. skb \notin owned /\ at' = [at EXCEPT ![skb] = Q.total + 1]
  BY Zenon DEF EnqueueAdmit, Arrives
<1>3. /\ at'[skb] = Q.total + 1
      /\ \A r \in Queue : \A p \in Stored(queues[r].proc) : at'[p] = at[p]
  BY <1>2, ArrivalNumber, Zenon
<1>4. /\ Held' = [Held EXCEPT ![q] = Entries(Q1.admn, at')]
      /\ Arrivals' = [Arrivals EXCEPT ![q] = Q1.total]
  BY <1>1, <1>3, OneQueueHeld, ZenonT(60)
<1>5. Entries(Q1.admn, at') = Entries(Q.admn, at) \cup {EntryOf(skb, a, b, at')}
  <2>1. Q.admn \in Tree /\ \A x \in Stored(Q.admn) : at'[x] = at[x]
    BY <1>3, RInvQueue, Zenon
  <2>2. Added(Q.admn, Q1.admn, skb, a, b)
    BY <1>1, Zenon DEF PutIn
  <2> QED BY <2>1, <2>2, EntriesAdded
<1>6. EntryOf(skb, a, b, at') = Abstract!Arrival(q, skb, a, b)
  BY <1>3, Zenon DEF EntryOf, Abstract!Arrival
<1>7. Held[q] = Entries(Q.admn, at) /\ Arrivals[q] = Q.total
  BY Zenon DEF Held, Arrivals
<1>8. /\ Held' = [Held EXCEPT ![q] = Held[q] \cup {Abstract!Arrival(q, skb, a, b)}]
      /\ Arrivals' = [Arrivals EXCEPT ![q] = Arrivals[q] + 1]
  <2> HIDE DEF Q
  <2> QED BY <1>1, <1>4, <1>5, <1>6, <1>7
<1>9. \A r \in Queue : \A e \in Held[r] : e.skb # skb
  BY <1>2, ArrivingAbsent, SMTT(30)
<1> QED BY <1>8, <1>9, Zenon DEF Abstract!Accept, Abstract!Absent, Held, Arrivals

\* The packet a tail drop frees is the abstract queue's first victim.
LEMMA VictimIsFirst ==
  ASSUME RInv, NEW q \in Queue, Occupied(queues[q].admn) # {}
  PROVE  LET v == Head(queues[q].admn[btree_last(queues[q].admn)]).skb
         IN  /\ v \in Skb
             /\ \E a, b \in Key :
                  /\ Holds(queues[q].admn, v, a, b)
                  /\ EntryOf(v, a, b, at) \in Held[q]
                  /\ Abstract!FirstVictim(EntryOf(v, a, b, at), Held[q])
<1> DEFINE T == queues[q].admn
           key == btree_last(T)
           c == Head(T[key])
<1>1. T \in Tree /\ Fifo(T, at) /\ at \in [Skb -> Nat]
  BY RInvQueue, Zenon DEF RInv, IInv, TypeOK
<1>2. /\ key \in Key /\ c \in Container /\ Holds(T, c.skb, key, c.other_key)
      /\ \A p \in Skb, l, o \in Key : Holds(T, p, l, o) => l <= key
      /\ \A p \in Skb, o \in Key : Holds(T, p, key, o) => at[c.skb] <= at[p]
  <2>1. Occupied(T) # {}
    OBVIOUS
  <2> HIDE DEF T
  <2> QED BY <1>1, <2>1, LastHead, Zenon
<1>3. Held[q] = Entries(T, at)
  BY Zenon DEF Held
<1> HIDE DEF T, key, c
<1>4. c.skb \in Skb /\ c.other_key \in Key
  BY <1>2, Zenon DEF Container
<1> DEFINE e == EntryOf(c.skb, key, c.other_key, at)
<1>5. e \in Held[q]
  BY <1>2, <1>3, <1>4, EntriesHold
<1>6. Abstract!FirstVictim(e, Held[q])
  <2> SUFFICES ASSUME NEW f \in Held[q]
               PROVE  f.admn < e.admn \/ (f.admn = e.admn /\ e.at <= f.at)
    BY Zenon DEF Abstract!FirstVictim
  <2>1. PICK p \in Skb, k \in Key, o \in Key :
          Holds(T, p, k, o) /\ f = EntryOf(p, k, o, at)
    BY <1>3, EntriesHold
  <2>2. f.admn = k /\ f.at = at[p] /\ e.admn = key /\ e.at = at[c.skb]
    BY <2>1, Zenon DEF EntryOf
  <2>3. k <= key /\ (k = key => at[c.skb] <= at[p])
    BY <1>2, <2>1, Zenon
  <2>4. k \in Int /\ key \in Int
    BY <1>2, ConstantsAssumption, SMTT(30) DEF Key
  <2> HIDE DEF e
  <2> QED BY <2>2, <2>3, <2>4
<1> QED BY <1>2, <1>4, <1>5, <1>6, Zenon DEF e, c, key, T

\* The packet that oq_dequeue returns is the abstract queue's first out.
LEMMA HeadIsFirst ==
  ASSUME RInv, NEW q \in Queue, Occupied(queues[q].proc) # {}
  PROVE  LET v == Head(queues[q].proc[btree_last(queues[q].proc)]).skb
         IN  /\ v \in Skb
             /\ \E a, b \in Key :
                  /\ Holds(queues[q].admn, v, a, b)
                  /\ EntryOf(v, a, b, at) \in Held[q]
                  /\ Abstract!FirstOut(EntryOf(v, a, b, at), Held[q])
<1> DEFINE T == queues[q].proc
           U == queues[q].admn
           key == btree_last(T)
           c == Head(T[key])
<1>1. /\ T \in Tree /\ Fifo(T, at) /\ at \in [Skb -> Nat]
      /\ Covered(T, U) /\ Covered(U, T)
  BY RInvQueue, Zenon DEF RInv, IInv, TypeOK, Well
<1>2. /\ key \in Key /\ c \in Container /\ Holds(T, c.skb, key, c.other_key)
      /\ \A p \in Skb, l, o \in Key : Holds(T, p, l, o) => l <= key
      /\ \A p \in Skb, o \in Key : Holds(T, p, key, o) => at[c.skb] <= at[p]
  <2>1. Occupied(T) # {}
    OBVIOUS
  <2> HIDE DEF T
  <2> QED BY <1>1, <2>1, LastHead, Zenon
<1>3. Held[q] = Entries(U, at)
  BY Zenon DEF Held
<1> HIDE DEF T, U, key, c
<1>4. c.skb \in Skb /\ c.other_key \in Key
  BY <1>2, Zenon DEF Container
<1>5. Holds(U, c.skb, c.other_key, key)
  BY <1>1, <1>2, <1>4, Zenon DEF Covered
<1> DEFINE e == EntryOf(c.skb, c.other_key, key, at)
<1>6. e \in Held[q]
  BY <1>2, <1>3, <1>4, <1>5, EntriesHold
<1>7. Abstract!FirstOut(e, Held[q])
  <2> SUFFICES ASSUME NEW f \in Held[q]
               PROVE  f.proc < e.proc \/ (f.proc = e.proc /\ e.at <= f.at)
    BY Zenon DEF Abstract!FirstOut
  <2>1. PICK p \in Skb, k \in Key, o \in Key :
          Holds(U, p, k, o) /\ f = EntryOf(p, k, o, at)
    BY <1>3, EntriesHold
  <2>2. f.proc = o /\ f.at = at[p] /\ e.proc = key /\ e.at = at[c.skb]
    BY <2>1, Zenon DEF EntryOf
  <2>3. Holds(T, p, o, k)
    BY <1>1, <2>1 DEF Covered
  <2>4. o <= key /\ (o = key => at[c.skb] <= at[p])
    BY <1>2, <2>3, Zenon
  <2>5. o \in Int /\ key \in Int
    BY <1>2, ConstantsAssumption DEF Key
  <2> HIDE DEF e
  <2> QED BY <2>2, <2>4, <2>5
<1> QED BY <1>2, <1>4, <1>5, <1>6, <1>7, Zenon DEF e, c, key, T, U

\* A tail drop replaces the first victim, or admits when there is none.
LEMMA DropTailAbstract ==
  ASSUME RInv, NEW skb \in Skb, NEW q \in Queue, NEW a \in Key, NEW b \in Key,
         EnqueueDropTail(skb, q, a, b)
  PROVE  Abstract!Accept(q, skb, a, b) \/ Abstract!Replace(q, skb, a, b)
<1> DEFINE Q == queues[q]
           v == Head(Q.admn[btree_last(Q.admn)]).skb
           new == Abstract!Arrival(q, skb, a, b)
<1>d. PICK Q1, D : DropTailResult(skb, q, a, b, Q1, D)
  BY DropTailEffect, Zenon
<1>1. /\ queues' = [queues EXCEPT ![q] = Q1]
      /\ PutIn(D, Q1, skb, a, b)
      /\ Q1.total = Q.total + 1
      /\ \/ D = Q
         \/ Occupied(Q.admn) # {} /\ TakenOut(Q, D, v)
  BY <1>d DEF DropTailResult
<1>2. skb \notin owned /\ at' = [at EXCEPT ![skb] = Q.total + 1]
  BY DEF EnqueueDropTail, Arrives
<1>3. /\ at'[skb] = Q.total + 1
      /\ \A r \in Queue : \A p \in Stored(queues[r].proc) : at'[p] = at[p]
  BY <1>2, ArrivalNumber, Zenon
<1>4. /\ Held' = [Held EXCEPT ![q] = Entries(Q1.admn, at')]
      /\ Arrivals' = [Arrivals EXCEPT ![q] = Q1.total]
  BY <1>1, <1>3, OneQueueHeld, ZenonT(60)
<1>5. /\ Q.admn \in Tree /\ Once(Q.admn)
      /\ \A x \in Stored(Q.admn) : at'[x] = at[x]
  BY <1>3, RInvQueue, Zenon DEF Well
<1>6. Entries(Q1.admn, at') = Entries(D.admn, at) \cup {EntryOf(skb, a, b, at')}
  <2>1. D.admn \in Tree /\ Stored(D.admn) \subseteq Stored(Q.admn)
    <3>1. CASE D = Q
      BY <1>5, <3>1, Zenon
    <3>2. CASE TakenOut(Q, D, v)
      BY <3>2, Zenon DEF TakenOut, Well, QueueRec
    <3> QED BY <1>1, <3>1, <3>2
  <2>2. \A x \in Stored(D.admn) : at'[x] = at[x]
    BY <1>5, <2>1, Zenon
  <2>3. Added(D.admn, Q1.admn, skb, a, b)
    BY <1>1 DEF PutIn
  <2> QED BY <2>1, <2>2, <2>3, EntriesAdded
<1>7. EntryOf(skb, a, b, at') = new
  BY <1>3 DEF EntryOf, Abstract!Arrival
<1>8. Held[q] = Entries(Q.admn, at) /\ Arrivals[q] = Q.total
  BY DEF Held, Arrivals
<1>9. \A r \in Queue : \A e \in Held[r] : e.skb # skb
  BY <1>2, ArrivingAbsent
<1>10. Arrivals' = [Arrivals EXCEPT ![q] = Arrivals[q] + 1]
  BY <1>1, <1>4, <1>8
<1> HIDE DEF new
<1>11. CASE D = Q
  <2>1. Held' = [Held EXCEPT ![q] = Held[q] \cup {new}]
    <3> HIDE DEF Q
    <3> QED BY <1>4, <1>6, <1>7, <1>8, <1>11, SMTT(30)
  <2> QED
    BY <1>9, <1>10, <2>1 DEF new, Abstract!Accept, Abstract!Absent, Held, Arrivals
<1>12. CASE Occupied(Q.admn) # {} /\ TakenOut(Q, D, v)
  <2>1. v \in Skb
    BY <1>12, VictimIsFirst, Zenon
  <2>2. PICK k \in Key, o \in Key :
          /\ Holds(Q.admn, v, k, o)
          /\ EntryOf(v, k, o, at) \in Held[q]
          /\ Abstract!FirstVictim(EntryOf(v, k, o, at), Held[q])
    BY <1>12, VictimIsFirst, Zenon
  <2> DEFINE e == EntryOf(v, k, o, at)
  <2>3. Entries(D.admn, at) = Entries(Q.admn, at) \ {e}
    <3>1. Removed(Q.admn, D.admn, v)
      BY <1>12, Zenon DEF TakenOut
    <3> HIDE DEF Q, v
    <3> QED BY <1>5, <2>1, <2>2, <3>1, EntriesRemoved, SMTT(30)
  <2> HIDE DEF e
  <2>4. Held' = [Held EXCEPT ![q] = (Held[q] \ {e}) \cup {new}]
    <3> HIDE DEF Q, v
    <3> QED BY <1>4, <1>6, <1>7, <1>8, <2>3, SMTT(30)
  <2>5. e \in Held[q] /\ Abstract!FirstVictim(e, Held[q])
    BY <2>2, Zenon DEF e
  <2> QED
    BY <1>9, <1>10, <2>4, <2>5, ZenonT(60)
    DEF new, Abstract!Replace, Abstract!Absent, Held, Arrivals
<1> QED BY <1>1, <1>11, <1>12

\* A dequeue delivers the first out.
LEMMA DequeueAbstract ==
  ASSUME RInv, NEW q \in Queue, oq_dequeue(q)
  PROVE  Abstract!Deliver(q)
<1> DEFINE Q == queues[q]
           v == Head(Q.proc[btree_last(Q.proc)]).skb
<1>1. PICK Q1 : /\ queues' = [queues EXCEPT ![q] = Q1]
                /\ TakenOut(Q, Q1, v)
                /\ Q1.total = Q.total /\ at' = at
  BY DequeueEffect, Zenon DEF RInv
<1>2. Occupied(Q.proc) # {}
  BY Zenon DEF oq_dequeue
<1>3. /\ Held' = [Held EXCEPT ![q] = Entries(Q1.admn, at)]
      /\ Arrivals' = [Arrivals EXCEPT ![q] = Q1.total]
  BY <1>1, OneQueueHeld, Zenon
<1>4. v \in Skb
  BY <1>2, HeadIsFirst, Zenon
<1>5. PICK k \in Key, o \in Key :
        /\ Holds(Q.admn, v, k, o)
        /\ EntryOf(v, k, o, at) \in Held[q]
        /\ Abstract!FirstOut(EntryOf(v, k, o, at), Held[q])
  BY <1>2, HeadIsFirst
<1>6. Held[q] = Entries(Q.admn, at) /\ Arrivals[q] = Q.total
  BY Zenon DEF Held, Arrivals
<1>7. Q.admn \in Tree /\ Once(Q.admn)
  BY RInvQueue DEF Well
<1> DEFINE e == EntryOf(v, k, o, at)
<1>8. Entries(Q1.admn, at) = Entries(Q.admn, at) \ {e}
  <2>1. Removed(Q.admn, Q1.admn, v)
    BY <1>1, Zenon DEF TakenOut
  <2> HIDE DEF Q, v
  <2> QED BY <1>4, <1>5, <1>7, <2>1, EntriesRemoved
<1> HIDE DEF e
<1>9. Held' = [Held EXCEPT ![q] = Held[q] \ {e}]
  <2> HIDE DEF Q, v
  <2> QED BY <1>3, <1>6, <1>8
<1>10. Arrivals' = Arrivals
  <2>1. Arrivals' = [Arrivals EXCEPT ![q] = Arrivals[q]]
    BY <1>1, <1>3, <1>6
  <2>2. Arrivals \in [Queue -> {Arrivals[r] : r \in Queue}]
    BY SMTT(30) DEF Arrivals
  <2> QED BY ONLY <2>1, <2>2, q \in Queue
<1>11. e \in Held[q] /\ Abstract!FirstOut(e, Held[q])
  BY <1>5 DEF e
<1> QED BY <1>9, <1>10, <1>11, Zenon DEF Abstract!Deliver, Held, Arrivals

\* A step that leaves the trees, the arrival counts and the numbers alone is a
\* stuttering step of the abstract specification.
LEMMA StutterAbstract ==
  ASSUME at' = at,
         \A q \in Queue : /\ queues'[q].admn = queues[q].admn
                          /\ queues'[q].total = queues[q].total
  PROVE  UNCHANGED Abstract!vars
<1>1. [q \in Queue |-> Entries(queues[q].admn, at)]'
        = [q \in Queue |-> Entries(queues[q].admn, at)]
  OBVIOUS
<1>2. [q \in Queue |-> queues[q].total]' = [q \in Queue |-> queues[q].total]
  OBVIOUS
<1> QED BY <1>1, <1>2 DEF Abstract!vars

\* Empty queues are the abstract specification's initial state.
LEMMA EmptyAbstract ==
  ASSUME queues = [q \in Queue |-> init_queue(q)]
  PROVE  Abstract!Init
<1>1. \A q \in Queue : queues[q].admn = EmptyTree /\ queues[q].total = 0
  BY InitQueueWell
<1>2. \A q \in Queue : Entries(queues[q].admn, at) = {}
  BY <1>1, EntriesEmpty, Zenon
<1> QED BY <1>1, <1>2 DEF Abstract!Init

\* Every step of the port is a step of the abstract specification.
LEMMA StepAbstract ==
  RInv /\ [DataPath \/ oq_change]_vars => [Abstract!Next]_(Abstract!vars)
<1> SUFFICES ASSUME RInv, [DataPath \/ oq_change]_vars
             PROVE  [Abstract!Next]_(Abstract!vars)
  OBVIOUS
<1>1. ASSUME NEW skb \in Skb, NEW q \in Queue, NEW a \in Key, NEW b \in Key,
             EnqueueAdmit(skb, q, a, b) \/ EnqueueDropTail(skb, q, a, b)
      PROVE  Abstract!Next
  <2>1. Abstract!Accept(q, skb, a, b) \/ Abstract!Replace(q, skb, a, b)
    BY <1>1, AdmitAbstract, DropTailAbstract
  <2> QED BY <2>1, Zenon DEF Abstract!Next
<1>2. ASSUME NEW skb \in Skb, NEW q \in Queue, EnqueueDropPkt(skb, q)
      PROVE  UNCHANGED Abstract!vars
  <2>1. queues \in [Queue -> QueueRec] /\ at' = at
    BY <1>2, Zenon DEF RInv, IInv, TypeOK, EnqueueDropPkt
  <2>2. queues' = [queues EXCEPT ![q].dropped = @ + 1]
    BY <1>2 DEF EnqueueDropPkt
  <2>3. ASSUME NEW r \in Queue
        PROVE  queues'[r].admn = queues[r].admn /\ queues'[r].total = queues[r].total
    BY <2>1, <2>2 DEF QueueRec
  <2> QED BY <2>1, <2>3, StutterAbstract
<1>3. ASSUME NEW skb \in Skb, NEW q \in Queue, EnqueueUnhandled(skb, q)
      PROVE  UNCHANGED Abstract!vars
  BY <1>3, StutterAbstract DEF EnqueueUnhandled
<1>4. ASSUME NEW skb \in Skb, oq_enqueue(skb)
      PROVE  [Abstract!Next]_(Abstract!vars)
  <2>1. PICK q \in Queue :
          \/ \E a, b \in Key :
               \/ EnqueueAdmit(skb, q, a, b)
               \/ EnqueueDropTail(skb, q, a, b)
          \/ EnqueueDropPkt(skb, q)
          \/ EnqueueUnhandled(skb, q)
    BY <1>4 DEF oq_enqueue
  <2> QED BY <1>1, <1>2, <1>3, <2>1
<1>5. ASSUME NEW q \in Queue, oq_dequeue(q)
      PROVE  Abstract!Next
  <2>1. Abstract!Deliver(q)
    BY <1>5, DequeueAbstract, Zenon
  <2> QED BY <2>1, Zenon DEF Abstract!Next
<1>6. CASE oq_change
  <2>1. \A q \in Queue : queues'[q].admn = EmptyTree /\ queues'[q].total = 0
    BY <1>6, InitQueueWell DEF oq_change
  <2>2. \A q \in Queue : Entries(queues'[q].admn, at') = {}
    BY <2>1, EntriesEmpty
  <2>3. Abstract!Reset
    BY <2>1, <2>2 DEF Abstract!Reset
  <2> QED BY <2>3 DEF Abstract!Next
<1>7. CASE UNCHANGED vars
  BY <1>7, StutterAbstract DEF vars
<1> QED BY <1>4, <1>5, <1>6, <1>7 DEF DataPath

\* While reconfigurations succeed, the two B+trees of container lists keep the
\* port's promise: oq_dequeue sends the oldest packet of the largest processing
\* key, and do_drop_tail evicts the oldest packet of the largest admission key.
THEOREM PortRefinesDualQueue == ReliableSpec => ImplementsDualQueue
<1>1. Init => Abstract!Init
  BY EmptyAbstract DEF Init
<1> QED
  BY <1>1, InitRInv, NextRInv, StepAbstract, PTL
  DEF ReliableSpec, ImplementsDualQueue, Abstract!Spec

=============================================================================
