------------------------ MODULE PolicyRegistryProofs ------------------------
(***************************************************************************)
(* Proofs about the list of policies, for any number of policies, names    *)
(* and containers: it stays one ring, and a lookup that fails has seen     *)
(* every container.                                                        *)
(***************************************************************************)
EXTENDS PolicyRegistry, SequenceTheorems, TLAPS

\* Whoever walks holds the lock, and the containers of the list are filled in.
LockOK ==
  /\ tc.pc = "walk" <=> lock = "tc"
  /\ \A i \in 1 .. Len(order) : node[order[i]].fn \in Policy

\* The inductive invariant.
IInv == TypeOK /\ RingOK /\ WalkOK /\ LockOK

\* The place behind i in a ring of n containers.
After(i, n) == IF i = n THEN 1 ELSE i + 1

\* Sequence s is a ring through the containers of nodes N, all of them in L.
Ring(s, N, L) ==
  /\ IsInjective(s)
  /\ \A i \in 1 .. Len(s) :
       /\ s[i] \in L
       /\ N[s[i]].next = s[After(i, Len(s))]
       /\ N[s[After(i, Len(s))]].prev = s[i]

\* The invariant of the list, in terms of Ring.
LEMMA RingOKRing ==
  RingOK <=> /\ oq_policy_base = IF Len(order) = 0 THEN NULL ELSE order[1]
             /\ Ring(order, node, live)
BY Zenon DEF RingOK, Ring, After

\* A new container behind the tail of a ring.
LEMMA AppendRing ==
  ASSUME NEW s \in Seq(Addr), NEW N \in [Addr -> Node], NEW L \in SUBSET Addr,
         Ring(s, N, L), NEW a \in Addr \ L, NEW N1 \in [Addr -> Node],
         Len(s) = 0 => N1[a].next = a /\ N1[a].prev = a,
         Len(s) # 0 =>
           /\ N1[a].next = s[1] /\ N1[a].prev = s[Len(s)]
           /\ N1[s[Len(s)]].next = a
           /\ N1[s[1]].prev = a
           /\ \A b \in Addr \ {a, s[Len(s)]} : N1[b].next = N[b].next
           /\ \A b \in Addr \ {a, s[1]} : N1[b].prev = N[b].prev
  PROVE  Ring(Append(s, a), N1, L \cup {a})
<1> DEFINE t == Append(s, a)
           n == Len(s)
<1>1. /\ n \in Nat /\ Len(t) = n + 1 /\ t[n + 1] = a
      /\ DOMAIN s = 1 .. n /\ DOMAIN t = 1 .. n + 1
      /\ \A i \in 1 .. n : t[i] = s[i] /\ s[i] \in Addr /\ s[i] \in L /\ s[i] # a
  BY DEF Ring
<1>2. \A i, j \in 1 .. n : s[i] = s[j] => i = j
  BY <1>1, Zenon DEF Ring, IsInjective
<1>3. \A i \in 1 .. n : /\ N[s[i]].next = s[After(i, n)]
                        /\ N[s[After(i, n)]].prev = s[i]
  BY Zenon DEF Ring
<1> HIDE DEF t, n
<1>4. IsInjective(t)
  BY <1>1, <1>2 DEF IsInjective
<1>5. ASSUME NEW i \in 1 .. n + 1
      PROVE  /\ t[i] \in L \cup {a}
             /\ N1[t[i]].next = t[After(i, n + 1)]
             /\ N1[t[After(i, n + 1)]].prev = t[i]
  <2>1. CASE n = 0
    BY <1>1, <2>1 DEF After, n
  <2>2. CASE n # 0 /\ i = n + 1
    BY <1>1, <2>2 DEF After, n
  <2>3. CASE n # 0 /\ i = n
    <3>1. /\ t[i] = s[n] /\ After(i, n + 1) = n + 1 /\ t[n + 1] = a /\ s[n] \in L
      BY <1>1, <2>3 DEF After
    <3>2. N1[s[n]].next = a /\ N1[a].prev = s[n]
      BY <2>3, Zenon DEF n
    <3> QED BY <3>1, <3>2, Zenon
  <2>4. CASE n # 0 /\ i < n
    <3>1. /\ t[i] = s[i] /\ t[i + 1] = s[i + 1] /\ After(i, n + 1) = i + 1
          /\ After(i, n) = i + 1 /\ s[i] # s[n] /\ s[i + 1] # s[1]
          /\ s[i] # a /\ s[i + 1] # a /\ s[i] \in Addr /\ s[i + 1] \in Addr
          /\ s[i] \in L
      BY <1>1, <1>2, <2>4 DEF After
    <3>2. /\ N1[s[i]].next = N[s[i]].next
          /\ N1[s[i + 1]].prev = N[s[i + 1]].prev
      BY <2>4, <3>1, Zenon DEF n
    <3>3. N[s[i]].next = s[i + 1] /\ N[s[i + 1]].prev = s[i]
      BY <1>1, <1>3, <2>4, <3>1
    <3> QED BY <3>1, <3>2, <3>3, Zenon
  <2> QED BY <1>1, <2>1, <2>2, <2>3, <2>4
<1> QED BY <1>1, <1>4, <1>5, Zenon DEF Ring, t

\* A sequence without its element at place i.
LEMMA RemoveAtFacts ==
  ASSUME NEW s \in Seq(Addr), NEW i \in 1 .. Len(s)
  PROVE  /\ RemoveAt(s, i) \in Seq(Addr)
         /\ Len(RemoveAt(s, i)) = Len(s) - 1
         /\ \A j \in 1 .. Len(s) - 1 :
              RemoveAt(s, i)[j] = IF j < i THEN s[j] ELSE s[j + 1]
<1> DEFINE l == SubSeq(s, 1, i - 1)
           r == SubSeq(s, i + 1, Len(s))
<1>1. /\ l \in Seq(Addr) /\ Len(l) = i - 1
      /\ \A j \in 1 .. i - 1 : l[j] = s[j]
  OBVIOUS
<1>2. /\ r \in Seq(Addr) /\ Len(r) = Len(s) - i
      /\ \A j \in 1 .. Len(s) - i : r[j] = s[j + i]
  OBVIOUS
<1> HIDE DEF l, r
<1>3. l \o r \in Seq(Addr) /\ Len(l \o r) = Len(s) - 1
  <2>1. l \o r \in Seq(Addr) /\ Len(l \o r) = Len(l) + Len(r)
    BY <1>1, <1>2, ConcatProperties, Zenon
  <2> QED BY <1>1, <1>2, <2>1
<1>4. ASSUME NEW j \in 1 .. Len(s) - 1
      PROVE  (l \o r)[j] = IF j < i THEN s[j] ELSE s[j + 1]
  <2>1. (l \o r)[j] = IF j <= Len(l) THEN l[j] ELSE r[j - Len(l)]
    BY <1>1, <1>2, <1>3
  <2>2. CASE j < i
    BY <1>1, <2>1, <2>2
  <2>3. CASE ~(j < i)
    <3>1. j - Len(l) \in 1 .. Len(s) - i /\ (j - Len(l)) + i = j + 1 /\ ~(j <= Len(l))
      BY <1>1, <2>3
    <3>2. r[j - Len(l)] = s[(j - Len(l)) + i]
      BY <1>2, <3>1, Zenon
    <3> QED BY <2>1, <2>3, <3>1, <3>2, Zenon
  <2> QED BY <2>2, <2>3, Zenon
<1> QED BY <1>3, <1>4, Zenon DEF RemoveAt, l, r

\* N1 is the nodes N with the neighbours of container c joined.
Joined(N1, N, c) ==
  /\ N1 \in [Addr -> Node]
  /\ N1[N[c].prev].next = N[c].next
  /\ N1[N[c].next].prev = N[c].prev
  /\ \A b \in Addr \ {N[c].prev} : N1[b].next = N[b].next
  /\ \A b \in Addr \ {N[c].next} : N1[b].prev = N[b].prev
  /\ \A b \in Addr : N1[b].fn = N[b].fn

\* A ring without a container that is not its first.
LEMMA RemoveRing ==
  ASSUME NEW s \in Seq(Addr), NEW N \in [Addr -> Node], NEW L \in SUBSET Addr,
         Ring(s, N, L), NEW i \in 2 .. Len(s), NEW N1, Joined(N1, N, s[i])
  PROVE  /\ Ring(RemoveAt(s, i), N1, L \ {s[i]})
         /\ RemoveAt(s, i)[1] = s[1]
<1> DEFINE t == RemoveAt(s, i)
           n == Len(s)
           pv == N[s[i]].prev
           nx == N[s[i]].next
<1>j. /\ N1[pv].next = nx /\ N1[nx].prev = pv
      /\ \A b \in Addr \ {pv} : N1[b].next = N[b].next
      /\ \A b \in Addr \ {nx} : N1[b].prev = N[b].prev
  BY Zenon DEF Joined
<1>1. /\ n \in Nat /\ n >= 2 /\ DOMAIN s = 1 .. n
      /\ \A j \in 1 .. n : s[j] \in Addr /\ s[j] \in L
  BY DEF Ring
<1>2. \A j, k \in 1 .. n : s[j] = s[k] => j = k
  BY <1>1, Zenon DEF Ring, IsInjective
<1>3. \A j \in 1 .. n : /\ N[s[j]].next = s[After(j, n)]
                        /\ N[s[After(j, n)]].prev = s[j]
  BY Zenon DEF Ring
<1>4. /\ t \in Seq(Addr) /\ Len(t) = n - 1 /\ DOMAIN t = 1 .. n - 1
      /\ \A j \in 1 .. n - 1 : t[j] = IF j < i THEN s[j] ELSE s[j + 1]
  BY RemoveAtFacts
<1> HIDE DEF t, n
<1>5. i \in 2 .. n
  BY Zenon DEF n
<1>6. nx = s[After(i, n)] /\ pv = s[i - 1]
  <2>1. i - 1 \in 1 .. n /\ After(i - 1, n) = i
    BY <1>1, <1>5 DEF After
  <2> QED BY <1>1, <1>3, <1>5, <2>1
<1> HIDE DEF pv, nx
<1>7. t[1] = s[1]
  BY <1>1, <1>4, <1>5
<1>8. IsInjective(t)
  <2> SUFFICES ASSUME NEW j \in 1 .. n - 1, NEW k \in 1 .. n - 1, t[j] = t[k]
               PROVE  j = k
    BY <1>4, Zenon DEF IsInjective
  <2> QED BY <1>1, <1>2, <1>4, <1>5
<1>9. ASSUME NEW j \in 1 .. n - 1
      PROVE  /\ t[j] \in L \ {s[i]}
             /\ N1[t[j]].next = t[After(j, n - 1)]
             /\ N1[t[After(j, n - 1)]].prev = t[j]
  <2>1. CASE j < i - 1
    <3>1. /\ t[j] = s[j] /\ After(j, n - 1) = j + 1 /\ t[j + 1] = s[j + 1]
          /\ After(j, n) = j + 1 /\ j \in 1 .. n /\ j + 1 \in 1 .. n
      BY <1>1, <1>4, <1>5, <2>1 DEF After
    <3>2. s[j] # s[i - 1] /\ s[j] # s[i]
      BY <1>1, <1>2, <1>5, <2>1
    <3>3. s[j + 1] # nx
      BY <1>1, <1>2, <1>5, <1>6, <2>1 DEF After
    <3>4. N[s[j]].next = s[j + 1] /\ N[s[j + 1]].prev = s[j]
      BY <1>3, <3>1, Zenon
    <3>5. s[j] \in Addr /\ s[j] \in L /\ s[j + 1] \in Addr
      BY <1>1, <3>1, Zenon
    <3>6. N1[s[j]].next = s[j + 1] /\ N1[s[j + 1]].prev = s[j]
      BY <1>j, <1>6, <3>2, <3>3, <3>4, <3>5
    <3> QED BY <3>1, <3>2, <3>5, <3>6
  <2>2. CASE j = i - 1
    <3>1. t[j] = pv /\ pv \in L /\ pv # s[i]
      BY <1>1, <1>2, <1>4, <1>5, <1>6, <2>2
    <3>2. t[After(j, n - 1)] = nx
      BY <1>1, <1>4, <1>5, <1>6, <2>2 DEF After
    <3> QED BY <1>j, <3>1, <3>2, Zenon
  <2>3. CASE j > i - 1
    <3>1. /\ t[j] = s[j + 1] /\ j + 1 \in 1 .. n /\ After(i, n) = i + 1
          /\ After(j + 1, n) \in 1 .. n
      BY <1>1, <1>4, <1>5, <2>3 DEF After
    <3>2. t[After(j, n - 1)] = s[After(j + 1, n)]
      BY <1>1, <1>4, <1>5, <1>7, <2>3 DEF After
    <3>3. s[j + 1] # s[i - 1] /\ s[j + 1] # s[i]
      BY <1>1, <1>2, <1>5, <2>3
    <3>4. s[After(j + 1, n)] # nx
      BY <1>1, <1>2, <1>5, <1>6, <2>3, <3>1 DEF After
    <3>5. N[s[j + 1]].next = s[After(j + 1, n)] /\ N[s[After(j + 1, n)]].prev = s[j + 1]
      BY <1>3, <3>1, Zenon
    <3>6. s[j + 1] \in Addr /\ s[j + 1] \in L /\ s[After(j + 1, n)] \in Addr
      BY <1>1, <3>1, Zenon
    <3>7. N1[s[j + 1]].next = s[After(j + 1, n)] /\ N1[s[After(j + 1, n)]].prev = s[j + 1]
      BY <1>j, <1>6, <3>3, <3>4, <3>5, <3>6, Zenon
    <3> QED BY <3>1, <3>2, <3>3, <3>6, <3>7
  <2> QED BY <1>5, <2>1, <2>2, <2>3
<1> QED BY <1>4, <1>7, <1>8, <1>9 DEF Ring, t

-----------------------------------------------------------------------------

\* The states of oq_init.
LEMMA TcStates ==
  ASSUME TypeOK
  PROVE  /\ tc.pc = "walk" =>
              /\ tc = [pc |-> "walk", name |-> tc.name, cursor |-> tc.cursor, fn |-> NULL]
              /\ tc.name \in Name /\ tc.cursor \in Addr
         /\ tc.pc = "call" => tc.fn \in Policy
         /\ Idle.pc = "idle"
BY DEF TypeOK, Idle, Walking, Calling

\* The list is empty just when oq_policy_base is NULL.
LEMMA BaseNull ==
  ASSUME IInv
  PROVE  /\ order \in Seq(Addr) /\ Len(order) \in Nat
         /\ \A i \in 1 .. Len(order) : order[i] \in Addr
         /\ oq_policy_base = NULL <=> Len(order) = 0
         /\ oq_policy_base # NULL => 1 \in 1 .. Len(order) /\ oq_policy_base = order[1]
<1>1. /\ order \in Seq(Addr) /\ Len(order) \in Nat
      /\ \A i \in 1 .. Len(order) : order[i] \in Addr
  BY DEF IInv, TypeOK
<1>2. oq_policy_base = IF Len(order) = 0 THEN NULL ELSE order[1]
  BY Zenon DEF IInv, RingOK
<1>3. Len(order) # 0 => 1 \in 1 .. Len(order) /\ order[1] \in Addr
  BY <1>1
<1> QED BY <1>1, <1>2, <1>3, RegistryAssumption, Zenon

\* A step that leaves the list alone.
LEMMA SameList ==
  ASSUME IInv, UNCHANGED <<oq_policy_base, node, live, order>>
  PROVE  RingOK' /\ (\A i \in 1 .. Len(order) : node[order[i]].fn \in Policy)'
BY Zenon DEF IInv, RingOK, LockOK

\* The list starts empty.
LEMMA InitIInv == Init => IInv
<1> SUFFICES ASSUME Init PROVE IInv
  OBVIOUS
<1>1. TypeOK
  BY DEF Init, TypeOK, Node
<1>2. RingOK
  BY DEF Init, RingOK, IsInjective
<1>3. tc.pc = "idle" /\ lock = "none" /\ order = << >>
  BY Zenon DEF Init, Idle
<1>4. WalkOK
  BY <1>3, RegistryAssumption, Zenon DEF WalkOK
<1>5. LockOK
  BY <1>3 DEF LockOK
<1> QED BY <1>1, <1>2, <1>4, <1>5, Zenon DEF IInv

\* The nodes with a new container R at address a, between tail t and head h.
Linked(N, a, R, t, h) ==
  [[[N EXCEPT ![a] = R] EXCEPT ![t].next = a] EXCEPT ![h].prev = a]

\* What Append_container does to the pointers.
LinkedIn(N1, N, a, R, t, h) ==
  /\ N1 \in [Addr -> Node] /\ N1[a] = R
  /\ N1[t].next = a /\ N1[h].prev = a
  /\ \A b \in Addr \ {a, t} : N1[b].next = N[b].next
  /\ \A b \in Addr \ {a, h} : N1[b].prev = N[b].prev
  /\ \A b \in Addr \ {a} : N1[b].fn = N[b].fn

\* What the links of a new container do to the nodes.
LEMMA LinkFacts ==
  ASSUME NEW N \in [Addr -> Node], NEW a \in Addr, NEW h \in Addr, NEW t \in Addr,
         h # a, t # a, NEW R \in Node
  PROVE  LinkedIn(Linked(N, a, R, t, h), N, a, R, t, h)
BY DEF Node, Linked, LinkedIn

\* What joining the neighbours of a container does to the nodes.
LEMMA JoinFacts ==
  ASSUME node \in [Addr -> Node], NEW c \in Addr,
         node[c].next \in Addr, node[c].prev \in Addr
  PROVE  Joined(Join(c), node, c)
BY DEF Node, Join, Joined

\* Registering keeps the invariant.
LEMMA RegisterStep ==
  ASSUME IInv, NEW p \in Policy, oq_register_policy(p)
  PROVE  IInv'
<1>1. PICK a \in Addr \ live :
        /\ node' = Append_container(a, p)
        /\ oq_policy_base' = IF oq_policy_base = NULL THEN a ELSE oq_policy_base
        /\ live' = live \cup {a}
        /\ order' = Append(order, a)
  BY Zenon DEF oq_register_policy
<1>2. /\ lock = "none" /\ lock' = lock /\ cursor' = cursor /\ tc' = tc
      /\ port' = port /\ oops' = oops /\ loaded' = loaded \cup {p}
  BY Zenon DEF oq_register_policy
<1>3. /\ node \in [Addr -> Node] /\ live \in SUBSET Addr /\ Ring(order, node, live)
      /\ order \in Seq(Addr)
  BY RingOKRing, Zenon DEF IInv, TypeOK
<1> DEFINE n == Len(order)
<1>4. /\ node' \in [Addr -> Node] /\ node'[a].fn = p
      /\ \A b \in Addr \ {a} : node'[b].fn = node[b].fn
      /\ n = 0 => node'[a].next = a /\ node'[a].prev = a
      /\ n # 0 => /\ node'[a].next = order[1] /\ node'[a].prev = order[n]
                  /\ node'[order[n]].next = a
                  /\ node'[order[1]].prev = a
                  /\ \A b \in Addr \ {a, order[n]} : node'[b].next = node[b].next
                  /\ \A b \in Addr \ {a, order[1]} : node'[b].prev = node[b].prev
  <2>1. CASE n = 0
    <3>1. node' = [node EXCEPT ![a] = [fn |-> p, next |-> a, prev |-> a]]
      BY <1>1, <2>1, BaseNull DEF Append_container
    <3> QED BY <1>3, <2>1, <3>1, Zenon DEF Node
  <2>2. CASE n # 0
    <3>1. /\ oq_policy_base # NULL /\ oq_policy_base = order[1]
          /\ order[1] \in Addr /\ order[n] \in Addr /\ n \in 1 .. n /\ 1 \in 1 .. n
      BY <2>2, BaseNull
    <3>2. /\ node[order[1]].prev = order[n] /\ order[1] \in live /\ order[n] \in live
      BY <1>3, <3>1, Zenon DEF Ring, After
    <3>3. node' = [[[node EXCEPT ![a] = [fn |-> p, next |-> order[1], prev |-> order[n]]]
                      EXCEPT ![order[n]].next = a]
                      EXCEPT ![order[1]].prev = a]
      BY <1>1, <3>1, <3>2 DEF Append_container
    <3>4. /\ [fn |-> p, next |-> order[1], prev |-> order[n]] \in Node
          /\ order[1] # a /\ order[n] # a
      BY <3>1, <3>2, Zenon DEF Node
    <3> DEFINE h == order[1]
               t == order[n]
               R == [fn |-> p, next |-> h, prev |-> t]
               N1 == node'
    <3>5. /\ a \in Addr /\ node \in [Addr -> Node]
          /\ h \in Addr /\ t \in Addr /\ h # a /\ t # a /\ R \in Node
          /\ N1 = Linked(node, a, R, t, h)
      BY <1>3, <3>1, <3>3, <3>4 DEF Linked
    <3>6. R.fn = p /\ R.next = h /\ R.prev = t
      OBVIOUS
    <3> HIDE DEF n, h, t, R, N1
    <3>7. LinkedIn(N1, node, a, R, t, h)
      BY ONLY <3>5, LinkFacts, Zenon
    <3> QED BY <2>2, <3>6, <3>7 DEF h, t, N1, LinkedIn
  <2> QED BY <2>1, <2>2, Zenon
<1>5. Ring(order', node', live')
  <2>1. Ring(Append(order, a), node', live \cup {a})
    BY <1>3, <1>4, AppendRing, Zenon
  <2> QED BY <1>1, <2>1, Zenon
<1>6. /\ order' \in Seq(Addr) /\ Len(order') = n + 1 /\ n \in Nat
      /\ \A i \in 1 .. n : order'[i] = order[i] /\ order[i] \in Addr \ {a}
      /\ order'[n + 1] = a
  BY <1>1, <1>3 DEF Ring
<1>7. RingOK'
  <2>1. oq_policy_base' = order'[1] /\ Len(order') # 0
    BY <1>1, <1>6, BaseNull
  <2> QED BY <1>5, <2>1, Zenon DEF RingOK, Ring, After
<1>8. TypeOK'
  BY <1>1, <1>2, <1>4, <1>6, Zenon DEF IInv, TypeOK
<1>9. WalkOK' /\ LockOK'
  <2>1. tc.pc # "walk" /\ lock \notin Policy
    BY <1>2, RegistryAssumption, Zenon DEF IInv, LockOK
  <2>2. \A i \in 1 .. Len(order') : node'[order'[i]].fn \in Policy
    <3>1. \A i \in 1 .. n : node[order[i]].fn \in Policy
      BY Zenon DEF IInv, LockOK
    <3> HIDE DEF n
    <3>2. ASSUME NEW i \in 1 .. n + 1 PROVE node'[order'[i]].fn \in Policy
      <4>1. CASE i = n + 1
        BY <1>4, <1>6, <4>1, Zenon
      <4>2. CASE i # n + 1
        BY <1>4, <1>6, <3>1, <4>2
      <4> QED BY <4>1, <4>2, Zenon
    <3> QED BY <1>6, <3>2, Zenon
  <2> QED BY <1>2, <2>1, <2>2, Zenon DEF WalkOK, LockOK, IInv
<1> QED BY <1>7, <1>8, <1>9, Zenon DEF IInv

\* A step that changes neither the list nor who walks it, nor where.
LEMMA QuietStep ==
  ASSUME IInv, TypeOK', UNCHANGED <<oq_policy_base, node, live, order, lock, cursor>>,
         tc' = tc \/ (tc.pc # "walk" /\ tc'.pc # "walk")
  PROVE  IInv'
<1>1. RingOK' /\ (\A i \in 1 .. Len(order) : node[order[i]].fn \in Policy)'
  BY SameList, Zenon
<1>2. LockOK'
  BY <1>1, Zenon DEF IInv, LockOK
<1>3. WalkOK'
  BY DEF IInv, WalkOK, LookupAt, UnregisterAt, Matches
<1> QED BY <1>1, <1>2, <1>3, Zenon DEF IInv

\* A policy that unregisters starts at the first container.
LEMMA UnregisterStep ==
  ASSUME IInv, NEW p \in Policy, oq_unregister_policy(p)
  PROVE  IInv'
<1>1. /\ lock = "none" /\ tc.pc # "walk"
      /\ UNCHANGED <<oq_policy_base, node, live, loaded, tc, port, order>>
  BY Zenon DEF oq_unregister_policy, IInv, LockOK
<1>2. CASE oq_policy_base = NULL
  <2>1. oops' = oops \cup {"empty_list"} /\ lock' = lock /\ cursor' = cursor
    BY <1>2, Zenon DEF oq_unregister_policy
  <2>2. TypeOK'
    BY <1>1, <2>1, Zenon DEF IInv, TypeOK, Fault
  <2> QED BY <1>1, <2>1, <2>2, QuietStep
<1>3. CASE oq_policy_base # NULL
  <2>1. oops' = oops /\ lock' = p /\ cursor' = oq_policy_base
    BY <1>3, Zenon DEF oq_unregister_policy
  <2>2. TypeOK'
    BY <1>1, <2>1, Zenon DEF IInv, TypeOK
  <2>3. RingOK' /\ (\A i \in 1 .. Len(order) : node[order[i]].fn \in Policy)'
    BY <1>1, SameList, Zenon
  <2>4. LockOK'
    BY <1>1, <2>1, <2>3, RegistryAssumption, Zenon DEF LockOK
  <2>5. UnregisterAt(1)' /\ 1 \in 1 .. Len(order')
    BY <1>1, <1>3, <2>1, BaseNull DEF UnregisterAt
  <2>6. WalkOK'
    BY <1>1, <2>5, Zenon DEF WalkOK
  <2> QED BY <2>2, <2>3, <2>4, <2>6, Zenon DEF IInv
<1> QED BY <1>2, <1>3, Zenon

\* The place of the unregistering policy's walk.
LEMMA UnregisterPlace ==
  ASSUME IInv, NEW p \in Policy, lock = p
  PROVE  /\ tc.pc # "walk"
         /\ \E i \in 1 .. Len(order) :
              /\ UnregisterAt(i) /\ cursor = order[i] /\ cursor \in Addr
              /\ node[cursor].fn \in Policy
              /\ After(i, Len(order)) \in 1 .. Len(order)
              /\ node[cursor].next = order[After(i, Len(order))]
<1>1. tc.pc # "walk"
  BY RegistryAssumption, Zenon DEF IInv, LockOK
<1>2. PICK i \in 1 .. Len(order) : UnregisterAt(i)
  BY Zenon DEF IInv, WalkOK
<1>3. cursor = order[i] /\ cursor \in Addr /\ node[cursor].fn \in Policy
  BY <1>2, BaseNull, Zenon DEF UnregisterAt, IInv, LockOK
<1>4. After(i, Len(order)) \in 1 .. Len(order)
  BY BaseNull DEF After
<1>5. node[cursor].next = order[After(i, Len(order))]
  BY <1>3, RingOKRing, Zenon DEF IInv, Ring
<1> QED BY <1>1, <1>2, <1>3, <1>4, <1>5

\* Unregistering the container found keeps the invariant: the rest of the list
\* is a ring, or the list is given up with its head.
LEMMA FoundStep ==
  ASSUME IInv, NEW p \in Policy, unregister_found(p)
  PROVE  IInv'
<1>1. /\ lock = p /\ node' = Join(cursor) /\ live' = live \ {cursor}
      /\ oq_policy_base' = IF cursor = oq_policy_base THEN NULL ELSE oq_policy_base
      /\ lock' = "none" /\ cursor' = NULL /\ loaded' = loaded \ {p}
      /\ order' = IF cursor = oq_policy_base
                  THEN << >>
                  ELSE RemoveAt(order, CHOOSE i \in 1 .. Len(order) : order[i] = cursor)
      /\ tc' = tc /\ port' = port /\ oops' = oops
  BY Zenon DEF unregister_found
<1>2. tc.pc # "walk"
  BY <1>1, UnregisterPlace, Zenon
<1>3. PICK i \in 1 .. Len(order) : cursor = order[i] /\ cursor \in Addr
  BY <1>1, UnregisterPlace, Zenon
<1>4. /\ node \in [Addr -> Node] /\ live \in SUBSET Addr /\ Ring(order, node, live)
      /\ order \in Seq(Addr) /\ Len(order) \in Nat
      /\ \A j \in 1 .. Len(order) : order[j] \in Addr
  BY RingOKRing, BaseNull, Zenon DEF IInv, TypeOK
<1>5. node[cursor].next \in Addr /\ node[cursor].prev \in Addr
  <2> DEFINE n == Len(order)
             k == IF i = 1 THEN n ELSE i - 1
  <2>1. After(i, n) \in 1 .. n /\ k \in 1 .. n /\ After(k, n) = i
    BY <1>4 DEF After
  <2>2. node[order[i]].next = order[After(i, n)]
    BY <1>4, Zenon DEF Ring
  <2>3. node[order[After(k, n)]].prev = order[k]
    BY <1>4, <2>1, Zenon DEF Ring
  <2> QED BY <1>3, <1>4, <2>1, <2>2, <2>3
<1>6. Joined(node', node, cursor)
  BY <1>1, <1>3, <1>4, <1>5, JoinFacts
<1>7. /\ order' \in Seq(Addr) /\ RingOK'
      /\ \A j \in 1 .. Len(order') : \E k \in 1 .. Len(order) : order'[j] = order[k]
  <2>1. CASE cursor = oq_policy_base
    <3>1. order' = << >> /\ oq_policy_base' = NULL
      BY <1>1, <2>1, Zenon
    <3> QED BY <3>1 DEF RingOK, IsInjective
  <2>2. CASE cursor # oq_policy_base
    <3>1. i \in 2 .. Len(order) /\ oq_policy_base = order[1]
      BY <1>3, <1>4, <2>2, BaseNull
    <3>2. (CHOOSE j \in 1 .. Len(order) : order[j] = cursor) = i
      BY <1>3, <1>4 DEF Ring, IsInjective
    <3>3. order' = RemoveAt(order, i) /\ oq_policy_base' = order[1]
      BY <1>1, <2>2, <3>1, <3>2, Zenon
    <3>4. Ring(RemoveAt(order, i), node', live \ {order[i]}) /\ RemoveAt(order, i)[1] = order[1]
      BY <1>3, <1>4, <1>6, <3>1, RemoveRing, Zenon
    <3>5. /\ RemoveAt(order, i) \in Seq(Addr) /\ Len(RemoveAt(order, i)) = Len(order) - 1
          /\ \A j \in 1 .. Len(order) - 1 :
               RemoveAt(order, i)[j] = IF j < i THEN order[j] ELSE order[j + 1]
      BY <1>4, RemoveAtFacts, Zenon
    <3>6. Ring(order', node', live') /\ order'[1] = order[1]
      BY <1>1, <1>3, <3>3, <3>4
    <3>7. order' \in Seq(Addr) /\ Len(order') = Len(order) - 1 /\ Len(order') # 0
      BY <1>4, <3>1, <3>3, <3>5
    <3>8. RingOK'
      BY <3>3, <3>6, <3>7 DEF RingOK, Ring, After
    <3>9. ASSUME NEW j \in 1 .. Len(order') PROVE \E k \in 1 .. Len(order) : order'[j] = order[k]
      <4>1. j \in 1 .. Len(order) /\ j + 1 \in 1 .. Len(order)
        BY <1>4, <3>7
      <4>2. order'[j] = IF j < i THEN order[j] ELSE order[j + 1]
        BY <3>3, <3>5, <3>7, Zenon
      <4> QED BY <4>1, <4>2, Zenon
    <3> QED BY <3>7, <3>8, <3>9, Zenon
  <2> QED BY <2>1, <2>2, Zenon
<1>8. TypeOK'
  BY <1>1, <1>6, <1>7, Zenon DEF IInv, TypeOK, Joined
<1>9. LockOK' /\ WalkOK'
  <2>1. ASSUME NEW j \in 1 .. Len(order') PROVE node'[order'[j]].fn \in Policy
    <3>1. PICK k \in 1 .. Len(order) : order'[j] = order[k]
      BY <1>7, Zenon
    <3>2. order[k] \in Addr /\ node[order[k]].fn \in Policy
      BY <1>4, Zenon DEF IInv, LockOK
    <3> QED BY <1>6, <3>1, <3>2, Zenon DEF Joined
  <2> QED BY <1>1, <1>2, <2>1, RegistryAssumption DEF LockOK, WalkOK
<1> QED BY <1>7, <1>8, <1>9, Zenon DEF IInv

\* The walk of an unregistering policy goes on, or gives the lock back.
LEMMA UnregisterNextStep ==
  ASSUME IInv, NEW p \in Policy, unregister_next(p)
  PROVE  IInv'
<1> DEFINE n == Len(order)
<1>1. /\ lock = p /\ node[cursor].fn # p
      /\ UNCHANGED <<oq_policy_base, node, live, tc, port, oops, order>>
  BY Zenon DEF unregister_next
<1>2. tc.pc # "walk"
  BY <1>1, UnregisterPlace, Zenon
<1>3. PICK i \in 1 .. n :
        /\ UnregisterAt(i) /\ cursor = order[i]
        /\ After(i, n) \in 1 .. n /\ node[cursor].next = order[After(i, n)]
  BY <1>1, UnregisterPlace, Zenon
<1>4. RingOK' /\ (\A j \in 1 .. Len(order) : node[order[j]].fn \in Policy)'
  BY <1>1, SameList, Zenon
<1>5. CASE node[cursor].next = oq_policy_base
  <2>1. lock' = "none" /\ cursor' = NULL /\ loaded' = loaded \ {p}
    BY <1>5, Zenon DEF unregister_next
  <2>2. TypeOK'
    BY <1>1, <2>1, Zenon DEF IInv, TypeOK
  <2>3. LockOK' /\ WalkOK'
    BY <1>1, <1>2, <1>4, <2>1, RegistryAssumption DEF LockOK, WalkOK
  <2> QED BY <1>4, <2>2, <2>3, Zenon DEF IInv
<1>6. CASE node[cursor].next # oq_policy_base
  <2>1. cursor' = node[cursor].next /\ lock' = lock /\ loaded' = loaded
    BY <1>6, Zenon DEF unregister_next
  <2>2. i # n /\ After(i, n) = i + 1 /\ i + 1 \in 1 .. n /\ n \in Nat
    BY <1>3, <1>6, BaseNull DEF After
  <2>3. cursor' = order[i + 1] /\ cursor' \in Addr
    BY <1>3, <2>1, <2>2, BaseNull, Zenon
  <2>4. TypeOK'
    BY <1>1, <2>1, <2>3, Zenon DEF IInv, TypeOK
  <2>5. UnregisterAt(i + 1)'
    <3>1. \A j \in 1 .. (i + 1) - 1 : node[order[j]].fn # lock
      BY <1>1, <1>3, <2>2 DEF UnregisterAt
    <3> QED BY <1>1, <2>1, <2>3, <3>1, Zenon DEF UnregisterAt
  <2>6. LockOK' /\ WalkOK'
    BY <1>1, <1>2, <1>4, <2>1, <2>2, <2>5 DEF IInv, LockOK, WalkOK
  <2> QED BY <1>4, <2>4, <2>6 DEF IInv
<1> QED BY <1>5, <1>6, Zenon

\* A lookup starts at the first container.
LEMMA LookupStart ==
  ASSUME IInv, NEW nm \in Name, oq_init(nm)
  PROVE  IInv'
<1>1. /\ lock = "none" /\ tc.pc = "idle"
      /\ UNCHANGED <<oq_policy_base, node, live, cursor, loaded, port, order>>
  BY Zenon DEF oq_init
<1>2. CASE oq_policy_base = NULL
  <2>1. oops' = oops \cup {"empty_list"} /\ lock' = lock /\ tc' = tc
    BY <1>2, Zenon DEF oq_init
  <2>2. TypeOK'
    BY <1>1, <2>1, Zenon DEF IInv, TypeOK, Fault
  <2> QED BY <1>1, <2>1, <2>2, QuietStep, Zenon
<1>3. CASE oq_policy_base # NULL
  <2>1. /\ oops' = oops /\ lock' = "tc"
        /\ tc' = [pc |-> "walk", name |-> nm, cursor |-> oq_policy_base, fn |-> NULL]
    BY <1>3, Zenon DEF oq_init
  <2>2. oq_policy_base = order[1] /\ 1 \in 1 .. Len(order) /\ oq_policy_base \in Addr
    BY <1>3, BaseNull, Zenon
  <2>3. tc' \in Walking /\ tc'.pc = "walk" /\ tc'.cursor = order[1]
    BY <2>1, <2>2, Zenon DEF Walking
  <2>4. TypeOK'
    BY <1>1, <2>1, <2>3, Zenon DEF IInv, TypeOK
  <2>5. RingOK' /\ (\A i \in 1 .. Len(order) : node[order[i]].fn \in Policy)'
    BY <1>1, SameList, Zenon
  <2>6. LookupAt(1)'
    BY <1>1, <2>2, <2>3 DEF LookupAt
  <2>7. LockOK' /\ WalkOK'
    BY <1>1, <2>1, <2>2, <2>3, <2>5, <2>6, RegistryAssumption DEF LockOK, WalkOK
  <2> QED BY <2>4, <2>5, <2>7, Zenon DEF IInv
<1> QED BY <1>2, <1>3

\* The place of the lookup's walk.
LEMMA LookupPlace ==
  ASSUME IInv, tc.pc = "walk"
  PROVE  /\ lock = "tc" /\ lock \notin Policy
         /\ \E i \in 1 .. Len(order) :
              /\ LookupAt(i) /\ tc.cursor = order[i] /\ tc.cursor \in Addr
              /\ node[tc.cursor].fn \in Policy
              /\ After(i, Len(order)) \in 1 .. Len(order)
              /\ node[tc.cursor].next = order[After(i, Len(order))]
<1>1. lock = "tc" /\ lock \notin Policy
  BY RegistryAssumption, Zenon DEF IInv, LockOK
<1>2. PICK i \in 1 .. Len(order) : LookupAt(i)
  BY Zenon DEF IInv, WalkOK
<1>3. tc.cursor = order[i] /\ tc.cursor \in Addr /\ node[tc.cursor].fn \in Policy
  BY <1>2, BaseNull DEF LookupAt, IInv, LockOK
<1>4. After(i, Len(order)) \in 1 .. Len(order)
  BY BaseNull DEF After
<1>5. node[tc.cursor].next = order[After(i, Len(order))]
  BY <1>3, RingOKRing, Zenon DEF IInv, Ring
<1> QED BY <1>1, <1>2, <1>3, <1>4, <1>5

\* The lookup has found its container and gives the lock back.
LEMMA LookupFoundStep ==
  ASSUME IInv, lookup_found
  PROVE  IInv'
<1>1. /\ tc.pc = "walk" /\ lock' = "none"
      /\ tc' = [tc EXCEPT !.pc = "call", !.cursor = NULL, !.fn = node[tc.cursor].fn]
      /\ UNCHANGED <<oq_policy_base, node, live, cursor, loaded, port, oops, order>>
  BY Zenon DEF lookup_found
<1>2. node[tc.cursor].fn \in Policy
  BY <1>1, LookupPlace, Zenon
<1>3. tc' \in Calling /\ tc'.pc = "call"
  <2>1. /\ tc = [pc |-> "walk", name |-> tc.name, cursor |-> tc.cursor, fn |-> NULL]
        /\ tc.name \in Name
    BY <1>1, TcStates, Zenon DEF IInv
  <2>2. tc' = [pc |-> "call", name |-> tc.name, cursor |-> NULL, fn |-> node[tc.cursor].fn]
    BY <1>1, <2>1, Zenon
  <2> QED BY <1>2, <2>1, <2>2, Zenon DEF Calling
<1>4. TypeOK'
  BY <1>1, <1>3, Zenon DEF IInv, TypeOK
<1>5. RingOK' /\ (\A i \in 1 .. Len(order) : node[order[i]].fn \in Policy)'
  BY <1>1, SameList, Zenon
<1>6. LockOK' /\ WalkOK'
  BY <1>1, <1>3, <1>5, RegistryAssumption DEF LockOK, WalkOK
<1> QED BY <1>4, <1>5, <1>6, Zenon DEF IInv

\* The lookup goes on, or gives up at the end of the list.
LEMMA LookupNextStep ==
  ASSUME IInv, lookup_next
  PROVE  IInv'
<1> DEFINE n == Len(order)
<1>1. /\ tc.pc = "walk" /\ ~Matches(tc.cursor, tc.name)
      /\ UNCHANGED <<oq_policy_base, node, live, cursor, loaded, port, oops, order>>
  BY Zenon DEF lookup_next
<1>2. lock = "tc" /\ lock \notin Policy
  BY <1>1, LookupPlace, Zenon
<1>3. PICK i \in 1 .. n :
        /\ LookupAt(i) /\ tc.cursor = order[i]
        /\ After(i, n) \in 1 .. n /\ node[tc.cursor].next = order[After(i, n)]
  BY <1>1, LookupPlace, Zenon
<1>4. RingOK' /\ (\A j \in 1 .. Len(order) : node[order[j]].fn \in Policy)'
  BY <1>1, SameList
<1>5. CASE node[tc.cursor].next = oq_policy_base
  <2>1. tc' = Idle /\ lock' = "none" /\ Idle.pc = "idle"
    BY <1>5, TcStates, Zenon DEF lookup_next, IInv
  <2>2. TypeOK'
    BY <1>1, <2>1, Zenon DEF IInv, TypeOK
  <2>3. LockOK' /\ WalkOK'
    BY <1>4, <2>1, RegistryAssumption DEF LockOK, WalkOK
  <2> QED BY <1>4, <2>2, <2>3 DEF IInv
<1>6. CASE node[tc.cursor].next # oq_policy_base
  <2>1. tc' = [tc EXCEPT !.cursor = node[@].next] /\ lock' = lock
    BY <1>6, Zenon DEF lookup_next
  <2>2. i # n /\ After(i, n) = i + 1 /\ i + 1 \in 1 .. n /\ n \in Nat
    BY <1>3, <1>6, BaseNull DEF After
  <2>3. /\ tc = [pc |-> "walk", name |-> tc.name, cursor |-> tc.cursor, fn |-> NULL]
        /\ tc.name \in Name
    BY <1>1, TcStates, Zenon DEF IInv
  <2>4. order[i + 1] \in Addr /\ node[tc.cursor].next = order[i + 1]
    BY <1>3, <2>2, BaseNull, Zenon
  <2>5. tc' = [pc |-> "walk", name |-> tc.name, cursor |-> order[i + 1], fn |-> NULL]
    BY <2>1, <2>3, <2>4
  <2>6. /\ tc' \in Walking /\ tc'.pc = "walk"
        /\ tc'.name = tc.name /\ tc'.cursor = order[i + 1]
    BY <2>3, <2>4, <2>5 DEF Walking
  <2>7. TypeOK'
    BY <1>1, <2>1, <2>6 DEF IInv, TypeOK
  <2>8. LookupAt(i + 1)'
    <3>1. \A j \in 1 .. (i + 1) - 1 : ~Matches(order[j], tc.name)
      BY <1>1, <1>3, <2>2 DEF LookupAt
    <3> QED BY <1>1, <2>6, <3>1, Zenon DEF LookupAt, Matches
  <2>9. LockOK' /\ WalkOK'
    BY <1>1, <1>2, <1>4, <2>1, <2>2, <2>6, <2>8 DEF LockOK, WalkOK
  <2> QED BY <1>4, <2>7, <2>9 DEF IInv
<1> QED BY <1>5, <1>6

\* Every step keeps the invariant.
LEMMA NextIInv == IInv /\ [Next]_vars => IInv'
<1> SUFFICES ASSUME IInv, [Next]_vars PROVE IInv'
  OBVIOUS
<1>1. ASSUME NEW p \in Policy, oq_register_policy_enomem(p) PROVE IInv'
  <2>1. TypeOK'
    BY <1>1, Zenon DEF oq_register_policy_enomem, IInv, TypeOK, Fault
  <2> QED BY <1>1, <2>1, QuietStep, Zenon DEF oq_register_policy_enomem
<1>2. ASSUME NEW p \in Policy, oqp_exit(p) PROVE IInv'
  <2>1. TypeOK'
    BY <1>2, Zenon DEF oqp_exit, IInv, TypeOK
  <2> QED BY <1>2, <2>1, QuietStep DEF oqp_exit
<1>3. CASE call_init_port
  <2>1. /\ tc.pc = "call" /\ tc' = Idle /\ Idle.pc = "idle" /\ tc.fn \in Policy
        /\ UNCHANGED <<oq_policy_base, node, live, lock, cursor, loaded, order>>
    BY <1>3, TcStates, Zenon DEF call_init_port, IInv
  <2>2. \/ port' = {tc.fn} /\ oops' = oops
        \/ port' = port /\ oops' = oops
        \/ oops' = oops \cup {"unloaded_code"} /\ port' = port
    BY <1>3, Zenon DEF call_init_port
  <2>3. TypeOK'
    BY <2>1, <2>2, Zenon DEF IInv, TypeOK, Fault
  <2> QED BY <2>1, <2>3, QuietStep
<1>4. CASE UNCHANGED vars
  <2>1. TypeOK'
    BY <1>4, Zenon DEF vars, IInv, TypeOK
  <2> QED BY <1>4, <2>1, QuietStep, Zenon DEF vars
<1>5. CASE Lookup
  BY <1>5, LookupFoundStep, LookupNextStep, Zenon DEF Lookup
<1>6. ASSUME NEW p \in Policy, Unregister(p) PROVE IInv'
  BY <1>6, FoundStep, UnregisterNextStep, Zenon DEF Unregister
<1> QED
  BY <1>1, <1>2, <1>3, <1>4, <1>5, <1>6, RegisterStep, UnregisterStep, LookupStart DEF Next

-----------------------------------------------------------------------------

\* The registry's state has its types.
THEOREM RegistryTypes == Spec => []TypeOK
<1>1. IInv => TypeOK
  BY Zenon DEF IInv
<1> QED BY <1>1, InitIInv, NextIInv, PTL DEF Spec

\* Whatever policies come and go, the containers reachable from oq_policy_base
\* form one ring, linked both ways, of containers that are not freed.
THEOREM RegistryRing == Spec => []RingOK
<1>1. IInv => RingOK
  BY DEF IInv
<1> QED BY <1>1, InitIInv, NextIInv, PTL DEF Spec

\* The lookup of oq_init and the loop of oq_unregister_policy stand on a
\* container of the list and have passed only containers that do not match.
THEOREM RegistryWalk == Spec => []WalkOK
<1>1. IInv => WalkOK
  BY Zenon DEF IInv
<1> QED BY <1>1, InitIInv, NextIInv, PTL DEF Spec

\* A lookup that ends without a function has compared every container: the last
\* one is the one whose successor is the first.
LEMMA GivesUpStep ==
  ASSUME IInv, [Next]_vars, tc.pc = "walk", tc'.pc = "idle"
  PROVE  \A i \in 1 .. Len(order) : ~Matches(order[i], tc.name)
<1> DEFINE n == Len(order)
<1>1. PICK i \in 1 .. n :
        /\ LookupAt(i) /\ tc.cursor = order[i]
        /\ After(i, n) \in 1 .. n /\ node[tc.cursor].next = order[After(i, n)]
  BY LookupPlace, Zenon
<1>2. tc' # tc
  OBVIOUS
<1>3. lookup_next
  <2>1. ~lookup_found
    <3> SUFFICES ASSUME lookup_found PROVE FALSE
      OBVIOUS
    <3>1. tc = [pc |-> "walk", name |-> tc.name, cursor |-> tc.cursor, fn |-> NULL]
      BY TcStates, Zenon DEF IInv
    <3>2. tc' = [tc EXCEPT !.pc = "call", !.cursor = NULL, !.fn = node[tc.cursor].fn]
      BY Zenon DEF lookup_found
    <3>3. tc'.pc = "call"
      BY <3>1, <3>2, Zenon
    <3> QED BY <3>3, Zenon
  <2>2. Lookup
    BY <1>2, Zenon DEF Next, vars, oq_register_policy, oq_register_policy_enomem, oqp_exit,
                oq_unregister_policy, Unregister, unregister_found, unregister_next,
                oq_init, call_init_port
  <2> QED BY <2>1, <2>2, Zenon DEF Lookup
<1>4. ~Matches(tc.cursor, tc.name)
  BY <1>3, Zenon DEF lookup_next
<1>5. node[tc.cursor].next = oq_policy_base
  <2> SUFFICES ASSUME node[tc.cursor].next # oq_policy_base PROVE FALSE
    OBVIOUS
  <2>1. tc' = [tc EXCEPT !.cursor = node[@].next]
    BY <1>3, Zenon DEF lookup_next
  <2>2. tc = [pc |-> "walk", name |-> tc.name, cursor |-> tc.cursor, fn |-> NULL]
    BY TcStates, Zenon DEF IInv
  <2>3. tc'.pc = "walk"
    BY <2>1, <2>2, Zenon
  <2> QED BY <2>3, Zenon
<1>6. After(i, n) = 1
  <2>1. n \in Nat /\ 1 \in 1 .. n /\ oq_policy_base = order[1]
    BY <1>1, BaseNull
  <2>2. \A j, k \in 1 .. n : order[j] = order[k] => j = k
    <3>1. DOMAIN order = 1 .. n
      BY BaseNull
    <3> QED BY <3>1, Zenon DEF IInv, RingOK, IsInjective
  <2> QED BY <1>1, <1>5, <2>1, <2>2, Zenon
<1>7. i = n /\ n \in Nat
  BY <1>6, BaseNull DEF After
<1> QED BY <1>1, <1>4, <1>7 DEF LookupAt

\* oq_init returns -EINVAL only if no registered policy has the name.
THEOREM LookupComplete == Spec => FailsOnlyIfAbsent
<1>1. IInv /\ [Next]_vars =>
        [tc.pc = "walk" /\ tc'.pc = "idle" =>
           \A i \in 1 .. Len(order) : ~Matches(order[i], tc.name)]_vars
  BY GivesUpStep, Zenon
<1> QED BY <1>1, InitIInv, NextIInv, PTL DEF Spec, FailsOnlyIfAbsent

=============================================================================
