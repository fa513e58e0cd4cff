--------------------------- MODULE OpenQueueLemmas ---------------------------
(***************************************************************************)
(* What the tree operations of module OpenQueue do to the packets a tree   *)
(* holds.  Everything is said through Holds and Once, so that the proofs   *)
(* about the qdisc need not look inside the lists.                         *)
(***************************************************************************)
EXTENDS OpenQueue, SequenceTheorems, FiniteSetTheorems, WellFoundedInduction,
        TLAPS

\* A bounded set of keys that is not empty has a largest element, which is
\* what btree_last returns.
LEMMA MaxKey ==
  ASSUME NEW S \in SUBSET Key, S # {}
  PROVE  /\ Max(S) \in S
         /\ \A k \in S : k <= Max(S)
<1> DEFINE R == OpToRel(<, Nat)
           T == {n \in Nat : ULONG_MAX - n \in S}
<1> HIDE DEF R
<1>1. T \subseteq Nat
  OBVIOUS
<1>2. T # {}
  <2>1. PICK k \in S : TRUE
    OBVIOUS
  <2>2. ULONG_MAX - k \in Nat /\ ULONG_MAX - (ULONG_MAX - k) = k
    BY ConstantsAssumption DEF Key
  <2> QED BY <2>1, <2>2, Zenon
<1>a. PICK x \in T : \A y \in T : ~(<<y, x>> \in R)
  <2> HIDE DEF T
  <2>1. IsWellFoundedOn(R, Nat)
    BY NatLessThanWellFounded, Zenon DEF R
  <2> QED BY <1>1, <1>2, <2>1, WFMin, Zenon
<1>3. \A y \in T : x <= y
  <2> SUFFICES ASSUME NEW y \in T PROVE x <= y
    OBVIOUS
  <2>1. ASSUME y < x PROVE <<y, x>> \in R
    BY <2>1, Zenon DEF R, OpToRel
  <2> QED BY <1>a, <2>1
<1>4. PICK m \in S : x = ULONG_MAX - m
  BY ConstantsAssumption DEF Key
<1>5. \A k \in S : k <= m
  <2> TAKE k \in S
  <2>1. ULONG_MAX - k \in T
    BY ConstantsAssumption DEF Key
  <2>2. x <= ULONG_MAX - k
    BY <1>3, <2>1, Zenon
  <2> QED BY <1>4, <2>2, ConstantsAssumption DEF Key
<1> QED
  <2>1. \E z \in S : \A y \in S : z >= y
    BY <1>5, ConstantsAssumption, Zenon DEF Key
  <2> DEFINE z == CHOOSE w \in S : \A y \in S : w >= y
  <2>2. z \in S /\ \A y \in S : z >= y
    BY <2>1, Zenon
  <2>3. Max(S) = z
    BY Zenon DEF Max
  <2> HIDE DEF z
  <2> QED BY <2>2, <2>3, ConstantsAssumption, Zenon DEF Key

\* s1 is s without its element number i.
Minus(s, i, s1) ==
  /\ Len(s1) = Len(s) - 1
  /\ \A j \in 1 .. Len(s1) : s1[j] = IF j < i THEN s[j] ELSE s[j + 1]

\* Unlinking the head of a list removes its first element.
LEMMA TailMinus ==
  ASSUME NEW S, NEW s \in Seq(S), s # << >>
  PROVE  Tail(s) \in Seq(S) /\ Minus(s, 1, Tail(s))
BY HeadTailProperties, EmptySeq DEF Minus

\* Unlinking a container the walk found removes that element.
LEMMA WithoutMinus ==
  ASSUME NEW S, NEW s \in Seq(S), NEW i \in 1 .. Len(s)
  PROVE  Without(s, i) \in Seq(S) /\ Minus(s, i, Without(s, i))
<1> DEFINE a == SubSeq(s, 1, i - 1)
           b == SubSeq(s, i + 1, Len(s))
<1>0. Len(s) \in Nat /\ \A j \in 1 .. Len(s) : s[j] \in S
  BY LenProperties, ElementOfSeq, Zenon
<1>1. /\ a \in Seq(S) /\ Len(a) = i - 1
      /\ \A j \in 1 .. i - 1 : a[j] = s[j]
  BY <1>0, SubSeqProperties
<1>2. /\ b \in Seq(S) /\ Len(b) = Len(s) - i
      /\ \A j \in 1 .. Len(s) - i : b[j] = s[i + j]
  <2>1. \A j \in i + 1 .. Len(s) : s[j] \in S
    BY <1>0
  <2>2. /\ b \in Seq(S)
        /\ Len(b) = IF i + 1 <= Len(s) THEN Len(s) - (i + 1) + 1 ELSE 0
        /\ \A j \in 1 .. Len(s) - (i + 1) + 1 : b[j] = s[i + 1 + j - 1]
    <3> HIDE DEF b
    <3> QED BY <1>0, <2>1, SubSeqProperties DEF b
  <2> HIDE DEF b
  <2> QED BY <1>0, <2>2
<1> HIDE DEF a, b
<1>3. /\ a \o b \in Seq(S)
      /\ Len(a \o b) = Len(a) + Len(b)
      /\ \A j \in 1 .. Len(a) + Len(b) :
           (a \o b)[j] = IF j <= Len(a) THEN a[j] ELSE b[j - Len(a)]
  BY <1>1, <1>2, ConcatProperties, Zenon
<1>4. Without(s, i) = a \o b
  BY Zenon DEF Without, a, b
<1>5. Len(a) + Len(b) = Len(s) - 1
  BY <1>0, <1>1, <1>2
<1>6. ASSUME NEW j \in 1 .. Len(s) - 1
      PROVE  (a \o b)[j] = IF j < i THEN s[j] ELSE s[j + 1]
  <2>1. CASE j < i
    BY <1>0, <1>1, <1>3, <1>5, <2>1
  <2>2. CASE ~(j < i)
    <3>1. (a \o b)[j] = b[j - (i - 1)]
      BY <1>0, <1>1, <1>3, <1>5, <2>2
    <3>2. j - (i - 1) \in 1 .. Len(s) - i /\ i + (j - (i - 1)) = j + 1
      BY <1>0, <2>2
    <3>3. b[j - (i - 1)] = s[i + (j - (i - 1))]
      BY <1>2, <3>2, Zenon
    <3> QED BY <2>2, <3>1, <3>2, <3>3, Zenon
  <2> QED BY <2>1, <2>2, Zenon
<1> QED BY <1>3, <1>4, <1>5, <1>6, Zenon DEF Minus

\* The element of a list is a container.
LEMMA ListElements ==
  ASSUME NEW T \in Tree, NEW k \in Key
  PROVE  /\ T[k] \in Seq(Container)
         /\ Len(T[k]) \in Nat
         /\ \A i \in 1 .. Len(T[k]) :
              /\ T[k][i] \in Container
              /\ T[k][i].skb \in Skb
              /\ T[k][i].other_key \in Key
              /\ T[k][i] = [skb |-> T[k][i].skb, other_key |-> T[k][i].other_key]
<1>1. T[k] \in Seq(Container)
  BY Zenon DEF Tree
<1>2. Len(T[k]) \in Nat /\ \A i \in 1 .. Len(T[k]) : T[k][i] \in Container
  BY <1>1, LenProperties, ElementOfSeq, Zenon
<1> QED BY <1>1, <1>2, Zenon DEF Container

\* A packet is in a tree when some list holds a container of it.
LEMMA StoredHolds ==
  ASSUME NEW T \in Tree
  PROVE  /\ Stored(T) \subseteq Skb
         /\ \A p \in Skb : p \in Stored(T) <=> \E k, o \in Key : Holds(T, p, k, o)
<1>1. ASSUME NEW p \in Skb, NEW k \in Key, NEW i \in 1 .. Len(T[k]),
             T[k][i].skb = p
      PROVE  \E o \in Key : Holds(T, p, k, o)
  BY <1>1, ListElements, Zenon DEF Holds
<1>2. ASSUME NEW p \in Skb, NEW k \in Key, NEW o \in Key, Holds(T, p, k, o)
      PROVE  \E i \in 1 .. Len(T[k]) : T[k][i].skb = p
  BY <1>2 DEF Holds
<1> QED BY <1>1, <1>2, Zenon DEF Stored

\* Two places of a tree that hold the same packet are the same place.
LEMMA SamePlace ==
  ASSUME NEW T, Once(T), NEW k \in Key, NEW l \in Key,
         NEW i \in 1 .. Len(T[k]), NEW j \in 1 .. Len(T[l]),
         T[k][i].skb = T[l][j].skb
  PROVE  k = l /\ i = j
BY Zenon DEF Once

\* In a tree that files a packet once, its key and its twin key are unique.
LEMMA HoldsUnique ==
  ASSUME NEW T \in Tree, Once(T), NEW p \in Skb,
         NEW k \in Key, NEW o \in Key, NEW l \in Key, NEW m \in Key,
         Holds(T, p, k, o), Holds(T, p, l, m)
  PROVE  k = l /\ o = m
<1>1. PICK i \in 1 .. Len(T[k]) : T[k][i] = [skb |-> p, other_key |-> o]
  BY Zenon DEF Holds
<1>2. PICK j \in 1 .. Len(T[l]) : T[l][j] = [skb |-> p, other_key |-> m]
  BY Zenon DEF Holds
<1>3. T[k][i].skb = T[l][j].skb
  BY <1>1, <1>2
<1>4. k = l /\ i = j
  BY <1>3 DEF Once
<1> QED BY <1>1, <1>2, <1>4

\* T1 holds what T holds without packet v.
Removed(T, T1, v) ==
  \A p \in Skb, l, o \in Key :
    Holds(T1, p, l, o) <=> Holds(T, p, l, o) /\ p # v

\* T1 holds what T holds and packet v, under key k and twin key m.
Added(T, T1, v, k, m) ==
  \A p \in Skb, l, o \in Key :
    Holds(T1, p, l, o) <=> Holds(T, p, l, o) \/ (p = v /\ l = k /\ o = m)

\* Removing element i of list k removes its packet from the tree and nothing
\* else.
LEMMA RemoveFromTree ==
  ASSUME NEW T \in Tree, Once(T), NEW k \in Key, NEW i \in 1 .. Len(T[k]),
         NEW s1 \in Seq(Container), Minus(T[k], i, s1)
  PROVE  LET T1 == [T EXCEPT ![k] = s1]
         IN  /\ T1 \in Tree
             /\ Once(T1)
             /\ Removed(T, T1, T[k][i].skb)
             /\ \A f : Fifo(T, f) => Fifo(T1, f)
<1> DEFINE T1 == [T EXCEPT ![k] = s1]
           \* where an element of T1 was in T
           old(l, j) == IF l = k /\ j >= i THEN j + 1 ELSE j
<1>1. T1 \in Tree /\ T1[k] = s1 /\ \A l \in Key : l # k => T1[l] = T[l]
  BY Zenon DEF Tree
<1> HIDE DEF T1
<1>2. ASSUME NEW l \in Key
      PROVE  Len(T[l]) \in Nat /\ Len(T1[l]) \in Nat
  BY <1>1, ListElements, Zenon
<1>3. ASSUME NEW l \in Key, NEW j \in 1 .. Len(T1[l])
      PROVE  /\ old(l, j) \in 1 .. Len(T[l])
             /\ T1[l][j] = T[l][old(l, j)]
             /\ ~(l = k /\ old(l, j) = i)
  BY <1>1, <1>2 DEF Minus
<1>4. ASSUME NEW l \in Key, NEW j \in 1 .. Len(T[l]), ~(l = k /\ j = i)
      PROVE  \E h \in 1 .. Len(T1[l]) : T1[l][h] = T[l][j]
  <2>1. CASE l # k
    BY <1>1, <2>1, Zenon
  <2>2. CASE l = k /\ j < i
    <3>1. j \in 1 .. Len(T1[l]) /\ T1[l][j] = T[l][j]
      BY <1>1, <1>2, <2>2 DEF Minus
    <3> QED BY <3>1, Zenon
  <2>3. CASE l = k /\ j > i
    <3>1. j - 1 \in 1 .. Len(T1[l]) /\ T1[l][j - 1] = T[l][j]
      BY <1>1, <1>2, <2>3 DEF Minus
    <3> QED BY <3>1, Zenon
  <2> QED BY <1>4, <2>1, <2>2, <2>3
<1>5. Once(T1)
  <2> SUFFICES ASSUME NEW l \in Key, NEW m \in Key,
                      NEW a \in 1 .. Len(T1[l]), NEW b \in 1 .. Len(T1[m]),
                      T1[l][a].skb = T1[m][b].skb
               PROVE  l = m /\ a = b
    BY Zenon DEF Once
  <2>1. T[l][old(l, a)].skb = T[m][old(m, b)].skb
    BY <1>3, Zenon
  <2>2. l = m /\ old(l, a) = old(m, b)
    <3>1. old(l, a) \in 1 .. Len(T[l]) /\ old(m, b) \in 1 .. Len(T[m])
      BY <1>3, SMTT(30)
    <3> HIDE DEF old
    <3>2. PICK x \in 1 .. Len(T[l]), y \in 1 .. Len(T[m]) :
            x = old(l, a) /\ y = old(m, b)
      BY <3>1, Zenon
    <3>3. T[l][x].skb = T[m][y].skb
      BY <2>1, <3>2, Zenon
    <3>4. l = m /\ x = y
      BY ONLY SMTT(30), <3>3, SamePlace, Once(T), l \in Key, m \in Key,
              x \in 1 .. Len(T[l]), y \in 1 .. Len(T[m])
    <3> QED BY <3>2, <3>4, Zenon
  <2> QED BY <2>2, <1>2
<1>6. ASSUME NEW p \in Skb, NEW l \in Key, NEW o \in Key
      PROVE  Holds(T1, p, l, o) <=> Holds(T, p, l, o) /\ p # T[k][i].skb
  <2>1. ASSUME Holds(T1, p, l, o)
        PROVE  Holds(T, p, l, o) /\ p # T[k][i].skb
    <3>1. PICK j \in 1 .. Len(T1[l]) : T1[l][j] = [skb |-> p, other_key |-> o]
      BY <2>1, Zenon DEF Holds
    <3>2. T[l][old(l, j)] = [skb |-> p, other_key |-> o]
      BY <1>3, <3>1, Zenon
    <3>3. old(l, j) \in 1 .. Len(T[l]) /\ ~(l = k /\ old(l, j) = i)
      BY <1>3, Zenon
    <3> HIDE DEF old
    <3>4. T[l][old(l, j)].skb = p
      BY <3>2
    <3>5. p # T[k][i].skb
      BY <3>3, <3>4, Zenon DEF Once
    <3> QED BY <3>2, <3>3, <3>5, Zenon DEF Holds
  <2>2. ASSUME Holds(T, p, l, o), p # T[k][i].skb
        PROVE  Holds(T1, p, l, o)
    <3>1. PICK j \in 1 .. Len(T[l]) : T[l][j] = [skb |-> p, other_key |-> o]
      BY <2>2, Zenon DEF Holds
    <3>2. ~(l = k /\ j = i)
      BY <2>2, <3>1
    <3> QED BY <1>4, <3>1, <3>2, Zenon DEF Holds
  <2> QED BY <2>1, <2>2, Zenon
<1>7. ASSUME NEW f, Fifo(T, f)
      PROVE  Fifo(T1, f)
  <2> SUFFICES ASSUME NEW l \in Key, NEW a \in 1 .. Len(T1[l]),
                      NEW b \in 1 .. Len(T1[l]), a < b
               PROVE  f[T1[l][a].skb] < f[T1[l][b].skb]
    BY Zenon DEF Fifo
  <2>1. old(l, a) < old(l, b)
    BY <1>2
  <2>2. f[T[l][old(l, a)].skb] < f[T[l][old(l, b)].skb]
    <3> HIDE DEF old
    <3> QED BY <1>3, <1>7, <2>1, Zenon DEF Fifo
  <2> QED BY <1>3, <2>2, Zenon
<1>8. Removed(T, T1, T[k][i].skb)
  BY <1>6, Zenon DEF Removed
<1> QED BY <1>1, <1>5, <1>7, <1>8, Zenon DEF T1

\* Appending a packet that is not in the tree adds it and nothing else.
LEMMA AppendToTree ==
  ASSUME NEW T \in Tree, Once(T), NEW k \in Key, NEW o \in Key,
         NEW p \in Skb, p \notin Stored(T)
  PROVE  LET T1 == [T EXCEPT ![k] = Append(@, [skb |-> p, other_key |-> o])]
         IN  /\ T1 \in Tree
             /\ Once(T1)
             /\ Added(T, T1, p, k, o)
             /\ \A f, g :
                  /\ Fifo(T, f)
                  /\ \A x \in Stored(T) : g[x] = f[x] /\ f[x] < g[p]
                  => Fifo(T1, g)
<1> DEFINE c == [skb |-> p, other_key |-> o]
           T1 == [T EXCEPT ![k] = Append(@, c)]
<1>1. /\ T1 \in Tree
      /\ T1[k] = Append(T[k], c)
      /\ \A l \in Key : l # k => T1[l] = T[l]
  <2>1. c \in Container
    BY Zenon DEF Container
  <2> HIDE DEF c
  <2>2. Append(T[k], c) \in Seq(Container)
    BY <2>1 DEF Tree
  <2> QED BY <2>2, Zenon DEF Tree
<1>2. /\ Len(T[k]) \in Nat
      /\ Len(T1[k]) = Len(T[k]) + 1
      /\ T1[k][Len(T[k]) + 1] = c
      /\ \A j \in 1 .. Len(T[k]) : T1[k][j] = T[k][j]
  <2>1. T[k] \in Seq(Container) /\ c \in Container
    BY Zenon DEF Container, Tree
  <2> HIDE DEF T1, c
  <2> QED BY <1>1, <2>1, AppendProperties, ListElements
<1> HIDE DEF T1
<1>3. \A l \in Key, j \in Nat :
        j \in 1 .. Len(T1[l]) /\ ~(l = k /\ j = Len(T[k]) + 1)
          => j \in 1 .. Len(T[l]) /\ T1[l][j] = T[l][j] /\ T[l][j].skb \in Stored(T)
  <2> SUFFICES ASSUME NEW l \in Key, NEW j \in Nat, j \in 1 .. Len(T1[l]),
                      ~(l = k /\ j = Len(T[k]) + 1)
               PROVE  /\ j \in 1 .. Len(T[l])
                      /\ T1[l][j] = T[l][j]
                      /\ T[l][j].skb \in Stored(T)
    OBVIOUS
  <2>1. j \in 1 .. Len(T[l]) /\ T1[l][j] = T[l][j]
    <3>1. CASE l = k
      <4>1. j \in 1 .. Len(T[k])
        BY <1>2, <3>1
      <4> QED BY <1>2, <3>1, <4>1, Zenon
    <3>2. CASE l # k
      BY <1>1, <3>2, Zenon
    <3> QED BY <3>1, <3>2, Zenon
  <2> QED BY <2>1, ListElements, Zenon DEF Stored
<1>4. \A l \in Key : \A j \in 1 .. Len(T[l]) :
        j \in 1 .. Len(T1[l]) /\ T1[l][j] = T[l][j]
  <2>1. \A j \in 1 .. Len(T[k]) : j \in 1 .. Len(T1[k])
    BY <1>2
  <2> QED BY <1>1, <1>2, <2>1, Zenon
<1>n. \A l \in Key : Len(T1[l]) \in Nat
  BY <1>1, ListElements, Zenon
<1>5. Once(T1)
  <2> SUFFICES ASSUME NEW l \in Key, NEW m \in Key,
                      NEW a \in 1 .. Len(T1[l]), NEW b \in 1 .. Len(T1[m]),
                      T1[l][a].skb = T1[m][b].skb
               PROVE  l = m /\ a = b
    BY Zenon DEF Once
  <2> DEFINE new(x, j) == x = k /\ j = Len(T[k]) + 1
  <2>a. ~new(l, a) => /\ a \in 1 .. Len(T[l]) /\ T1[l][a] = T[l][a]
                      /\ T[l][a].skb \in Stored(T)
    BY <1>3, <1>n
  <2>b. ~new(m, b) => /\ b \in 1 .. Len(T[m]) /\ T1[m][b] = T[m][b]
                      /\ T[m][b].skb \in Stored(T)
    BY <1>3, <1>n
  <2>c. /\ new(l, a) => T1[l][a].skb = p
        /\ new(m, b) => T1[m][b].skb = p
    BY <1>2
  <2>1. CASE new(l, a) /\ new(m, b)
    BY <2>1, Zenon
  <2>2. CASE ~new(l, a) /\ ~new(m, b)
    <3>1. T[l][a].skb = T[m][b].skb
      BY <2>a, <2>b, <2>2, Zenon
    <3> QED BY <2>a, <2>b, <2>2, <3>1, SamePlace
  <2>3. CASE new(l, a) /\ ~new(m, b)
    BY <2>b, <2>c, <2>3, Zenon
  <2>4. CASE ~new(l, a) /\ new(m, b)
    BY <2>a, <2>c, <2>4, Zenon
  <2> QED BY <2>1, <2>2, <2>3, <2>4, Zenon
<1>6. ASSUME NEW x \in Skb, NEW l \in Key, NEW m \in Key
      PROVE  Holds(T1, x, l, m) <=>
               Holds(T, x, l, m) \/ (x = p /\ l = k /\ m = o)
  <2>1. ASSUME Holds(T, x, l, m) PROVE Holds(T1, x, l, m)
    BY <1>4, <2>1, Zenon DEF Holds
  <2>2. Holds(T1, p, k, o)
    <3>1. Len(T[k]) + 1 \in 1 .. Len(T1[k])
      BY <1>2
    <3> QED BY <1>2, <3>1, Zenon DEF Holds
  <2>3. ASSUME Holds(T1, x, l, m)
        PROVE  Holds(T, x, l, m) \/ (x = p /\ l = k /\ m = o)
    <3>1. PICK j \in 1 .. Len(T1[l]) : T1[l][j] = [skb |-> x, other_key |-> m]
      BY <2>3, Zenon DEF Holds
    <3>2. CASE l = k /\ j = Len(T[k]) + 1
      <4>1. [skb |-> x, other_key |-> m] = c
        BY <1>2, <3>1, <3>2, Zenon
      <4> QED BY <3>2, <4>1, Zenon
    <3>3. CASE ~(l = k /\ j = Len(T[k]) + 1)
      BY <1>3, <1>n, <3>1, <3>3 DEF Holds
    <3> QED BY <3>2, <3>3, Zenon
  <2> QED BY <2>1, <2>2, <2>3, Zenon
<1>7. ASSUME NEW f, NEW g, Fifo(T, f),
             \A x \in Stored(T) : g[x] = f[x] /\ f[x] < g[p]
      PROVE  Fifo(T1, g)
  <2> SUFFICES ASSUME NEW l \in Key, NEW a \in 1 .. Len(T1[l]),
                      NEW b \in 1 .. Len(T1[l]), a < b
               PROVE  g[T1[l][a].skb] < g[T1[l][b].skb]
    BY Zenon DEF Fifo
  <2>1. ~(l = k /\ a = Len(T[k]) + 1)
    BY <1>2, <1>n
  <2>2. /\ a \in 1 .. Len(T[l]) /\ T1[l][a] = T[l][a]
        /\ T[l][a].skb \in Stored(T)
    BY <1>3, <1>n, <2>1
  <2>3. CASE l = k /\ b = Len(T[k]) + 1
    <3>1. T1[l][b].skb = p
      BY <1>2, <2>3
    <3> QED BY <1>7, <2>2, <3>1, Zenon
  <2>4. CASE ~(l = k /\ b = Len(T[k]) + 1)
    <3>1. /\ b \in 1 .. Len(T[l]) /\ T1[l][b] = T[l][b]
          /\ T[l][b].skb \in Stored(T)
      BY <1>3, <1>n, <2>4
    <3>2. f[T[l][a].skb] < f[T[l][b].skb]
      BY <1>7, <2>2, <3>1, Zenon DEF Fifo
    <3> QED BY <1>7, <2>2, <3>1, <3>2, Zenon
  <2> QED BY <2>3, <2>4, Zenon
<1>8. Added(T, T1, p, k, o)
  BY <1>6, Zenon DEF Added
<1> QED BY <1>1, <1>5, <1>7, <1>8, Zenon DEF T1

\* The walk along a list finds a packet that is in it and nothing else.
LEMMA PositionFinds ==
  ASSUME NEW T \in Tree, Once(T), NEW k \in Key, NEW p \in Skb
  PROVE  LET n == Position(T[k], p)
         IN  \/ /\ n = 0
                /\ \A o \in Key : ~Holds(T, p, k, o)
             \/ /\ n \in 1 .. Len(T[k]) /\ n # 0
                /\ T[k][n].skb = p
<1> DEFINE I == {i \in 1 .. Len(T[k]) : T[k][i].skb = p}
<1>1. Position(T[k], p) = IF I # {} THEN Min(I) ELSE 0
  BY Zenon DEF Position
<1>2. CASE I = {}
  <2>1. \A o \in Key : ~Holds(T, p, k, o)
    BY <1>2 DEF Holds
  <2> QED BY <1>1, <1>2, <2>1, Zenon
<1>3. CASE I # {}
  <2>1. PICK i \in I : TRUE
    BY <1>3, Zenon
  <2>2. \A j \in I : j = i
    BY <2>1, SamePlace, Zenon
  <2>3. Len(T[k]) \in Nat
    BY ListElements, Zenon
  <2>4. Min(I) = i
    <3>1. \A j \in I : i =< j
      BY <2>1, <2>2, <2>3
    <3> HIDE DEF I
    <3>2. Min(I) = CHOOSE x \in I : \A y \in I : x =< y
      BY Zenon DEF Min
    <3>3. \E x \in I : \A y \in I : x =< y
      BY <2>1, <3>1, Zenon
    <3>4. (CHOOSE x \in I : \A y \in I : x =< y) \in I
      BY <3>3, Zenon
    <3> QED BY <2>2, <3>2, <3>4, Zenon
  <2>5. i \in 1 .. Len(T[k]) /\ i # 0 /\ T[k][i].skb = p
    BY <2>1, <2>3
  <2> HIDE DEF I
  <2>6. Position(T[k], p) = i
    BY <1>1, <1>3, <2>4, Zenon
  <2> QED BY <2>5, <2>6, Zenon
<1> QED BY <1>2, <1>3, Zenon

\* The head of the last list: nothing has a larger key, and nothing in its
\* list is older.
LEMMA LastHead ==
  ASSUME NEW T \in Tree, Occupied(T) # {}
  PROVE  LET key == btree_last(T)
             c == Head(T[key])
         IN  /\ key \in Key
             /\ T[key] # << >>
             /\ 1 \in 1 .. Len(T[key])
             /\ c = T[key][1]
             /\ c \in Container
             /\ Holds(T, c.skb, key, c.other_key)
             /\ \A p \in Skb, l, o \in Key : Holds(T, p, l, o) => l <= key
             /\ \A f \in [Skb -> Nat], p \in Skb, o \in Key :
                  Fifo(T, f) /\ Holds(T, p, key, o) => f[c.skb] <= f[p]
<1> DEFINE key == btree_last(T)
           c == Head(T[key])
<1>1. /\ key \in Occupied(T)
      /\ \A l \in Occupied(T) : l <= key
  <2>1. Occupied(T) \in SUBSET Key
    BY Zenon DEF Occupied
  <2> QED BY <2>1, MaxKey, Zenon DEF btree_last
<1>2. key \in Key /\ T[key] # << >>
  BY <1>1, Zenon DEF Occupied
<1> HIDE DEF key
<1>3. T[key] \in Seq(Container) /\ Len(T[key]) \in Nat /\ Len(T[key]) # 0
  BY <1>2, ListElements, EmptySeq, Zenon
<1>4. 1 \in 1 .. Len(T[key]) /\ c = T[key][1]
  BY <1>2, <1>3
<1> HIDE DEF c
<1>5. c \in Container /\ Holds(T, c.skb, key, c.other_key)
  BY <1>2, <1>4, ListElements, Zenon DEF Holds
<1>6. ASSUME NEW p \in Skb, NEW l \in Key, NEW o \in Key, Holds(T, p, l, o)
      PROVE  l <= key
  <2>1. PICK i \in 1 .. Len(T[l]) : T[l][i] = [skb |-> p, other_key |-> o]
    BY <1>6, Zenon DEF Holds
  <2>2. T[l] # << >>
    BY <2>1, EmptySeq
  <2> QED BY <1>1, <2>2, Zenon DEF Occupied
<1>7. ASSUME NEW f \in [Skb -> Nat], NEW p \in Skb, NEW o \in Key,
             Fifo(T, f), Holds(T, p, key, o)
      PROVE  f[c.skb] <= f[p]
  <2>1. PICK i \in 1 .. Len(T[key]) : T[key][i] = [skb |-> p, other_key |-> o]
    BY <1>7, Zenon DEF Holds
  <2>2. c.skb \in Skb /\ T[key][i].skb = p
    BY <1>5, <2>1 DEF Container
  <2>3. CASE i = 1
    BY <1>4, <2>2, <2>3
  <2>4. CASE 1 < i
    BY <1>2, <1>4, <1>7, <2>2, <2>4, SMTT(30) DEF Fifo
  <2> QED BY <1>3, <2>3, <2>4
<1> QED BY <1>2, <1>4, <1>5, <1>6, <1>7, Zenon DEF key, c

\* do_drop_tail and oq_dequeue take the head of the last list out of both
\* trees, and nothing else.  If the first tree is covered by the second, the
\* twin is found; if the second is covered by the first, a twin that is not
\* found is not in the tree at all.
LEMMA UnlinkTakes ==
  ASSUME NEW T \in Tree, NEW U \in Tree, Once(T), Once(U),
         Covered(T, U) \/ Covered(U, T), Occupied(T) # {}
  PROVE  LET u == Unlink(T, U)
         IN  /\ u.skb = Head(T[btree_last(T)]).skb
             /\ u.tree \in Tree /\ Once(u.tree)
             /\ u.twin \in Tree /\ Once(u.twin)
             /\ u.found \in BOOLEAN
             /\ Covered(T, U) => u.found
             /\ u.found <=> u.skb \in Stored(U)
             /\ ~u.found => u.twin = U
             /\ Removed(T, u.tree, u.skb)
             /\ Removed(U, u.twin, u.skb)
             /\ \A f : Fifo(T, f) => Fifo(u.tree, f)
             /\ \A f : Fifo(U, f) => Fifo(u.twin, f)
<1> DEFINE key == btree_last(T)
           c == Head(T[key])
           pos == Position(U[c.other_key], c.skb)
           u == Unlink(T, U)
<1>1. /\ key \in Key /\ T[key] # << >> /\ 1 \in 1 .. Len(T[key])
      /\ c = T[key][1] /\ c \in Container
      /\ Holds(T, c.skb, key, c.other_key)
  BY LastHead, Zenon
<1>2. /\ u.skb = c.skb
      /\ u.found = (pos # 0)
      /\ u.tree = [T EXCEPT ![key] = Tail(T[key])]
      /\ u.twin = IF pos = 0 THEN U
                  ELSE [U EXCEPT ![c.other_key] = Without(U[c.other_key], pos)]
  BY Zenon DEF Unlink
<1> HIDE DEF key, c, pos, u
<1>3. c.skb \in Skb /\ c.other_key \in Key
  BY <1>1, Zenon DEF Container
<1>4. /\ u.tree \in Tree /\ Once(u.tree)
      /\ Removed(T, u.tree, u.skb)
      /\ \A f : Fifo(T, f) => Fifo(u.tree, f)
  <2>1. T[key] \in Seq(Container)
    BY <1>1, ListElements, Zenon
  <2>2. Tail(T[key]) \in Seq(Container) /\ Minus(T[key], 1, Tail(T[key]))
    BY <1>1, <2>1, TailMinus, Zenon
  <2> DEFINE T1 == [T EXCEPT ![key] = Tail(T[key])]
  <2>3. /\ T1 \in Tree /\ Once(T1)
        /\ Removed(T, T1, T[key][1].skb)
        /\ \A f : Fifo(T, f) => Fifo(T1, f)
    BY ONLY <1>1, <2>2, RemoveFromTree, T \in Tree, Once(T), Zenon
  <2>4. u.tree = T1 /\ u.skb = T[key][1].skb
    BY <1>1, <1>2, Zenon
  <2> HIDE DEF T1
  <2> QED BY <2>3, <2>4, Zenon
<1>5. CASE pos # 0
  <2>1. pos \in 1 .. Len(U[c.other_key]) /\ U[c.other_key][pos].skb = c.skb
    BY <1>3, <1>5, PositionFinds, Zenon DEF pos
  <2>2. U[c.other_key] \in Seq(Container)
    BY <1>3, ListElements, Zenon
  <2>3. /\ Without(U[c.other_key], pos) \in Seq(Container)
        /\ Minus(U[c.other_key], pos, Without(U[c.other_key], pos))
    BY <2>1, <2>2, WithoutMinus, Zenon
  <2>4. /\ u.twin \in Tree /\ Once(u.twin)
        /\ Removed(U, u.twin, u.skb)
        /\ \A f : Fifo(U, f) => Fifo(u.twin, f)
    <3>0. PICK o1 \in Key : \E n \in 1 .. Len(U[o1]) : o1 = c.other_key /\ n = pos
      BY <1>3, <2>1, Zenon
    <3>1. PICK n \in 1 .. Len(U[o1]) : o1 = c.other_key /\ n = pos
      BY <3>0, Zenon
    <3> DEFINE s1 == Without(U[o1], n)
               U1 == [U EXCEPT ![o1] = s1]
    <3>2. s1 \in Seq(Container) /\ Minus(U[o1], n, s1)
      BY <2>3, <3>1, Zenon
    <3> HIDE DEF s1
    <3>3. /\ U1 \in Tree /\ Once(U1)
          /\ Removed(U, U1, U[o1][n].skb)
          /\ \A f : Fifo(U, f) => Fifo(U1, f)
      BY ONLY <3>2, RemoveFromTree, U \in Tree, Once(U), o1 \in Key,
              n \in 1 .. Len(U[o1]), Zenon
    <3>4. u.twin = U1 /\ u.skb = U[o1][n].skb
      BY <1>2, <1>5, <2>1, <3>1, Zenon DEF s1
    <3> HIDE DEF U1
    <3> QED BY <3>3, <3>4, Zenon
  <2>5. u.skb \in Stored(U)
    BY <1>2, <1>3, <2>1, SMTT(30) DEF Stored
  <2> QED BY <1>2, <1>4, <1>5, <2>4, <2>5, Zenon DEF u, c, key
<1>6. CASE pos = 0
  <2>1. \A o \in Key : ~Holds(U, c.skb, c.other_key, o)
    BY <1>3, <1>6, PositionFinds, Zenon DEF pos
  <2>2. ~Covered(T, U)
    BY <1>1, <1>3, <2>1, Zenon DEF Covered
  <2>3. ASSUME NEW l \in Key, NEW o \in Key, Holds(U, c.skb, l, o)
        PROVE  FALSE
    <3>1. Holds(T, c.skb, o, l)
      BY <1>3, <2>2, <2>3, Zenon DEF Covered
    <3>2. l = c.other_key
      BY <1>1, <1>3, <3>1, HoldsUnique, Zenon
    <3> QED BY <2>1, <2>3, <3>2, Zenon
  <2>4. u.twin = U
    BY <1>2, <1>6, Zenon
  <2>5. Removed(U, u.twin, u.skb)
    BY <1>2, <2>3, <2>4 DEF Removed
  <2>6. u.skb \notin Stored(U)
    BY <1>2, <1>3, <2>3, StoredHolds, Zenon
  <2> QED BY <1>2, <1>4, <1>6, <2>2, <2>4, <2>5, <2>6, Zenon DEF u, c, key
<1> QED BY <1>5, <1>6, SMTT(30)

-----------------------------------------------------------------------------
(* The same, for the two trees of a queue *)

\* The packets of a tree after one of them is unlinked.
LEMMA StoredMinus ==
  ASSUME NEW T \in Tree, NEW T1 \in Tree, NEW v,
         Removed(T, T1, v)
  PROVE  Stored(T1) = Stored(T) \ {v}
<1>1. ASSUME NEW p \in Skb
      PROVE  p \in Stored(T1) <=> p \in Stored(T) \ {v}
  BY StoredHolds, Zenon DEF Removed
<1>2. Stored(T1) \subseteq Skb /\ Stored(T) \subseteq Skb
  BY StoredHolds, Zenon
<1> QED BY <1>1, <1>2, Zenon

\* The packets of a tree after do_enqueue added one.
LEMMA StoredPlus ==
  ASSUME NEW T \in Tree, NEW T1 \in Tree,
         NEW v \in Skb, NEW k \in Key, NEW m \in Key,
         Added(T, T1, v, k, m)
  PROVE  Stored(T1) = Stored(T) \cup {v}
<1>1. ASSUME NEW p \in Skb
      PROVE  p \in Stored(T1) <=> p \in Stored(T) \cup {v}
  BY StoredHolds DEF Added
<1>2. Stored(T1) \subseteq Skb /\ Stored(T) \subseteq Skb
  BY StoredHolds, Zenon
<1> QED BY <1>1, <1>2, Zenon

\* A tree whose containers all have twins holds no packet the other lacks.
LEMMA StoredCovered ==
  ASSUME NEW T \in Tree, NEW U \in Tree, Covered(T, U)
  PROVE  Stored(T) \subseteq Stored(U)
BY StoredHolds, Zenon DEF Covered

\* A tree holds finitely many packets.
LEMMA StoredFinite ==
  ASSUME NEW T \in Tree
  PROVE  IsFiniteSet(Stored(T)) /\ Cardinality(Stored(T)) \in Nat
<1>1. Stored(T) \in SUBSET Skb
  BY StoredHolds, Zenon
<1>2. IsFiniteSet(Stored(T))
  BY <1>1, FS_Subset, ConstantsAssumption
<1> QED BY <1>2, FS_CardinalityType, Zenon

\* A tree fresh from btree_init meets every condition on trees.
LEMMA EmptyTreeFacts ==
  /\ EmptyTree \in Tree
  /\ Once(EmptyTree)
  /\ Stored(EmptyTree) = {}
  /\ \A T : Covered(EmptyTree, T)
  /\ \A f : Fifo(EmptyTree, f)
<1>1. EmptyTree \in Tree /\ \A k \in Key : EmptyTree[k] = << >>
  BY EmptySeq, Zenon DEF EmptyTree, Tree
<1>2. \A k \in Key : 1 .. Len(EmptyTree[k]) = {}
  BY <1>1, EmptySeq
<1> QED BY <1>1, <1>2, Zenon DEF Once, Stored, Covered, Fifo, Holds

\* What holds of each queue, whatever the reconfigurations did.
Well(Q) ==
  /\ Q \in QueueRec
  /\ Once(Q.admn)
  /\ Once(Q.proc)
  /\ Covered(Q.admn, Q.proc)

\* Q1 is queue Q with packet p, under admission key a and processing key b.
PutIn(Q, Q1, p, a, b) ==
  /\ Well(Q1)
  /\ Covered(Q.proc, Q.admn) => Covered(Q1.proc, Q1.admn)
  /\ Added(Q.admn, Q1.admn, p, a, b)
  /\ p \notin Stored(Q.admn)
  /\ Stored(Q1.admn) = Stored(Q.admn) \cup {p}
  /\ Stored(Q1.proc) = Stored(Q.proc) \cup {p}
  /\ \A f, g :
       /\ Fifo(Q.admn, f) /\ Fifo(Q.proc, f)
       /\ \A x \in Stored(Q.proc) : g[x] = f[x] /\ f[x] < g[p]
       => Fifo(Q1.admn, g) /\ Fifo(Q1.proc, g)

\* Q1 is queue Q without packet v.
TakenOut(Q, Q1, v) ==
  /\ Well(Q1)
  /\ Covered(Q.proc, Q.admn) => Covered(Q1.proc, Q1.admn)
  /\ Removed(Q.admn, Q1.admn, v)
  /\ v \in Stored(Q.proc)
  /\ Stored(Q1.admn) = Stored(Q.admn) \ {v}
  /\ Stored(Q1.proc) = Stored(Q.proc) \ {v}
  /\ \A f : Fifo(Q.admn, f) => Fifo(Q1.admn, f)
  /\ \A f : Fifo(Q.proc, f) => Fifo(Q1.proc, f)

\* do_enqueue files a new packet in both trees and counts it.
LEMMA Enqueued ==
  ASSUME NEW Q, Well(Q), NEW p \in Skb, p \notin Stored(Q.proc),
         NEW a \in Key, NEW b \in Key
  PROVE  LET Q1 == do_enqueue(Q, p, a, b)
         IN  /\ PutIn(Q, Q1, p, a, b)
             /\ Q1.len = Q.len + 1
             /\ Q1.total = Q.total + 1
             /\ Q1.dropped = Q.dropped
<1> DEFINE T == Q.admn
           U == Q.proc
           T1 == [T EXCEPT ![a] = Append(@, [skb |-> p, other_key |-> b])]
           U1 == [U EXCEPT ![b] = Append(@, [skb |-> p, other_key |-> a])]
           Q1 == do_enqueue(Q, p, a, b)
<1>1. /\ T \in Tree /\ U \in Tree /\ Once(T) /\ Once(U) /\ Covered(T, U)
      /\ Q \in QueueRec
  BY Zenon DEF Well, QueueRec
<1>2. Q1 = [Q EXCEPT !.admn = T1, !.proc = U1, !.len = @ + 1, !.total = @ + 1]
  BY <1>1, Zenon DEF do_enqueue, QueueRec
<1>3. p \notin Stored(T)
  BY <1>1, StoredCovered, Zenon
<1> HIDE DEF T, U
<1>4. /\ T1 \in Tree
      /\ Once(T1)
      /\ Added(T, T1, p, a, b)
      /\ \A f, g :
           /\ Fifo(T, f)
           /\ \A x \in Stored(T) : g[x] = f[x] /\ f[x] < g[p]
           => Fifo(T1, g)
  BY <1>1, <1>3, AppendToTree, Zenon
<1>5. /\ U1 \in Tree
      /\ Once(U1)
      /\ Added(U, U1, p, b, a)
      /\ \A f, g :
           /\ Fifo(U, f)
           /\ \A x \in Stored(U) : g[x] = f[x] /\ f[x] < g[p]
           => Fifo(U1, g)
  BY <1>1, AppendToTree, Zenon DEF U
<1> HIDE DEF T1, U1, Q1
<1>6. /\ Q1 \in QueueRec
      /\ Q1.admn = T1 /\ Q1.proc = U1
      /\ Q1.len = Q.len + 1
      /\ Q1.total = Q.total + 1
      /\ Q1.dropped = Q.dropped
  <2>1. T1 \in Tree /\ U1 \in Tree
    BY <1>4, <1>5, Zenon
  <2>2. Q \in QueueRec
    BY <1>1, Zenon
  <2>3. Q1 = [admn |-> T1, proc |-> U1, max_len |-> Q.max_len,
              len |-> Q.len + 1, dropped |-> Q.dropped, total |-> Q.total + 1]
    BY ONLY <1>2, <2>2, Zenon DEF QueueRec
  <2>4. /\ Q.max_len \in Int /\ Q.len + 1 \in Int
        /\ Q.dropped \in Nat /\ Q.total + 1 \in Nat
    BY ONLY <2>2 DEF QueueRec
  <2> QED BY ONLY <2>1, <2>3, <2>4, Zenon DEF QueueRec
<1>7. Covered(T1, U1) /\ (Covered(U, T) => Covered(U1, T1))
  BY <1>1, <1>4, <1>5 DEF Covered, Added
<1>8. Stored(T1) = Stored(T) \cup {p}
  BY <1>1, <1>4, StoredPlus, Zenon
<1>9. Stored(U1) = Stored(U) \cup {p}
  BY <1>1, <1>5, StoredPlus, Zenon
<1>10. ASSUME NEW f, NEW g, Fifo(T, f), Fifo(U, f),
              \A x \in Stored(U) : g[x] = f[x] /\ f[x] < g[p]
       PROVE  Fifo(T1, g) /\ Fifo(U1, g)
  <2>1. Stored(T) \subseteq Stored(U)
    BY <1>1, StoredCovered, Zenon
  <2> QED BY <1>4, <1>5, <1>10, <2>1, Zenon
<1>11. Well(Q1)
  BY <1>4, <1>5, <1>6, <1>7, SMTT(30) DEF Well
<1>12. PutIn(Q, Q1, p, a, b)
  BY <1>3, <1>4, <1>6, <1>7, <1>8, <1>9, <1>10, <1>11 DEF PutIn, T, U
<1> QED
  BY <1>6, <1>12, Zenon DEF Q1

\* The packet at the head of the last list is in the tree.
LEMMA LastStored ==
  ASSUME NEW T \in Tree, Occupied(T) # {}
  PROVE  /\ Head(T[btree_last(T)]).skb \in Skb
         /\ Head(T[btree_last(T)]).skb \in Stored(T)
<1> DEFINE key == btree_last(T)
           c == Head(T[key])
<1>1. key \in Key /\ c \in Container /\ Holds(T, c.skb, key, c.other_key)
  BY LastHead, Zenon
<1> HIDE DEF key, c
<1>2. c.skb \in Skb /\ c.other_key \in Key
  BY <1>1, Zenon DEF Container
<1>3. c.skb \in Stored(T)
  BY <1>1, <1>2, StoredHolds, Zenon
<1> QED BY <1>2, <1>3, Zenon DEF key, c

\* do_drop_tail takes its victim out of both trees, frees it and counts it;
\* it does not touch len.
LEMMA Dropped ==
  ASSUME NEW Q, Well(Q), Occupied(Q.admn) # {}
  PROVE  LET d == do_drop_tail(Q)
             v == Head(Q.admn[btree_last(Q.admn)]).skb
         IN  /\ TakenOut(Q, d.queue, v)
             /\ d.freed = {v}
             /\ v \in Stored(Q.admn)
             /\ d.queue.len = Q.len
             /\ d.queue.total = Q.total
             /\ d.queue.dropped = Q.dropped + 1
<1> DEFINE T == Q.admn
           U == Q.proc
           u == Unlink(T, U)
           v == Head(T[btree_last(T)]).skb
           Q1 == [Q EXCEPT !.admn = u.tree, !.proc = u.twin, !.dropped = @ + 1]
           d == do_drop_tail(Q)
<1>1. /\ Q \in QueueRec /\ T \in Tree /\ U \in Tree
      /\ Once(T) /\ Once(U) /\ Covered(T, U)
  BY Zenon DEF Well, QueueRec
<1>2. /\ u.skb = v /\ u.found
      /\ u.tree \in Tree /\ Once(u.tree)
      /\ u.twin \in Tree /\ Once(u.twin)
      /\ Removed(T, u.tree, v)
      /\ Removed(U, u.twin, v)
      /\ \A f : Fifo(T, f) => Fifo(u.tree, f)
      /\ \A f : Fifo(U, f) => Fifo(u.twin, f)
  <2> HIDE DEF T, U
  <2>1. Occupied(T) # {}
    BY Zenon DEF T
  <2> QED BY <1>1, <2>1, UnlinkTakes, Zenon
<1>3. d = [queue |-> Q1, freed |-> {v}]
  BY <1>2, Zenon DEF do_drop_tail
<1>4. v \in Stored(T) /\ v \in Stored(U)
  BY <1>1, LastStored, StoredCovered, Zenon
<1> HIDE DEF T, U, u, v
<1>5. /\ Q1 \in QueueRec /\ Q1.admn = u.tree /\ Q1.proc = u.twin
      /\ Q1.len = Q.len /\ Q1.total = Q.total /\ Q1.dropped = Q.dropped + 1
  <2>1. Q \in QueueRec /\ u.tree \in Tree /\ u.twin \in Tree
    BY <1>1, <1>2, Zenon
  <2>2. Q1 = [admn |-> u.tree, proc |-> u.twin, max_len |-> Q.max_len,
              len |-> Q.len, dropped |-> Q.dropped + 1, total |-> Q.total]
    <3>1. PICK t, w, x : t = u.tree /\ w = u.twin /\ x = Q1
      OBVIOUS
    <3>2. x = [Q EXCEPT !.admn = t, !.proc = w, !.dropped = @ + 1]
      BY <3>1, Zenon
    <3> QED BY ONLY <2>1, <3>1, <3>2, Zenon DEF QueueRec
  <2>3. /\ Q.max_len \in Int /\ Q.len \in Int
        /\ Q.dropped + 1 \in Nat /\ Q.total \in Nat
    BY ONLY <2>1 DEF QueueRec
  <2> HIDE DEF Q1
  <2> QED BY ONLY <2>1, <2>2, <2>3, Zenon DEF QueueRec
<1> HIDE DEF Q1, d
<1>6. /\ Covered(u.tree, u.twin)
      /\ Covered(U, T) => Covered(u.twin, u.tree)
  BY <1>1, <1>2, Zenon DEF Covered, Removed
<1>7. Stored(u.tree) = Stored(T) \ {v} /\ Stored(u.twin) = Stored(U) \ {v}
  BY <1>1, <1>2, StoredMinus, Zenon
<1>8. Well(Q1)
  BY <1>2, <1>5, <1>6, Zenon DEF Well
<1>9. d.queue = Q1 /\ d.freed = {v}
  BY <1>3, Zenon
<1>10. TakenOut(Q, Q1, v)
  BY <1>2, <1>4, <1>5, <1>6, <1>7, <1>8, SMTT(30) DEF TakenOut, T, U
<1> QED
  BY <1>4, <1>5, <1>9, <1>10, Zenon DEF T, v, d

\* oq_dequeue takes the packet it sends out of both trees.  If its twin is not
\* found, the admission tree did not have it.
LEMMA Dequeued ==
  ASSUME NEW Q, Well(Q), Occupied(Q.proc) # {}, NEW n \in Int
  PROVE  LET u == Unlink(Q.proc, Q.admn)
             v == Head(Q.proc[btree_last(Q.proc)]).skb
             Q1 == [Q EXCEPT !.proc = u.tree, !.admn = u.twin, !.len = n]
         IN  /\ TakenOut(Q, Q1, v)
             /\ u.skb = v
             /\ Covered(Q.proc, Q.admn) => u.found
             /\ u.found <=> v \in Stored(Q.admn)
             /\ ~u.found => u.twin = Q.admn
             /\ Q1.len = n
             /\ Q1.total = Q.total
             /\ Q1.dropped = Q.dropped
<1> DEFINE T == Q.proc
           U == Q.admn
           u == Unlink(T, U)
           v == Head(T[btree_last(T)]).skb
           Q1 == [Q EXCEPT !.proc = u.tree, !.admn = u.twin, !.len = n]
<1>1. /\ Q \in QueueRec /\ T \in Tree /\ U \in Tree
      /\ Once(T) /\ Once(U) /\ Covered(U, T)
  BY SMTT(30) DEF Well, QueueRec
<1>2. /\ u.skb = v
      /\ u.tree \in Tree /\ Once(u.tree)
      /\ u.twin \in Tree /\ Once(u.twin)
      /\ Covered(T, U) => u.found
      /\ u.found <=> v \in Stored(U)
      /\ ~u.found => u.twin = U
      /\ Removed(T, u.tree, v)
      /\ Removed(U, u.twin, v)
      /\ \A f : Fifo(T, f) => Fifo(u.tree, f)
      /\ \A f : Fifo(U, f) => Fifo(u.twin, f)
  <2> HIDE DEF T, U
  <2>1. Occupied(T) # {}
    BY Zenon DEF T
  <2> QED BY <1>1, <2>1, UnlinkTakes, ZenonT(60)
<1>3. v \in Stored(T)
  BY <1>1, LastStored, Zenon
<1> HIDE DEF T, U, u, v
<1>4. /\ Q1 \in QueueRec /\ Q1.proc = u.tree /\ Q1.admn = u.twin
      /\ Q1.len = n /\ Q1.total = Q.total /\ Q1.dropped = Q.dropped
  <2>1. Q \in QueueRec /\ u.tree \in Tree /\ u.twin \in Tree
    BY <1>1, <1>2, Zenon
  <2>2. Q1 = [admn |-> u.twin, proc |-> u.tree, max_len |-> Q.max_len,
              len |-> n, dropped |-> Q.dropped, total |-> Q.total]
    <3>1. PICK t, w, x : t = u.tree /\ w = u.twin /\ x = Q1
      OBVIOUS
    <3>2. x = [Q EXCEPT !.proc = t, !.admn = w, !.len = n]
      BY <3>1, Zenon
    <3> QED BY ONLY <2>1, <3>1, <3>2, Zenon DEF QueueRec
  <2>3. Q.max_len \in Int /\ Q.dropped \in Nat /\ Q.total \in Nat
    BY ONLY <2>1, Zenon DEF QueueRec
  <2> HIDE DEF Q1
  <2> QED BY ONLY <2>1, <2>2, <2>3, n \in Int, Zenon DEF QueueRec
<1> HIDE DEF Q1
<1>5. /\ Covered(u.twin, u.tree)
      /\ Covered(T, U) => Covered(u.tree, u.twin)
  BY <1>1, <1>2 DEF Covered, Removed
<1>6. Stored(u.tree) = Stored(T) \ {v} /\ Stored(u.twin) = Stored(U) \ {v}
  BY <1>1, <1>2, StoredMinus
<1>7. Well(Q1)
  BY <1>2, <1>4, <1>5, Zenon DEF Well
<1>8. TakenOut(Q, Q1, v)
  BY <1>2, <1>3, <1>4, <1>5, <1>6, <1>7, Zenon DEF TakenOut, T, U
<1> QED
  BY <1>2, <1>4, <1>8, Zenon DEF Q1, u, v, T, U

=============================================================================
