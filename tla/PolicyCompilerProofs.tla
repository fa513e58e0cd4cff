------------------------ MODULE PolicyCompilerProofs ------------------------
(***************************************************************************)
(* What OQGen generates, for every policy file over any names, headers and *)
(* statements: each queue gets its own statements, nothing is left without *)
(* one, and routines are called as their headers declare them.             *)
(*                                                                         *)
(* The invariant says that the tables of the compiler agree with what the  *)
(* file assigned last, that every routine known has a declaration in some  *)
(* header and that every statement kept calls a routine of its type.  The  *)
(* loop over a header's lines is the one place that needs induction, which *)
(* is taken from the well-foundedness of < on the natural numbers.         *)
(***************************************************************************)
EXTENDS PolicyCompiler, FiniteSetTheorems, WellFoundedInduction, TLAPS

\* What a table keeps of an assignment.
Stmt == Rhs \cup {NULL}
\* The values of OQGen.port.
PortState == [name : PName, queues : PortLists, stmt : [PortType -> Stmt]]

\* The tables have their types and are finite.
Types ==
  /\ routines \in [RName -> RoutineType \cup {NULL}]
  /\ queues \in [QName -> [QueueType -> Stmt] \cup {NULL}]
  /\ port \in PortState \cup {NULL}
  /\ last \in [QName \cup PName -> [RoutineType -> Stmt]]
  /\ IsFiniteSet(Declared)

\* The tables hold what the file assigned last.
History ==
  /\ \A q \in Declared, t \in QueueType : queues[q][t] = last[q][t]
  /\ port # NULL => \A t \in PortType : port.stmt[t] = last[port.name][t]

\* Some header declares routine r with the signature of type t.
DeclaredIn(r, t) ==
  \E f \in DOMAIN Header : \E i \in DOMAIN Header[f] :
    /\ ~Header[f][i].comment
    /\ Header[f][i].name = r
    /\ Header[f][i].sig = Signature(t)

\* The routines in a table are declared.
KnownDeclared(known) == \A r \in RName : known[r] # NULL => DeclaredIn(r, known[r])

\* A statement kept for type t is inline or calls a routine of that type.
Calls(stmt, t) == stmt # NULL /\ ~stmt.inline => routines[stmt.name] = t

\* So are all the statements kept.
Callable ==
  /\ \A q \in Declared, t \in QueueType : Calls(queues[q][t], t)
  /\ port # NULL => \A t \in PortType : Calls(port.stmt[t], t)

\* The module that was written is made of the tables.
Written ==
  pc = "done" =>
    /\ isWellDefined
    /\ code.order \in SetToSeqs(Declared)
    /\ code.cases = [i \in DOMAIN code.order |-> queues[code.order[i]]]
    /\ code.stmt = port.stmt

\* The inductive invariant.
IInv == Types /\ History /\ KnownDeclared(routines) /\ Callable /\ Written

-----------------------------------------------------------------------------
(* Induction *)

\* A set of natural numbers that is not empty has a least element.
LEMMA Least ==
  ASSUME NEW T, T \subseteq Nat, T # {}
  PROVE  \E x \in T : \A y \in T : x <= y
<1> DEFINE R == {ss \in Nat \X Nat : ss[1] < ss[2]}
<1>1. IsWellFoundedOn(R, Nat)
  BY NatLessThanWellFounded, Zenon DEF OpToRel
<1>2. \A x, y \in Nat : <<y, x>> \in R <=> y < x
  OBVIOUS
<1> HIDE DEF R
<1>3. PICK x \in T : \A y \in T : ~(<<y, x>> \in R)
  BY <1>1, WFMin, Zenon
<1>4. \A y \in T : ~(y < x)
  BY <1>2, <1>3, Zenon
<1> QED BY <1>4

\* What holds for 0 and is passed on up to n holds for all numbers up to n.
LEMMA Induction ==
  ASSUME NEW n \in Nat, NEW S, 0 \in S, \A i \in 1 .. n : i - 1 \in S => i \in S
  PROVE  0 .. n \subseteq S
<1> SUFFICES ASSUME NEW m \in 0 .. n, m \notin S PROVE FALSE
  OBVIOUS
<1> DEFINE T == {i \in 0 .. n : i \notin S}
<1>1. T \subseteq Nat /\ T # {}
  OBVIOUS
<1>2. PICK x \in T : \A y \in T : x <= y
  <2> HIDE DEF T
  <2> QED BY <1>1, Least, Zenon
<1>3. x \in 1 .. n
  BY <1>2
<1>4. x - 1 \in 0 .. n /\ x - 1 \notin T
  BY <1>2, <1>3
<1> QED BY <1>2, <1>3, <1>4

\* A set of natural numbers below some bound has a greatest element.
LEMMA Greatest ==
  ASSUME NEW n \in Nat, NEW S, S \subseteq 1 .. n, S # {}
  PROVE  \E i \in S : \A j \in S : j <= i
<1> DEFINE T == {k \in Nat : n - k \in S}
<1>1. T \subseteq Nat /\ T # {}
  <2>1. PICK i \in S : TRUE
    BY Zenon
  <2>2. n - i \in Nat /\ n - (n - i) = i
    BY <2>1
  <2> QED BY <2>1, <2>2, Zenon
<1>2. PICK k \in T : \A l \in T : k <= l
  <2> HIDE DEF T
  <2> QED BY <1>1, Least, Zenon
<1>3. ASSUME NEW j \in S PROVE j <= n - k
  <2>1. n - j \in Nat /\ n - (n - j) = j
    OBVIOUS
  <2>2. k <= n - j
    BY <1>2, <2>1, Zenon
  <2> QED BY <1>2, <2>2
<1> QED BY <1>2, <1>3

-----------------------------------------------------------------------------
(* Header files *)

\* The state of processImport after i lines of a header, if after is its
\* history.
Turns(after, known, lines, n) ==
  after = [i \in 0 .. n |->
             IF i = 0
             THEN [ok |-> TRUE, next |-> "UNDEFINED", known |-> known]
             ELSE headerLine(after[i - 1], lines[i])]

\* The loop of processImport has a history.
LEMMA TurnsExist ==
  ASSUME NEW known, NEW lines, NEW n \in Nat
  PROVE  \E after : Turns(after, known, lines, n)
<1> DEFINE S == {i \in Nat : \E after : Turns(after, known, lines, i)}
           start == [ok |-> TRUE, next |-> "UNDEFINED", known |-> known]
<1>1. 0 \in S
  <2> DEFINE g == [i \in 0 .. 0 |-> start]
  <2>1. Turns(g, known, lines, 0)
    <3>1. g = [i \in 0 .. 0 |-> IF i = 0 THEN start ELSE headerLine(g[i - 1], lines[i])]
      <4>1. \A i \in 0 .. 0 : i = 0
        OBVIOUS
      <4> HIDE DEF start
      <4> QED BY <4>1, Zenon
    <3> QED BY <3>1, Zenon DEF Turns
  <2> QED BY <2>1, Zenon
<1>2. ASSUME NEW i \in 1 .. n, i - 1 \in S PROVE i \in S
  <2>1. PICK after : Turns(after, known, lines, i - 1)
    BY <1>2, Zenon
  <2> DEFINE g == [j \in 0 .. i |-> IF j = i THEN headerLine(after[i - 1], lines[i]) ELSE after[j]]
  <2>2. g = [j \in 0 .. i |-> IF j = 0 THEN start ELSE headerLine(g[j - 1], lines[j])]
    <3> SUFFICES ASSUME NEW j \in 0 .. i
                 PROVE  g[j] = IF j = 0 THEN start ELSE headerLine(g[j - 1], lines[j])
      BY Zenon
    <3>1. \A k \in 0 .. i - 1 : after[k] = IF k = 0 THEN start ELSE headerLine(after[k - 1], lines[k])
      BY <2>1, Zenon DEF Turns
    <3>2. \A k \in 0 .. i - 1 : g[k] = after[k]
      OBVIOUS
    <3>3. CASE j = 0
      <4>1. 0 \in 0 .. i - 1
        OBVIOUS
      <4> HIDE DEF g, start
      <4> QED BY <3>1, <3>2, <3>3, <4>1, Zenon
    <3>4. CASE j = i
      <4>1. g[i] = headerLine(after[i - 1], lines[i])
        OBVIOUS
      <4>2. g[i - 1] = after[i - 1] /\ i # 0
        BY <3>2
      <4> HIDE DEF g, start
      <4> QED BY <3>4, <4>1, <4>2
    <3>5. CASE j \in 1 .. i - 1
      <4>1. g[j] = after[j] /\ g[j - 1] = after[j - 1] /\ j # 0 /\ j \in 0 .. i - 1
        BY <3>2, <3>5
      <4> HIDE DEF g, start
      <4> QED BY <3>1, <4>1, Zenon
    <3> QED BY <3>3, <3>4, <3>5
  <2> HIDE DEF g
  <2>3. Turns(g, known, lines, i)
    BY <2>2, Zenon DEF Turns
  <2> QED BY <2>3
<1> HIDE DEF S
<1>3. n \in S
  BY <1>1, <1>2, Induction
<1> QED BY <1>3, Zenon DEF S

\* processImport returns the last state of its history.
LEMMA ImportTurns ==
  ASSUME NEW known, NEW f \in DOMAIN Header
  PROVE  \E after : /\ Turns(after, known, Header[f], Len(Header[f]))
                    /\ processImport(known, f) = after[Len(Header[f])]
<1> DEFINE after == CHOOSE g : Turns(g, known, Header[f], Len(Header[f]))
<1>1. Turns(after, known, Header[f], Len(Header[f]))
  BY TurnsExist, CompilerAssumption, Zenon
<1>2. processImport(known, f) = after[Len(Header[f])]
  BY Zenon DEF processImport, Turns
<1> QED BY <1>1, <1>2, Zenon

\* The values of OQGen.routines,
Table == [RName -> RoutineType \cup {NULL}]
\* and of an import under way.
ImportState == [ok : BOOLEAN, next : RoutineType \cup {"UNDEFINED"}, known : Table]

\* An import that began with the table known has added routines that a header
\* declares, and changed none.
Importing(st, known) ==
  /\ st \in ImportState
  /\ KnownDeclared(st.known)
  /\ \A r \in RName : known[r] # NULL => st.known[r] = known[r]

\* One turn of the loop.
LEMMA HeaderLine ==
  ASSUME NEW known, NEW f \in DOMAIN Header, NEW i \in DOMAIN Header[f], NEW st,
         Importing(st, known)
  PROVE  Importing(headerLine(st, Header[f][i]), known)
<1> DEFINE line == Header[f][i]
<1>1. /\ line.comment \in BOOLEAN
      /\ line.comment => line.type \in RoutineType \cup {"UNDEFINED"}
      /\ ~line.comment => line.name \in RName
  BY CompilerAssumption, Zenon
<1>2. st \in ImportState /\ st.known \in Table /\ st.ok \in BOOLEAN
      /\ st.next \in RoutineType \cup {"UNDEFINED"}
  BY Zenon DEF Importing, ImportState
<1>3. CASE ~st.ok
  BY <1>3, Zenon DEF headerLine
<1>4. CASE st.ok /\ line.comment
  <2> DEFINE new == [st EXCEPT !.next = line.type]
  <2>1. headerLine(st, line) = new
    BY <1>4, Zenon DEF headerLine
  <2>2. new \in ImportState /\ new.known = st.known
    BY <1>1, <1>2, <1>4, Zenon DEF ImportState
  <2> QED BY <2>1, <2>2, Zenon DEF Importing
<1>5. CASE st.ok /\ ~line.comment /\ st.next = "UNDEFINED"
  BY <1>5, Zenon DEF headerLine
<1>6. CASE st.ok /\ ~line.comment /\ st.next # "UNDEFINED"
  <2>1. CASE line.sig # Signature(st.next) \/ st.known[line.name] # NULL
    <3> DEFINE new == [st EXCEPT !.ok = FALSE]
    <3>1. headerLine(st, line) = new
      BY <1>6, <2>1, Zenon DEF headerLine
    <3>2. new \in ImportState /\ new.known = st.known
      BY <1>2, Zenon DEF ImportState
    <3> QED BY <3>1, <3>2, Zenon DEF Importing
  <2>2. CASE line.sig = Signature(st.next) /\ st.known[line.name] = NULL
    <3> DEFINE new == [st EXCEPT !.known[line.name] = st.next, !.next = "UNDEFINED"]
    <3>1. headerLine(st, line) = new
      BY <1>6, <2>2, Zenon DEF headerLine
    <3>2. /\ new \in ImportState
          /\ new.known = [st.known EXCEPT ![line.name] = st.next]
      BY <1>1, <1>2, <1>6, Zenon DEF ImportState, Table
    <3>3. \A r \in RName : new.known[r] = IF r = line.name THEN st.next ELSE st.known[r]
      BY <1>2, <3>2, Zenon DEF Table
    <3>4. DeclaredIn(line.name, st.next)
      BY <1>6, <2>2, Zenon DEF DeclaredIn
    <3> HIDE DEF new
    <3>5. KnownDeclared(new.known)
      BY <3>3, <3>4, Zenon DEF KnownDeclared, Importing
    <3>6. \A r \in RName : known[r] # NULL => new.known[r] = known[r]
      BY <2>2, <3>3, Zenon DEF Importing
    <3> QED BY <3>1, <3>2, <3>5, <3>6, Zenon DEF Importing
  <2> QED BY <2>1, <2>2, Zenon
<1> QED BY <1>1, <1>2, <1>3, <1>4, <1>5, <1>6

\* The whole loop, by induction on the lines.
LEMMA Import ==
  ASSUME NEW f \in DOMAIN Header, routines \in Table, KnownDeclared(routines)
  PROVE  Importing(processImport(routines, f), routines)
<1> DEFINE n == Len(Header[f])
<1>1. PICK after : Turns(after, routines, Header[f], n) /\ processImport(routines, f) = after[n]
  BY ImportTurns, Zenon
<1> DEFINE S == {i \in 0 .. n : Importing(after[i], routines)}
<1>2. n \in Nat /\ DOMAIN Header[f] = 1 .. n
  BY CompilerAssumption, Zenon
<1>3. 0 \in S
  <2> DEFINE start == [ok |-> TRUE, next |-> "UNDEFINED", known |-> routines]
  <2>1. after[0] = start
    <3>1. 0 \in 0 .. n
      BY <1>2
    <3> HIDE DEF n
    <3> QED BY <1>1, <3>1 DEF Turns
  <2>2. Importing(start, routines)
    BY Zenon DEF Importing, ImportState
  <2> QED BY <1>2, <2>1, <2>2
<1>4. ASSUME NEW i \in 1 .. n, i - 1 \in S PROVE i \in S
  <2>1. after[i] = headerLine(after[i - 1], Header[f][i])
    <3>1. i \in 0 .. n /\ i # 0
      BY <1>2
    <3> HIDE DEF n
    <3> QED BY <1>1, <3>1, Zenon DEF Turns
  <2>2. Importing(after[i - 1], routines)
    BY <1>4, Zenon
  <2>3. Importing(after[i], routines)
    BY <1>2, <2>1, <2>2, HeaderLine
  <2> QED BY <1>2, <2>3
<1>5. n \in S
  <2>1. 0 .. n \subseteq S
    <3> HIDE DEF S, n
    <3> QED BY <1>2, <1>3, <1>4, Induction, Zenon
  <2> QED BY <1>2, <2>1
<1> QED BY <1>1, <1>5, Zenon

-----------------------------------------------------------------------------
(* The steps *)

\* The types of a queue's attributes and of a port's differ, and null is none.
LEMMA TypesApart ==
  /\ QueueType \subseteq RoutineType /\ PortType \subseteq RoutineType
  /\ \A t \in QueueType : t \notin PortType
  /\ NULL \notin RoutineType
  /\ Unset(QueueType) \in [QueueType -> Stmt]
  /\ Unset(PortType) \in [PortType -> Stmt]
  /\ \A s \in [QueueType -> Stmt] : s # NULL
  /\ \A s \in PortState : s # NULL
  /\ NULL \in Stmt
<1>1. \A s \in [QueueType -> Stmt] : s # NULL
  BY CompilerAssumption, Zenon DEF Stmt
<1>2. \A s \in PortState : s # NULL
  BY CompilerAssumption, Zenon DEF PortState, Stmt
<1>3. QueueType \subseteq RoutineType /\ PortType \subseteq RoutineType /\ NULL \notin RoutineType
  BY CompilerAssumption, Zenon DEF RoutineType
<1>4. Unset(QueueType) \in [QueueType -> Stmt] /\ Unset(PortType) \in [PortType -> Stmt]
  BY Zenon DEF Unset, Stmt
<1> QED BY <1>1, <1>2, <1>3, <1>4 DEF QueueType, PortType, Stmt

\* Routines added to the table do not change what the statements call.
LEMMA StillCallable ==
  ASSUME NEW stmt \in Stmt, NEW t \in RoutineType, Calls(stmt, t),
         \A r \in RName : routines[r] # NULL => routines'[r] = routines[r]
  PROVE  stmt # NULL /\ ~stmt.inline => routines'[stmt.name] = t
BY CompilerAssumption, TypesApart, Zenon DEF Calls, Stmt

\* An empty set of tables, at the start and after an error.
Emptied ==
  /\ routines = NoRoutines /\ queues = NoQueues /\ port = NULL /\ last = NoHistory
  /\ pc # "done"

\* Empty tables satisfy the invariant,
LEMMA EmptiedIInv == Emptied => IInv
<1> SUFFICES ASSUME Emptied PROVE IInv
  OBVIOUS
<1>1. Declared = {} /\ IsFiniteSet({})
  BY FS_EmptySet, Zenon DEF Emptied, Declared, NoQueues
<1>2. Types
  BY <1>1, TypesApart, Zenon DEF Types, Emptied, NoRoutines, NoQueues, NoHistory, Unset
<1>3. History /\ Callable /\ Written
  BY <1>1 DEF History, Callable, Written, Emptied
<1>4. KnownDeclared(routines)
  BY Zenon DEF KnownDeclared, Emptied, NoRoutines
<1> QED BY <1>2, <1>3, <1>4, Zenon DEF IInv

\* so a file that is rejected does.
LEMMA RejectStep == ASSUME Reject PROVE IInv'
<1>1. Emptied'
  BY Zenon DEF Reject, Emptied, NoRoutines, NoQueues, NoHistory, Unset
<1>2. (Emptied => IInv)'
  BY EmptiedIInv, PTL
<1> QED BY <1>1, <1>2, Zenon

\* import: the queues and the port keep their statements, which call routines
\* that stay as they are.
LEMMA ImportStep ==
  ASSUME IInv, NEW f \in DOMAIN Header, importLine(f)
  PROVE  IInv'
<1>1. CASE Reject
  BY <1>1, RejectStep, Zenon
<1>2. CASE /\ processImport(routines, f).ok
           /\ routines' = processImport(routines, f).known
           /\ UNCHANGED <<pc, queues, port, code, last>>
  <2>1. Importing(processImport(routines, f), routines)
    BY Import, Zenon DEF IInv, Types, Table
  <2>2. /\ routines' \in Table
        /\ KnownDeclared(routines')
        /\ \A r \in RName : routines[r] # NULL => routines'[r] = routines[r]
    BY <1>2, <2>1, Zenon DEF Importing, ImportState
  <2>3. Declared' = Declared
    BY <1>2, Zenon DEF Declared
  <2>4. Types'
    BY <1>2, <2>2, <2>3, Zenon DEF IInv, Types, Table
  <2>5. History'
    BY <1>2, <2>3, Zenon DEF IInv, History
  <2>6. Callable'
    <3>1. ASSUME NEW q \in Declared, NEW t \in QueueType PROVE Calls(queues[q][t], t)'
      <4>1. Calls(queues[q][t], t) /\ queues[q][t] \in Stmt /\ t \in RoutineType
        BY <3>1, TypesApart DEF IInv, Callable, Types, Declared
      <4> QED BY <1>2, <2>2, <4>1, StillCallable DEF Calls
    <3>2. ASSUME port # NULL, NEW t \in PortType PROVE Calls(port.stmt[t], t)'
      <4>1. Calls(port.stmt[t], t) /\ port.stmt[t] \in Stmt /\ t \in RoutineType
        BY <3>2, TypesApart, Zenon DEF IInv, Callable, Types, PortState
      <4> QED BY <1>2, <2>2, <4>1, StillCallable DEF Calls
    <3> QED BY <1>2, <2>3, <3>1, <3>2, Zenon DEF Callable
  <2>7. Written'
    BY <1>2, Zenon DEF Written, importLine
  <2> QED BY <2>2, <2>4, <2>5, <2>6, <2>7 DEF IInv
<1> QED BY <1>1, <1>2, Zenon DEF importLine

\* Queue q = Queue(n)
LEMMA QueueStep ==
  ASSUME IInv, NEW q \in QName, queueLine(q)
  PROVE  IInv'
<1>1. /\ queues' = [queues EXCEPT ![q] = Unset(QueueType)]
      /\ last' = Forget({q}, QueueType)
      /\ UNCHANGED <<pc, routines, port, code>>
      /\ pc = "parse"
  BY Zenon DEF queueLine
<1>2. Declared' = Declared \cup {q}
  BY <1>1, TypesApart DEF Declared, IInv, Types
<1>3. \A r \in QName : queues'[r] = IF r = q THEN Unset(QueueType) ELSE queues[r]
  BY <1>1, Zenon DEF IInv, Types
<1>4. \A o \in QName \cup PName, t \in RoutineType :
        last'[o][t] = IF o = q /\ t \in QueueType THEN NULL ELSE last[o][t]
  BY <1>1, Zenon DEF Forget, IInv, Types
<1>5. Types'
  <2>1. IsFiniteSet(Declared')
    BY <1>2, FS_AddElement, Zenon DEF IInv, Types
  <2>2. last' \in [QName \cup PName -> [RoutineType -> Stmt]]
    BY <1>1, TypesApart, Zenon DEF Forget, IInv, Types
  <2>3. queues' \in [QName -> [QueueType -> Stmt] \cup {NULL}]
    BY <1>1, TypesApart, Zenon DEF IInv, Types
  <2> QED BY <1>1, <2>1, <2>2, <2>3, Zenon DEF IInv, Types
<1>6. History'
  <2>1. ASSUME NEW r \in Declared', NEW t \in QueueType PROVE queues'[r][t] = last'[r][t]
    BY <1>2, <1>3, <1>4, <2>1, TypesApart DEF IInv, History, Declared, Unset
  <2>2. ASSUME port # NULL, NEW t \in PortType PROVE port.stmt[t] = last'[port.name][t]
    <3>1. port.name \in QName \cup PName
      BY <2>2, Zenon DEF IInv, Types, PortState
    <3> QED BY <1>4, <2>2, <3>1, TypesApart, Zenon DEF IInv, History
  <2> QED BY <1>1, <2>1, <2>2, Zenon DEF History
<1>7. Callable'
  <2>1. ASSUME NEW r \in Declared', NEW t \in QueueType PROVE Calls(queues[r][t], t)'
    BY <1>1, <1>2, <1>3, <2>1 DEF IInv, Callable, Calls, Declared, Unset
  <2> QED BY <1>1, <2>1, Zenon DEF IInv, Callable, Calls
<1>8. Written' /\ KnownDeclared(routines')
  BY <1>1, Zenon DEF Written, IInv
<1> QED BY <1>5, <1>6, <1>7, <1>8 DEF IInv

\* Port p = Port(q, ...)
LEMMA PortStep ==
  ASSUME IInv, NEW p \in PName, NEW list \in PortLists, portLine(p, list)
  PROVE  IInv'
<1>1. CASE Reject
  BY <1>1, RejectStep, Zenon
<1>2. CASE /\ port' = [name |-> p, queues |-> list, stmt |-> Unset(PortType)]
           /\ last' = Forget(PName, PortType)
           /\ UNCHANGED <<pc, routines, queues, code>>
  <2>1. Declared' = Declared
    BY <1>2, Zenon DEF Declared
  <2>2. \A o \in QName \cup PName, t \in RoutineType :
          last'[o][t] = IF o \in PName /\ t \in PortType THEN NULL ELSE last[o][t]
    BY <1>2, Zenon DEF Forget, IInv, Types
  <2>3. port' \in PortState /\ port'.name = p /\ port'.stmt = Unset(PortType)
    BY <1>2, TypesApart, Zenon DEF PortState
  <2>4. Types'
    <3>1. last' \in [QName \cup PName -> [RoutineType -> Stmt]]
      BY <1>2, TypesApart, Zenon DEF Forget, IInv, Types
    <3> QED BY <1>2, <2>1, <2>3, <3>1 DEF IInv, Types
  <2>5. History'
    <3>1. ASSUME NEW r \in Declared, NEW t \in QueueType PROVE queues[r][t] = last'[r][t]
      BY <2>2, <3>1, TypesApart DEF IInv, History, Declared
    <3>2. \A t \in PortType : port'.stmt[t] = NULL /\ last'[p][t] = NULL
      BY <2>2, <2>3, TypesApart, Zenon DEF Unset
    <3> QED BY <1>2, <2>1, <2>3, <3>1, <3>2 DEF History
  <2>6. Callable'
    BY <1>2, <2>1, <2>3, Zenon DEF IInv, Callable, Calls, Unset
  <2>7. Written' /\ KnownDeclared(routines')
    BY <1>2, Zenon DEF Written, IInv, portLine
  <2> QED BY <2>4, <2>5, <2>6, <2>7 DEF IInv
<1> QED BY <1>1, <1>2, Zenon DEF portLine

\* A right-hand side that was accepted calls a routine of the wanted type.
LEMMA Accepted ==
  ASSUME NEW rhs \in Rhs, NEW type \in RoutineType, validateFunctionAssignment(rhs, type)
  PROVE  Calls(rhs, type)
BY Zenon DEF validateFunctionAssignment, Calls

\* queue.attribute = rhs
LEMMA QueueAssignmentStep ==
  ASSUME IInv, NEW obj \in QName \cup PName, NEW type \in RoutineType, NEW rhs \in Rhs,
         queueAssignment(obj, type, rhs)
  PROVE  IInv'
<1>1. /\ pc = "parse"
      /\ queues' = [queues EXCEPT ![obj][type] = rhs]
      /\ last' = [last EXCEPT ![obj][type] = rhs]
      /\ UNCHANGED <<pc, routines, port, code>>
      /\ obj \in Declared /\ obj \in QName /\ type \in QueueType
      /\ queues[obj] \in [QueueType -> Stmt]
      /\ Calls(rhs, type) /\ rhs \in Stmt
  BY Accepted, Zenon DEF queueAssignment, QueueAssignable, Declared, IInv, Types, Stmt
<1>2. /\ queues' \in [QName -> [QueueType -> Stmt] \cup {NULL}]
      /\ \A r \in QName : r # obj => queues'[r] = queues[r]
      /\ queues'[obj] \in [QueueType -> Stmt]
      /\ \A t \in QueueType : queues'[obj][t] = IF t = type THEN rhs ELSE queues[obj][t]
  BY <1>1, Zenon DEF IInv, Types
<1>3. /\ last' \in [QName \cup PName -> [RoutineType -> Stmt]]
      /\ \A o \in QName \cup PName, t \in RoutineType :
           last'[o][t] = IF o = obj /\ t = type THEN rhs ELSE last[o][t]
  BY <1>1, Zenon DEF IInv, Types
<1>4. Declared' = Declared
  BY <1>1, <1>2, TypesApart, Zenon DEF Declared
<1>5. Types'
  BY <1>1, <1>2, <1>3, <1>4 DEF IInv, Types
<1>6. History'
  <2>1. ASSUME NEW r \in Declared, NEW t \in QueueType PROVE queues'[r][t] = last'[r][t]
    BY <1>2, <1>3, <2>1, TypesApart DEF IInv, History, Declared
  <2>2. ASSUME port # NULL, NEW t \in PortType PROVE port.stmt[t] = last'[port.name][t]
    <3>1. port.name \in QName \cup PName
      BY <2>2, Zenon DEF IInv, Types, PortState
    <3> QED BY <1>1, <1>3, <2>2, <3>1, TypesApart DEF IInv, History
  <2> QED BY <1>1, <1>4, <2>1, <2>2 DEF History
<1>7. Callable'
  <2>1. ASSUME NEW r \in Declared, NEW t \in QueueType PROVE Calls(queues[r][t], t)'
    BY <1>1, <1>2, <2>1 DEF IInv, Callable, Calls, Declared
  <2> QED BY <1>1, <1>4, <2>1 DEF IInv, Callable, Calls
<1>8. Written' /\ KnownDeclared(routines')
  BY <1>1, Zenon DEF Written, IInv
<1> QED BY <1>5, <1>6, <1>7, <1>8 DEF IInv

\* port.attribute = rhs
LEMMA PortAssignmentStep ==
  ASSUME IInv, NEW obj \in QName \cup PName, NEW type \in RoutineType, NEW rhs \in Rhs,
         portAssignment(obj, type, rhs)
  PROVE  IInv'
<1>1. /\ pc = "parse"
      /\ port' = [port EXCEPT !.stmt[type] = rhs]
      /\ last' = [last EXCEPT ![obj][type] = rhs]
      /\ UNCHANGED <<pc, routines, queues, code>>
      /\ port \in PortState /\ port.name = obj /\ type \in PortType
      /\ Calls(rhs, type) /\ rhs \in Stmt /\ port # NULL
  BY Accepted, Zenon DEF portAssignment, PortAssignable, IsPort, IInv, Types, Stmt
<1>2. /\ port' \in PortState /\ port'.name = obj
      /\ \A t \in PortType : port'.stmt[t] = IF t = type THEN rhs ELSE port.stmt[t]
  BY <1>1, Zenon DEF PortState
<1>3. /\ last' \in [QName \cup PName -> [RoutineType -> Stmt]]
      /\ \A o \in QName \cup PName, t \in RoutineType :
           last'[o][t] = IF o = obj /\ t = type THEN rhs ELSE last[o][t]
  BY <1>1, Zenon DEF IInv, Types
<1>4. Declared' = Declared
  BY <1>1, Zenon DEF Declared
<1>5. Types'
  BY <1>1, <1>2, <1>3, <1>4, Zenon DEF IInv, Types
<1>6. History'
  <2>1. ASSUME NEW r \in Declared, NEW t \in QueueType PROVE queues[r][t] = last'[r][t]
    BY <1>1, <1>3, <2>1, TypesApart DEF IInv, History, Declared
  <2>2. ASSUME NEW t \in PortType PROVE port'.stmt[t] = last'[obj][t]
    BY <1>1, <1>2, <1>3, <2>2, TypesApart DEF IInv, History
  <2> QED BY <1>1, <1>2, <1>4, <2>1, <2>2, Zenon DEF History
<1>7. Callable'
  BY <1>1, <1>2, <1>4 DEF IInv, Callable, Calls
<1>8. Written' /\ KnownDeclared(routines')
  BY <1>1, Zenon DEF Written, IInv
<1> QED BY <1>5, <1>6, <1>7, <1>8 DEF IInv

\* The module is written.
LEMMA GenerateStep == ASSUME IInv, generateCode PROVE IInv'
<1>1. UNCHANGED <<routines, queues, port, last>> /\ isWellDefined
  BY Zenon DEF generateCode
<1>2. PICK order \in SetToSeqs(Declared) :
        code' = [order |-> order,
                 cases |-> [i \in DOMAIN order |-> queues[order[i]]],
                 stmt |-> port.stmt]
  BY Zenon DEF generateCode
<1>3. Declared' = Declared
  BY <1>1, Zenon DEF Declared
<1>4. Types' /\ History' /\ Callable' /\ KnownDeclared(routines')
  BY <1>1, <1>3 DEF IInv, Types, History, Callable, Calls
<1>5. Written'
  <2>1. isWellDefined'
    BY <1>1, <1>3, Zenon DEF isWellDefined
  <2>2. /\ code'.order = order
        /\ code'.cases = [i \in DOMAIN order |-> queues[order[i]]]
        /\ code'.stmt = port.stmt
    BY <1>2, Zenon
  <2> QED BY <1>1, <1>3, <2>1, <2>2 DEF Written
<1> QED BY <1>4, <1>5, Zenon DEF IInv

\* Every line of a file keeps the invariant.
LEMMA NextIInv == IInv /\ [Next]_vars => IInv'
<1> SUFFICES ASSUME IInv, [Next]_vars PROVE IInv'
  OBVIOUS
<1>1. CASE UNCHANGED vars
  <2>1. UNCHANGED <<pc, routines, queues, port, code, last>>
    BY <1>1, Zenon DEF vars
  <2>2. Declared' = Declared
    BY <2>1, Zenon DEF Declared
  <2>3. isWellDefined' = isWellDefined
    BY <2>1, <2>2 DEF isWellDefined
  <2> QED BY <2>1, <2>2, <2>3 DEF IInv, Types, History, Callable, Calls, Written
<1>2. CASE malformedLine \/ invalidAssignment \/ notWellDefined \/ notWritten
  BY <1>2, RejectStep, Zenon
  DEF malformedLine, invalidAssignment, notWellDefined, notWritten
<1>3. ASSUME NEW f \in DOMAIN Header, importLine(f) PROVE IInv'
  BY <1>3, ImportStep, Zenon
<1>4. ASSUME NEW q \in QName, queueLine(q) PROVE IInv'
  BY <1>4, QueueStep, Zenon
<1>5. ASSUME NEW p \in PName, NEW list \in PortLists, portLine(p, list) PROVE IInv'
  BY <1>5, PortStep, Zenon
<1>6. ASSUME NEW obj \in QName \cup PName, NEW type \in RoutineType, NEW rhs \in Rhs,
             queueAssignment(obj, type, rhs) \/ portAssignment(obj, type, rhs)
      PROVE  IInv'
  BY <1>6, QueueAssignmentStep, PortAssignmentStep
<1>7. CASE generateCode
  BY <1>7, GenerateStep, Zenon
<1> QED BY <1>1, <1>2, <1>3, <1>4, <1>5, <1>6, <1>7 DEF Next

\* The invariant holds in every state.
LEMMA Inductive == Spec => []IInv
<1>1. Init => IInv
  BY EmptiedIInv, Zenon DEF Init, Emptied
<1> QED BY <1>1, NextIInv, PTL DEF Spec

-----------------------------------------------------------------------------
(* Theorems *)

\* The cases of the generated functions are those of all the declared queues.
LEMMA CasesOfQueues ==
  ASSUME IInv, pc = "done"
  PROVE  /\ Cardinality(Declared) \in Nat
         /\ DOMAIN code.order = 1 .. Cardinality(Declared)
         /\ \A i \in DOMAIN code.order :
              code.order[i] \in Declared /\ code.cases[i] = queues[code.order[i]]
         /\ \A q \in Declared : \E i \in DOMAIN code.order : code.order[i] = q
<1> DEFINE n == Cardinality(Declared)
<1>1. n \in Nat /\ IsFiniteSet(Declared)
  BY FS_CardinalityType, Zenon DEF IInv, Types
<1>2. /\ code.order \in [1 .. n -> Declared]
      /\ \A i, j \in 1 .. n : i # j => code.order[i] # code.order[j]
      /\ code.cases = [i \in DOMAIN code.order |-> queues[code.order[i]]]
  BY Zenon DEF IInv, Written, SetToSeqs
<1>3. code.order \in Injection(1 .. n, Declared)
  BY <1>2, Zenon DEF Injection, IsInjective
<1>4. IsFiniteSet(1 .. n) /\ Cardinality(1 .. n) = n
  BY <1>1, FS_Interval
<1>5. code.order \in Surjection(1 .. n, Declared)
  <2> HIDE DEF n
  <2> QED BY <1>1, <1>3, <1>4, FS_Injection, Zenon DEF n
<1> QED BY <1>1, <1>2, <1>5 DEF Surjection

\* The port gets the statements that the file assigned to it, and so does each
\* queue, unless they are those of a queue whose name C does not tell from its
\* own: the dispatch by name in the functions that OQGen.generateCode writes.
THEOREM OwnStatements == Spec => []DispatchesOwn
<1>1. IInv => DispatchesOwn
  <2>p. ASSUME IInv, pc = "done", NEW t \in PortType PROVE code.stmt[t] = last[port.name][t]
    BY <2>p, Zenon DEF IInv, History, Written, isWellDefined
  <2> SUFFICES ASSUME IInv, pc = "done", NEW q \in Declared, NEW t \in QueueType
               PROVE  \/ Dispatch(q, t) = last[q][t]
                      \/ \E r \in Declared \ {q} : /\ Prefix(r) = Prefix(q)
                                                   /\ Dispatch(q, t) = last[r][t]
    BY <2>p, Zenon DEF DispatchesOwn
  <2> DEFINE hits == {i \in DOMAIN code.order : Prefix(code.order[i]) = Prefix(q)}
             hit == CHOOSE i \in hits : \A j \in hits : j <= i
  <2>1. hits # {} /\ hits \subseteq 1 .. Cardinality(Declared)
    BY CasesOfQueues, Zenon
  <2>2. hit \in hits
    <3>1. \E i \in hits : \A j \in hits : j <= i
      <4> HIDE DEF hits
      <4> QED BY <2>1, CasesOfQueues, Greatest, Zenon
    <3> HIDE DEF hits
    <3> QED BY <3>1, Zenon
  <2>3. Dispatch(q, t) = code.cases[hit][t]
    BY Zenon DEF Dispatch
  <2> HIDE DEF hit
  <2>4. PICK r \in Declared : r = code.order[hit]
    BY <2>2, CasesOfQueues, Zenon
  <2>5. Prefix(r) = Prefix(q)
    BY <2>2, <2>4, Zenon
  <2>6. Dispatch(q, t) = last[r][t]
    BY <2>2, <2>3, <2>4, CasesOfQueues DEF IInv, History
  <2> QED BY <2>5, <2>6, Zenon
<1> QED BY <1>1, Inductive, PTL

\* A routine is called with the variables of the function that calls it.
LEMMA ParamsFit == \A t \in RoutineType : ToSet(Signature(t).params) \subseteq Params(t)
<1> SUFFICES ASSUME NEW t \in RoutineType PROVE ToSet(Signature(t).params) \subseteq Params(t)
  OBVIOUS
<1>1. CASE t = "QUEUE_SELECTOR"
  BY <1>1 DEF Signature, Params, ToSet
<1>2. CASE t = "SCHEDULING_PRIORITY"
  BY <1>2 DEF Signature, Params, ToSet
<1>3. CASE t = "CONGESTION_CONDITION"
  BY <1>3 DEF Signature, Params, ToSet
<1>4. CASE t = "CONGESTION_ACTION"
  BY <1>4 DEF Signature, Params, ToSet
<1>5. CASE t = "ADMISSION_PRIORITY"
  BY <1>5 DEF Signature, Params, ToSet
<1>6. CASE t = "PROCESSING_PRIORITY"
  BY <1>6 DEF Signature, Params, ToSet
<1> QED BY <1>1, <1>2, <1>3, <1>4, <1>5, <1>6, Zenon DEF RoutineType, QueueType, PortType

\* A statement that is kept fits the routine it calls.
LEMMA KeptFits ==
  ASSUME IInv, NEW t \in RoutineType, NEW stmt \in Rhs, stmt # NULL, Calls(stmt, t)
  PROVE  CallFits(stmt, t)
<1> SUFFICES ASSUME ~stmt.inline PROVE CallFits(stmt, t)
  BY Zenon DEF CallFits
<1>1. stmt.name \in RName /\ routines[stmt.name] = t /\ t # NULL
  BY CompilerAssumption, TypesApart, Zenon DEF Calls
<1>2. DeclaredIn(stmt.name, t)
  BY <1>1, Zenon DEF IInv, KnownDeclared
<1>3. getStatement(stmt, t) \subseteq Params(t)
  BY ParamsFit DEF getStatement
<1> QED BY <1>2, <1>3, Zenon DEF CallFits, DeclaredIn

\* The generated C calls every routine with the parameters and the result that
\* its header gives it: what processImport and validateFunctionAssignment
\* check is enough, whatever the headers hold and however often a file
\* redeclares queues and ports.
THEOREM RoutinesCalledRight == Spec => []CallsMatchHeaders
<1>1. IInv => CallsMatchHeaders
  <2> SUFFICES ASSUME IInv, pc = "done" PROVE CallsMatchHeaders
    BY Zenon DEF CallsMatchHeaders
  <2>1. port # NULL /\ code.stmt = port.stmt /\ isWellDefined
    BY DEF IInv, Written, isWellDefined
  <2>2. ASSUME NEW t \in PortType PROVE CallFits(code.stmt[t], t)
    <3>1. /\ code.stmt[t] \in Rhs /\ code.stmt[t] # NULL
          /\ Calls(code.stmt[t], t) /\ t \in RoutineType
      BY <2>1, TypesApart, Zenon DEF IInv, Types, PortState, Stmt, Callable, isWellDefined
    <3> QED BY <3>1, KeptFits, Zenon
  <2>3. ASSUME NEW i \in DOMAIN code.order, NEW t \in QueueType
        PROVE  CallFits(code.cases[i][t], t)
    <3>1. PICK q \in Declared : code.cases[i] = queues[q]
      BY CasesOfQueues, Zenon
    <3>2. /\ queues[q][t] \in Rhs /\ queues[q][t] # NULL
          /\ Calls(queues[q][t], t) /\ t \in RoutineType
      BY <2>1, TypesApart DEF IInv, Types, Declared, Stmt, Callable, isWellDefined
    <3> QED BY <3>1, <3>2, KeptFits
  <2> QED BY <2>2, <2>3, Zenon DEF CallsMatchHeaders
<1> QED BY <1>1, Inductive, PTL
=============================================================================
