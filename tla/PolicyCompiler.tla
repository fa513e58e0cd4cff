--------------------------- MODULE PolicyCompiler ---------------------------
(***************************************************************************)
(* OQGen, the compiler of policy files (src/OQGen.java), on one file.      *)
(*                                                                         *)
(* The file is read line by line; any line of a small language may come    *)
(* next, and a line that fails its checks ends the run.  At the end of the *)
(* file the tables are validated and a C module is written.  The module    *)
(* finds out which queue it works for by comparing names, of which C keeps *)
(* TCQ_OQ_NAME_LEN characters.  Names are sequences of characters.         *)
(***************************************************************************)
EXTENDS Integers, FiniteSets, SequencesExt

CONSTANTS
  QName,             \* names of queues
  PName,             \* names of ports, some of them also names of queues
  RName,             \* names of routines
  Header,            \* header files: file name -> lines
  PortLists,         \* lists of queues in port declarations
  Rhs,               \* right-hand sides of assignments
  TCQ_OQ_NAME_LEN,   \* characters of a name that C compares
  MaxQueues,         \* bound on the queues of a policy
  NULL

QueueType == {"CONGESTION_CONDITION", "CONGESTION_ACTION",
              "ADMISSION_PRIORITY", "PROCESSING_PRIORITY"}
PortType == {"QUEUE_SELECTOR", "SCHEDULING_PRIORITY"}
RoutineType == QueueType \cup PortType

\* A header is a sequence of lines: a comment has the type that it announces,
\* if any, and code has the name of a routine.  A statement is inline or names
\* a routine.  null is no table, no port and no type.
ASSUME CompilerAssumption ==
  /\ \A f \in DOMAIN Header :
       /\ Len(Header[f]) \in Nat
       /\ DOMAIN Header[f] = 1 .. Len(Header[f])
       /\ \A i \in DOMAIN Header[f] :
            /\ Header[f][i].comment \in BOOLEAN
            /\ Header[f][i].comment => Header[f][i].type \in RoutineType \cup {"UNDEFINED"}
            /\ ~Header[f][i].comment => Header[f][i].name \in RName
  /\ \A stmt \in Rhs : stmt.inline \in BOOLEAN /\ (~stmt.inline => stmt.name \in RName)
  /\ NULL \notin RoutineType
  /\ NULL \notin [QueueType -> Rhs \cup {NULL}]
  /\ NULL \notin [name : PName, queues : PortLists, stmt : [PortType -> Rhs \cup {NULL}]]

VARIABLES
  pc,         \* "parse", "rejected" or "done"
  routines,   \* OQGen.routines: name -> type, or NULL
  queues,     \* OQGen.queues: name -> statements, or NULL
  port,       \* OQGen.port, or NULL
  code,       \* the generated C module, or NULL
  last        \* history: what the file assigned last to each attribute

vars == <<pc, routines, queues, port, code, last>>

Unset(types) == [t \in types |-> NULL]
Declared == {q \in QName : queues[q] # NULL}

-----------------------------------------------------------------------------
(* Header files *)

\* The parameters and the result that the validate...Function methods require.
Signature(type) ==
  CASE type = "QUEUE_SELECTOR"       -> [ret |-> "int", params |-> <<"sch", "skb">>]
    [] type = "CONGESTION_CONDITION" -> [ret |-> "bool", params |-> <<"queue">>]
    [] type = "CONGESTION_ACTION"    -> [ret |-> "int", params |-> <<"queue", "skb">>]
    [] type = "ADMISSION_PRIORITY"   -> [ret |-> "ulong", params |-> <<"skb">>]
    [] type = "PROCESSING_PRIORITY"  -> [ret |-> "ulong", params |-> <<"skb">>]
    [] type = "SCHEDULING_PRIORITY"  -> [ret |-> "int", params |-> <<"sch">>]

\* Variant for mutation: the signature is not compared.
headerLine_any_signature(st, line) ==
  CASE ~st.ok -> st
    [] st.ok /\ line.comment -> [st EXCEPT !.next = line.type]
    [] st.ok /\ ~line.comment /\ st.next = "UNDEFINED" -> st
    [] OTHER ->
         IF st.known[line.name] # NULL
         THEN [st EXCEPT !.ok = FALSE]
         ELSE [st EXCEPT !.known[line.name] = st.next, !.next = "UNDEFINED"]

\* A header line is a comment, which may annotate the next routine
\* (getNextRoutineType), or code with a name and a signature.  One turn of the
\* loop of processImport:
headerLine(st, line) ==
  CASE ~st.ok -> st
    [] st.ok /\ line.comment -> [st EXCEPT !.next = line.type]
    [] st.ok /\ ~line.comment /\ st.next = "UNDEFINED" -> st
    [] OTHER ->
         IF line.sig # Signature(st.next) \/ st.known[line.name] # NULL
         THEN [st EXCEPT !.ok = FALSE]
         ELSE [st EXCEPT !.known[line.name] = st.next, !.next = "UNDEFINED"]

\* The state after the first i lines, for every i, and after them all.
processImport(known, file) ==
  LET lines == Header[file]
      after[i \in 0 .. Len(lines)] ==
        IF i = 0
        THEN [ok |-> TRUE, next |-> "UNDEFINED", known |-> known]
        ELSE headerLine(after[i - 1], lines[i])
  IN  after[Len(lines)]

-----------------------------------------------------------------------------
(* Statements *)

\* The C variables that a term of an inline expression mentions, NULL if the
\* term is not valid.
validateSubExpr(term) ==
  CASE term.obj = "Queue" ->
         IF term.attr \in {"max_len", "len", "dropped", "total"} THEN {"queue"} ELSE NULL
    [] term.obj = "Packet" ->
         IF term.attr \in {"tos", "tot_len", "id", "ttl", "protocol", "saddr", "daddr"}
         THEN {"skb"} ELSE NULL
    [] OTHER -> IF term.number THEN {} ELSE NULL

\* InlineStatement.validate: a term, or two terms with a comparison between.
validate(expr) ==
  /\ Len(expr) \in {1, 3}
  /\ validateSubExpr(expr[1]) # NULL
  /\ Len(expr) = 3 =>
       /\ validateSubExpr(expr[3]) # NULL
       /\ expr[2] \in {"==", "!=", "<", "<=", ">", ">="}

\* The right-hand side is an inline expression, or the name of a routine of
\* the wanted type whose parameters, if any, are numbers.
validateFunctionAssignment(rhs, type) ==
  IF rhs.inline
  THEN validate(rhs.expr)
  ELSE routines[rhs.name] = type /\ rhs.numbers

\* The C variables that a statement mentions (getStatement of its class).
getStatement(stmt, type) ==
  IF stmt.inline
  THEN UNION {validateSubExpr(stmt.expr[i]) : i \in {1, Len(stmt.expr)}}
  ELSE ToSet(Signature(type).params)

\* The parameters of the generated function that evaluates the statement.
Params(type) ==
  CASE type = "CONGESTION_CONDITION" -> {"queue"}
    [] type = "QUEUE_SELECTOR"       -> {"sch", "skb"}
    [] type = "SCHEDULING_PRIORITY"  -> {"sch"}
    [] OTHER                         -> {"queue", "skb"}

-----------------------------------------------------------------------------
(* The lines of a policy file *)

NoRoutines == [r \in RName |-> NULL]
NoQueues == [q \in QName |-> NULL]
NoHistory == [o \in QName \cup PName |-> Unset(RoutineType)]

Init ==
  /\ pc = "parse"
  /\ routines = NoRoutines
  /\ queues = NoQueues
  /\ port = NULL
  /\ code = NULL
  /\ last = NoHistory

\* showError and return: the tables go with the process.
Reject ==
  /\ pc' = "rejected"
  /\ routines' = NoRoutines
  /\ queues' = NoQueues
  /\ port' = NULL
  /\ last' = NoHistory
  /\ UNCHANGED code

\* The history without what was assigned to objects that are gone.
Forget(objects, types) ==
  [o \in DOMAIN last |-> [t \in RoutineType |->
     IF o \in objects /\ t \in types THEN NULL ELSE last[o][t]]]

\* A line that no rule accepts: no semicolon, a malformed declaration, a
\* file that is not a header or cannot be read.
malformedLine ==
  /\ pc = "parse"
  /\ Reject

\* import "file"
importLine(file) ==
  /\ pc = "parse"
  /\ LET st == processImport(routines, file)
     IN  \/ /\ st.ok
            /\ routines' = st.known
            /\ UNCHANGED <<pc, queues, port, code, last>>
         \/ ~st.ok /\ Reject

\* Queue q = Queue(n): a queue declared again is a new object in the table.
queueLine(q) ==
  /\ pc = "parse"
  /\ Cardinality(Declared \cup {q}) <= MaxQueues
  /\ queues' = [queues EXCEPT ![q] = Unset(QueueType)]
  /\ last' = Forget({q}, QueueType)
  /\ UNCHANGED <<pc, routines, port, code>>

\* Port p = Port(q, ...): every queue must have been declared.  The port takes
\* the place of an earlier one.
portLine(p, list) ==
  /\ pc = "parse"
  /\ \/ /\ ToSet(list) \subseteq Declared
        /\ port' = [name |-> p, queues |-> list, stmt |-> Unset(PortType)]
        /\ last' = Forget(PName, PortType)
        /\ UNCHANGED <<pc, routines, queues, code>>
     \/ ~(ToSet(list) \subseteq Declared) /\ Reject

IsPort(obj) == port # NULL /\ port.name = obj

\* obj.attr = rhs, obj a queue: the name of a queue hides a port's.
QueueAssignable(obj, type, rhs) ==
  /\ obj \in Declared
  /\ type \in QueueType
  /\ validateFunctionAssignment(rhs, type)

PortAssignable(obj, type, rhs) ==
  /\ obj \notin Declared
  /\ IsPort(obj)
  /\ type \in PortType
  /\ validateFunctionAssignment(rhs, type)

queueAssignment(obj, type, rhs) ==
  /\ pc = "parse"
  /\ QueueAssignable(obj, type, rhs)
  /\ queues' = [queues EXCEPT ![obj][type] = rhs]
  /\ last' = [last EXCEPT ![obj][type] = rhs]
  /\ UNCHANGED <<pc, routines, port, code>>

portAssignment(obj, type, rhs) ==
  /\ pc = "parse"
  /\ PortAssignable(obj, type, rhs)
  /\ port' = [port EXCEPT !.stmt[type] = rhs]
  /\ last' = [last EXCEPT ![obj][type] = rhs]
  /\ UNCHANGED <<pc, routines, queues, code>>

\* An object that does not exist, an attribute it does not have, or a
\* statement that does not fit.
invalidAssignment ==
  /\ pc = "parse"
  /\ ~ \A obj \in QName \cup PName, type \in RoutineType, rhs \in Rhs :
         QueueAssignable(obj, type, rhs) \/ PortAssignable(obj, type, rhs)
  /\ Reject

-----------------------------------------------------------------------------
(* Validation and generation *)

\* Port.isWellDefined and Queue.isWellDefined of every queue in the table.
isWellDefined ==
  /\ port # NULL
  /\ port.queues # << >>
  /\ \A t \in PortType : port.stmt[t] # NULL
  /\ \A q \in Declared : \A t \in QueueType : queues[q][t] # NULL

\* End of file, and the policy is not well-defined.
notWellDefined ==
  /\ pc = "parse"
  /\ ~isWellDefined
  /\ Reject

\* End of file, and the directory, its Makefile or the module cannot be written.
notWritten ==
  /\ pc = "parse"
  /\ isWellDefined
  /\ Reject

\* Variant for mutation: the statements are taken in another order than the
\* names they belong to.
generateCode_two_orders ==
  /\ pc = "parse"
  /\ isWellDefined
  /\ \E order, other \in SetToSeqs(Declared) :
       code' = [order |-> order,
                cases |-> [i \in DOMAIN order |-> queues[other[i]]],
                stmt |-> port.stmt]
  /\ pc' = "done"
  /\ UNCHANGED <<routines, queues, port, last>>

\* End of file, and the module is written: the queues come in the order of the
\* hash table, which gives each its index (generateInitPortFn) and its place
\* in the four functions that tell queues apart by name.
generateCode ==
  /\ pc = "parse"
  /\ isWellDefined
  /\ \E order \in SetToSeqs(Declared) :
       code' = [order |-> order,
                cases |-> [i \in DOMAIN order |-> queues[order[i]]],
                stmt |-> port.stmt]
  /\ pc' = "done"
  /\ UNCHANGED <<routines, queues, port, last>>

Next ==
  \/ malformedLine
  \/ \E f \in DOMAIN Header : importLine(f)
  \/ \E q \in QName : queueLine(q)
  \/ \E p \in PName, list \in PortLists : portLine(p, list)
  \/ \E obj \in QName \cup PName, type \in RoutineType, rhs \in Rhs :
       \/ queueAssignment(obj, type, rhs)
       \/ portAssignment(obj, type, rhs)
  \/ invalidAssignment
  \/ notWellDefined
  \/ notWritten
  \/ generateCode

Spec == Init /\ [][Next]_vars

-----------------------------------------------------------------------------
(* Properties *)

\* The characters of a name that strncmp compares.
Prefix(name) ==
  SubSeq(name, 1, IF Len(name) < TCQ_OQ_NAME_LEN THEN Len(name) ELSE TCQ_OQ_NAME_LEN)

\* The statement that a generated function evaluates for the queue called
\* name: the last of its cases whose string matches.
Dispatch(name, type) ==
  LET hits == {i \in DOMAIN code.order : Prefix(code.order[i]) = Prefix(name)}
  IN  code.cases[CHOOSE i \in hits : \A j \in hits : j <= i][type]

\* In a generated module each queue, and the port, gets the statements that the
\* file assigned to it after its last declaration: declarations and assignments
\* may come in any order and be repeated, and the port may be named like a
\* queue.  Only a queue whose name has the same first TCQ_OQ_NAME_LEN characters
\* as another's can get the statements of that one.
DispatchesOwn ==
  pc = "done" =>
    /\ \A q \in Declared, t \in QueueType :
         \/ Dispatch(q, t) = last[q][t]
         \/ \E r \in Declared \ {q} : Prefix(r) = Prefix(q) /\ Dispatch(q, t) = last[r][t]
    /\ \A t \in PortType : code.stmt[t] = last[port.name][t]

\* Statement stmt of the function for type t calls a routine as some header
\* declares it, with variables that the function has.
CallFits(stmt, t) ==
  \/ stmt.inline
  \/ /\ getStatement(stmt, t) \subseteq Params(t)
     /\ \E f \in DOMAIN Header : \E i \in DOMAIN Header[f] :
          /\ ~Header[f][i].comment
          /\ Header[f][i].name = stmt.name
          /\ Header[f][i].sig = Signature(t)

\* The C code that is written calls routines only with the parameters and the
\* result that their header gives them.
CallsMatchHeaders ==
  pc = "done" =>
    /\ \A t \in PortType : CallFits(code.stmt[t], t)
    /\ \A i \in DOMAIN code.order, t \in QueueType : CallFits(code.cases[i][t], t)

=============================================================================
