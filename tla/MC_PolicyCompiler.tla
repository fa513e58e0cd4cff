------------------------- MODULE MC_PolicyCompiler --------------------------
(***************************************************************************)
(* A small policy language for TLC: three queue names, two of them alike   *)
(* in the characters that C compares, a port that may be named like a      *)
(* queue, and header files with an annotation that a comment cancels, a    *)
(* routine declared twice and one with a wrong signature.                  *)
(***************************************************************************)
EXTENDS PolicyCompiler

Short == <<"q">>
Long1 == <<"v", "o", "1">>
Long2 == <<"v", "o", "2">>
PortName == <<"p">>

QNames == {Short, Long1, Long2}
PNames == {PortName, Short}

Comment(type) == [comment |-> TRUE, type |-> type]
Code(name, type) == [comment |-> FALSE, name |-> name, sig |-> Signature(type)]

Headers == [
  queues |-> <<Comment("CONGESTION_CONDITION"), Code("cond", "CONGESTION_CONDITION")>>,
  ports  |-> <<Comment("SCHEDULING_PRIORITY"), Comment("UNDEFINED"),
               Code("plain", "CONGESTION_ACTION"),
               Comment("QUEUE_SELECTOR"), Code("select", "QUEUE_SELECTOR")>>,
  wrong  |-> <<Comment("SCHEDULING_PRIORITY"), Code("plain", "QUEUE_SELECTOR")>>]

RNames == {"cond", "select", "plain"}
Lists == {<<Short>>, <<Long1, Short>>}

Call(name) == [inline |-> FALSE, numbers |-> TRUE, name |-> name]
Inline(expr) == [inline |-> TRUE, expr |-> expr]
Attr(obj, attr) == [obj |-> obj, attr |-> attr]
Number == [obj |-> "", number |-> TRUE]

\* A routine for two of the types, one that no annotation made known, a call
\* whose parameter is not a number, and inline expressions: one that is valid,
\* the others with a wrong attribute, a wrong operator and a missing term.
RhsSet == {Call(n) : n \in RNames} \cup
  {[inline |-> FALSE, numbers |-> FALSE, name |-> "cond"],
   Inline(<<Attr("Queue", "len"), "==", Number>>),
   Inline(<<Attr("Queue", "length"), "==", Number>>),
   Inline(<<Attr("Packet", "tos"), "=", Number>>),
   Inline(<<Attr("Packet", "ttl"), ">">>)}

=============================================================================
