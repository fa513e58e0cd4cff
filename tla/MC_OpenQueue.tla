---------------------------- MODULE MC_OpenQueue ----------------------------
(***************************************************************************)
(* Small ports for TLC.                                                    *)
(***************************************************************************)
EXTENDS OpenQueue, TLC

CONSTANT Limit   \* length at which a queue is congested

\* Queue.len == Limit, the form of both congestion conditions of MyPort.oqp.
LenIsLimit(q, Q) == Q.len = Limit

First == {0}
Both == {0, 1}
Size == [q \in Queue |-> 2]
Symmetry == Permutations(Skb)

=============================================================================
