------------------------------ MODULE DualQueue ------------------------------
(***************************************************************************)
(* What one OpenQueue port promises, with no data structure behind it.     *)
(* Each queue holds a set of packets.  A packet has an admission key and a *)
(* processing key, fixed when it arrives, and an arrival number.  The      *)
(* packet that leaves next is the oldest of those with the largest         *)
(* processing key.  The packet that is evicted under congestion is the     *)
(* oldest of those with the largest admission key.                         *)
(***************************************************************************)
EXTENDS Integers

CONSTANTS
  Skb,    \* packet buffers
  Key,    \* admission and processing keys
  Queue   \* queues of the port

VARIABLES
  held,      \* the packets each queue holds
  arrivals   \* packets each queue has taken since it was last emptied

vars == <<held, arrivals>>

Entry == [skb : Skb, admn : Key, proc : Key, at : Nat]

TypeOK ==
  /\ held \in [Queue -> SUBSET Entry]
  /\ arrivals \in [Queue -> Nat]

\* e leaves first among S: nobody has a larger processing key, and nobody
\* with the same one came earlier.
FirstOut(e, S) ==
  \A f \in S : f.proc < e.proc \/ (f.proc = e.proc /\ e.at <= f.at)

\* e is evicted first among S.
FirstVictim(e, S) ==
  \A f \in S : f.admn < e.admn \/ (f.admn = e.admn /\ e.at <= f.at)

Arrival(q, p, a, b) ==
  [skb |-> p, admn |-> a, proc |-> b, at |-> arrivals[q] + 1]

-----------------------------------------------------------------------------

Init ==
  /\ held = [q \in Queue |-> {}]
  /\ arrivals = [q \in Queue |-> 0]

\* No queue holds p.
Absent(p) == \A r \in Queue : \A f \in held[r] : f.skb # p

\* Packet p joins queue q.
Accept(q, p, a, b) ==
  /\ Absent(p)
  /\ held' = [held EXCEPT ![q] = @ \cup {Arrival(q, p, a, b)}]
  /\ arrivals' = [arrivals EXCEPT ![q] = @ + 1]

\* Packet p joins queue q in the place of its first victim.
Replace(q, p, a, b) ==
  /\ Absent(p)
  /\ \E v \in held[q] :
       /\ FirstVictim(v, held[q])
       /\ held' = [held EXCEPT ![q] = (@ \ {v}) \cup {Arrival(q, p, a, b)}]
       /\ arrivals' = [arrivals EXCEPT ![q] = @ + 1]

\* The first packet of q in processing order leaves.
Deliver(q) ==
  \E e \in held[q] :
    /\ FirstOut(e, held[q])
    /\ held' = [held EXCEPT ![q] = @ \ {e}]
    /\ UNCHANGED arrivals

\* The port is configured again: every queue starts from nothing.
Reset ==
  /\ held' = [q \in Queue |-> {}]
  /\ arrivals' = [q \in Queue |-> 0]

Next ==
  \/ \E q \in Queue, p \in Skb, a \in Key, b \in Key :
        Accept(q, p, a, b) \/ Replace(q, p, a, b)
  \/ \E q \in Queue : Deliver(q)
  \/ Reset

Spec == Init /\ [][Next]_vars

=============================================================================
