------------------------------ MODULE QdiscRun ------------------------------
(***************************************************************************)
(* A port and the network stack that runs it.  After each enqueue the      *)
(* stack calls dequeue again and again until a call returns NULL; then it  *)
(* leaves the port alone until the next packet comes.  Between two calls   *)
(* it gives up the root lock, so packets arrive and reconfigurations run.  *)
(*                                                                         *)
(* oq_dequeue returns NULL on an empty queue, and also when the packet it  *)
(* has unlinked has no twin in the admission tree, whatever else waits.    *)
(***************************************************************************)
EXTENDS OpenQueue

VARIABLES
  run,    \* the stack: it is "on", has been told that there is no packet
          \* ("done"), or was told so while packets may wait ("early")
  debt    \* history: the packets of each queue that failed reconfigurations
          \* have left without a twin, less the runs that ended early since

runVars == <<queues, owned, at, run, debt>>

\* The policy serves one queue, as the shipped one does.  Of several queues
\* sched_fn may pick an empty one, which ends the run as well.
ASSUME OneServed == Cardinality(SchedQ) = 1

RunInit ==
  /\ Init
  /\ run = "done"
  /\ debt = [q \in Queue |-> 0]

\* Every enqueue is followed by a run, also one that drops the packet.
Enqueue ==
  /\ \E skb \in Skb : oq_enqueue(skb)
  /\ run' = "on"
  /\ UNCHANGED debt

\* A call of the run; NULL ends it.
Dequeue ==
  /\ run = "on"
  /\ \E q \in SchedQ :
       \/ /\ Occupied(queues[q].proc) = {}
          /\ run' = "done"
          /\ UNCHANGED <<queues, owned, at, debt>>
       \/ /\ oq_dequeue(q)
          /\ Unlink(queues[q].proc, queues[q].admn).found
          /\ UNCHANGED <<run, debt>>
       \/ /\ oq_dequeue(q)
          /\ ~Unlink(queues[q].proc, queues[q].admn).found
          /\ run' = "early"
          /\ debt' = [debt EXCEPT ![q] = @ - 1]

\* A reconfiguration does not make the stack run the port.
Change ==
  /\ oq_change
  /\ debt' = [q \in Queue |-> 0]
  /\ UNCHANGED run

\* All the packets that are still in the processing tree of queue f have lost
\* their twins.
ChangeEnomem(f) ==
  /\ oq_change_enomem(f)
  /\ debt' = [q \in Queue |-> IF q < f THEN 0
                              ELSE IF q = f THEN Cardinality(Stored(queues'[q].proc))
                              ELSE debt[q]]
  /\ UNCHANGED run

RunNext ==
  \/ Enqueue
  \/ Dequeue
  \/ Change
  \/ \E f \in Queue : ChangeEnomem(f)

\* The stack goes on with a run that it has begun; it promises nothing else.
FairSpec == RunInit /\ [][RunNext]_runVars /\ WF_runVars(Dequeue)

-----------------------------------------------------------------------------
(* Properties *)

\* A run ends with packets waiting only because of a reconfiguration that ran
\* out of memory, and at most once for each packet that this one has left in
\* the processing tree: the "Not likely though" returns of oq_dequeue take the
\* damage away, one packet at a time, and no other step adds to it.
EarlyStopsPaid == \A q \in Queue : debt[q] >= 0

\* If packets stop arriving, the served queue drains, both trees of it, unless
\* the last run was one of those that ended early: then what is left waits for
\* the next packet.
Drains ==
  \/ []<><<Enqueue>>_runVars
  \/ <>[](run = "early" \/ \A q \in SchedQ : /\ queues[q].admn = EmptyTree
                                              /\ queues[q].proc = EmptyTree)
=============================================================================
