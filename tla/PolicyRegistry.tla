--------------------------- MODULE PolicyRegistry ---------------------------
(***************************************************************************)
(* The list of policies of the qdisc module: a circular, doubly linked     *)
(* list of containers behind oq_policy_base.  Policy modules register and  *)
(* unregister as the kernel loads and unloads them; oq_init looks a policy *)
(* up by name under the read lock and calls its init_port after it has     *)
(* released the lock.                                                      *)
(*                                                                         *)
(* A locked walk along the list is one step per container.  Appending      *)
(* takes no walk and is one step.  The kernel calls oq_init under the RTNL *)
(* mutex, so there is one lookup at a time.                                *)
(***************************************************************************)
EXTENDS Integers, FiniteSets, SequencesExt

CONSTANTS
  Addr,              \* addresses of policy containers
  Policy,            \* policy modules, each known by its init_port function
  Name,              \* port names
  NameOf,            \* the name each policy registers under
  Unregistering,     \* policies whose exit calls oq_unregister_policy
  NULL

ASSUME RegistryAssumption ==
  /\ NameOf \in [Policy -> Name]
  /\ Unregistering \subseteq Policy
  /\ NULL \notin Addr \cup Policy
  /\ {"none", "tc"} \cap Policy = {}

VARIABLES
  oq_policy_base,   \* the head of the list, or NULL
  node,             \* the containers
  live,             \* containers allocated and not freed
  lock,             \* who holds oq_policy_lock: "none", "tc" or a policy
  cursor,           \* the container the writer's walk has come to
  loaded,           \* policy modules whose text is in memory
  tc,               \* oq_init: where it is, the name it wants, its container
                    \* while it walks, the function it found
  port,             \* policies whose functions the qdisc has installed
  oops,             \* invalid accesses the kernel has trapped
  order             \* history: the containers on the list, oldest first

vars == <<oq_policy_base, node, live, lock, cursor, loaded, tc, port, oops, order>>

Node == [fn : Policy \cup {NULL}, next : Addr \cup {NULL}, prev : Addr \cup {NULL}]
Fault == {"kmalloc", "empty_list", "unloaded_code"}

\* oq_init between calls, along the list, and about to call init_port.
Idle == [pc |-> "idle", name |-> NULL, cursor |-> NULL, fn |-> NULL]
Walking == [pc : {"walk"}, name : Name, cursor : Addr, fn : {NULL}]
Calling == [pc : {"call"}, name : Name, cursor : {NULL}, fn : Policy]

TypeOK ==
  /\ oq_policy_base \in Addr \cup {NULL}
  /\ node \in [Addr -> Node]
  /\ live \subseteq Addr
  /\ lock \in Policy \cup {"none", "tc"}
  /\ cursor \in Addr \cup {NULL}
  /\ loaded \subseteq Policy
  /\ tc \in {Idle} \cup Walking \cup Calling
  /\ port \subseteq Policy
  /\ oops \subseteq Fault
  /\ order \in Seq(Addr)

Init ==
  /\ oq_policy_base = NULL
  /\ node = [a \in Addr |-> [fn |-> NULL, next |-> NULL, prev |-> NULL]]
  /\ live = {}
  /\ lock = "none"
  /\ cursor = NULL
  /\ loaded = {}
  /\ tc = Idle
  /\ port = {}
  /\ oops = {}
  /\ order = << >>

-----------------------------------------------------------------------------
(* The list *)

\* Variant for mutation: the first container is not linked to itself.
Append_container_open(a, p) ==
  IF oq_policy_base = NULL
  THEN [node EXCEPT ![a] = [fn |-> p, next |-> NULL, prev |-> NULL]]
  ELSE LET head == oq_policy_base
           tail == node[head].prev
       IN  [[[node EXCEPT ![a] = [fn |-> p, next |-> head, prev |-> tail]]
              EXCEPT ![tail].next = a]
              EXCEPT ![head].prev = a]

\* oq_register_policy, under the lock: the new container goes behind the tail.
Append_container(a, p) ==
  IF oq_policy_base = NULL
  THEN [node EXCEPT ![a] = [fn |-> p, next |-> a, prev |-> a]]
  ELSE LET head == oq_policy_base
           tail == node[head].prev
       IN  [[[node EXCEPT ![a] = [fn |-> p, next |-> head, prev |-> tail]]
              EXCEPT ![tail].next = a]
              EXCEPT ![head].prev = a]

\* Variant for mutation: only the forward link is repaired.
Join_forward(c) == [node EXCEPT ![node[c].prev].next = node[c].next]

\* oq_unregister_policy: the neighbours of c are joined.
Join(c) ==
  [[node EXCEPT ![node[c].next].prev = node[c].prev]
          EXCEPT ![node[c].prev].next = node[c].next]

-----------------------------------------------------------------------------
(* Actions *)

\* A policy module is loaded; its init calls oq_register_policy.
oq_register_policy(p) ==
  /\ p \notin loaded
  /\ lock = "none"
  /\ \E a \in Addr \ live :
       /\ node' = Append_container(a, p)
       /\ oq_policy_base' = IF oq_policy_base = NULL THEN a ELSE oq_policy_base
       /\ live' = live \cup {a}
       /\ order' = Append(order, a)
  /\ loaded' = loaded \cup {p}
  /\ UNCHANGED <<lock, cursor, tc, port, oops>>

\* A policy module is loaded and kmalloc fails: the result is not checked.
oq_register_policy_enomem(p) ==
  /\ p \notin loaded
  /\ oops' = oops \cup {"kmalloc"}
  /\ UNCHANGED <<oq_policy_base, node, live, lock, cursor, loaded, tc, port, order>>

\* The exit of a policy OQGen generates: it unregisters nothing, and the text
\* of the module goes.
oqp_exit(p) ==
  /\ p \in loaded
  /\ p \notin Unregistering
  /\ loaded' = loaded \ {p}
  /\ UNCHANGED <<oq_policy_base, node, live, lock, cursor, tc, port, oops, order>>

\* oq_unregister_policy takes the write lock.  The first container is read
\* before the end of the list is tested.
oq_unregister_policy(p) ==
  /\ p \in loaded
  /\ p \in Unregistering
  /\ lock = "none"
  /\ IF oq_policy_base = NULL
     THEN /\ oops' = oops \cup {"empty_list"}
          /\ UNCHANGED <<lock, cursor>>
     ELSE /\ lock' = p
          /\ cursor' = oq_policy_base
          /\ UNCHANGED oops
  /\ UNCHANGED <<oq_policy_base, node, live, loaded, tc, port, order>>

\* The walk has found the policy's container.
unregister_found(p) ==
  /\ lock = p
  /\ node[cursor].fn = p
  /\ node' = Join(cursor)
  /\ oq_policy_base' = IF cursor = oq_policy_base THEN NULL ELSE oq_policy_base
  /\ live' = live \ {cursor}
  /\ lock' = "none"
  /\ cursor' = NULL
  /\ loaded' = loaded \ {p}
  /\ order' = IF cursor = oq_policy_base
              THEN << >>
              ELSE RemoveAt(order, CHOOSE i \in 1 .. Len(order) : order[i] = cursor)
  /\ UNCHANGED <<tc, port, oops>>

\* The walk goes on to the next container, or ends without having found one.
unregister_next(p) ==
  /\ lock = p
  /\ node[cursor].fn # p
  /\ IF node[cursor].next = oq_policy_base
     THEN /\ lock' = "none"
          /\ cursor' = NULL
          /\ loaded' = loaded \ {p}
     ELSE /\ cursor' = node[cursor].next
          /\ UNCHANGED <<lock, loaded>>
  /\ UNCHANGED <<oq_policy_base, node, live, tc, port, oops, order>>

\* Variant for mutation: the read lock is not taken.
oq_init_unlocked(n) ==
  /\ tc.pc = "idle"
  /\ oq_policy_base # NULL
  /\ tc' = [pc |-> "walk", name |-> n, cursor |-> oq_policy_base, fn |-> NULL]
  /\ UNCHANGED <<oq_policy_base, node, live, lock, cursor, loaded, port, oops, order>>

\* oq_init takes the read lock to look for policy n.
oq_init(n) ==
  /\ tc.pc = "idle"
  /\ lock = "none"
  /\ IF oq_policy_base = NULL
     THEN /\ oops' = oops \cup {"empty_list"}
          /\ UNCHANGED <<lock, tc>>
     ELSE /\ lock' = "tc"
          /\ tc' = [pc |-> "walk", name |-> n, cursor |-> oq_policy_base, fn |-> NULL]
          /\ UNCHANGED oops
  /\ UNCHANGED <<oq_policy_base, node, live, cursor, loaded, port, order>>

Matches(a, n) == NameOf[node[a].fn] = n

\* The container has the name: its init_port is kept and the lock released.
lookup_found ==
  /\ tc.pc = "walk"
  /\ Matches(tc.cursor, tc.name)
  /\ tc' = [tc EXCEPT !.pc = "call", !.cursor = NULL, !.fn = node[tc.cursor].fn]
  /\ lock' = "none"
  /\ UNCHANGED <<oq_policy_base, node, live, cursor, loaded, port, oops, order>>

\* Variant for mutation: the test at the end of the loop looks one container
\* too far.
lookup_next_short ==
  /\ tc.pc = "walk"
  /\ ~Matches(tc.cursor, tc.name)
  /\ IF node[node[tc.cursor].next].next = oq_policy_base
     THEN tc' = Idle /\ lock' = "none"
     ELSE tc' = [tc EXCEPT !.cursor = node[@].next] /\ UNCHANGED lock
  /\ UNCHANGED <<oq_policy_base, node, live, cursor, loaded, port, oops, order>>

\* Variant for mutation: the error return keeps the lock.
lookup_next_locked ==
  /\ tc.pc = "walk"
  /\ ~Matches(tc.cursor, tc.name)
  /\ tc' = IF node[tc.cursor].next = oq_policy_base
           THEN Idle
           ELSE [tc EXCEPT !.cursor = node[@].next]
  /\ UNCHANGED <<oq_policy_base, node, live, lock, cursor, loaded, port, oops, order>>

\* Another name: on to the next container, or -EINVAL at the end of the list.
lookup_next ==
  /\ tc.pc = "walk"
  /\ ~Matches(tc.cursor, tc.name)
  /\ IF node[tc.cursor].next = oq_policy_base
     THEN tc' = Idle /\ lock' = "none"
     ELSE tc' = [tc EXCEPT !.cursor = node[@].next] /\ UNCHANGED lock
  /\ UNCHANGED <<oq_policy_base, node, live, cursor, loaded, port, oops, order>>

\* oq_init calls init_port, which installs the policy's functions in the qdisc,
\* or fails before it comes to them.
call_init_port ==
  /\ tc.pc = "call"
  /\ \/ tc.fn \in loaded /\ port' = {tc.fn} /\ UNCHANGED oops
     \/ tc.fn \in loaded /\ UNCHANGED <<port, oops>>
     \/ tc.fn \notin loaded /\ oops' = oops \cup {"unloaded_code"} /\ UNCHANGED port
  /\ tc' = Idle
  /\ UNCHANGED <<oq_policy_base, node, live, lock, cursor, loaded, order>>

Lookup == lookup_found \/ lookup_next
Unregister(p) == unregister_found(p) \/ unregister_next(p)

\* A trapped access stops the model.
Next ==
  /\ oops = {}
  /\ \/ \E p \in Policy :
          \/ oq_register_policy(p)
          \/ oq_register_policy_enomem(p)
          \/ oqp_exit(p)
          \/ oq_unregister_policy(p)
          \/ Unregister(p)
     \/ \E n \in Name : oq_init(n)
     \/ Lookup
     \/ call_init_port

Spec == Init /\ [][Next]_vars

\* Code that holds the lock runs on: nothing in either loop sleeps.
FairSpec == Spec /\ WF_vars(oops = {} /\ Lookup)
                 /\ \A p \in Policy : WF_vars(oops = {} /\ Unregister(p))

-----------------------------------------------------------------------------
(* Properties *)

\* The containers reachable from oq_policy_base form one circular list in
\* order of registration, linked both ways, with no container freed or met
\* twice.
RingOK ==
  LET n == Len(order)
      after(i) == IF i = n THEN 1 ELSE i + 1
  IN  /\ oq_policy_base = IF n = 0 THEN NULL ELSE order[1]
      /\ IsInjective(order)
      /\ \A i \in 1 .. n :
           /\ order[i] \in live
           /\ node[order[i]].next = order[after(i)]
           /\ node[order[after(i)]].prev = order[i]

\* The lookup, the unregistering policy, has come to the container at place i
\* and passed only containers that do not match.
LookupAt(i) ==
  order[i] = tc.cursor /\ \A j \in 1 .. i - 1 : ~Matches(order[j], tc.name)
UnregisterAt(i) ==
  order[i] = cursor /\ \A j \in 1 .. i - 1 : node[order[j]].fn # lock

\* Whoever walks the list stands on a container of it, never on one that was
\* freed, and has passed only containers that do not match.
WalkOK ==
  /\ tc.pc = "walk" => \E i \in 1 .. Len(order) : LookupAt(i)
  /\ lock \in Policy => \E i \in 1 .. Len(order) : UnregisterAt(i)

\* oq_init gives up (-EINVAL) only if no container of the list has the name.
FailsOnlyIfAbsent ==
  [][tc.pc = "walk" /\ tc'.pc = "idle" =>
       \A i \in 1 .. Len(order) : ~Matches(order[i], tc.name)]_vars

\* A walk under the lock ends, so that the lock is free again and again.
LockReleased == (lock # "none") ~> (lock = "none" \/ oops # {})

\* Unregistering a policy leaves the others registered.
UnregisterKeepsOthers ==
  [][\A a \in ToSet(order) :
       a \notin ToSet(order') => node[a].fn \in loaded \ loaded']_vars

\* A policy module that has gone is not on the list.
UnregisteredOnExit == \A a \in ToSet(order) : node[a].fn \in loaded

=============================================================================
