----------------------------- MODULE Containers -----------------------------
(***************************************************************************)
(* The containers of the OpenQueue qdisc, pointer by pointer: the circular *)
(* lists that do_enqueue, do_drop_tail and oq_dequeue link and unlink, and *)
(* the two slab caches that containers and list heads come from.  The      *)
(* caches are global to the module; every oq_init, of any port, creates    *)
(* them anew and forgets the old ones.  It runs under the RTNL mutex but   *)
(* without the root lock of any port, so that the data path of every port, *)
(* its own included, goes on between its calls.  (Inside init_port it does *)
(* so too; module PortChange has that.)                                    *)
(*                                                                         *)
(* Each port has one queue here.  A cache is known by the number of its    *)
(* creation; 0 is the NULL that a failed creation leaves behind.           *)
(***************************************************************************)
EXTENDS Integers, FiniteSetsExt, Functions, Sequences

CONSTANTS
  Port,        \* qdiscs, one queue each
  Skb,         \* packet buffers
  ULONG_MAX,   \* largest key
  Addr,        \* addresses of containers, a set of numbers
  Limit,       \* per port: the length at which its queue is congested
  KeyPair,     \* pairs of admission and processing key that a policy returns
  CongAct,     \* results of cong_act_fn
  MaxCount,    \* bound on the counters of all ports together
  MaxCache,    \* bound on the creations of caches
  NULL

Key == 0 .. ULONG_MAX
TreeName == {"admn", "proc"}
Twin(tree) == IF tree = "admn" THEN "proc" ELSE "admn"

OQ_CON_ACT_DROP_TAIL == 2
OQ_CON_ACT_DROP_PKT == 3

ASSUME ContainersAssumption == Addr \subseteq Nat /\ NULL \notin Addr

VARIABLES
  cont,          \* the memory of the containers
  slab,          \* the cache a container was allocated from; 0: it is free
  queue,         \* per port: counters and, per tree and key, the list head
  cache,         \* skb_container_cache and skb_cont_list_cache
  configured,    \* ports whose first oq_init succeeded
  call,          \* oq_init: its next call, its port, and as history the
                 \* packets that entered the port while it ran
  owned,         \* per port: buffers neither sent nor freed since they came
  at,            \* history, per port: number of each buffer among the arrivals
  seq,           \* history, per port: the queue that module OpenQueue reaches
  forgotten,     \* history: containers that nobody freed and no list has
  oops           \* something was allocated from or freed into a cache that is NULL

vars == <<cont, slab, queue, cache, configured, call, owned, at, seq, forgotten, oops>>

Congested(p, len) == len = Limit[p]

\* The ports as module OpenQueue describes them.
OQ(p) == INSTANCE OpenQueue WITH
  NumQ <- 1, MaxLen <- [q \in {0} |-> 2], SelectQ <- {0}, SchedQ <- {0},
  cong_fn <- LAMBDA q, Q : Congested(p, Q.len),
  queues <- [q \in {0} |-> seq[p]], owned <- owned[p], at <- at[p]

NoList == [head |-> NULL, slab |-> 0]
EmptyQueue == [admn |-> [k \in Key |-> NoList], proc |-> [k \in Key |-> NoList],
               len |-> 0, dropped |-> 0, total |-> 0]

\* The memory of a container that is not allocated.
Poison == [skb |-> NULL, other_key |-> 0, next |-> NULL, prev |-> NULL]

Init ==
  /\ cont = [a \in Addr |-> Poison]
  /\ slab = [a \in Addr |-> 0]
  /\ queue = [p \in Port |-> EmptyQueue]
  /\ cache = [container |-> 0, list |-> 0, made |-> 0]
  /\ configured = {}
  /\ call = [pc |-> "idle", port |-> NULL, early |-> {}]
  /\ owned = [p \in Port |-> {}]
  /\ at = [p \in Port |-> [s \in Skb |-> 0]]
  /\ seq = [p \in Port |-> OQ(p)!init_queue(0)]
  /\ forgotten = {}
  /\ oops = FALSE

-----------------------------------------------------------------------------
(* Lists.  A heap h has the fields cont, slab and q (the queue worked on). *)

\* The containers that the do-while loop meets from a on, before it is back at
\* the head.
RECURSIVE Walk(_, _, _, _)
Walk(memory, head, a, steps) ==
  LET next == memory[a].next
  IN  IF next = head \/ next = NULL \/ steps = 0 THEN <<a>>
      ELSE <<a>> \o Walk(memory, head, next, steps - 1)

Ring(memory, head) == Walk(memory, head, head, Cardinality(Addr))

\* The container of a packet on the list of a key, NULL if the loop ends
\* without it.
Find(h, tree, key, skb) ==
  LET head == h.q[tree][key].head
      ring == Ring(h.cont, head)
      hits == {i \in DOMAIN ring : h.cont[ring[i]].skb = skb}
  IN  IF head = NULL \/ hits = {} THEN NULL
      ELSE ring[CHOOSE i \in hits : \A j \in hits : i <= j]

\* The heap after a container was allocated for skb and filed under key.
File(h, tree, key, skb, other_key) ==
  LET a    == CHOOSE x \in Addr : h.slab[x] = 0 /\ \A y \in Addr : h.slab[y] = 0 => x <= y
      head == h.q[tree][key].head
      new  == [skb |-> skb, other_key |-> other_key, next |-> a, prev |-> a]
      tail == h.cont[head].prev
  IN  IF head = NULL
      THEN [h EXCEPT !.cont[a] = new,
                     !.slab[a] = cache.container,
                     !.q[tree][key] = [head |-> a, slab |-> cache.list]]
      ELSE [h EXCEPT !.cont = [[[@ EXCEPT ![a] = [new EXCEPT !.prev = tail, !.next = head]]
                                  EXCEPT ![tail].next = a]
                                  EXCEPT ![head].prev = a],
                     !.slab[a] = cache.container]

\* The only container of its list.
Alone(h, a) == h.cont[a].next = a

\* Variant for mutation: the head of the list is not moved on.
Unlink_keep_head(h, tree, key, a) ==
  LET next == h.cont[a].next
      prev == h.cont[a].prev
  IN  IF Alone(h, a)
      THEN [h EXCEPT !.q[tree][key] = NoList]
      ELSE [h EXCEPT !.cont = [[@ EXCEPT ![next].prev = prev] EXCEPT ![prev].next = next]]

\* Variant for mutation: only the forward link is closed.
Unlink_forward(h, tree, key, a) ==
  LET next == h.cont[a].next
      prev == h.cont[a].prev
  IN  IF Alone(h, a)
      THEN [h EXCEPT !.q[tree][key] = NoList]
      ELSE [h EXCEPT !.cont = [@ EXCEPT ![prev].next = next],
                     !.q[tree][key].head = IF @ = a THEN next ELSE @]

\* Container a leaves the list of its key.  The last one takes the key out of
\* the tree and its list head back to the cache.
Unlink(h, tree, key, a) ==
  LET next == h.cont[a].next
      prev == h.cont[a].prev
  IN  IF Alone(h, a)
      THEN [h EXCEPT !.q[tree][key] = NoList]
      ELSE [h EXCEPT !.cont = [[@ EXCEPT ![next].prev = prev] EXCEPT ![prev].next = next],
                     !.q[tree][key].head = IF @ = a THEN next ELSE @]

\* btree_last on a tree that is not empty.
LastKey(q, tree) ==
  CHOOSE k \in Key : /\ q[tree][k].head # NULL
                     /\ \A l \in Key : q[tree][l].head # NULL => l <= k

Empty(q, tree) == \A k \in Key : q[tree][k].head = NULL

\* Variant for mutation: only the first container is freed.
Remove_free_one(h, tree) ==
  LET key   == LastKey(h.q, tree)
      a     == h.q[tree][key].head
      skb   == h.cont[a].skb
      other == h.cont[a].other_key
      h1    == Unlink(h, tree, key, a)
      b     == Find(h1, Twin(tree), other, skb)
  IN  [skb   |-> skb,
       found |-> b # NULL,
       lists |-> Alone(h, a) \/ (b # NULL /\ Alone(h1, b)),
       kept  |-> IF b = NULL THEN {a} ELSE {},
       heap  |-> IF b = NULL THEN h1
                 ELSE [Unlink(h1, Twin(tree), other, b) EXCEPT !.slab[a] = 0, !.cont[a] = Poison]]

\* What do_drop_tail (tree "admn") and oq_dequeue (tree "proc") have in common:
\* the head of the last list is unlinked, then its twin; both are freed, unless
\* the twin is missing.  A list without containers is freed at once.
Remove(h, tree) ==
  LET key   == LastKey(h.q, tree)
      a     == h.q[tree][key].head
      skb   == h.cont[a].skb
      other == h.cont[a].other_key
      h1    == Unlink(h, tree, key, a)
      b     == Find(h1, Twin(tree), other, skb)
  IN  [skb   |-> skb,
       found |-> b # NULL,
       lists |-> Alone(h, a) \/ (b # NULL /\ Alone(h1, b)),
       kept  |-> IF b = NULL THEN {a} ELSE {},
       heap  |-> IF b = NULL THEN h1
                 ELSE [Unlink(h1, Twin(tree), other, b) EXCEPT !.slab[a] = 0, !.slab[b] = 0,
                                                          !.cont[a] = Poison, !.cont[b] = Poison]]

-----------------------------------------------------------------------------
(* Operations *)

Heap(p) == [cont |-> cont, slab |-> slab, q |-> queue[p]]

SetHeap(p, h) ==
  /\ cont' = h.cont
  /\ slab' = h.slab
  /\ queue' = [queue EXCEPT ![p] = h.q]

do_enqueue(h, skb, admn_key, proc_key) ==
  LET h1 == File(h, "admn", admn_key, skb, proc_key)
      h2 == File(h1, "proc", proc_key, skb, admn_key)
  IN  [h2 EXCEPT !.q.len = @ + 1, !.q.total = @ + 1]

\* A list head or a container of a removal goes back to a cache that is NULL.
FreedToNull(r) ==
  \/ r.lists /\ cache.list = 0
  \/ r.found /\ cache.container = 0

Untouched(h) == [heap |-> h, freed |-> {}, kept |-> {}, fault |-> FALSE]

\* Variant for mutation: the victim's buffer is not freed.
do_drop_tail_no_kfree(h) ==
  IF Empty(h.q, "admn") THEN Untouched(h)
  ELSE LET r == Remove(h, "admn")
       IN  [heap  |-> [r.heap EXCEPT !.q.dropped = IF r.found THEN @ + 1 ELSE @],
            freed |-> {},
            kept  |-> r.kept,
            fault |-> FreedToNull(r)]

do_drop_tail(h) ==
  IF Empty(h.q, "admn") THEN Untouched(h)
  ELSE LET r == Remove(h, "admn")
       IN  [heap  |-> [r.heap EXCEPT !.q.dropped = IF r.found THEN @ + 1 ELSE @],
            freed |-> IF r.found THEN {r.skb} ELSE {},
            kept  |-> r.kept,
            fault |-> FreedToNull(r)]

\* The stack hands a buffer to oq_enqueue of port p.
Arrives(p, skb) ==
  /\ ~oops
  /\ p \in configured
  /\ \A r \in Port : skb \notin owned[r]

\* The bounds on arrivals: of the counters and of the memory.
InBounds ==
  /\ MapThenSumSet(LAMBDA r : queue[r].total + queue[r].dropped, Port) < MaxCount
  /\ Cardinality({a \in Addr : slab[a] = 0}) >= 2

\* do_enqueue will ask for a container or a list head that no cache can give.
NoCache(q, admn_key, proc_key) ==
  \/ cache.container = 0
  \/ cache.list = 0 /\ (q.admn[admn_key].head = NULL \/ q.proc[proc_key].head = NULL)

\* oq_enqueue with do_enqueue, after do_drop_tail if the queue is congested.
Enqueue(p, skb, admn_key, proc_key) ==
  /\ Arrives(p, skb)
  /\ ~Congested(p, queue[p].len) \/ OQ_CON_ACT_DROP_TAIL \in CongAct
  /\ LET d == IF Congested(p, queue[p].len)
              THEN do_drop_tail(Heap(p))
              ELSE Untouched(Heap(p))
     IN  IF d.fault \/ NoCache(d.heap.q, admn_key, proc_key)
         THEN /\ oops' = TRUE
              /\ UNCHANGED <<cont, slab, queue, owned, at, seq, forgotten>>
         ELSE /\ SetHeap(p, do_enqueue(d.heap, skb, admn_key, proc_key))
              /\ seq' = [seq EXCEPT ![p] = OQ(p)!do_enqueue(
                   IF Congested(p, @.len) THEN OQ(p)!do_drop_tail(@).queue ELSE @,
                   skb, admn_key, proc_key)]
              /\ owned' = [owned EXCEPT ![p] = (@ \ d.freed) \cup {skb}]
              /\ at' = [at EXCEPT ![p][skb] = queue[p].total + 1]
              /\ forgotten' = forgotten \cup d.kept
              /\ UNCHANGED oops
  /\ call' = IF p = call.port /\ call.pc # "idle" THEN [call EXCEPT !.early = @ \cup {skb}] ELSE call
  /\ UNCHANGED <<cache, configured>>

\* oq_enqueue on a congested queue, the arriving packet dropped.
DropPkt(p, skb) ==
  /\ Arrives(p, skb)
  /\ Congested(p, queue[p].len)
  /\ OQ_CON_ACT_DROP_PKT \in CongAct
  /\ queue' = [queue EXCEPT ![p].dropped = @ + 1]
  /\ seq' = [seq EXCEPT ![p].dropped = @ + 1]
  /\ UNCHANGED <<cont, slab, cache, configured, call, owned, at, forgotten, oops>>

oq_dequeue(p) ==
  /\ ~oops
  /\ p \in configured
  /\ ~Empty(queue[p], "proc")
  /\ LET r == Remove(Heap(p), "proc")
         u == OQ(p)!Unlink(seq[p].proc, seq[p].admn)
     IN  IF FreedToNull(r)
         THEN /\ oops' = TRUE
              /\ UNCHANGED <<cont, slab, queue, owned, seq, forgotten>>
         ELSE /\ SetHeap(p, [r.heap EXCEPT !.q.len = IF r.found THEN @ - 1 ELSE @])
              /\ owned' = IF r.found THEN [owned EXCEPT ![p] = @ \ {r.skb}] ELSE owned
              /\ seq' = [seq EXCEPT ![p].proc = u.tree, ![p].admn = u.twin,
                                     ![p].len = IF u.found THEN @ - 1 ELSE @]
              /\ forgotten' = forgotten \cup r.kept
              /\ UNCHANGED oops
  /\ UNCHANGED <<cache, configured, call, at>>

-----------------------------------------------------------------------------
(* oq_init, as the init or the change operation of a port *)

\* The containers on the list of a key, oldest first.
OnList(p, tree, key) ==
  IF queue[p][tree][key].head = NULL THEN << >>
  ELSE Ring(cont, queue[p][tree][key].head)

\* The containers on the lists of some trees of a port.
OnLists(p, trees) == UNION {Range(OnList(p, tree, k)) : tree \in trees, k \in Key}

\* Variant for mutation: the caches are created, the queue is not initialised.
init_port_skipped(p) ==
  /\ ~oops
  /\ call.pc = "idle"
  /\ cache.made < MaxCache
  /\ cache' = [cache EXCEPT !.made = @ + 1]
  /\ call' = [pc |-> "container", port |-> p, early |-> {}]
  /\ UNCHANGED <<cont, slab, queue, configured, owned, at, seq, forgotten, oops>>

\* init_port forgets what the queue held.
init_port(p) ==
  /\ ~oops
  /\ call.pc = "idle"
  /\ cache.made < MaxCache
  /\ queue' = [queue EXCEPT ![p] = EmptyQueue]
  /\ seq' = [seq EXCEPT ![p] = OQ(p)!init_queue(0)]
  /\ cache' = [cache EXCEPT !.made = @ + 1]
  /\ call' = [pc |-> "container", port |-> p, early |-> {}]
  /\ forgotten' = forgotten \cup OnLists(p, TreeName)
  /\ UNCHANGED <<cont, slab, configured, owned, at, oops>>

\* btree_init fails in init_port, which ends oq_init: the first tree of the queue
\* or both are emptied, the rest of the port and the caches stay as they are.  (As
\* the init operation it leaves no port behind.)
init_port_enomem(p) ==
  /\ ~oops
  /\ call.pc = "idle"
  /\ p \in configured
  /\ \E failing \in TreeName :
       /\ queue' = [queue EXCEPT ![p].admn = EmptyQueue.admn,
                                 ![p].proc = IF failing = "proc" THEN EmptyQueue.proc ELSE @]
       /\ seq' = [seq EXCEPT ![p] = OQ(p)!init_queue_enomem(@, failing)]
       /\ forgotten' = forgotten \cup OnLists(p, {"admn", failing})
  /\ UNCHANGED <<cont, slab, cache, configured, call, owned, at, oops>>

Return == call' = [call EXCEPT !.pc = "idle"]

\* The cache and the pool of the containers.  If one cannot be created its global
\* pointer is NULL, and the ports that were running go on with it.
create_container_cache ==
  /\ ~oops
  /\ call.pc = "container"
  /\ \/ /\ cache' = [cache EXCEPT !.container = cache.made]
        /\ call' = [call EXCEPT !.pc = "list"]
     \/ /\ cache' = [cache EXCEPT !.container = 0]
        /\ Return
  /\ UNCHANGED <<cont, slab, queue, configured, owned, at, seq, forgotten, oops>>

\* The same for the list heads; then the port is configured.
create_list_cache ==
  /\ ~oops
  /\ call.pc = "list"
  /\ Return
  /\ \/ /\ cache' = [cache EXCEPT !.list = cache.made]
        /\ configured' = configured \cup {call.port}
     \/ /\ cache' = [cache EXCEPT !.list = 0]
        /\ UNCHANGED configured
  /\ UNCHANGED <<cont, slab, queue, owned, at, seq, forgotten, oops>>

Next ==
  \E p \in Port :
    \/ /\ InBounds
       /\ \E skb \in Skb :
            \/ \E k \in KeyPair : Enqueue(p, skb, k[1], k[2])
            \/ DropPkt(p, skb)
    \/ oq_dequeue(p)
    \/ init_port(p)
    \/ init_port_enomem(p)
    \/ create_container_cache
    \/ create_list_cache

Spec == Init /\ [][Next]_vars

-----------------------------------------------------------------------------
(* Properties *)

Place == Port \X TreeName \X Key

\* Every list is one ring, closed in both directions, of allocated containers,
\* and no container is on two lists, after any sequence of links and unlinks
\* at the head, in the middle and at the end.
RingsOK ==
  LET lists == [l \in Place |-> OnList(l[1], l[2], l[3])]
  IN  /\ \A ring \in Range(lists) : \A i \in DOMAIN ring :
           LET next == ring[IF i = Len(ring) THEN 1 ELSE i + 1]
           IN  /\ slab[ring[i]] # 0
               /\ cont[ring[i]].next = next
               /\ cont[next].prev = ring[i]
      /\ Cardinality(UNION {Range(ring) : ring \in Range(lists)})
           = MapThenSumSet(LAMBDA l : Len(lists[l]), Place)

\* After a configuration the containers of its port come from the cache they
\* will be freed into, but for those of the packets that entered the port while
\* it was being configured; so do the list heads, if there were no such packets.
\* (Those of other ports do not: their caches were forgotten.)
PoolMatch ==
  \A tree \in TreeName, k \in Key :
    call.port # NULL /\ call.pc = "idle" /\ queue[call.port][tree][k].head # NULL =>
      /\ call.early = {} => queue[call.port][tree][k].slab = cache.list
      /\ \A i \in 1 .. Len(OnList(call.port, tree, k)) :
           LET a == OnList(call.port, tree, k)[i]
           IN  cont[a].skb \notin call.early => slab[a] = cache.container

\* A container that is allocated is on a list, or else it was on one that a
\* configuration has dropped, or oq_dequeue has unlinked it and missed its twin
\* after a configuration that failed: enqueuing, dropping and dequeuing lose no
\* other, and free none that a list still has.
ContainersFreed ==
  LET listed == UNION {OnLists(p, TreeName) : p \in Port}
  IN  /\ {a \in Addr : slab[a] # 0} = listed \cup forgotten
      /\ listed \cap forgotten = {}

\* The lists of a port hold the containers that module OpenQueue has in its
\* sequences, in the same order, and the counters agree.
Represents ==
  \A p \in Port :
    /\ \A tree \in TreeName, k \in Key :
         LET ring == OnList(p, tree, k)
         IN  seq[p][tree][k] = [i \in 1 .. Len(ring) |->
               [skb |-> cont[ring[i]].skb, other_key |-> cont[ring[i]].other_key]]
    /\ \A f \in {"len", "dropped", "total"} : queue[p][f] = seq[p][f]

\* The pointer manipulations of each port are steps of module OpenQueue, about
\* which its theorems are proved.
ImplementsOpenQueue ==
  /\ \A p \in Port : OQ(p)!Init
  /\ [][\A p \in Port : UNCHANGED OQ(p)!vars \/ OQ(p)!Next]_vars

=============================================================================
