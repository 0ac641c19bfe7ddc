-------------------------------- MODULE Rdns --------------------------------
(***************************************************************************)
(* The reverse-DNS resolver of the network monitor (web/netmon/rdns.go):   *)
(* the sampler goroutine resolves the peer of every connection in each of  *)
(* its cycles (netmon.go, build), a pool of workers does the lookups.      *)
(* They share the LRU cache under mu, the in-flight set under imu and the  *)
(* bounded channel `queue`; each critical section and each channel         *)
(* operation is one action.  Time is abstract: an entry may expire at any  *)
(* moment, again and again.                                                *)
(***************************************************************************)
EXTENDS Naturals, Sequences, FiniteSets

CONSTANTS
    IP,          \* global peer addresses that occur
    Peers,       \* those that have a connection in every cycle
    Worker,      \* poolSize goroutines
    None,        \* no address, or nothing cached
    CacheCap,    \* cacheCap
    QueueCap     \* queueCap

\* The answer to a lookup of an address: whether DNS had a name for it.
Host == [of : IP, named : BOOLEAN]
Entry == [host : Host, fresh : BOOLEAN]

ASSUME RdnsAssumption ==
    /\ IsFiniteSet(IP)
    /\ IsFiniteSet(Worker)
    /\ Peers \subseteq IP
    /\ None \notin IP \cup Host \cup Entry
    /\ CacheCap \in Nat \ {0}
    /\ QueueCap \in Nat \ {0}

VARIABLES
    pc,       \* the sampler goroutine, inside or outside resolve
    ip,       \* the address it resolves, else None
    todo,     \* the peers this cycle of the sampler has not resolved yet
    shown,    \* what the last resolve of an address answered: "hit" or "miss"
    entry,    \* s.cache with the list elements' entries: what is cached of an address
    lru,      \* s.lru: the cached addresses, front (most recent) first
    inflight, \* s.inflight
    queue,    \* s.queue
    worker    \* each worker: its step, its address and the answer it got

sampler == <<pc, ip, todo, shown>>
cache == <<entry, lru>>
vars == <<pc, ip, todo, shown, entry, lru, inflight, queue, worker>>

Idle == [at |-> "idle", ip |-> None, host |-> None]

Elems(s) == {s[i] : i \in DOMAIN s}

Init ==
    /\ pc = "idle"
    /\ ip = None
    /\ todo = {}
    /\ shown = [x \in IP |-> "miss"]
    /\ entry = [x \in IP |-> None]
    /\ lru = <<>>
    /\ inflight = {}
    /\ queue = <<>>
    /\ worker = [w \in Worker |-> Idle]

-----------------------------------------------------------------------------
(* The cache.                                                              *)

\* list.Remove: the list s without the element of x, if it has one.
Without(s, x) ==
    IF x \notin Elems(s) THEN s
    ELSE LET i == CHOOSE i \in DOMAIN s : s[i] = x
         IN [j \in 1..Len(s) - 1 |-> IF j < i THEN s[j] ELSE s[j + 1]]

\* MoveToFront, or PushFront of an address that is not in the list.
ToFront(x) == <<x>> \o Without(lru, x)

\* Mutant: the loop ends one element too early.
KeptOneMore(s) == IF Len(s) > CacheCap + 1 THEN SubSeq(s, 1, CacheCap + 1) ELSE s

\* The elements the eviction loop leaves in the list.
Kept(s) == IF Len(s) > CacheCap THEN SubSeq(s, 1, CacheCap) ELSE s

\* Time passes: a cached entry's exp is over.
Expire ==
    /\ \E x \in IP :
        /\ entry[x] # None
        /\ entry[x].fresh
        /\ entry' = [entry EXCEPT ![x].fresh = FALSE]
    /\ UNCHANGED <<sampler, lru, inflight, queue, worker>>

-----------------------------------------------------------------------------
(* The sampler: build calls resolve for the peers of a cycle, in map order. *)

NewCycle ==
    /\ pc = "idle" /\ todo = {}
    /\ todo' \in {s \in SUBSET IP : Peers \subseteq s /\ s # {}}
    /\ UNCHANGED <<pc, ip, shown, cache, inflight, queue, worker>>

\* cacheGet: a live entry is the answer and moves to the front, an expired one
\* is removed.
CacheGet(x) ==
    /\ pc = "idle" /\ x \in todo
    /\ todo' = todo \ {x}
    /\ \/ /\ entry[x] # None
          /\ entry[x].fresh
          /\ lru' = ToFront(x)
          /\ shown' = [shown EXCEPT ![x] = "hit"]
          /\ UNCHANGED <<pc, ip, entry>>
       \/ /\ entry[x] # None => ~entry[x].fresh
          /\ entry' = [entry EXCEPT ![x] = None]
          /\ lru' = Without(lru, x)
          /\ shown' = [shown EXCEPT ![x] = "miss"]
          /\ ip' = x /\ pc' = "mark"
    /\ UNCHANGED <<inflight, queue, worker>>

\* Mutant: an address is marked and queued whether it is in flight or not.
MarkAlways ==
    /\ pc = "mark"
    /\ inflight' = inflight \cup {ip}
    /\ pc' = "enqueue"
    /\ UNCHANGED <<ip, todo, shown, cache, queue, worker>>

\* The in-flight set: an address that is in it is left alone.
Mark ==
    /\ pc = "mark"
    /\ IF ip \in inflight
       THEN pc' = "idle" /\ ip' = None /\ UNCHANGED inflight
       ELSE pc' = "enqueue" /\ inflight' = inflight \cup {ip} /\ UNCHANGED ip
    /\ UNCHANGED <<todo, shown, cache, queue, worker>>

\* Mutant: a send that waits for room in the channel.
EnqueueWaits ==
    /\ pc = "enqueue"
    /\ Len(queue) < QueueCap
    /\ queue' = Append(queue, ip) /\ pc' = "idle" /\ ip' = None
    /\ UNCHANGED <<todo, shown, cache, inflight, worker>>

\* The select: send, or take the default branch when the channel is full.
Enqueue ==
    /\ pc = "enqueue"
    /\ IF Len(queue) < QueueCap
       THEN queue' = Append(queue, ip) /\ pc' = "idle" /\ ip' = None
       ELSE pc' = "full" /\ UNCHANGED <<queue, ip>>
    /\ UNCHANGED <<todo, shown, cache, inflight, worker>>

\* Mutant: an address the queue had no room for stays in flight.
DropForgets ==
    /\ pc = "full"
    /\ pc' = "idle" /\ ip' = None
    /\ UNCHANGED <<todo, shown, cache, inflight, queue, worker>>

\* The default branch: not in flight any more, so that it is tried again.
Drop ==
    /\ pc = "full"
    /\ inflight' = inflight \ {ip}
    /\ pc' = "idle" /\ ip' = None
    /\ UNCHANGED <<todo, shown, cache, queue, worker>>

Resolve == (\E x \in IP : CacheGet(x)) \/ Mark \/ Enqueue \/ Drop

-----------------------------------------------------------------------------
(* The workers.                                                            *)

Take(w) ==
    /\ worker[w].at = "idle" /\ queue # <<>>
    /\ worker' = [worker EXCEPT ![w] = [at |-> "lookup", ip |-> Head(queue), host |-> None]]
    /\ queue' = Tail(queue)
    /\ UNCHANGED <<sampler, cache, inflight>>

\* LookupAddr, at most dnsTimout: a name or none (none is also the answer of
\* an error, a timeout and a name that sanitizes to nothing).
Lookup(w) ==
    /\ worker[w].at = "lookup"
    /\ \E named \in BOOLEAN :
        worker' = [worker EXCEPT ![w] =
            [at |-> "put", ip |-> @.ip, host |-> [of |-> @.ip, named |-> named]]]
    /\ UNCHANGED <<sampler, cache, inflight, queue>>

\* Mutant: an evicted list element keeps its key in the map.
PutKeepsKeys(w) ==
    LET x == worker[w].ip
    IN /\ worker[w].at = "put"
       /\ lru' = Kept(ToFront(x))
       /\ entry' = [entry EXCEPT ![x] = [host |-> worker[w].host, fresh |-> TRUE]]
       /\ worker' = [worker EXCEPT ![w].at = "clear"]
       /\ UNCHANGED <<sampler, inflight, queue>>

\* cachePut: the answer goes to the front, and what the list has no room for
\* is removed from list and map.
CachePut(w) ==
    LET x == worker[w].ip
        list == ToFront(x)
        evicted == Elems(list) \ Elems(Kept(list))
    IN /\ worker[w].at = "put"
       /\ lru' = Kept(list)
       /\ entry' = [y \in IP |-> IF y \in evicted THEN None
                                 ELSE IF y = x THEN [host |-> worker[w].host, fresh |-> TRUE]
                                 ELSE entry[y]]
       /\ worker' = [worker EXCEPT ![w].at = "clear"]
       /\ UNCHANGED <<sampler, inflight, queue>>

Clear(w) ==
    /\ worker[w].at = "clear"
    /\ inflight' = inflight \ {worker[w].ip}
    /\ worker' = [worker EXCEPT ![w] = Idle]
    /\ UNCHANGED <<sampler, cache, queue>>

Work(w) == Take(w) \/ Lookup(w) \/ CachePut(w) \/ Clear(w)

Next == NewCycle \/ Resolve \/ Expire \/ \E w \in Worker : Work(w)

\* The sampler loops for ever and the runtime schedules every worker; every
\* lookup ends, because its context has a deadline.
Fairness ==
    /\ WF_vars(NewCycle \/ Resolve)
    /\ \A w \in Worker : WF_vars(Work(w))

Spec == Init /\ [][Next]_vars /\ Fairness

-----------------------------------------------------------------------------
(* Properties.                                                             *)

\* Every variable has its type, and cache and queue keep to their capacities.
TypeOK ==
    /\ pc \in {"idle", "mark", "enqueue", "full"}
    /\ ip \in IP \cup {None}
    /\ ip = None <=> pc = "idle"
    /\ todo \subseteq IP
    /\ shown \in [IP -> {"hit", "miss"}]
    /\ entry \in [IP -> Entry \cup {None}]
    /\ lru \in Seq(IP) /\ Len(lru) <= CacheCap
    /\ inflight \subseteq IP
    /\ queue \in Seq(IP) /\ Len(queue) <= QueueCap
    /\ worker \in [Worker -> [at : {"idle", "lookup", "put", "clear"},
                              ip : IP \cup {None}, host : Host \cup {None}]]

\* The addresses the workers hold, and the one resolve has just marked.
Held(w) == IF worker[w].at = "idle" THEN {} ELSE {worker[w].ip}
Marked == IF pc \in {"enqueue", "full"} THEN {ip} ELSE {}

Distinct(s) == \A i, j \in DOMAIN s : i # j => s[i] # s[j]

\* The in-flight set is exact and no address is in flight twice: each of its
\* members is in one place, on its way into the queue, in it, or at one worker,
\* whatever the order of the critical sections of resolve and worker.
InflightExact ==
    /\ \A x \in IP : x \in inflight <=>
         x \in Marked \cup Elems(queue) \/ \E w \in Worker : x \in Held(w)
    /\ Distinct(queue)
    /\ Marked \cap Elems(queue) = {}
    /\ \A w \in Worker :
         /\ Held(w) \cap (Marked \cup Elems(queue)) = {}
         /\ \A v \in Worker \ {w} : Held(w) \cap Held(v) = {}

\* The map and the list are one cache: the list has every key once, and nothing
\* that is evicted or expired can still be found.
CacheConsistent ==
    /\ Elems(lru) = {x \in IP : entry[x] # None}
    /\ Distinct(lru)

\* resolve never waits for anybody: wherever it is, its next step is possible,
\* with the queue full and every worker stuck in a lookup.
NeverBlocks == pc # "idle" => ENABLED Resolve

\* Nothing stays in flight: a mark is always cleared, also when the queue was
\* full, so that no address is given up.
InflightClears == \A x \in IP : (x \in inflight) ~> (x \notin inflight)

\* What cacheGet would answer.
Names == [x \in IP |-> IF entry[x] = None THEN None
                       ELSE IF entry[x].fresh THEN entry[x].host ELSE None]

\* The cached answer to x is over, and nobody has removed it yet.
Stale(x) == entry[x] # None /\ ~entry[x].fresh

\* Once the connections are down to addresses that cache and queue can hold
\* together, every peer that keeps its connection gets a name again each time its
\* entry expires or is evicted, although what other addresses left in queue and
\* cache comes first; and while its entry does not expire it is answered from the
\* cache in the end and from then on.
PeersGetNamed ==
    \A S \in {s \in SUBSET IP : /\ Peers \subseteq s
                                /\ Cardinality(s) <= CacheCap
                                /\ Cardinality(s) <= QueueCap} :
        <>[](todo \subseteq S) =>
            \A x \in Peers : /\ []<>(Names[x] # None)
                             /\ <>[]~Stale(x) => <>[](shown[x] = "hit")

-----------------------------------------------------------------------------
(* The promise to the caller.                                              *)

\* A lookup is under way from the send into the queue to the store of its answer.
Asked == Elems(queue) \cup {worker[w].ip : w \in {v \in Worker : worker[v].at \in {"lookup", "put"}}}

AbsOf(h) == h.of

Promise == INSTANCE PeerNames WITH asked <- Asked, names <- Names, OfIP <- AbsOf

\* The resolver keeps the promise: one lookup per address at a time, and every
\* name it answers is the answer to a lookup of that very address.
KeepsPromise == Promise!Spec
=============================================================================
