----------------------------- MODULE RdnsProofs -----------------------------
(***************************************************************************)
(* Proofs about Rdns, for every number of addresses and workers and every  *)
(* capacity.  The conjunction of the type invariant, InflightExact and     *)
(* CacheConsistent is inductive once it says of a worker that it holds an  *)
(* address exactly while it is busy, and an answer to that very address    *)
(* exactly while it is about to store one.                                 *)
(***************************************************************************)
EXTENDS Rdns, SequenceTheorems, FiniteSetTheorems, FunctionTheorems, TLAPS

\* A worker's address and answer fit its step.
Working ==
    \A w \in Worker :
        /\ worker[w].at # "idle" => worker[w].ip \in IP
        /\ worker[w].at = "put" =>
             worker[w].host \in Host /\ worker[w].host.of = worker[w].ip

IInv == TypeOK /\ Working /\ InflightExact /\ CacheConsistent

-----------------------------------------------------------------------------
(* Sequences without duplicates.                                           *)

\* Append adds one element, and keeps a sequence without duplicates so if the
\* element is new.
LEMMA ElemsOfAppend ==
    ASSUME NEW S, NEW q \in Seq(S), NEW x \in S
    PROVE  /\ Elems(Append(q, x)) = Elems(q) \cup {x}
           /\ Distinct(q) /\ x \notin Elems(q) => Distinct(Append(q, x))
<1>1. DOMAIN Append(q, x) = 1..Len(q) + 1 /\ DOMAIN q = 1..Len(q) /\ Len(q) \in Nat
  OBVIOUS
<1>2. \A i \in 1..Len(q) : Append(q, x)[i] = q[i]
  OBVIOUS
<1>3. Append(q, x)[Len(q) + 1] = x
  OBVIOUS
<1>4. Elems(Append(q, x)) = Elems(q) \cup {x}
  BY <1>1, <1>2, <1>3 DEF Elems
<1>5. ASSUME Distinct(q), x \notin Elems(q)
      PROVE  Distinct(Append(q, x))
  BY <1>1, <1>2, <1>3, <1>5 DEF Elems, Distinct
<1>6. QED
  BY <1>4, <1>5

\* Tail takes the head away, and with it the only occurrence of it.
LEMMA ElemsOfTail ==
    ASSUME NEW S, NEW q \in Seq(S), q # <<>>
    PROVE  /\ Elems(q) = Elems(Tail(q)) \cup {Head(q)}
           /\ Distinct(q) => Distinct(Tail(q)) /\ Head(q) \notin Elems(Tail(q))
<1>1. /\ Len(q) \in Nat \ {0} /\ DOMAIN q = 1..Len(q)
      /\ DOMAIN Tail(q) = 1..Len(q) - 1 /\ Head(q) = q[1]
  OBVIOUS
<1>2. \A i \in 1..Len(q) - 1 : Tail(q)[i] = q[i + 1]
  OBVIOUS
<1>3. Elems(q) = Elems(Tail(q)) \cup {Head(q)}
  <2>1. ASSUME NEW i \in DOMAIN q
        PROVE  q[i] = Head(q) \/ \E j \in DOMAIN Tail(q) : q[i] = Tail(q)[j]
    <3>1. CASE i = 1
      BY <1>1, <3>1
    <3>2. CASE i # 1
      <4>1. i - 1 \in 1..Len(q) - 1 /\ Tail(q)[i - 1] = q[i]
        BY <1>1, <1>2, <3>2
      <4>2. QED
        BY <1>1, <4>1
    <3>3. QED
      BY <3>1, <3>2
  <2>2. ASSUME NEW j \in DOMAIN Tail(q)
        PROVE  \E i \in DOMAIN q : q[i] = Tail(q)[j]
    <3>1. j + 1 \in DOMAIN q /\ Tail(q)[j] = q[j + 1]
      BY <1>1, <1>2
    <3>2. QED
      BY <3>1
  <2>3. Head(q) \in Elems(q)
    BY <1>1 DEF Elems
  <2>4. QED
    BY <2>1, <2>2, <2>3 DEF Elems
<1>4. ASSUME Distinct(q)
      PROVE  Distinct(Tail(q)) /\ Head(q) \notin Elems(Tail(q))
  BY <1>1, <1>2, <1>4 DEF Elems, Distinct
<1>5. QED
  BY <1>3, <1>4

\* Removing the element of x removes x and nothing else.
LEMMA WithoutOne ==
    ASSUME NEW S, NEW s \in Seq(S), Distinct(s), NEW x
    PROVE  /\ Without(s, x) \in Seq(S)
           /\ Distinct(Without(s, x))
           /\ Elems(Without(s, x)) = Elems(s) \ {x}
           /\ Len(Without(s, x)) <= Len(s)
           /\ x \in Elems(s) => Len(Without(s, x)) = Len(s) - 1
<1>1. CASE x \notin Elems(s)
  BY <1>1 DEF Without
<1>2. CASE x \in Elems(s)
  <2> DEFINE i == CHOOSE j \in DOMAIN s : s[j] = x
             t == [j \in 1..Len(s) - 1 |-> IF j < i THEN s[j] ELSE s[j + 1]]
  <2>1. i \in 1..Len(s) /\ s[i] = x /\ Len(s) \in Nat /\ DOMAIN s = 1..Len(s)
    BY <1>2 DEF Elems
  <2>2. Without(s, x) = t
    BY <1>2 DEF Without
  <2> HIDE DEF i
  <2>3. \A j \in 1..Len(s) - 1 : t[j] = IF j < i THEN s[j] ELSE s[j + 1]
    OBVIOUS
  <2>d. DOMAIN t = 1..Len(s) - 1
    OBVIOUS
  <2>t. t = [j \in 1..Len(s) - 1 |-> t[j]]
    OBVIOUS
  <2> HIDE DEF t
  <2>4. \A j \in 1..Len(s) - 1 : t[j] \in S
    <3> SUFFICES ASSUME NEW j \in 1..Len(s) - 1 PROVE t[j] \in S
      OBVIOUS
    <3>1. j \in 1..Len(s) /\ j + 1 \in 1..Len(s)
      BY <2>1
    <3>2. s[j] \in S /\ s[j + 1] \in S
      BY <2>1, <3>1, ElementOfSeq
    <3>3. QED
      BY <2>3, <3>2
  <2>5. t \in Seq(S) /\ Len(t) = Len(s) - 1 /\ DOMAIN t = 1..Len(s) - 1
    <3>1. Len(s) - 1 \in Nat
      BY <2>1
    <3>2. t \in [1..Len(s) - 1 -> S]
      BY <2>d, <2>4, <2>t
    <3>3. t \in Seq(S)
      BY <3>1, <3>2
    <3>4. Len(t) = Len(s) - 1
      BY <2>d, <3>1, <3>3
    <3>5. QED
      BY <2>d, <3>3, <3>4
  <2> DEFINE from(j) == IF j < i THEN j ELSE j + 1
  <2>f. ASSUME NEW j \in DOMAIN t
        PROVE  from(j) \in DOMAIN s /\ from(j) # i /\ t[j] = s[from(j)]
    BY <2>1, <2>3, <2>5
  <2>6. Distinct(t)
    <3> SUFFICES ASSUME NEW j \in DOMAIN t, NEW k \in DOMAIN t, j # k
                 PROVE  t[j] # t[k]
      BY DEF Distinct
    <3>1. from(j) # from(k)
      BY <2>1, <2>5
    <3> HIDE DEF from
    <3>2. QED
      BY <2>f, <3>1 DEF Distinct
  <2>7. ASSUME NEW j \in DOMAIN t
        PROVE  t[j] \in Elems(s) \ {x}
    <3> HIDE DEF from
    <3>1. s[from(j)] # s[i]
      BY <2>1, <2>f DEF Distinct
    <3>2. QED
      BY <2>1, <2>f, <3>1 DEF Elems
  <2>8. ASSUME NEW k \in DOMAIN s, s[k] # x
        PROVE  s[k] \in Elems(t)
    <3>1. CASE k < i
      <4>1. k \in DOMAIN t /\ t[k] = s[k]
        BY <2>1, <2>3, <2>5, <3>1
      <4>2. QED
        BY <4>1 DEF Elems
    <3>2. CASE k > i
      <4>1. k - 1 \in DOMAIN t /\ t[k - 1] = s[k]
        BY <2>1, <2>3, <2>5, <3>2
      <4>2. QED
        BY <4>1 DEF Elems
    <3>3. QED
      BY <2>1, <2>8, <3>1, <3>2
  <2>9. Elems(t) = Elems(s) \ {x}
    BY <2>7, <2>8 DEF Elems
  <2>10. QED
    BY <1>2, <2>1, <2>2, <2>5, <2>6, <2>9
<1>3. QED
  BY <1>1, <1>2

\* Moving x to the front, or pushing it there.
LEMMA Front ==
    ASSUME lru \in Seq(IP), Distinct(lru), NEW x \in IP
    PROVE  /\ ToFront(x) \in Seq(IP) \ {<<>>}
           /\ ToFront(x)[1] = x
           /\ Distinct(ToFront(x))
           /\ Elems(ToFront(x)) = Elems(lru) \cup {x}
           /\ x \in Elems(lru) => Len(ToFront(x)) = Len(lru)
<1> DEFINE r == Without(lru, x)
           f == <<x>> \o r
<1>1. /\ r \in Seq(IP) /\ Distinct(r) /\ Elems(r) = Elems(lru) \ {x}
      /\ x \in Elems(lru) => Len(r) = Len(lru) - 1
  BY WithoutOne
<1>2. ToFront(x) = f
  BY DEF ToFront
<1> HIDE DEF r
<1>3. /\ f \in Seq(IP) /\ Len(f) = Len(r) + 1 /\ Len(r) \in Nat /\ Len(lru) \in Nat
      /\ DOMAIN f = 1..Len(r) + 1 /\ DOMAIN r = 1..Len(r) /\ f[1] = x
  <2>1. <<x>> \in Seq(IP) /\ Len(<<x>>) = 1 /\ <<x>>[1] = x
    OBVIOUS
  <2>2. /\ f \in Seq(IP) /\ Len(f) = 1 + Len(r)
        /\ \A i \in 1..1 + Len(r) :
             f[i] = IF i <= 1 THEN <<x>>[i] ELSE r[i - 1]
    BY <1>1, <2>1, ConcatProperties
  <2>3. Len(r) \in Nat /\ Len(lru) \in Nat /\ DOMAIN r = 1..Len(r) /\ DOMAIN f = 1..Len(f)
    BY <1>1, <2>2, LenProperties
  <2> HIDE DEF f
  <2>4. QED
    BY <2>1, <2>2, <2>3
<1>4. \A j \in 1..Len(r) : f[j + 1] = r[j]
  <2>1. <<x>> \in Seq(IP) /\ Len(<<x>>) = 1
    OBVIOUS
  <2>2. \A i \in 1..1 + Len(r) :
             f[i] = IF i <= 1 THEN <<x>>[i] ELSE r[i - 1]
    BY <1>1, <2>1, ConcatProperties
  <2> HIDE DEF f
  <2>3. QED
    BY <1>3, <2>2
<1> HIDE DEF f
<1>5. \A j \in 2..Len(r) + 1 : j - 1 \in 1..Len(r) /\ f[j] = r[j - 1]
  BY <1>3, <1>4
<1>6. Distinct(f)
  <2> SUFFICES ASSUME NEW i \in DOMAIN f, NEW j \in DOMAIN f, i < j
               PROVE  f[i] # f[j]
    BY <1>3 DEF Distinct
  <2>1. f[j] = r[j - 1] /\ j - 1 \in DOMAIN r
    BY <1>3, <1>5
  <2>2. CASE i = 1
    BY <1>1, <1>3, <2>1, <2>2 DEF Elems
  <2>3. CASE i # 1
    <3>1. f[i] = r[i - 1] /\ i - 1 \in DOMAIN r /\ i - 1 # j - 1
      BY <1>3, <1>5, <2>3
    <3>2. QED
      BY <1>1, <2>1, <3>1 DEF Distinct
  <2>4. QED
    BY <2>2, <2>3
<1>7. Elems(f) = Elems(lru) \cup {x}
  <2>1. ASSUME NEW j \in DOMAIN f
        PROVE  f[j] \in Elems(r) \cup {x}
    <3>1. CASE j = 1
      BY <1>3, <3>1
    <3>2. CASE j # 1
      <4>1. f[j] = r[j - 1] /\ j - 1 \in DOMAIN r
        BY <1>3, <1>5, <3>2
      <4>2. QED
        BY <4>1 DEF Elems
    <3>3. QED
      BY <3>1, <3>2
  <2>2. ASSUME NEW j \in DOMAIN r
        PROVE  r[j] \in Elems(f)
    <3>1. j + 1 \in DOMAIN f /\ f[j + 1] = r[j]
      BY <1>3, <1>4
    <3>2. QED
      BY <3>1 DEF Elems
  <2>3. x \in Elems(f)
    BY <1>3 DEF Elems
  <2>4. Elems(f) = Elems(r) \cup {x}
    BY <2>1, <2>2, <2>3 DEF Elems
  <2>5. x \in Elems(f) /\ Elems(r) = Elems(lru) \ {x}
    BY <2>3, <1>1
  <2>6. QED
    BY <2>4, <2>5
<1>8. f # <<>>
  BY <1>3
<1>9. QED
  BY <1>1, <1>2, <1>3, <1>6, <1>7, <1>8

\* Cutting the list at its capacity keeps its front.
LEMMA KeptPart ==
    ASSUME NEW s \in Seq(IP), s # <<>>, Distinct(s)
    PROVE  /\ Kept(s) \in Seq(IP) /\ Len(Kept(s)) <= CacheCap
           /\ Distinct(Kept(s))
           /\ Elems(Kept(s)) \subseteq Elems(s)
           /\ s[1] \in Elems(Kept(s))
<1>1. Len(s) \in Nat \ {0} /\ CacheCap \in Nat \ {0} /\ DOMAIN s = 1..Len(s)
  BY RdnsAssumption
<1>2. CASE Len(s) > CacheCap
  <2> DEFINE k == SubSeq(s, 1, CacheCap)
  <2>1. k \in Seq(IP) /\ Len(k) = CacheCap /\ DOMAIN k = 1..CacheCap
    BY <1>1, <1>2
  <2>2. \A j \in 1..CacheCap : k[j] = s[j]
    BY <1>1, <1>2
  <2>3. Kept(s) = k
    BY <1>2 DEF Kept
  <2> HIDE DEF k
  <2>4. Distinct(k) /\ Elems(k) \subseteq Elems(s) /\ s[1] \in Elems(k)
    BY <1>1, <1>2, <2>1, <2>2 DEF Distinct, Elems
  <2>5. QED
    BY <1>1, <2>1, <2>3, <2>4
<1>3. CASE ~(Len(s) > CacheCap)
  BY <1>1, <1>3 DEF Kept, Elems
<1>4. QED
  BY <1>2, <1>3

-----------------------------------------------------------------------------
(* Types.                                                                  *)

\* The steps of the sampler keep the types: a hit moves an element of the list
\* and makes it no longer, the queue grows only when it has room.
LEMMA SamplerTypes ==
    TypeOK /\ Working /\ CacheConsistent /\ (NewCycle \/ Resolve \/ Expire)
    => TypeOK' /\ Working'
<1> SUFFICES ASSUME TypeOK, Working, CacheConsistent, NewCycle \/ Resolve \/ Expire
             PROVE  TypeOK' /\ Working'
  OBVIOUS
<1> USE DEF sampler, cache
<1>1. CASE NewCycle
  BY <1>1 DEF NewCycle, TypeOK, Working
<1>2. ASSUME NEW x \in IP, CacheGet(x)
      PROVE  TypeOK' /\ Working'
  <2>1. lru \in Seq(IP) /\ Distinct(lru) /\ Len(lru) <= CacheCap /\ Len(lru) \in Nat
    BY DEF TypeOK, CacheConsistent
  <2>2. lru' \in Seq(IP) /\ Len(lru') <= CacheCap
    <3>1. CASE lru' = ToFront(x) /\ entry[x] # None
      <4>1. x \in Elems(lru)
        BY <3>1 DEF CacheConsistent
      <4>2. QED
        BY <2>1, <3>1, <4>1, Front
    <3>2. CASE lru' = Without(lru, x)
      <4>1. /\ Without(lru, x) \in Seq(IP)
            /\ Len(Without(lru, x)) <= Len(lru) /\ Len(Without(lru, x)) \in Nat
        BY <2>1, WithoutOne
      <4>2. QED
        BY <2>1, <3>2, <4>1, RdnsAssumption
    <3>3. QED
      BY <1>2, <3>1, <3>2 DEF CacheGet
  <2>3. entry' \in [IP -> Entry \cup {None}]
    BY <1>2 DEF CacheGet, TypeOK
  <2>4. shown' \in [IP -> {"hit", "miss"}]
    BY <1>2 DEF CacheGet, TypeOK
  <2>5. /\ pc' \in {"idle", "mark", "enqueue", "full"} /\ ip' \in IP \cup {None}
        /\ (ip' = None <=> pc' = "idle") /\ todo' \subseteq IP
    BY <1>2, RdnsAssumption DEF CacheGet, TypeOK
  <2>6. UNCHANGED <<inflight, queue, worker>>
    BY <1>2 DEF CacheGet
  <2>7. TypeOK'
    BY <2>2, <2>3, <2>4, <2>5, <2>6 DEF TypeOK
  <2>8. QED
    BY <2>6, <2>7 DEF Working
<1>3. CASE Mark
  BY <1>3 DEF Mark, TypeOK, Working
<1>4. CASE Enqueue
  <2>1. CASE Len(queue) < QueueCap
    <3>1. queue \in Seq(IP) /\ ip \in IP
      BY <1>4 DEF Enqueue, TypeOK
    <3>2. queue' = Append(queue, ip)
      BY <1>4, <2>1 DEF Enqueue
    <3>3. queue' \in Seq(IP) /\ Len(queue') <= QueueCap
      BY <2>1, <3>1, <3>2, RdnsAssumption
    <3>4. QED
      BY <1>4, <2>1, <3>3 DEF Enqueue, TypeOK, Working
  <2>2. CASE ~(Len(queue) < QueueCap)
    BY <1>4, <2>2 DEF Enqueue, TypeOK, Working
  <2>3. QED
    BY <2>1, <2>2
<1>5. CASE Drop
  BY <1>5 DEF Drop, TypeOK, Working
<1>6. CASE Expire
  <2>1. entry' \in [IP -> Entry \cup {None}]
    <3>1. PICK x \in IP : /\ entry[x] # None
                          /\ entry' = [entry EXCEPT ![x].fresh = FALSE]
      BY <1>6 DEF Expire
    <3>2. entry[x] \in Entry
      BY <3>1 DEF TypeOK
    <3>3. [entry[x] EXCEPT !.fresh = FALSE] \in Entry
      BY <3>2 DEF Entry
    <3>4. entry' = [entry EXCEPT ![x] = [entry[x] EXCEPT !.fresh = FALSE]]
      BY <3>1
    <3>5. QED
      BY <3>3, <3>4 DEF TypeOK
  <2>2. UNCHANGED <<pc, ip, todo, shown, lru, inflight, queue, worker>>
    BY <1>6 DEF Expire
  <2>3. TypeOK'
    BY <2>1, <2>2 DEF TypeOK
  <2>4. QED
    BY <2>2, <2>3 DEF Working
<1>7. QED
  BY <1>1, <1>2, <1>3, <1>4, <1>5, <1>6 DEF Resolve

\* The steps of a worker keep the types: the eviction cuts the list at its
\* capacity.
LEMMA WorkerTypes ==
    ASSUME TypeOK, Working, CacheConsistent, NEW w \in Worker, Work(w)
    PROVE  TypeOK' /\ Working'
<1> USE DEF sampler, cache
<1>1. CASE Take(w)
  <2>1. queue \in Seq(IP) /\ queue # <<>> /\ Len(queue) <= QueueCap /\ queue' = Tail(queue)
    BY <1>1 DEF Take, TypeOK
  <2>2. Head(queue) \in IP /\ queue' \in Seq(IP) /\ Len(queue') <= QueueCap
    BY <2>1, HeadTailProperties, LenProperties, RdnsAssumption
  <2>3. UNCHANGED <<pc, ip, todo, shown, entry, lru, inflight>>
    BY <1>1 DEF Take
  <2>4. /\ worker' \in [Worker -> [at : {"idle", "lookup", "put", "clear"},
                              ip : IP \cup {None}, host : Host \cup {None}]]
        /\ Working'
    BY <1>1, <2>2 DEF Take, TypeOK, Working
  <2>5. QED
    BY <2>2, <2>3, <2>4 DEF TypeOK
<1>2. CASE Lookup(w)
  <2>1. PICK named \in BOOLEAN :
          worker' = [worker EXCEPT ![w] =
            [at |-> "put", ip |-> worker[w].ip, host |-> [of |-> worker[w].ip, named |-> named]]]
    BY <1>2 DEF Lookup
  <2>2. worker[w].ip \in IP
    BY <1>2 DEF Lookup, Working
  <2> DEFINE h == [of |-> worker[w].ip, named |-> named]
  <2>3. h \in Host /\ h.of = worker[w].ip
    BY <2>2 DEF Host
  <2> HIDE DEF h
  <2>4. worker' = [worker EXCEPT ![w] = [at |-> "put", ip |-> worker[w].ip, host |-> h]]
    BY <2>1 DEF h
  <2>5. worker' \in [Worker -> [at : {"idle", "lookup", "put", "clear"},
                              ip : IP \cup {None}, host : Host \cup {None}]]
    BY <2>2, <2>3, <2>4 DEF TypeOK
  <2>6. Working'
    BY <2>2, <2>3, <2>4 DEF TypeOK, Working
  <2>7. UNCHANGED <<pc, ip, todo, shown, entry, lru, inflight, queue>>
    BY <1>2 DEF Lookup
  <2>8. QED
    BY <2>5, <2>6, <2>7 DEF TypeOK
<1>3. CASE CachePut(w)
  <2> DEFINE x == worker[w].ip
  <2>1. /\ x \in IP /\ worker[w].host \in Host
        /\ lru \in Seq(IP) /\ Distinct(lru)
    BY <1>3 DEF CachePut, Working, TypeOK, CacheConsistent
  <2>2. lru' \in Seq(IP) /\ Len(lru') <= CacheCap
    BY <1>3, <2>1, Front, KeptPart DEF CachePut
  <2>3. [host |-> worker[w].host, fresh |-> TRUE] \in Entry
    BY <2>1 DEF Entry
  <2>4. entry' \in [IP -> Entry \cup {None}]
    BY <1>3, <2>3 DEF CachePut, TypeOK
  <2>5. worker' = [worker EXCEPT ![w].at = "clear"]
    BY <1>3 DEF CachePut
  <2>6. worker' \in [Worker -> [at : {"idle", "lookup", "put", "clear"},
                              ip : IP \cup {None}, host : Host \cup {None}]]
    BY <2>5 DEF TypeOK
  <2>7. Working'
    BY <2>1, <2>5 DEF TypeOK, Working
  <2>8. UNCHANGED <<pc, ip, todo, shown, inflight, queue>>
    BY <1>3 DEF CachePut
  <2>9. QED
    BY <2>2, <2>4, <2>6, <2>7, <2>8 DEF TypeOK
<1>4. CASE Clear(w)
  BY <1>4 DEF Clear, TypeOK, Working, Idle
<1>5. QED
  BY <1>1, <1>2, <1>3, <1>4 DEF Work

-----------------------------------------------------------------------------
(* The in-flight set.                                                      *)

\* The sampler's steps keep the set exact: what resolve marks was nowhere, and
\* goes into the queue or is unmarked.
LEMMA SamplerInflight ==
    TypeOK /\ InflightExact /\ (NewCycle \/ Resolve \/ Expire) => InflightExact'
<1> SUFFICES ASSUME TypeOK, InflightExact, NewCycle \/ Resolve \/ Expire
             PROVE  InflightExact'
  OBVIOUS
<1> USE DEF sampler, cache
<1>1. CASE UNCHANGED <<inflight, queue, worker>> /\ Marked' = Marked
  BY <1>1 DEF InflightExact, Held, Elems, Distinct
<1>2. CASE NewCycle \/ Expire
  BY <1>1, <1>2 DEF NewCycle, Expire, Marked
<1>3. ASSUME NEW x \in IP, CacheGet(x)
      PROVE  InflightExact'
  BY <1>1, <1>3 DEF CacheGet, Marked
<1>4. CASE Mark
  <2>1. CASE ip \in inflight
    BY <1>1, <1>4, <2>1 DEF Mark, Marked
  <2>2. CASE ip \notin inflight
    <3>1. /\ ip \in IP /\ Marked = {} /\ Marked' = {ip}
          /\ inflight' = inflight \cup {ip} /\ UNCHANGED <<queue, worker>>
      BY <1>4, <2>2 DEF Mark, Marked, TypeOK
    <3>2. Elems(queue)' = Elems(queue) /\ \A w : Held(w)' = Held(w)
      BY <3>1 DEF Elems, Held
    <3>3. QED
      BY <2>2, <3>1, <3>2 DEF InflightExact, Distinct
  <2>3. QED
    BY <2>1, <2>2
<1>5. CASE Enqueue
  <2>1. CASE Len(queue) < QueueCap
    <3>1. /\ ip \in IP /\ queue \in Seq(IP) /\ Marked = {ip} /\ Marked' = {}
          /\ queue' = Append(queue, ip) /\ UNCHANGED <<inflight, worker>>
      BY <1>5, <2>1 DEF Enqueue, Marked, TypeOK
    <3>2. ip \notin Elems(queue) /\ Distinct(queue)
      BY <3>1 DEF InflightExact
    <3>3. Elems(queue)' = Elems(queue) \cup {ip} /\ Distinct(queue)'
      BY <3>1, <3>2, ElemsOfAppend
    <3>4. \A w : Held(w)' = Held(w)
      BY <3>1 DEF Held
    <3>5. QED
      BY <3>1, <3>3, <3>4 DEF InflightExact
  <2>2. CASE ~(Len(queue) < QueueCap)
    BY <1>1, <1>5, <2>2 DEF Enqueue, Marked
  <2>3. QED
    BY <2>1, <2>2
<1>6. CASE Drop
  <2>1. /\ ip \in IP /\ Marked = {ip} /\ Marked' = {}
        /\ inflight' = inflight \ {ip} /\ UNCHANGED <<queue, worker>>
    BY <1>6 DEF Drop, Marked, TypeOK
  <2>2. Elems(queue)' = Elems(queue) /\ \A w : Held(w)' = Held(w)
    BY <2>1 DEF Elems, Held
  <2>3. QED
    BY <2>1, <2>2 DEF InflightExact, Distinct
<1>7. QED
  BY <1>2, <1>3, <1>4, <1>5, <1>6 DEF Resolve

\* A worker's steps keep the set exact: it takes over what leaves the queue and
\* clears it when it has stored the answer.
LEMMA WorkerInflight ==
    ASSUME TypeOK, InflightExact, NEW w \in Worker, Work(w)
    PROVE  InflightExact'
<1> USE DEF sampler, cache
<1>1. CASE UNCHANGED <<pc, ip, inflight, queue>> /\ \A v \in Worker : Held(v)' = Held(v)
  BY <1>1 DEF InflightExact, Marked, Elems, Distinct
<1>2. CASE Take(w)
  <2>1. /\ queue \in Seq(IP) /\ queue # <<>> /\ queue' = Tail(queue)
        /\ UNCHANGED <<pc, ip, inflight>>
    BY <1>2 DEF Take, TypeOK
  <2>2. /\ Held(w) = {} /\ Held(w)' = {Head(queue)}
        /\ \A v \in Worker \ {w} : Held(v)' = Held(v)
    BY <1>2 DEF Take, TypeOK, Held
  <2>3. Distinct(queue)
    BY DEF InflightExact
  <2>4. /\ Elems(queue) = Elems(queue)' \cup {Head(queue)}
        /\ Distinct(queue)' /\ Head(queue) \notin Elems(queue)'
    BY <2>1, <2>3, ElemsOfTail
  <2>5. Marked' = Marked
    BY <2>1 DEF Marked
  <2>6. QED
    BY <2>1, <2>2, <2>4, <2>5 DEF InflightExact
<1>3. CASE Lookup(w) \/ CachePut(w)
  <2>1. /\ worker[w].at \in {"lookup", "put"}
        /\ worker'[w].at \in {"put", "clear"} /\ worker'[w].ip = worker[w].ip
    BY <1>3 DEF Lookup, CachePut, TypeOK
  <2>2. \A v \in Worker \ {w} : worker'[v] = worker[v]
    BY <1>3 DEF Lookup, CachePut, TypeOK
  <2>3. \A v \in Worker : Held(v)' = Held(v)
    BY <2>1, <2>2 DEF Held
  <2>4. UNCHANGED <<pc, ip, inflight, queue>>
    BY <1>3 DEF Lookup, CachePut
  <2>5. QED
    BY <1>1, <2>3, <2>4
<1>4. CASE Clear(w)
  <2>1. /\ inflight' = inflight \ Held(w) /\ UNCHANGED <<pc, ip, queue>>
        /\ Held(w)' = {} /\ \A v \in Worker \ {w} : Held(v)' = Held(v)
    BY <1>4 DEF Clear, TypeOK, Held, Idle
  <2>2. Marked' = Marked /\ Elems(queue)' = Elems(queue) /\ Distinct(queue)' = Distinct(queue)
    BY <2>1 DEF Marked, Elems, Distinct
  <2>3. QED
    BY <2>1, <2>2 DEF InflightExact
<1>5. QED
  BY <1>2, <1>3, <1>4 DEF Work

-----------------------------------------------------------------------------
(* The cache.                                                              *)

\* Every step keeps map and list in agreement.
LEMMA CacheStep ==
    TypeOK /\ Working /\ CacheConsistent /\ Next => CacheConsistent'
<1> SUFFICES ASSUME TypeOK, Working, CacheConsistent, Next
             PROVE  CacheConsistent'
  OBVIOUS
<1> USE DEF sampler, cache
<1>l. /\ lru \in Seq(IP) /\ Distinct(lru)
      /\ \A x \in IP : x \in Elems(lru) <=> entry[x] # None
  BY DEF TypeOK, CacheConsistent
<1>e. ASSUME NEW s \in Seq(IP)
      PROVE  Elems(s) \subseteq IP
  BY <1>e DEF Elems
<1>1. CASE UNCHANGED cache
  BY <1>1 DEF CacheConsistent, Elems, Distinct
<1>2. CASE NewCycle \/ Mark \/ Enqueue \/ Drop
  BY <1>1, <1>2 DEF NewCycle, Mark, Enqueue, Drop
<1>3. ASSUME NEW w \in Worker, Take(w) \/ Lookup(w) \/ Clear(w)
      PROVE  CacheConsistent'
  BY <1>1, <1>3 DEF Take, Lookup, Clear
<1>4. ASSUME NEW x \in IP, CacheGet(x)
      PROVE  CacheConsistent'
  <2>1. CASE entry[x] # None /\ lru' = ToFront(x) /\ entry' = entry
    <3>0. Distinct(ToFront(x)) /\ Elems(ToFront(x)) = Elems(lru) \cup {x} /\ x \in Elems(lru)
      BY <1>l, <2>1, Front
    <3>1. Distinct(lru)' /\ Elems(lru)' = Elems(lru)
      BY <2>1, <3>0
    <3>2. QED
      BY <2>1, <3>1 DEF CacheConsistent
  <2>2. CASE lru' = Without(lru, x) /\ entry' = [entry EXCEPT ![x] = None]
    <3>1. Distinct(lru)' /\ Elems(lru)' = Elems(lru) \ {x}
      BY <1>l, <2>2, WithoutOne
    <3>2. \A y \in IP : entry'[y] = IF y = x THEN None ELSE entry[y]
      BY <2>2 DEF TypeOK
    <3>3. QED
      BY <3>1, <3>2 DEF CacheConsistent
  <2>3. QED
    BY <1>4, <2>1, <2>2 DEF CacheGet
<1>5. CASE Expire
  <2>1. PICK x \in IP : /\ entry[x] # None
                        /\ entry' = [entry EXCEPT ![x].fresh = FALSE]
    BY <1>5 DEF Expire
  <2>2. entry'[x] \in Entry /\ \A y \in IP \ {x} : entry'[y] = entry[y]
    <3>1. entry[x] \in Entry
      BY <2>1 DEF TypeOK
    <3>2. [entry[x] EXCEPT !.fresh = FALSE] \in Entry
      BY <3>1 DEF Entry
    <3>3. entry' = [entry EXCEPT ![x] = [entry[x] EXCEPT !.fresh = FALSE]]
      BY <2>1
    <3>4. QED
      BY <3>2, <3>3 DEF TypeOK
  <2>3. \A y \in IP : entry'[y] # None <=> entry[y] # None
    BY <2>1, <2>2, RdnsAssumption
  <2>4. lru' = lru
    BY <1>5 DEF Expire
  <2>5. QED
    BY <2>3, <2>4 DEF CacheConsistent, Elems, Distinct
<1>6. ASSUME NEW w \in Worker, CachePut(w)
      PROVE  CacheConsistent'
  <2> DEFINE x == worker[w].ip
             new == [host |-> worker[w].host, fresh |-> TRUE]
             list == ToFront(x)
             evicted == Elems(list) \ Elems(Kept(list))
  <2>1. x \in IP /\ new \in Entry
    BY <1>6 DEF CachePut, Working, Entry
  <2>2. /\ list \in Seq(IP) \ {<<>>} /\ Distinct(list) /\ list[1] = x
        /\ Elems(list) = Elems(lru) \cup {x}
    BY <1>l, <2>1, Front
  <2>3. /\ Kept(list) \in Seq(IP) /\ Distinct(Kept(list))
        /\ Elems(Kept(list)) \subseteq Elems(list) /\ x \in Elems(Kept(list))
    BY <2>2, KeptPart
  <2>4. /\ lru' = Kept(list)
        /\ \A y \in IP : entry'[y] = IF y \in evicted THEN None
                                     ELSE IF y = x THEN new ELSE entry[y]
    BY <1>6 DEF CachePut
  <2> HIDE DEF x, new, list
  <2>5. \A y \in IP : entry'[y] # None <=> y \in Elems(Kept(list))
    BY <1>l, <2>1, <2>2, <2>3, <2>4, RdnsAssumption
  <2>6. QED
    BY <1>e, <2>3, <2>4, <2>5 DEF CacheConsistent
<1>7. QED
  BY <1>2, <1>3, <1>4, <1>5, <1>6 DEF Next, Resolve, Work

-----------------------------------------------------------------------------
(* The theorems.                                                           *)

\* The strengthening of the three invariants is inductive.
THEOREM Invariance == Spec => []IInv
<1>1. Init => IInv
  <2> SUFFICES ASSUME Init PROVE IInv
    OBVIOUS
  <2>1. Elems(lru) = {} /\ Elems(queue) = {} /\ Distinct(lru) /\ Distinct(queue)
    BY DEF Init, Elems, Distinct
  <2>2. /\ lru \in Seq(IP) /\ Len(lru) <= CacheCap
        /\ queue \in Seq(IP) /\ Len(queue) <= QueueCap
    BY EmptySeq, RdnsAssumption DEF Init
  <2>3. TypeOK
    BY <2>2, RdnsAssumption DEF Init, TypeOK, Idle
  <2>4. Working
    BY DEF Init, Working, Idle
  <2>5. InflightExact
    BY <2>1 DEF Init, InflightExact, Marked, Held, Idle
  <2>6. CacheConsistent
    BY <2>1 DEF Init, CacheConsistent
  <2>7. QED
    BY <2>3, <2>4, <2>5, <2>6 DEF IInv
<1>2. IInv /\ [Next]_vars => IInv'
  <2> SUFFICES ASSUME IInv, [Next]_vars PROVE IInv'
    OBVIOUS
  <2>1. CASE Next
    <3>1. TypeOK' /\ Working' /\ InflightExact'
      BY <2>1, SamplerTypes, WorkerTypes, SamplerInflight, WorkerInflight DEF Next, IInv
    <3>2. CacheConsistent'
      BY <2>1, CacheStep DEF IInv
    <3>3. QED
      BY <3>1, <3>2 DEF IInv
  <2>2. CASE UNCHANGED vars
    BY <2>2 DEF vars, IInv, TypeOK, Working, InflightExact, CacheConsistent,
                Held, Marked, Elems, Distinct
  <2>3. QED
    BY <2>1, <2>2
<1>3. QED
  BY <1>1, <1>2, PTL DEF Spec

\* Types and capacities hold: the cache never exceeds cacheCap, the queue never
\* queueCap.
THEOREM Typing == Spec => []TypeOK
BY Invariance, PTL DEF IInv

\* The in-flight set is exact: no address is in flight twice, and none is in
\* flight that nobody works on.
THEOREM InflightIsExact == Spec => []InflightExact
BY Invariance, PTL DEF IInv

\* The map and the LRU list of the cache hold the same addresses.
THEOREM CacheIsConsistent == Spec => []CacheConsistent
BY Invariance, PTL DEF IInv

-----------------------------------------------------------------------------
(* The bounds.                                                             *)

\* A sequence has at most as many elements as its length.
LEMMA ElemsBounded ==
    ASSUME NEW S, NEW s \in Seq(S)
    PROVE  IsFiniteSet(Elems(s)) /\ Cardinality(Elems(s)) <= Len(s)
<1>1. Len(s) \in Nat /\ DOMAIN s = 1..Len(s) /\ s \in [1..Len(s) -> Elems(s)]
  BY LenProperties DEF Elems
<1>2. \A x \in Elems(s) : \E i \in 1..Len(s) : s[i] = x
  BY <1>1 DEF Elems
<1>3. s \in Surjection(1..Len(s), Elems(s))
  BY <1>1, <1>2, Fun_IsSurj
<1>4. IsFiniteSet(1..Len(s)) /\ Cardinality(1..Len(s)) = Len(s)
  <2>1. /\ IsFiniteSet(1..Len(s))
        /\ Cardinality(1..Len(s)) = IF 1 > Len(s) THEN 0 ELSE Len(s) - 1 + 1
    BY <1>1, FS_Interval
  <2>2. QED
    BY <1>1, <2>1
<1>5. QED
  BY <1>3, <1>4, FS_Surjection

\* The addresses the busy workers hold.
Looked == {worker[w].ip : w \in {v \in Worker : worker[v].at # "idle"}}

\* A worker holds at most one address.
LEMMA LookedBounded ==
    IsFiniteSet(Looked) /\ Cardinality(Looked) <= Cardinality(Worker)
<1> DEFINE B == {v \in Worker : worker[v].at # "idle"}
           f == [w \in B |-> worker[w].ip]
<1>1. IsFiniteSet(B) /\ Cardinality(B) <= Cardinality(Worker)
  BY RdnsAssumption, FS_Subset
<1>2. f \in [B -> Looked] /\ \A x \in Looked : \E w \in B : f[w] = x
  BY DEF Looked
<1> HIDE DEF f
<1>3. f \in Surjection(B, Looked)
  BY <1>2, Fun_IsSurj
<1> HIDE DEF B
<1>4. /\ IsFiniteSet(Looked) /\ Cardinality(Looked) <= Cardinality(B)
      /\ Cardinality(Looked) \in Nat /\ Cardinality(B) \in Nat
  BY <1>1, <1>3, FS_Surjection, FS_CardinalityType
<1>5. QED
  BY <1>1, <1>4, RdnsAssumption, FS_CardinalityType

\* The union of two finite sets has no more members than both together.
LEMMA UnionBounded ==
    ASSUME NEW S, NEW T, IsFiniteSet(S), IsFiniteSet(T)
    PROVE  IsFiniteSet(S \cup T) /\ Cardinality(S \cup T) <= Cardinality(S) + Cardinality(T)
<1>1. /\ Cardinality(S) \in Nat /\ Cardinality(T) \in Nat /\ Cardinality(S \cap T) \in Nat
  BY FS_CardinalityType, FS_Intersection
<1>2. IsFiniteSet(S \cup T)
      /\ Cardinality(S \cup T) = Cardinality(S) + Cardinality(T) - Cardinality(S \cap T)
  BY FS_Union
<1>3. QED
  BY <1>1, <1>2

\* What the resolver holds on to: an address in flight for each place in the
\* queue, for each worker and for the call of resolve, and CacheCap answers.
Bounded ==
    /\ Cardinality(inflight) <= QueueCap + Cardinality(Worker) + 1
    /\ Cardinality({x \in IP : entry[x] # None}) <= CacheCap

\* However many peers there are and however long their lookups hang, the
\* in-flight set (which the code never trims) and the map of the cache stay
\* within their bounds.
THEOREM MemoryIsBounded == Spec => []Bounded
<1>1. IInv => Bounded
  <2> SUFFICES ASSUME TypeOK, InflightExact, CacheConsistent PROVE Bounded
    BY DEF IInv
  <2> DEFINE Q == Elems(queue)
  <2>1. /\ queue \in Seq(IP) /\ Len(queue) <= QueueCap /\ lru \in Seq(IP) /\ Len(lru) <= CacheCap
        /\ Len(queue) \in Nat /\ Len(lru) \in Nat /\ QueueCap \in Nat /\ CacheCap \in Nat
    BY RdnsAssumption DEF TypeOK
  <2>2. IsFiniteSet(Q) /\ Cardinality(Q) <= QueueCap /\ Cardinality(Q) \in Nat
    BY <2>1, ElemsBounded, FS_CardinalityType
  <2>3. IsFiniteSet(Marked) /\ Cardinality(Marked) <= 1 /\ Cardinality(Marked) \in Nat
    <3>1. CASE Marked = {}
      BY <3>1, FS_EmptySet
    <3>2. CASE Marked = {ip}
      BY <3>2, FS_Singleton
    <3>3. QED
      BY <3>1, <3>2 DEF Marked
  <2>4. /\ IsFiniteSet(Looked) /\ Cardinality(Looked) <= Cardinality(Worker)
        /\ Cardinality(Looked) \in Nat /\ Cardinality(Worker) \in Nat
    BY LookedBounded, RdnsAssumption, FS_CardinalityType
  <2>5. inflight \subseteq (Marked \cup Q) \cup Looked
    BY DEF TypeOK, InflightExact, Held, Looked
  <2> HIDE DEF Q
  <2>6. /\ IsFiniteSet(Marked \cup Q) /\ Cardinality(Marked \cup Q) <= QueueCap + 1
        /\ Cardinality(Marked \cup Q) \in Nat
    <3>1. IsFiniteSet(Marked \cup Q) /\ Cardinality(Marked \cup Q) <= Cardinality(Marked) + Cardinality(Q)
      BY <2>2, <2>3, UnionBounded
    <3>2. Cardinality(Marked \cup Q) \in Nat
      BY <3>1, FS_CardinalityType
    <3>3. QED
      BY <2>1, <2>2, <2>3, <3>1, <3>2
  <2> DEFINE All == (Marked \cup Q) \cup Looked
  <2>7. /\ IsFiniteSet(All) /\ Cardinality(All) <= Cardinality(Marked \cup Q) + Cardinality(Looked)
    BY <2>4, <2>6, UnionBounded
  <2>8. Cardinality(inflight) <= Cardinality(All)
        /\ Cardinality(inflight) \in Nat /\ Cardinality(All) \in Nat
    BY <2>5, <2>7, FS_Subset, FS_CardinalityType
  <2> HIDE DEF All
  <2>9. Cardinality(inflight) <= QueueCap + Cardinality(Worker) + 1
    BY <2>1, <2>4, <2>6, <2>7, <2>8
  <2>10. Cardinality({x \in IP : entry[x] # None}) <= CacheCap
    <3> DEFINE C == {x \in IP : entry[x] # None}
    <3>1. C = Elems(lru)
      BY DEF CacheConsistent
    <3> HIDE DEF C
    <3>2. Cardinality(Elems(lru)) <= Len(lru) /\ Cardinality(Elems(lru)) \in Nat
      BY <2>1, ElemsBounded, FS_CardinalityType
    <3>3. Cardinality(C) <= CacheCap
      BY <2>1, <3>1, <3>2
    <3>4. QED
      BY <3>3 DEF C
  <2>11. QED
    BY <2>9, <2>10 DEF Bounded
<1>2. QED
  BY <1>1, Invariance, PTL

-----------------------------------------------------------------------------
(* Whose name it is.                                                       *)

\* What is cached of an address was answered for it.
OwnEntries == \A x \in IP : entry[x] # None => entry[x].host.of = x

\* A connection is never shown with the name of another address.
OwnNames == \A x \in IP : Names[x] # None => Names[x].of = x

\* Whatever resolve answers for an address was answered by DNS for that very
\* address, although workers store their answers in any order.
THEOREM NamesAreOwn == Spec => []OwnNames
<1>1. Init => OwnEntries
  BY DEF Init, OwnEntries
<1>2. IInv /\ OwnEntries /\ [Next]_vars => OwnEntries'
  <2> SUFFICES ASSUME TypeOK, Working, OwnEntries, [Next]_vars
               PROVE  OwnEntries'
    BY DEF IInv
  <2> USE DEF sampler, cache
  <2>1. CASE UNCHANGED entry
    BY <2>1 DEF OwnEntries
  <2>2. ASSUME NEW x \in IP, CacheGet(x)
        PROVE  OwnEntries'
    BY <2>2 DEF CacheGet, OwnEntries, TypeOK
  <2>3. CASE Expire
    <3>1. PICK x \in IP : /\ entry[x] # None
                          /\ entry' = [entry EXCEPT ![x] = [entry[x] EXCEPT !.fresh = FALSE]]
      BY <2>3 DEF Expire
    <3>2. entry[x] \in Entry
      BY <3>1 DEF TypeOK
    <3>3. [entry[x] EXCEPT !.fresh = FALSE].host = entry[x].host
      BY <3>2 DEF Entry
    <3>4. \A y \in IP : entry'[y] = IF y = x THEN [entry[x] EXCEPT !.fresh = FALSE] ELSE entry[y]
      BY <3>1 DEF TypeOK
    <3>5. QED
      BY <3>1, <3>3, <3>4 DEF OwnEntries
  <2>4. ASSUME NEW w \in Worker, CachePut(w)
        PROVE  OwnEntries'
    <3> DEFINE x == worker[w].ip
               new == [host |-> worker[w].host, fresh |-> TRUE]
    <3>1. new.host.of = x
      BY <2>4 DEF CachePut, Working
    <3>2. \A y \in IP : entry'[y] \in {None, entry[y]} \/ (y = x /\ entry'[y] = new)
      BY <2>4 DEF CachePut
    <3> HIDE DEF new
    <3>3. QED
      BY <3>1, <3>2 DEF OwnEntries
  <2>5. CASE NewCycle \/ Mark \/ Enqueue \/ Drop \/ \E w \in Worker : Take(w) \/ Lookup(w) \/ Clear(w)
    BY <2>1, <2>5 DEF NewCycle, Mark, Enqueue, Drop, Take, Lookup, Clear
  <2>6. CASE UNCHANGED vars
    BY <2>1, <2>6 DEF vars
  <2>7. QED
    BY <2>2, <2>3, <2>4, <2>5, <2>6 DEF Next, Resolve, Work
<1>3. TypeOK /\ OwnEntries => OwnNames
  BY DEF OwnEntries, OwnNames, Names
<1>4. QED
  BY <1>1, <1>2, <1>3, Invariance, PTL DEF Spec, IInv

-----------------------------------------------------------------------------
(* The refinement.                                                         *)

\* Nothing changes for the promise.
LEMMA Stutters ==
    ASSUME TypeOK, Working, InflightExact, CacheConsistent,
           \/ NewCycle \/ Mark \/ Drop
           \/ \E x \in IP : CacheGet(x)
           \/ \E w \in Worker : Take(w) \/ Lookup(w) \/ Clear(w)
    PROVE  Asked' = Asked /\ Names' = Names
<1> USE DEF sampler, cache
<1>1. CASE NewCycle \/ Mark \/ Drop
  BY <1>1 DEF NewCycle, Mark, Drop, Asked, Names, Elems
<1>2. ASSUME NEW x \in IP, CacheGet(x)
      PROVE  Asked' = Asked /\ Names' = Names
  <2>1. Asked' = Asked
    BY <1>2 DEF CacheGet, Asked, Elems
  <2>2. CASE entry' = entry
    BY <2>1, <2>2 DEF Names
  <2>3. CASE entry' = [entry EXCEPT ![x] = None] /\ (entry[x] # None => ~entry[x].fresh)
    BY <2>1, <2>3 DEF Names, TypeOK
  <2>4. QED
    BY <1>2, <2>2, <2>3 DEF CacheGet
<1>3. ASSUME NEW w \in Worker, Take(w)
      PROVE  Asked' = Asked /\ Names' = Names
  <2>1. /\ queue \in Seq(IP) /\ queue # <<>> /\ queue' = Tail(queue)
        /\ entry' = entry /\ worker[w].at = "idle"
    BY <1>3 DEF Take, TypeOK
  <2>2. Elems(queue) = Elems(queue)' \cup {Head(queue)}
    BY <2>1, ElemsOfTail
  <2>3. /\ worker'[w].at = "lookup" /\ worker'[w].ip = Head(queue)
        /\ \A v \in Worker \ {w} : worker'[v] = worker[v]
    BY <1>3 DEF Take, TypeOK
  <2>4. Asked' = Asked
    BY <2>1, <2>2, <2>3 DEF Asked
  <2>5. QED
    BY <2>1, <2>4 DEF Names
<1>4. ASSUME NEW w \in Worker, Lookup(w) \/ Clear(w)
      PROVE  Asked' = Asked /\ Names' = Names
  <2>1. UNCHANGED <<queue, entry>>
    BY <1>4 DEF Lookup, Clear
  <2>2. CASE Lookup(w)
    <3>1. /\ worker[w].at = "lookup" /\ worker'[w].at = "put" /\ worker'[w].ip = worker[w].ip
          /\ \A v \in Worker \ {w} : worker'[v] = worker[v]
      BY <2>2 DEF Lookup, TypeOK
    <3>2. QED
      BY <2>1, <3>1 DEF Asked, Names, Elems
  <2>3. CASE Clear(w)
    <3>1. /\ worker[w].at = "clear" /\ worker'[w].at = "idle"
          /\ \A v \in Worker \ {w} : worker'[v] = worker[v]
      BY <2>3 DEF Clear, TypeOK, Idle
    <3>2. QED
      BY <2>1, <3>1 DEF Asked, Names, Elems
  <2>4. QED
    BY <1>4, <2>2, <2>3
<1>5. QED
  BY <1>1, <1>2, <1>3, <1>4

\* What the cache would answer is a host of that address or nothing.
LEMMA NamesType ==
    ASSUME TypeOK
    PROVE  Names \in [IP -> Host \cup {None}]
BY DEF TypeOK, Names, Entry

\* A send asks for an address that nobody asks for.
LEMMA EnqueueAsks ==
    ASSUME TypeOK, InflightExact, Enqueue
    PROVE  (Asked' = Asked /\ Names' = Names) \/ \E x \in IP : Promise!Ask(x)
<1> USE DEF sampler, cache
<1>1. CASE Len(queue) < QueueCap
  <2>1. /\ ip \in IP /\ queue \in Seq(IP) /\ Marked = {ip}
        /\ queue' = Append(queue, ip) /\ UNCHANGED <<entry, worker>>
    BY <1>1 DEF Enqueue, TypeOK, Marked
  <2>2. Elems(queue)' = Elems(queue) \cup {ip}
    BY <2>1, ElemsOfAppend
  <2>3. ip \notin Asked
    BY <2>1 DEF Asked, InflightExact, Held
  <2>4. Asked' = Asked \cup {ip} /\ Names' = Names
    BY <2>1, <2>2 DEF Asked, Names
  <2>5. Promise!Ask(ip)
    BY <2>3, <2>4 DEF Promise!Ask
  <2>6. QED
    BY <2>1, <2>5
<1>2. CASE ~(Len(queue) < QueueCap)
  BY <1>2 DEF Enqueue, Asked, Names, Elems
<1>3. QED
  BY <1>1, <1>2

\* Storing an answer answers its address; what is evicted is forgotten.
LEMMA PutAnswers ==
    ASSUME TypeOK, TypeOK', Working, InflightExact, CacheConsistent, NEW w \in Worker, CachePut(w)
    PROVE  \E x \in IP : Promise!Answer(x)
<1> DEFINE x == worker[w].ip
           h == worker[w].host
           evicted == Elems(ToFront(x)) \ Elems(Kept(ToFront(x)))
<1>1. /\ worker[w].at = "put" /\ x \in IP /\ h \in Host /\ h.of = x
  BY DEF CachePut, Working
<1>2. Asked' = Asked \ {x} /\ x \in Asked
  <2>1. /\ queue' = queue /\ worker'[w].at = "clear"
        /\ \A v \in Worker \ {w} : worker'[v] = worker[v]
    BY DEF CachePut, TypeOK
  <2>2. x \notin Elems(queue) /\ \A v \in Worker \ {w} : x \notin Held(v)
    BY <1>1 DEF InflightExact, Held
  <2>3. \A v \in Worker \ {w} : worker[v].at \in {"lookup", "put"} => worker[v].ip # x
    BY <2>2 DEF Held
  <2>4. QED
    BY <1>1, <2>1, <2>2, <2>3 DEF Asked, Elems
<1>3. Names \in [IP -> Host \cup {None}] /\ Names' \in [IP -> Host \cup {None}]
  BY NamesType DEF TypeOK, Names, Entry
<1>4. x \notin evicted
  BY <1>1, Front, KeptPart DEF TypeOK, CacheConsistent
<1>5. Names'[x] = h /\ \A y \in IP \ {x} : Names'[y] \in {Names[y], None}
  <2> DEFINE new == [host |-> h, fresh |-> TRUE]
  <2>1. \A y \in IP : entry'[y] = IF y \in evicted THEN None
                                 ELSE IF y = x THEN new ELSE entry[y]
    BY DEF CachePut
  <2>2. new # None
    <3>1. new \in Entry
      BY <1>1 DEF Entry
    <3> HIDE DEF new
    <3>2. QED
      BY <3>1, RdnsAssumption
  <2>3. \A y \in IP : Names'[y] = IF entry'[y] = None THEN None
                                 ELSE IF entry'[y].fresh THEN entry'[y].host ELSE None
    BY DEF Names
  <2>4. \A y \in IP : Names[y] = IF entry[y] = None THEN None
                                ELSE IF entry[y].fresh THEN entry[y].host ELSE None
    BY DEF Names
  <2>5. new.fresh = TRUE /\ new.host = h
    OBVIOUS
  <2> HIDE DEF x, h, evicted, new
  <2>6. Names'[x] = h
    BY <1>1, <1>4, <2>1, <2>2, <2>3, <2>5
  <2>7. \A y \in IP \ {x} : Names'[y] \in {Names[y], None}
    BY <2>1, <2>3, <2>4
  <2>8. QED
    BY <2>6, <2>7
<1>6. Promise!Forgets([Names EXCEPT ![x] = h], Names')
  BY <1>1, <1>3, <1>5 DEF Promise!Forgets
<1>7. AbsOf(h) = x
  BY <1>1 DEF AbsOf
<1> HIDE DEF x, h
<1>8. QED
  BY <1>1, <1>2, <1>3, <1>5, <1>6, <1>7 DEF Promise!Answer

\* An entry that expires is forgotten.
LEMMA ExpireForgets ==
    ASSUME TypeOK, TypeOK', Expire
    PROVE  Promise!Forget
<1> USE DEF sampler, cache
<1>1. Asked' = Asked
  BY DEF Expire, Asked, Elems
<1>2. PICK x \in IP : /\ entry[x] # None
                      /\ entry' = [entry EXCEPT ![x].fresh = FALSE]
  BY DEF Expire
<1>3. entry[x] \in Entry /\ \A y \in IP \ {x} : entry'[y] = entry[y]
  BY <1>2 DEF TypeOK
<1>4. entry'[x].fresh = FALSE
  <2>1. entry' = [entry EXCEPT ![x] = [entry[x] EXCEPT !.fresh = FALSE]]
    BY <1>2
  <2>2. [entry[x] EXCEPT !.fresh = FALSE].fresh = FALSE
    BY <1>3 DEF Entry
  <2>3. QED
    BY <2>1, <2>2 DEF TypeOK
<1>5. Names \in [IP -> Host \cup {None}] /\ Names' \in [IP -> Host \cup {None}]
  BY NamesType DEF TypeOK, Names, Entry
<1>6. \A y \in IP : Names'[y] \in {Names[y], None}
  BY <1>3, <1>4 DEF Names
<1>7. QED
  BY <1>1, <1>5, <1>6 DEF Promise!Forget, Promise!Forgets

\* The resolver implements PeerNames: at most one lookup of an address is under
\* way, and what is answered for an address was answered by a lookup of it.
THEOREM Refinement == Spec => KeepsPromise
<1>1. Init => Promise!Init
  BY DEF Init, Promise!Init, Asked, Names, Elems, Idle
<1>2. IInv /\ IInv' /\ [Next]_vars => [Promise!Next]_<<Asked, Names>>
  <2> SUFFICES ASSUME IInv, IInv', [Next]_vars
               PROVE  [Promise!Next]_<<Asked, Names>>
    OBVIOUS
  <2> USE DEF IInv
  <2>1. CASE UNCHANGED vars
    BY <2>1 DEF vars, Asked, Names, Elems
  <2>2. CASE \/ NewCycle \/ Mark \/ Drop
             \/ \E x \in IP : CacheGet(x)
             \/ \E w \in Worker : Take(w) \/ Lookup(w) \/ Clear(w)
    BY <2>2, Stutters
  <2>3. CASE Enqueue
    BY <2>3, EnqueueAsks DEF Promise!Next
  <2>4. ASSUME NEW w \in Worker, CachePut(w)
        PROVE  Promise!Next
    BY <2>4, PutAnswers DEF Promise!Next
  <2>5. CASE Expire
    BY <2>5, ExpireForgets DEF Promise!Next
  <2>6. QED
    BY <2>1, <2>2, <2>3, <2>4, <2>5 DEF Next, Resolve, Work
<1>3. QED
  BY <1>1, <1>2, Invariance, PTL DEF Spec, KeepsPromise, Promise!Spec
=============================================================================
