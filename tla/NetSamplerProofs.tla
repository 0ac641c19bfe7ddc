-------------------------- MODULE NetSamplerProofs --------------------------
(***************************************************************************)
(* Proofs of the safety properties of NetSampler: its types, RatesAreHonest *)
(* and the refinement of Meter.  Both follow from what is known of a        *)
(* baseline that ages: how much a counter can have moved on since a dump    *)
(* read it, in ticks (Paced) and in bytes not yet counted (Owed).           *)
(* Then those of the search of the range tables the sampler looks its peers *)
(* up in (RangeLookup): FindIsComplete and FindsLastStart.                  *)
(***************************************************************************)
EXTENDS NetSampler, RangeLookup, WellFoundedInduction, TLAPS

-----------------------------------------------------------------------------
(* The inductive invariant.                                                *)

\* The times of a cycle: its dumps take at most MaxDump, and nothing that was read
\* outlives it.
Times ==
    /\ tprev <= clock
    /\ pc = "sleep" => cur = Nothing
    /\ Dumping => began <= clock /\ clock <= began + MaxDump
    /\ pc = "publish" =>
           began <= tcur /\ tprev <= tcur /\ tcur <= clock /\ tcur <= began + MaxDump

\* Since a dump read it, a counter has moved on by a byte a tick at most.
Paced(c) ==
    /\ Counts(prev[c]) => ctr[c] + tprev <= prev[c] + clock + MaxDump
    /\ Counts(cur[c]) => ctr[c] + began <= cur[c] + clock
    /\ Dumping /\ Counts(cur[c]) /\ Counts(prev[c]) =>
           cur[c] + tprev <= prev[c] + clock + MaxDump
    /\ pc = "publish" /\ Counts(cur[c]) /\ Counts(prev[c]) =>
           cur[c] + tprev <= prev[c] + tcur + MaxDump

\* What was read and not yet counted, and what came after, was carried and not counted.
Owed(c) ==
    /\ counted[c] <= carried[c]
    /\ Counts(prev[c]) => counted[c] + Sub(ctr[c], prev[c]) <= carried[c]
    /\ Counts(cur[c]) => counted[c] + Sub(ctr[c], cur[c]) <= carried[c]
    /\ Counts(cur[c]) /\ Counts(prev[c]) =>
           counted[c] + Sub(cur[c], prev[c]) + Sub(ctr[c], cur[c]) <= carried[c]

IInv ==
    /\ TypeOK
    /\ Times
    /\ \A c \in Conn : Paced(c)
    /\ \A c \in Conn : Owed(c)
    /\ RatesAreHonest

-----------------------------------------------------------------------------
(* Invariance.                                                             *)

\* A difference of counters is never negative.
LEMMA SubType ==
    ASSUME NEW a \in Nat, NEW b \in Nat
    PROVE  Sub(a, b) \in Nat
BY DEF Sub

\* The rate of a connection is a number or missing.
LEMMA RateType ==
    ASSUME TypeOK, NEW c \in Conn
    PROVE  /\ Rate(c) \in Nat \cup {None}
           /\ cur[c] # None => Rate(c) \in Nat
BY SubType DEF TypeOK, Rate, Counts

\* The initial states satisfy the invariant.
LEMMA InitIInv == Init => IInv
BY NetSamplerAssumption
   DEF Init, IInv, TypeOK, Times, Paced, Owed, RatesAreHonest, Nothing, Dumping, Counts

\* Every step keeps the types.
LEMMA TypeKept ==
    ASSUME TypeOK, Times, [Next]_vars
    PROVE  TypeOK'
<1> USE NetSamplerAssumption DEF TypeOK, kernel, cycle, baseline, published, faults
<1>1. ASSUME NEW c \in Conn, Connect(c)
      PROVE  TypeOK'
  BY <1>1 DEF Connect
<1>2. ASSUME NEW c \in Conn, Close(c)
      PROVE  TypeOK'
  BY <1>2 DEF Close
<1>3. CASE Tick
  BY <1>3 DEF Tick
<1>4. CASE Wake
  BY <1>4 DEF Wake
<1>5. CASE DumpInet \/ DumpInet6
  BY <1>5 DEF DumpInet, DumpInet6, Dump
<1>6. CASE Seed
  BY <1>6 DEF Seed, Sleep, Nothing
<1>7. CASE Retry
  BY <1>7 DEF Retry, Sleep, Nothing
<1>8. CASE Stamp
  BY <1>8 DEF Stamp
<1>9. CASE Publish
  <2>1. /\ rates' \in [Conn -> Nat \cup {None}]
        /\ counted' \in [Conn -> Nat]
    BY <1>9, RateType DEF Publish, Show
  <2>2. span' \in Nat
    BY <1>9 DEF Publish, Show, Times
  <2>3. QED
    BY <1>9, <2>1, <2>2 DEF Publish, Show, Sleep, Nothing
<1>10. CASE Panic
  BY <1>10 DEF Panic, Sleep, Nothing
<1>11. CASE UNCHANGED vars
  BY <1>11 DEF vars
<1>12. QED
  BY <1>1, <1>2, <1>3, <1>4, <1>5, <1>6, <1>7, <1>8, <1>9, <1>10, <1>11
     DEF Next, Sampler
\* Every step keeps the times.
LEMMA TimesKept ==
    ASSUME TypeOK, Times, [Next]_vars
    PROVE  Times'
<1> USE NetSamplerAssumption
    DEF TypeOK, Times, Dumping, kernel, cycle, baseline, published, faults
<1>1. ASSUME NEW c \in Conn, Connect(c) \/ Close(c)
      PROVE  Times'
  BY <1>1 DEF Connect, Close
<1>2. CASE Tick
  BY <1>2 DEF Tick
<1>3. CASE Wake
  BY <1>3 DEF Wake
<1>4. CASE DumpInet \/ DumpInet6
  BY <1>4 DEF DumpInet, DumpInet6, Dump
<1>5. CASE Seed \/ Retry \/ Publish \/ Panic
  BY <1>5 DEF Seed, Retry, Publish, Show, Panic, Sleep, Nothing
<1>6. CASE Stamp
  BY <1>6 DEF Stamp
<1>7. CASE UNCHANGED vars
  BY <1>7 DEF vars
<1>8. QED
  BY <1>1, <1>2, <1>3, <1>4, <1>5, <1>6, <1>7 DEF Next, Sampler

\* The pace of a connection is kept by every step: a counter gains a byte a tick at
\* most, and loses all of them when the 4-tuple is used again.
LEMMA PacedKept ==
    ASSUME TypeOK, Times, NEW c \in Conn, Paced(c), [Next]_vars
    PROVE  Paced(c)'
<1> USE NetSamplerAssumption
    DEF TypeOK, Times, Paced, Counts, Dumping, kernel, cycle, baseline, published, faults
<1>1. ASSUME NEW d \in Conn, Connect(d) \/ Close(d)
      PROVE  Paced(c)'
  <2>1. ctr'[c] = ctr[c] \/ ctr'[c] = 0
    BY <1>1 DEF Connect, Close
  <2>2. QED
    BY <1>1, <2>1 DEF Connect, Close
<1>2. CASE Tick
  <2>1. ctr'[c] = ctr[c] \/ ctr'[c] = ctr[c] + 1
    BY <1>2 DEF Tick
  <2>2. clock' = clock + 1 /\ UNCHANGED <<pc, began, cur, tcur, prev, tprev>>
    BY <1>2 DEF Tick
  <2>3. QED
    BY <2>1, <2>2
<1>3. CASE Wake
  BY <1>3 DEF Wake, Nothing
<1>4. CASE DumpInet \/ DumpInet6
  <2>1. cur'[c] = cur[c] \/ cur'[c] = ctr[c] \/ cur'[c] = Blind
    BY <1>4 DEF DumpInet, DumpInet6, Dump
  <2>2. /\ Dumping
        /\ pc' \in {"inet6", "check"}
        /\ UNCHANGED <<clock, ctr, began, tcur, prev, tprev>>
    BY <1>4 DEF DumpInet, DumpInet6, Dump
  <2>3. QED
    BY <2>1, <2>2
<1>5. CASE Seed
  BY <1>5 DEF Seed, Sleep, Nothing
<1>6. CASE Retry
  BY <1>6 DEF Retry, Sleep, Nothing
<1>7. CASE Stamp
  BY <1>7 DEF Stamp
<1>8. CASE Publish
  BY <1>8 DEF Publish, Show, Sleep, Nothing
<1>9. CASE Panic
  BY <1>9 DEF Panic, Sleep, Nothing
<1>10. CASE UNCHANGED vars
  BY <1>10 DEF vars
<1>11. QED
  BY <1>1, <1>2, <1>3, <1>4, <1>5, <1>6, <1>7, <1>8, <1>9, <1>10 DEF Next, Sampler

\* What is owed of a connection is kept by every step: what Publish counts it takes
\* out of what is owed, and a counter that starts anew owes nothing.
LEMMA OwedKept ==
    ASSUME TypeOK, NEW c \in Conn, Owed(c), [Next]_vars
    PROVE  Owed(c)'
<1> USE NetSamplerAssumption DEF TypeOK, Owed, Counts, kernel, cycle, baseline, published, faults
<1>1. ASSUME NEW d \in Conn, Connect(d) \/ Close(d)
      PROVE  Owed(c)'
  <2>1. ctr'[c] = ctr[c] \/ ctr'[c] = 0
    BY <1>1 DEF Connect, Close
  <2>2. QED
    BY <1>1, <2>1 DEF Connect, Close, Sub
<1>2. CASE Tick
  <2>1. \/ ctr'[c] = ctr[c] /\ carried'[c] = carried[c]
        \/ ctr'[c] = ctr[c] + 1 /\ carried'[c] = carried[c] + 1
    BY <1>2 DEF Tick
  <2>2. UNCHANGED <<cur, prev, counted>>
    BY <1>2 DEF Tick
  <2>3. QED
    BY <2>1, <2>2 DEF Sub
<1>3. CASE Wake \/ Stamp
  BY <1>3 DEF Wake, Stamp, Sub
<1>4. CASE DumpInet \/ DumpInet6
  <2>1. cur'[c] = cur[c] \/ cur'[c] = ctr[c] \/ cur'[c] = Blind
    BY <1>4 DEF DumpInet, DumpInet6, Dump
  <2>2. UNCHANGED <<ctr, carried, prev, counted>>
    BY <1>4 DEF DumpInet, DumpInet6, Dump
  <2>3. QED
    BY <2>1, <2>2 DEF Sub
<1>5. CASE Seed
  BY <1>5 DEF Seed, Sleep, Nothing, Sub
<1>6. CASE Retry
  BY <1>6 DEF Retry, Sleep, Nothing, Sub
<1>7. CASE Publish
  <2>1. counted'[c] = counted[c] + (IF cur[c] = None THEN 0 ELSE Rate(c))
    BY <1>7 DEF Publish, Show
  <2>2. prev'[c] = cur[c] /\ cur'[c] = None /\ UNCHANGED <<ctr, carried>>
    BY <1>7 DEF Publish, Show, Sleep, Nothing
  <2>3. QED
    BY <2>1, <2>2 DEF Rate, Sub
<1>8. CASE Panic
  BY <1>8 DEF Panic, Sleep, Nothing, Sub
<1>9. CASE UNCHANGED vars
  BY <1>9 DEF vars, Sub
<1>10. QED
  BY <1>1, <1>2, <1>3, <1>4, <1>5, <1>6, <1>7, <1>8, <1>9 DEF Next, Sampler

\* What Publish shows keeps the promise, and nobody else changes it.
LEMMA HonestKept ==
    ASSUME IInv, [Next]_vars
    PROVE  RatesAreHonest'
<1>1. CASE Publish
  <2> SUFFICES ASSUME NEW c \in Conn, rates'[c] # None
               PROVE  rates'[c] <= span' + MaxDump
    BY DEF RatesAreHonest
  <2>1. rates'[c] = Rate(c) /\ span' = tcur - tprev /\ tprev <= tcur
    BY <1>1 DEF Publish, Show, IInv, Times
  <2>2. Counts(cur[c]) /\ Counts(prev[c]) => cur[c] + tprev <= prev[c] + tcur + MaxDump
    BY <1>1 DEF Publish, Show, IInv, Paced
  <2>3. QED
    BY <2>1, <2>2, NetSamplerAssumption DEF IInv, TypeOK, Rate, Sub, Counts
<1>2. CASE UNCHANGED <<rates, span>>
  BY <1>2 DEF IInv, RatesAreHonest
<1>3. QED
  BY <1>1, <1>2 DEF Next, Sampler, Connect, Close, Tick, Wake, DumpInet, DumpInet6, Dump,
     Seed, Retry, Stamp, Panic, published, vars

\* The invariant holds in every reachable state.
THEOREM Invariance == Spec => []IInv
<1>1. IInv /\ [Next]_vars => IInv'
  BY TypeKept, TimesKept, PacedKept, OwedKept, HonestKept DEF IInv
<1>2. QED
  BY InitIInv, <1>1, PTL DEF Spec

\* NetSampler's variables always have their types.
THEOREM Typing == Spec => []TypeOK
<1>1. IInv => TypeOK
  BY DEF IInv
<1>2. QED
  BY Invariance, <1>1, PTL

\* A connection is never shown with more than it can have carried in the time the
\* rate is taken over, whichever cycles failed, panicked or met a new counter.
THEOREM HonestRates == Spec => []RatesAreHonest
<1>1. IInv => RatesAreHonest
  BY DEF IInv
<1>2. QED
  BY Invariance, <1>1, PTL

-----------------------------------------------------------------------------
(* The sampler is a meter.                                                 *)

\* A tick carries bytes, Publish counts them, and every other step is none of a meter's.
LEMMA MeterStep ==
    ASSUME IInv, [Next]_vars
    PROVE  [Metered!Carry \/ Metered!Count]_<<carried, counted>>
<1> USE DEF IInv, TypeOK, kernel, published
<1>1. CASE Tick
  <2>1. /\ carried' \in [Conn -> Nat] /\ UNCHANGED counted
        /\ \A c \in Conn : carried[c] <= carried'[c]
    BY <1>1 DEF Tick
  <2>2. QED
    BY <2>1 DEF Metered!Carry
<1>2. CASE Publish
  <2>1. /\ counted' \in [Conn -> Nat] /\ UNCHANGED carried
        /\ \A c \in Conn : counted[c] <= counted'[c]
    BY <1>2, RateType DEF Publish, Show
  <2>2. \A c \in Conn : counted'[c] <= carried[c]
    BY <1>2, <2>1, OwedKept DEF Owed
  <2>3. QED
    BY <2>1, <2>2 DEF Metered!Count
<1>3. CASE UNCHANGED <<carried, counted>>
  BY <1>3
<1>4. QED
  BY <1>1, <1>2, <1>3 DEF Next, Sampler, Connect, Close, Wake, DumpInet, DumpInet6, Dump,
     Seed, Retry, Stamp, Panic, vars

\* No byte is counted twice or before it was carried: NetSampler implements Meter.
THEOREM Refinement == Spec => KeepsMeter
<1>1. Init => Metered!Init
  BY DEF Init, Metered!Init
<1>2. IInv /\ [Next]_vars => [Metered!Carry \/ Metered!Count]_<<carried, counted>>
  BY MeterStep
<1>3. QED
  BY Invariance, <1>1, <1>2, PTL DEF Spec, KeepsMeter, Metered!Spec

-----------------------------------------------------------------------------
(* The range tables.  For every table, nested and overlapping ranges       *)
(* included, the search returns a range with the address when there is     *)
(* one, and of those with the address one with the greatest start.         *)

\* The least member of a set of naturals.
LEMMA Least ==
    ASSUME NEW S \in SUBSET Nat, S # {}
    PROVE  \E m \in S : \A k \in S : m <= k
<1>1. PICK m \in S : \A k \in S : ~ (<<k, m>> \in OpToRel(<, Nat))
  BY NatLessThanWellFounded, WFMin
<1>2. \A k \in S : ~ (k < m)
  BY <1>1 DEF OpToRel
<1>3. QED
  BY <1>2

\* The table t has a last index in every set of its indexes that is not empty.
LEMMA LastExists ==
    ASSUME NEW n \in Nat, NEW S \in SUBSET (1..n), S # {}
    PROVE  IsLast(Last(S), S)
<1> DEFINE Back == {k \in Nat : \E i \in S : k = n - i}
<1>1. PICK i \in S : TRUE
  OBVIOUS
<1>2. n - i \in Back
  OBVIOUS
<1>3. PICK k \in Back : \A l \in Back : k <= l
  BY <1>2, Least
<1>4. PICK j \in S : k = n - j
  OBVIOUS
<1>5. ASSUME NEW l \in S PROVE l <= j
  <2>1. n - l \in Back
    OBVIOUS
  <2>2. n - j <= n - l
    BY <1>3, <1>4, <2>1
  <2>3. QED
    BY <2>2
<1>6. IsLast(j, S)
  BY <1>5 DEF IsLast
<1>7. QED
  BY <1>6 DEF Last

\* The first i of some numbers have a greatest one.
LEMMA GreatestOfFirst ==
    ASSUME NEW n \in Nat, NEW e \in [1..n -> Nat], NEW i \in 1..n
    PROVE  \E m \in 1..i : \A l \in 1..i : e[l] <= e[m]
<1> DEFINE Top(j) == \E m \in 1..j : \A l \in 1..j : e[l] <= e[m]
           Bad == {j \in 1..n : ~Top(j)}
<1> SUFFICES ASSUME ~Top(i) PROVE FALSE
  OBVIOUS
<1>0. i \in Bad
  OBVIOUS
<1>1. PICK j \in Bad : \A l \in Bad : j <= l
  <2>1. Bad \subseteq Nat
    OBVIOUS
  <2>2. \E j \in Bad : \A l \in Bad : j <= l
    <3> HIDE DEF Bad
    <3>1. QED
      BY <1>0, <2>1, Least
  <2>3. QED
    BY <2>2
<1>2. j \in 1..n /\ j \in Nat /\ ~Top(j)
  OBVIOUS
<1>3. j # 1
  BY <1>2
<1>4. j - 1 \in 1..n /\ ~(j <= j - 1)
  BY <1>2, <1>3
<1>5. PICK m \in 1..j - 1 : \A l \in 1..j - 1 : e[l] <= e[m]
  BY <1>1, <1>4
<1>6. \A l \in 1..j : l = j \/ l \in 1..j - 1
  BY <1>2
<1>7. m \in 1..n /\ m \in 1..j /\ j \in 1..j /\ e[m] \in Nat /\ e[j] \in Nat
  BY <1>2, <1>4
<1>8. CASE e[j] <= e[m]
  <2>1. \A l \in 1..j : e[l] <= e[m]
    BY <1>5, <1>6, <1>8
  <2>2. QED
    BY <1>2, <1>7, <2>1
<1>9. CASE e[m] < e[j]
  <2>1. ASSUME NEW l \in 1..j - 1 PROVE e[l] <= e[j]
    <3>1. e[l] \in Nat /\ e[l] <= e[m]
      BY <1>2, <1>5
    <3>2. QED
      BY <1>7, <1>9, <3>1
  <2>2. \A l \in 1..j : e[l] <= e[j]
    BY <1>6, <1>7, <2>1
  <2>3. QED
    BY <1>2, <1>7, <2>2
<1>10. QED
  BY <1>7, <1>8, <1>9

\* maxend is what the name says: no end of the first i ranges is greater.
LEMMA MaxEndBounds ==
    ASSUME NEW t \in Seq(Range), NEW i \in 1..Len(t), NEW k \in 1..i
    PROVE  t[k].end <= MaxEnd(t, i) /\ MaxEnd(t, i) \in Nat
<1> DEFINE e == [l \in 1..Len(t) |-> t[l].end]
           Ends == {t[l].end : l \in 1..i}
<1>1. Len(t) \in Nat /\ \A l \in 1..Len(t) : t[l] \in Range
  OBVIOUS
<1>2. \A l \in 1..Len(t) : t[l].end \in Nat
  BY <1>1 DEF Range
<1>3. e \in [1..Len(t) -> Nat]
  BY <1>2
<1> HIDE DEF e
<1>4. PICK m \in 1..i : \A l \in 1..i : e[l] <= e[m]
  BY <1>1, <1>3, GreatestOfFirst
<1>5. \A l \in 1..i : l \in 1..Len(t) /\ e[l] = t[l].end
  BY <1>1 DEF e
<1>6. t[m].end \in Ends /\ \A l \in 1..i : t[l].end <= t[m].end
  BY <1>4, <1>5
<1>7. MaxEnd(t, i) \in Ends /\ \A l \in 1..i : t[l].end <= MaxEnd(t, i)
  BY <1>6 DEF MaxEnd
<1>8. Ends \subseteq Nat
  BY <1>2, <1>5
<1>9. QED
  BY <1>7, <1>8

\* A range with the address is at or before the last one that starts at or before it.
LEMMA StartsBefore ==
    ASSUME NEW t, Table(t), NEW x \in Nat, NEW k \in DOMAIN t, Contains(t[k], x)
    PROVE  /\ LastStart(t, x) \in DOMAIN t
           /\ k <= LastStart(t, x)
           /\ t[LastStart(t, x)].start <= x
<1> DEFINE S == {i \in DOMAIN t : t[i].start <= x}
<1>1. Len(t) \in Nat /\ S \in SUBSET (1..Len(t)) /\ k \in S
  BY DEF Table, Contains
<1>2. IsLast(Last(S), S)
  BY <1>1, LastExists
<1>3. QED
  BY <1>1, <1>2 DEF IsLast, LastStart

\* The walk back reaches every range with the address.
LEMMA WalkReaches ==
    ASSUME NEW t, Table(t), NEW x \in Nat, NEW k \in DOMAIN t, Contains(t[k], x),
           NEW i \in DOMAIN t, k < i
    PROVE  k \in Reached(t, x, i)
<1>1. t \in Seq(Range) /\ x <= t[k].end /\ t[k].end \in Nat
  <2>1. t \in Seq(Range) /\ x <= t[k].end
    BY DEF Table, Contains
  <2>2. t[k] \in Range
    BY <2>1
  <2>3. QED
    BY <2>1, <2>2 DEF Range
<1>2. ASSUME NEW m \in k..i - 1 PROVE MaxEnd(t, m) >= x
  <2>1. m \in 1..Len(t) /\ k \in 1..m
    BY <1>1
  <2>2. t[k].end <= MaxEnd(t, m) /\ MaxEnd(t, m) \in Nat
    BY <1>1, <2>1, MaxEndBounds
  <2>3. QED
    BY <1>1, <2>2
<1>3. QED
  BY <1>1, <1>2 DEF Reached

-----------------------------------------------------------------------------
\* find and lookup: in every sorted table, whatever ranges nest or overlap, an
\* address some range has is found, and what is found is a range that has it; an
\* address no range has is not found.
THEOREM FindIsComplete ==
    ASSUME NEW t, Table(t), NEW x \in Nat
    PROVE  IF \E k \in DOMAIN t : Contains(t[k], x)
           THEN Find(t, x) \in DOMAIN t /\ Contains(t[Find(t, x)], x)
           ELSE Find(t, x) = 0
<1> DEFINE i == LastStart(t, x)
           Hits == {j \in Reached(t, x, i) : Contains(t[j], x)}
<1>1. Len(t) \in Nat /\ DOMAIN t = 1..Len(t)
  BY DEF Table
<1>2. i = 0 \/ (i \in DOMAIN t /\ t[i].start <= x)
  <2> DEFINE S == {k \in DOMAIN t : t[k].start <= x}
  <2>1. CASE S = {}
    BY <2>1 DEF LastStart, Last
  <2>2. CASE S # {}
    <3>1. S \in SUBSET (1..Len(t)) /\ i = Last(S)
      BY <1>1 DEF LastStart
    <3>2. IsLast(Last(S), S)
      BY <1>1, <2>2, <3>1, LastExists
    <3>3. QED
      BY <3>1, <3>2 DEF IsLast
  <2>3. QED
    BY <2>1, <2>2
<1>3. i \in DOMAIN t => Hits \in SUBSET (1..Len(t))
  BY <1>1 DEF Reached
<1> HIDE DEF i
<1>4. ASSUME NEW k \in DOMAIN t, Contains(t[k], x)
      PROVE  Find(t, x) \in DOMAIN t /\ Contains(t[Find(t, x)], x)
  <2>1. i \in DOMAIN t /\ k <= i /\ t[i].start <= x /\ i # 0
    BY <1>1, <1>4, StartsBefore DEF i
  <2>2. CASE x <= t[i].end
    BY <2>1, <2>2 DEF Find, Contains, i
  <2>3. CASE ~(x <= t[i].end)
    <3>1. k < i
      BY <1>1, <1>4, <2>1, <2>3 DEF Contains
    <3>2. k \in Hits
      BY <1>4, <2>1, <3>1, WalkReaches
    <3>3. IsLast(Last(Hits), Hits)
      BY <1>1, <1>3, <2>1, <3>2, LastExists
    <3>4. Find(t, x) = Last(Hits)
      BY <2>1, <2>3 DEF Find, i
    <3>5. QED
      BY <1>1, <1>3, <2>1, <3>3, <3>4 DEF IsLast
  <2>4. QED
    BY <2>2, <2>3
<1>5. ASSUME \A k \in DOMAIN t : ~Contains(t[k], x)
      PROVE  Find(t, x) = 0
  <2>1. CASE i = 0
    BY <2>1 DEF Find, i
  <2>2. CASE i # 0
    <3>1. i \in DOMAIN t /\ ~(x <= t[i].end)
      BY <1>2, <1>5, <2>2 DEF Contains
    <3>2. Hits = {}
      BY <1>1, <1>3, <1>5, <3>1
    <3>3. QED
      BY <2>2, <3>1, <3>2 DEF Find, Last, i
  <2>3. QED
    BY <2>1, <2>2
<1>6. QED
  BY <1>4, <1>5

\* Of the ranges with the address the search returns one that starts last: where
\* ranges nest, the innermost of those with different starts.
THEOREM FindsLastStart ==
    ASSUME NEW t, Table(t), NEW x \in Nat, NEW k \in DOMAIN t, Contains(t[k], x)
    PROVE  k <= Find(t, x) /\ t[k].start <= t[Find(t, x)].start
<1> DEFINE i == LastStart(t, x)
           Hits == {j \in Reached(t, x, i) : Contains(t[j], x)}
<1>1. Len(t) \in Nat /\ DOMAIN t = 1..Len(t) /\ t \in Seq(Range)
  BY DEF Table
<1>2. i \in DOMAIN t /\ k <= i /\ t[i].start <= x /\ i # 0
  BY <1>1, StartsBefore
<1>3. Hits \in SUBSET (1..Len(t))
  BY <1>1, <1>2 DEF Reached
<1> HIDE DEF i
<1>4. Find(t, x) \in DOMAIN t /\ k <= Find(t, x)
  <2>1. CASE x <= t[i].end
    BY <1>2, <2>1 DEF Find, i
  <2>2. CASE ~(x <= t[i].end)
    <3>1. k < i
      BY <1>1, <1>2, <2>2 DEF Contains
    <3>2. k \in Hits
      BY <1>2, <3>1, WalkReaches
    <3>3. IsLast(Last(Hits), Hits)
      BY <1>1, <1>3, <3>2, LastExists
    <3>4. Find(t, x) = Last(Hits)
      BY <1>2, <2>2 DEF Find, i
    <3>5. QED
      BY <1>1, <1>3, <3>2, <3>3, <3>4 DEF IsLast
  <2>3. QED
    BY <2>1, <2>2
<1>5. t[k].start <= t[Find(t, x)].start
  <2>1. CASE k = Find(t, x)
    <3>1. t[k] \in Range
      BY <1>1
    <3>2. QED
      BY <2>1, <3>1 DEF Range
  <2>2. CASE k < Find(t, x)
    BY <1>4, <2>2 DEF Table
  <2>3. QED
    BY <1>1, <1>4, <2>1, <2>2
<1>6. QED
  BY <1>4, <1>5

\* The search is a scan of the whole table for the last range with the address.
THEOREM FindIsScan ==
    ASSUME NEW t, Table(t), NEW x \in Nat
    PROVE  Find(t, x) = Last({k \in DOMAIN t : Contains(t[k], x)})
<1> DEFINE Hits == {k \in DOMAIN t : Contains(t[k], x)}
<1>1. CASE Hits = {}
  <2>1. Find(t, x) = 0
    BY <1>1, FindIsComplete
  <2>2. QED
    BY <1>1, <2>1 DEF Last
<1>2. CASE Hits # {}
  <2>1. Len(t) \in Nat /\ Hits \in SUBSET (1..Len(t))
    BY DEF Table
  <2>2. Find(t, x) \in Hits
    BY <1>2, FindIsComplete
  <2>3. \A k \in Hits : k <= Find(t, x)
    BY FindsLastStart
  <2> HIDE DEF Hits
  <2>4. IsLast(Last(Hits), Hits)
    BY <1>2, <2>1, LastExists
  <2>5. Last(Hits) <= Find(t, x) /\ Find(t, x) <= Last(Hits)
    BY <2>2, <2>3, <2>4 DEF IsLast
  <2>6. Last(Hits) \in Nat /\ Find(t, x) \in Nat
    <3>1. \A k \in Hits : k \in 1..Len(t)
      BY <2>1
    <3>2. Last(Hits) \in 1..Len(t) /\ Find(t, x) \in 1..Len(t)
      BY <2>2, <2>4, <3>1 DEF IsLast
    <3>3. QED
      BY <2>1, <3>2
  <2>7. QED
    BY <2>5, <2>6 DEF Hits
<1>3. QED
  BY <1>1, <1>2

\* r lies within s.
Within(r, s) == s.start <= r.start /\ r.end <= s.end

\* The ranges with the address nest, and two of them with one start are the same
\* range.
Nest(t, x) ==
    \A j, k \in DOMAIN t : Contains(t[j], x) /\ Contains(t[k], x) =>
        /\ Within(t[j], t[k]) \/ Within(t[k], t[j])
        /\ t[j].start = t[k].start => t[j].end = t[k].end

\* "find returns the index of the most-specific range containing x": where the
\* ranges with the address nest, the one that is found lies within all of them.
THEOREM FindIsMostSpecific ==
    ASSUME NEW t, Table(t), NEW x \in Nat, Nest(t, x),
           NEW k \in DOMAIN t, Contains(t[k], x)
    PROVE  Within(t[Find(t, x)], t[k])
<1> DEFINE f == Find(t, x)
<1>1. f \in DOMAIN t /\ Contains(t[f], x)
  BY FindIsComplete
<1>2. t[k].start <= t[f].start
  BY FindsLastStart
<1>3. /\ t[k].start \in Nat /\ t[k].end \in Nat /\ t[f].start \in Nat /\ t[f].end \in Nat
  <2>1. t[k] \in Range /\ t[f] \in Range
    BY <1>1 DEF Table
  <2>2. QED
    BY <2>1 DEF Range
<1> HIDE DEF f
<1>4. CASE Within(t[f], t[k])
  BY <1>4 DEF f
<1>5. CASE Within(t[k], t[f])
  <2>1. t[f].start = t[k].start
    BY <1>2, <1>3, <1>5 DEF Within
  <2>2. t[f].end = t[k].end
    BY <1>1, <2>1 DEF Nest
  <2>3. QED
    BY <1>3, <2>1, <2>2 DEF Within, f
<1>6. QED
  BY <1>1, <1>4, <1>5 DEF Nest
=============================================================================
