-------------------------- MODULE ProcSamplerProofs --------------------------
(***************************************************************************)
(* Proofs of the safety properties of ProcSampler: its types, the bound on *)
(* the rates, the refinement of Meter and the age of the GPU figures, for  *)
(* any number of processes, panics and cycles.  The rates follow from what *)
(* is known of a count that ages: how much a process can have used since   *)
(* it was read, in ticks (Paced) and in jiffies not yet shown (Owed).      *)
(* Then those of the cut of the rows: CutRowsAreBeaten and CutIsSmall.     *)
(***************************************************************************)
EXTENDS ProcSampler, FiniteSetTheorems, TLAPS

-----------------------------------------------------------------------------
(* The inductive invariant.                                                *)

\* A cycle takes at most MaxCycle, and nothing that was read outlives it.
Times ==
    /\ tprev <= clock
    /\ pc # "sleep" => began <= clock /\ clock <= began + MaxCycle
    /\ pc # "sleep" /\ phase = "loop" => tprev <= began
    /\ pc \in {"sleep", "gpu", "list"} => cur = Nothing
    /\ phase = "seed" => prev = Nothing /\ pc \in {"list", "read"}

\* Since it was read, a process has used a jiffy a tick at most.
Paced(p) ==
    /\ prev[p] # None => ctr[p] + tprev <= prev[p] + clock + MaxCycle
    /\ cur[p] # None => ctr[p] + began <= cur[p] + clock
    /\ cur[p] # None /\ prev[p] # None => cur[p] + tprev <= prev[p] + clock + MaxCycle

\* What a count has gained; one that is smaller belongs to another process.
Gain(a, b) == IF b <= a THEN a - b ELSE 0

\* What was read and not yet shown, and what came after, was used and not shown.
Owed(p) ==
    /\ counted[p] <= carried[p]
    /\ prev[p] # None => counted[p] + Gain(ctr[p], prev[p]) <= carried[p]
    /\ cur[p] # None => counted[p] + Gain(ctr[p], cur[p]) <= carried[p]
    /\ cur[p] # None /\ prev[p] # None =>
           counted[p] + Gain(cur[p], prev[p]) + Gain(ctr[p], cur[p]) <= carried[p]

\* By the next cycle that is to ask, the figures are at most that old; a panic may
\* have kept each of these cycles from it.
Aged ==
    /\ i < Every
    /\ IF pc = "gpu" /\ i = 0
       THEN gage <= Every * (panics + 1)
       ELSE gage + (Every - i) <= Every * (panics + 1)

IInv ==
    /\ TypeOK
    /\ Times
    /\ \A p \in Pid : Paced(p)
    /\ \A p \in Pid : Owed(p)
    /\ RatesAreHonest
    /\ Aged

-----------------------------------------------------------------------------
(* Invariance.                                                             *)

\* The jiffies of a process that was read are a number, at most what it gained.
LEMMA JiffiesType ==
    ASSUME TypeOK, NEW p \in Pid, cur[p] # None
    PROVE  /\ Jiffies(p) \in Nat
           /\ Jiffies(p) = 0 \/ (prev[p] # None /\ Jiffies(p) = Gain(cur[p], prev[p]))
<1>1. cur[p] \in Nat /\ (prev[p] # None => prev[p] \in Nat)
  BY DEF TypeOK
<1>2. CASE prev[p] # None /\ began > tprev /\ prev[p] <= cur[p]
  BY <1>1, <1>2 DEF Jiffies, Gain
<1>3. CASE ~(prev[p] # None /\ began > tprev /\ prev[p] <= cur[p])
  BY <1>1, <1>3 DEF Jiffies
<1>4. QED
  BY <1>2, <1>3

\* A pid that is shown was read, and shown with its jiffies.
LEMMA ShownIsRead ==
    ASSUME Show, NEW p \in Pid
    PROVE  rates'[p] = None \/ (cur[p] # None /\ rates'[p] = Jiffies(p))
<1>1. PICK onGpu \in SUBSET Pid : \E K \in Cuts(Rows(onGpu)) :
          rates' = [q \in Pid |-> IF q \in K THEN Jiffies(q) ELSE None]
  BY DEF Show
<1>2. PICK K \in Cuts(Rows(onGpu)) :
          rates' = [q \in Pid |-> IF q \in K THEN Jiffies(q) ELSE None]
  BY <1>1
<1>3. K \subseteq Rows(onGpu)
  BY DEF Cuts
<1>4. p \in K => cur[p] # None
  BY <1>3 DEF Rows
<1>5. QED
  BY <1>2, <1>4

\* What is shown are the rates of processes.
LEMMA ShownType ==
    ASSUME TypeOK, Show
    PROVE  rates' \in [Pid -> Nat \cup {None}]
<1>1. ASSUME NEW p \in Pid PROVE rates'[p] \in Nat \cup {None}
  BY ShownIsRead, JiffiesType
<1>2. \E f : rates' = [p \in Pid |-> f[p]]
  <2>1. PICK onGpu \in SUBSET Pid : \E K \in Cuts(Rows(onGpu)) :
            rates' = [q \in Pid |-> IF q \in K THEN Jiffies(q) ELSE None]
    BY DEF Show
  <2>2. rates' = [p \in Pid |-> rates'[p]]
    BY <2>1
  <2>3. QED
    BY <2>2
<1>3. QED
  BY <1>1, <1>2

\* The initial states satisfy the invariant.
LEMMA InitIInv == Init => IInv
<1>0. Init => TypeOK
  <2>1. /\ Nothing \in [Pid -> Nat \cup {None}]
        /\ [p \in Pid |-> 0] \in [Pid -> Nat]
    BY DEF Nothing
  <2>2. ASSUME Init PROVE gsum \in BOOLEAN
    <3>1. gsum = FALSE
      BY <2>2 DEF Init
    <3>2. QED
      BY <3>1
  <2>3. QED
    BY <2>1, <2>2, 0 \in Nat, Zenon DEF Init, TypeOK
<1>1. Init => Times /\ RatesAreHonest /\ \A p \in Pid : Paced(p) /\ Owed(p)
  BY ProcSamplerAssumption DEF Init, Times, Paced, Owed, RatesAreHonest, Nothing
<1>2. Every * (0 + 1) = Every
  BY ProcSamplerAssumption
<1>3. Init => Aged
  BY <1>2, ProcSamplerAssumption DEF Init, Aged
<1>4. QED
  BY <1>0, <1>1, <1>3 DEF IInv

\* The number of a cycle.
LEMMA NextNumber ==
    ASSUME TypeOK, i < Every
    PROVE  (i + 1) % Every = IF i + 1 = Every THEN 0 ELSE i + 1
BY ProcSamplerAssumption DEF TypeOK

\* Every step keeps the types.
LEMMA TypeKept ==
    ASSUME TypeOK, Times, [Next]_vars
    PROVE  TypeOK'
<1> USE ProcSamplerAssumption DEF TypeOK, kernel, cycle, baseline, gpus, published, faults
<1>1. ASSUME NEW p \in Pid, Fork(p) \/ Zombie(p) \/ Exit(p)
      PROVE  TypeOK'
  BY <1>1 DEF Fork, Zombie, Exit
<1>2. CASE Tick
  BY <1>2 DEF Tick
<1>3. CASE Wake
  <2>1. (i + 1) % Every \in Nat
    OBVIOUS
  <2>2. QED
    BY <1>3, <2>1 DEF Wake
<1>4. CASE Gpu
  BY <1>4 DEF Gpu
<1>5. CASE List
  BY <1>5 DEF List, Fail
<1>6. ASSUME NEW p \in Pid, ReadStat(p)
      PROVE  TypeOK'
  BY <1>6 DEF ReadStat, Fail
<1>7. CASE Seed
  BY <1>7 DEF Seed, Sleep, Nothing
<1>8. CASE Publish
  <2>1. rates' \in [Pid -> Nat \cup {None}]
    BY <1>8, ShownType DEF Publish
  <2>0. counted' \in [Pid -> Nat]
    BY <1>8, JiffiesType DEF Publish, Show
  <2>2. span' \in Nat
    BY <1>8 DEF Publish, Show, Times
  <2>3. QED
    BY <1>8, <2>0, <2>1, <2>2 DEF Publish, Sleep, Nothing
<1>9. CASE Panic
  BY <1>9 DEF Panic, Sleep, Nothing
<1>10. CASE UNCHANGED vars
  BY <1>10 DEF vars
<1>11. QED
  BY <1>1, <1>2, <1>3, <1>4, <1>5, <1>6, <1>7, <1>8, <1>9, <1>10 DEF Next, Sampler

\* Every step keeps the times.
LEMMA TimesKept ==
    ASSUME TypeOK, Times, [Next]_vars
    PROVE  Times'
<1> USE ProcSamplerAssumption DEF TypeOK, Times, kernel, cycle, baseline, gpus, published, faults
<1>1. ASSUME NEW p \in Pid, Fork(p) \/ Zombie(p) \/ Exit(p)
      PROVE  Times'
  BY <1>1 DEF Fork, Zombie, Exit
<1>2. CASE Tick
  BY <1>2 DEF Tick
<1>3. CASE Wake
  BY <1>3 DEF Wake
<1>4. CASE Gpu \/ List
  BY <1>4 DEF Gpu, List
<1>5. ASSUME NEW p \in Pid, ReadStat(p)
      PROVE  Times'
  BY <1>5 DEF ReadStat, Fail
<1>6. CASE Seed \/ Publish \/ Panic
  BY <1>6 DEF Seed, Publish, Panic, Sleep, Nothing
<1>7. CASE UNCHANGED vars
  BY <1>7 DEF vars
<1>8. QED
  BY <1>1, <1>2, <1>3, <1>4, <1>5, <1>6, <1>7 DEF Next, Sampler

\* The pace of a process is kept by every step: its count gains a jiffy a tick at
\* most, and loses all of them when the pid is used again.
LEMMA PacedKept ==
    ASSUME TypeOK, Times, NEW p \in Pid, Paced(p), [Next]_vars
    PROVE  Paced(p)'
<1> USE ProcSamplerAssumption DEF TypeOK, Times, Paced, kernel, cycle, baseline, gpus, published, faults
<1>1. ASSUME NEW q \in Pid, Fork(q) \/ Zombie(q) \/ Exit(q)
      PROVE  Paced(p)'
  <2>1. ctr'[p] = ctr[p] \/ ctr'[p] = 0
    BY <1>1 DEF Fork, Zombie, Exit
  <2>2. UNCHANGED <<clock, began, cur, prev, tprev>>
    BY <1>1 DEF Fork, Zombie, Exit
  <2>3. QED
    BY <2>1, <2>2
<1>2. CASE Tick
  <2>1. ctr'[p] = ctr[p] \/ ctr'[p] = ctr[p] + 1
    BY <1>2 DEF Tick
  <2>2. clock' = clock + 1 /\ UNCHANGED <<began, cur, prev, tprev>>
    BY <1>2 DEF Tick
  <2>3. QED
    BY <2>1, <2>2
<1>3. CASE Wake
  BY <1>3 DEF Wake, Nothing
<1>4. CASE Gpu \/ List
  BY <1>4 DEF Gpu, List
<1>5. ASSUME NEW q \in Pid, ReadStat(q)
      PROVE  Paced(p)'
  <2>1. cur'[p] = cur[p] \/ cur'[p] = ctr[p]
    BY <1>5 DEF ReadStat, Fail
  <2>2. pc = "read" /\ UNCHANGED <<clock, ctr, began, prev, tprev>>
    BY <1>5 DEF ReadStat, Fail
  <2>3. QED
    BY <2>1, <2>2
<1>6. CASE Seed
  <2>1. prev' = cur /\ tprev' = clock /\ cur'[p] = None /\ UNCHANGED <<clock, ctr>>
    BY <1>6 DEF Seed, Sleep, Nothing
  <2>2. clock <= began + MaxCycle
    BY <1>6 DEF Seed
  <2>3. QED
    BY <2>1, <2>2
<1>7. CASE Publish
  <2>1. prev' = cur /\ tprev' = began /\ cur'[p] = None /\ UNCHANGED <<clock, ctr>>
    BY <1>7 DEF Publish, Sleep, Nothing
  <2>2. QED
    BY <2>1
<1>8. CASE Panic
  BY <1>8 DEF Panic, Sleep, Nothing
<1>9. CASE UNCHANGED vars
  BY <1>9 DEF vars
<1>10. QED
  BY <1>1, <1>2, <1>3, <1>4, <1>5, <1>6, <1>7, <1>8, <1>9 DEF Next, Sampler

\* What is owed of a process is kept by every step: what Publish shows it takes out
\* of what is owed, and a count that starts anew owes nothing.
LEMMA OwedKept ==
    ASSUME TypeOK, NEW p \in Pid, Owed(p), [Next]_vars
    PROVE  Owed(p)'
<1> USE ProcSamplerAssumption DEF TypeOK, Owed, kernel, cycle, baseline, gpus, published, faults
<1>1. ASSUME NEW q \in Pid, Fork(q) \/ Zombie(q) \/ Exit(q)
      PROVE  Owed(p)'
  <2>1. ctr'[p] = ctr[p] \/ ctr'[p] = 0
    BY <1>1 DEF Fork, Zombie, Exit
  <2>2. UNCHANGED <<carried, counted, cur, prev>>
    BY <1>1 DEF Fork, Zombie, Exit
  <2>3. QED
    BY <2>1, <2>2 DEF Gain
<1>2. CASE Tick
  <2>1. \/ (ctr'[p] = ctr[p] /\ carried'[p] = carried[p])
        \/ (ctr'[p] = ctr[p] + 1 /\ carried'[p] = carried[p] + 1)
    BY <1>2 DEF Tick
  <2>2. UNCHANGED <<cur, prev, counted>>
    BY <1>2 DEF Tick
  <2>3. QED
    BY <2>1, <2>2 DEF Gain
<1>3. CASE Wake \/ Gpu \/ List
  <2>1. UNCHANGED <<ctr, carried, counted, cur, prev>>
    BY <1>3 DEF Wake, Gpu, List
  <2>2. QED
    BY <2>1 DEF Gain
<1>4. ASSUME NEW q \in Pid, ReadStat(q)
      PROVE  Owed(p)'
  <2>1. cur'[p] = cur[p] \/ cur'[p] = ctr[p]
    BY <1>4 DEF ReadStat, Fail
  <2>2. UNCHANGED <<ctr, carried, prev, counted>>
    BY <1>4 DEF ReadStat, Fail
  <2>3. QED
    BY <2>1, <2>2 DEF Gain
<1>5. CASE Seed
  <2>1. prev' = cur /\ cur'[p] = None /\ UNCHANGED <<ctr, carried, counted>>
    BY <1>5 DEF Seed, Sleep, Nothing
  <2>2. QED
    BY <2>1 DEF Gain
<1>6. CASE Publish
  <2>1. counted'[p] = counted[p] + (IF cur[p] = None THEN 0 ELSE Jiffies(p))
    BY <1>6 DEF Publish, Show
  <2>2. prev' = cur /\ cur'[p] = None /\ UNCHANGED <<ctr, carried>>
    BY <1>6 DEF Publish, Sleep, Nothing
  <2>3. CASE cur[p] = None
    BY <2>1, <2>2, <2>3 DEF Gain
  <2>4. CASE cur[p] # None
    <3>1. \/ counted'[p] = counted[p]
          \/ (prev[p] # None /\ counted'[p] = counted[p] + Gain(cur[p], prev[p]))
      BY <2>1, <2>4, JiffiesType
    <3>2. QED
      BY <2>2, <2>4, <3>1 DEF Gain
  <2>5. QED
    BY <2>3, <2>4
<1>7. CASE Panic
  BY <1>7 DEF Panic, Sleep, Nothing, Gain
<1>8. CASE UNCHANGED vars
  BY <1>8 DEF vars, Gain
<1>9. QED
  BY <1>1, <1>2, <1>3, <1>4, <1>5, <1>6, <1>7, <1>8 DEF Next, Sampler

\* What Publish shows keeps the promise, and nobody else changes it.
LEMMA HonestKept ==
    ASSUME IInv, [Next]_vars
    PROVE  RatesAreHonest'
<1>1. CASE Publish
  <2> SUFFICES ASSUME NEW p \in Pid, rates'[p] # None
               PROVE  rates'[p] <= span' + 2 * MaxCycle
    BY DEF RatesAreHonest
  <2>0. TypeOK
    BY DEF IInv
  <2>1. cur[p] # None /\ rates'[p] = Jiffies(p) /\ span' = began - tprev
    BY <1>1, ShownIsRead DEF Publish, Show
  <2>2. tprev <= began /\ clock <= began + MaxCycle
    BY <1>1 DEF Publish, IInv, Times
  <2>3. prev[p] # None => cur[p] + tprev <= prev[p] + clock + MaxCycle
    BY <2>1 DEF IInv, Paced
  <2>4. Jiffies(p) = 0 \/ (prev[p] # None /\ Jiffies(p) = Gain(cur[p], prev[p]))
    BY <2>0, <2>1, JiffiesType
  <2>5. /\ cur[p] \in Nat /\ (prev[p] # None => prev[p] \in Nat)
        /\ clock \in Nat /\ began \in Nat /\ tprev \in Nat
    BY <2>0, <2>1 DEF TypeOK
  <2>6. Jiffies(p) <= began - tprev + 2 * MaxCycle
    BY <2>2, <2>3, <2>4, <2>5, ProcSamplerAssumption DEF Gain
  <2>7. QED
    BY <2>1, <2>6
<1>2. CASE UNCHANGED <<rates, span>>
  BY <1>2 DEF IInv, RatesAreHonest
<1>3. QED
  BY <1>1, <1>2 DEF Next, Sampler, Fork, Zombie, Exit, Tick, Wake, Gpu, List, ReadStat, Seed, Panic,
     published, vars

\* A cycle that is to ask and does not panic before it does starts the age anew, and
\* a panic allows for as many cycles more.
LEMMA AgedKept ==
    ASSUME TypeOK, Aged, [Next]_vars
    PROVE  Aged'
<1> DEFINE Bound == Every * (panics + 1)
<1>1. /\ i \in Nat /\ gage \in Nat /\ panics \in Nat /\ Every \in Nat \ {0} /\ i < Every
      /\ Bound \in Nat /\ Every <= Bound
  <2>1. i \in Nat /\ gage \in Nat /\ panics \in Nat /\ Every \in Nat \ {0} /\ i < Every
    BY ProcSamplerAssumption DEF TypeOK, Aged
  <2>2. Bound = Every * panics + Every /\ Every * panics \in Nat
    BY <2>1
  <2>3. QED
    BY <2>1, <2>2
<1>2. CASE Wake
  <2>1. /\ pc = "sleep" /\ pc' = "gpu" /\ gage' = gage + 1 /\ panics' = panics
        /\ i' = IF i + 1 = Every THEN 0 ELSE i + 1
    BY <1>1, <1>2, NextNumber DEF Wake, faults
  <2>2. gage + (Every - i) <= Bound
    BY <2>1 DEF Aged
  <2>3. /\ i' < Every
        /\ IF i' = 0 THEN gage' <= Bound ELSE gage' + (Every - i') <= Bound
    BY <1>1, <2>1, <2>2
  <2>4. QED
    BY <2>1, <2>3 DEF Aged
<1>3. CASE Gpu
  <2>1. pc = "gpu" /\ pc' = "list" /\ i' = i /\ panics' = panics
    BY <1>3 DEF Gpu, cycle, faults
  <2>2. gage' = 0 \/ (gage' = gage /\ i # 0)
    BY <1>3 DEF Gpu, Ask, gpus
  <2>3. gage' + (Every - i) <= Bound
    BY <1>1, <2>1, <2>2 DEF Aged
  <2>4. QED
    BY <1>1, <2>1, <2>3 DEF Aged
<1>4. CASE Panic
  <2>1. pc' = "sleep" /\ i' = i /\ gage' = gage /\ panics' = panics + 1
    BY <1>4 DEF Panic, Sleep, gpus, faults
  <2>2. Every * (panics' + 1) = Bound + Every
    BY <1>1, <2>1
  <2>3. gage + (Every - i) <= Bound + Every
    BY <1>1 DEF Aged
  <2>4. QED
    BY <1>1, <2>1, <2>2, <2>3 DEF Aged
<1>5. CASE UNCHANGED <<i, gage, panics>> /\ (pc' = pc \/ (pc # "gpu" /\ pc' # "gpu"))
  BY <1>5 DEF Aged
<1>6. QED
  BY <1>2, <1>3, <1>4, <1>5 DEF Next, Sampler, Fork, Zombie, Exit, Tick, List, ReadStat, Seed, Publish,
     Sleep, gpus, cycle, faults, vars

\* The invariant holds in every reachable state.
THEOREM Invariance == Spec => []IInv
<1>1. IInv /\ [Next]_vars => IInv'
  BY TypeKept, TimesKept, PacedKept, OwedKept, HonestKept, AgedKept DEF IInv
<1>2. QED
  BY InitIInv, <1>1, PTL DEF Spec

\* ProcSampler's variables always have their types (procmon.go:85-111, 404-446).
THEOREM Typing == Spec => []TypeOK
<1>1. IInv => TypeOK
  BY DEF IInv
<1>2. QED
  BY Invariance, <1>1, PTL

\* No process is shown with more CPU time than it can have had, whichever cycles
\* panicked or were stalled and however often its pid was used again.
THEOREM HonestRates == Spec => []RatesAreHonest
<1>1. IInv => RatesAreHonest
  BY DEF IInv
<1>2. QED
  BY Invariance, <1>1, PTL

\* The GPU figures are at most three cycles old, and three more for every panic.
THEOREM RecentGpu == Spec => []GpuIsRecent
<1>1. IInv => GpuIsRecent
  <2>1. ASSUME IInv PROVE gage <= Every * (panics + 1)
    <3>1. i < Every /\ i \in Nat /\ Every \in Nat /\ gage \in Nat /\ Every * (panics + 1) \in Nat
      BY <2>1, ProcSamplerAssumption DEF IInv, Aged, TypeOK
    <3>2. gage <= Every * (panics + 1) \/ gage + (Every - i) <= Every * (panics + 1)
      BY <2>1 DEF IInv, Aged
    <3>3. QED
      BY <3>1, <3>2
  <2>2. QED
    BY <2>1 DEF GpuIsRecent
<1>2. QED
  BY Invariance, <1>1, PTL

-----------------------------------------------------------------------------
(* The sampler is a meter.                                                 *)

\* A tick uses jiffies, Publish shows them, and every other step is none of a meter's.
LEMMA MeterStep ==
    ASSUME IInv, [Next]_vars
    PROVE  [Metered!Carry \/ Metered!Count]_<<carried, counted>>
<1> USE DEF IInv, TypeOK, kernel, published
<1>1. CASE Tick
  <2>1. /\ carried' \in [Pid -> Nat] /\ UNCHANGED counted
        /\ \A p \in Pid : carried[p] <= carried'[p]
    BY <1>1 DEF Tick
  <2>2. QED
    BY <2>1 DEF Metered!Carry
<1>2. CASE Publish
  <2>1. /\ counted' \in [Pid -> Nat] /\ UNCHANGED carried
        /\ \A p \in Pid : counted[p] <= counted'[p]
    BY <1>2, JiffiesType DEF Publish, Show
  <2>2. \A p \in Pid : counted'[p] <= carried[p]
    BY <1>2, <2>1, OwedKept DEF Owed
  <2>3. QED
    BY <2>1, <2>2 DEF Metered!Count
<1>3. CASE UNCHANGED <<carried, counted>>
  BY <1>3
<1>4. QED
  BY <1>1, <1>2, <1>3 DEF Next, Sampler, Fork, Zombie, Exit, Wake, Gpu, List, ReadStat, Seed, Panic, vars

\* No jiffy is shown twice or before it was used: ProcSampler implements Meter.
THEOREM Refinement == Spec => KeepsMeter
<1>1. Init => Metered!Init
  BY DEF Init, Metered!Init
<1>2. IInv /\ [Next]_vars => [Metered!Carry \/ Metered!Count]_<<carried, counted>>
  BY MeterStep
<1>3. QED
  BY Invariance, <1>1, <1>2, PTL DEF Spec, KeepsMeter, Metered!Spec

-----------------------------------------------------------------------------
(* The cut of the rows.                                                    *)

\* The rows of a snapshot, with a number in every column.
RowTable(rows, metrics) ==
    /\ \E n \in Nat : DOMAIN rows = 1..n
    /\ \A k \in DOMAIN rows, m \in metrics : rows[k][m] \in Nat

Ahead(rows, m, k) == {j \in DOMAIN rows : Before(rows, m, j, k)}

Leaders(rows, m, max) == {k \in DOMAIN rows : Cardinality(Ahead(rows, m, k)) < max}

\* A set of rows that is not empty has one with the fewest rows ahead of it and one
\* with the most.
LEMMA Extremes ==
    ASSUME NEW T, IsFiniteSet(T), NEW S \in SUBSET T, S # {},
           NEW f \in [S -> 0..Cardinality(T)]
    PROVE  /\ \E k \in S : \A j \in S : f[k] <= f[j]
           /\ \E k \in S : \A j \in S : f[j] <= f[k]
<1> DEFINE n == Cardinality(T)
<1>1. n \in Nat
  BY FS_CardinalityType
<1>2. ASSUME NEW g \in [S -> Nat] PROVE \E k \in S : \A j \in S : g[k] <= g[j]
  <2> DEFINE I == {g[k] : k \in S}
  <2>1. I \subseteq Nat /\ I # {}
    OBVIOUS
  <2>2. PICK x \in I : \A y \in I : ~ (<<y, x>> \in OpToRel(<, Nat))
    <3> HIDE DEF I
    <3>1. QED
      BY <2>1, NatLessThanWellFounded, WFMin
  <2>3. \A y \in I : ~(y < x)
    BY <2>1, <2>2 DEF OpToRel
  <2>4. PICK k \in S : x = g[k]
    OBVIOUS
  <2>5. ASSUME NEW j \in S PROVE g[k] <= g[j]
    <3>1. g[j] \in I /\ g[j] \in Nat /\ g[k] \in Nat
      OBVIOUS
    <3>2. ~(g[j] < g[k])
      BY <2>3, <2>4, <3>1
    <3>3. QED
      BY <3>1, <3>2
  <2>6. QED
    BY <2>5
<1>3. \E k \in S : \A j \in S : f[k] <= f[j]
  <2>1. f \in [S -> Nat]
    BY <1>1
  <2>2. QED
    BY <1>2, <2>1
<1>4. \E k \in S : \A j \in S : f[j] <= f[k]
  <2> DEFINE g == [k \in S |-> n - f[k]]
  <2>1. \A k \in S : f[k] \in 0..n /\ g[k] = n - f[k]
    OBVIOUS
  <2>2. g \in [S -> Nat]
    BY <1>1, <2>1
  <2> HIDE DEF g
  <2>3. PICK k \in S : \A j \in S : g[k] <= g[j]
    BY <1>2, <2>2
  <2>4. \A j \in S : f[j] <= f[k]
    BY <1>1, <2>1, <2>3
  <2>5. QED
    BY <2>4
<1>5. QED
  BY <1>3, <1>4

\* The order of the rows by a metric is a strict one, and total.
LEMMA Sorted ==
    ASSUME NEW rows, NEW metrics, RowTable(rows, metrics), NEW m \in metrics,
           NEW j \in DOMAIN rows, NEW k \in DOMAIN rows
    PROVE  /\ ~Before(rows, m, k, k)
           /\ j = k \/ Before(rows, m, j, k) \/ Before(rows, m, k, j)
           /\ Before(rows, m, j, k) => Ahead(rows, m, j) \subseteq Ahead(rows, m, k)
           /\ Before(rows, m, j, k) => rows[j][m] >= rows[k][m]
<1>1. j \in Nat /\ k \in Nat /\ rows[j][m] \in Nat /\ rows[k][m] \in Nat
  BY DEF RowTable
<1>2. ASSUME NEW l \in DOMAIN rows, Before(rows, m, l, j), Before(rows, m, j, k)
      PROVE  Before(rows, m, l, k)
  <2>1. l \in Nat /\ rows[l][m] \in Nat
    BY DEF RowTable
  <2>2. QED
    BY <1>1, <1>2, <2>1 DEF Before
<1>3. QED
  BY <1>1, <1>2 DEF Before, Ahead

\* How many rows are ahead is a number, and smaller for a row that is ahead.
LEMMA Ranks ==
    ASSUME NEW rows, NEW metrics, RowTable(rows, metrics), NEW m \in metrics,
           NEW k \in DOMAIN rows
    PROVE  /\ IsFiniteSet(DOMAIN rows)
           /\ IsFiniteSet(Ahead(rows, m, k))
           /\ Cardinality(Ahead(rows, m, k)) \in 0..Cardinality(DOMAIN rows)
           /\ \A j \in Ahead(rows, m, k) :
                  Cardinality(Ahead(rows, m, j)) < Cardinality(Ahead(rows, m, k))
<1>1. IsFiniteSet(DOMAIN rows) /\ Cardinality(DOMAIN rows) \in Nat
  BY FS_Interval, FS_CardinalityType DEF RowTable
<1>2. ASSUME NEW j \in DOMAIN rows
      PROVE  /\ IsFiniteSet(Ahead(rows, m, j))
             /\ Cardinality(Ahead(rows, m, j)) \in 0..Cardinality(DOMAIN rows)
  <2>1. Ahead(rows, m, j) \in SUBSET DOMAIN rows
    BY DEF Ahead
  <2>2. IsFiniteSet(Ahead(rows, m, j))
        /\ Cardinality(Ahead(rows, m, j)) <= Cardinality(DOMAIN rows)
    BY <1>1, <2>1, FS_Subset
  <2>3. QED
    BY <1>1, <2>2, FS_CardinalityType
<1>3. ASSUME NEW j \in Ahead(rows, m, k)
      PROVE  Cardinality(Ahead(rows, m, j)) < Cardinality(Ahead(rows, m, k))
  <2>1. j \in DOMAIN rows /\ Before(rows, m, j, k)
    BY DEF Ahead
  <2>2. Ahead(rows, m, j) \in SUBSET Ahead(rows, m, k) /\ j \notin Ahead(rows, m, j)
    BY <2>1, Sorted DEF Ahead
  <2>3. /\ Cardinality(Ahead(rows, m, j)) <= Cardinality(Ahead(rows, m, k))
        /\ Cardinality(Ahead(rows, m, k)) = Cardinality(Ahead(rows, m, j)) =>
               Ahead(rows, m, k) = Ahead(rows, m, j)
    BY <1>2, <2>2, FS_Subset
  <2>4. QED
    BY <1>2, <2>1, <2>2, <2>3
<1>4. QED
  BY <1>1, <1>2, <1>3

\* A row that is not among the first max has max of these ahead of it: of the rows
\* ahead of it that are not, the first would have less than max ahead.
LEMMA LeadersAhead ==
    ASSUME NEW rows, NEW metrics, RowTable(rows, metrics), NEW m \in metrics,
           NEW max \in Nat, NEW k \in DOMAIN rows \ Leaders(rows, m, max)
    PROVE  Cardinality(Ahead(rows, m, k) \cap Leaders(rows, m, max)) >= max
<1> DEFINE Best == Ahead(rows, m, k) \cap Leaders(rows, m, max)
           Rest == Ahead(rows, m, k) \ Leaders(rows, m, max)
           f == [j \in Rest |-> Cardinality(Ahead(rows, m, j))]
<1> SUFFICES ASSUME ~(Cardinality(Best) >= max) PROVE FALSE
  OBVIOUS
<1>1. /\ IsFiniteSet(DOMAIN rows) /\ IsFiniteSet(Ahead(rows, m, k))
      /\ Cardinality(Ahead(rows, m, k)) \in Nat
  BY Ranks
<1>2. ~(Cardinality(Ahead(rows, m, k)) < max)
  BY DEF Leaders
<1>3. IsFiniteSet(Best) /\ Cardinality(Best) \in Nat
  BY <1>1, FS_Subset, FS_CardinalityType
<1>4. Rest # {}
  <2>1. Rest = {} => Best = Ahead(rows, m, k)
    OBVIOUS
  <2>2. QED
    BY <1>1, <1>2, <1>3, <2>1
<1>5. Rest \in SUBSET DOMAIN rows
  BY DEF Ahead
<1>6. f \in [Rest -> 0..Cardinality(DOMAIN rows)]
  <2>1. ASSUME NEW j \in Rest
        PROVE  Cardinality(Ahead(rows, m, j)) \in 0..Cardinality(DOMAIN rows)
    <3>1. j \in DOMAIN rows
      BY <1>5
    <3>2. QED
      BY <3>1, Ranks
  <2>2. QED
    BY <2>1
<1>7. PICK b \in Rest : \A j \in Rest : f[b] <= f[j]
  <2> HIDE DEF Rest, f
  <2>1. QED
    BY <1>1, <1>4, <1>5, <1>6, Extremes
<1>8. b \in DOMAIN rows /\ Before(rows, m, b, k)
  BY DEF Ahead
<1>9. Ahead(rows, m, b) \subseteq Ahead(rows, m, k)
  BY <1>8, Sorted
<1>10. ASSUME NEW j \in Ahead(rows, m, b) PROVE j \in Leaders(rows, m, max)
  <2>1. SUFFICES ASSUME j \notin Leaders(rows, m, max) PROVE FALSE
    OBVIOUS
  <2>2. j \in Rest
    BY <1>9, <2>1
  <2>3. f[b] <= f[j] /\ f[b] = Cardinality(Ahead(rows, m, b))
        /\ f[j] = Cardinality(Ahead(rows, m, j))
    BY <1>7, <2>2
  <2>4. Cardinality(Ahead(rows, m, j)) < Cardinality(Ahead(rows, m, b))
    BY <1>8, Ranks
  <2>5. Cardinality(Ahead(rows, m, j)) \in Nat /\ Cardinality(Ahead(rows, m, b)) \in Nat
    BY <1>5, <1>8, <2>2, Ranks
  <2>6. QED
    BY <2>3, <2>4, <2>5
<1>11. Ahead(rows, m, b) \in SUBSET Best
  BY <1>9, <1>10
<1>12. Cardinality(Ahead(rows, m, b)) <= Cardinality(Best)
  <2> HIDE DEF Best
  <2>1. QED
    BY <1>3, <1>11, FS_Subset
<1>13. Cardinality(Ahead(rows, m, b)) \in Nat /\ ~(Cardinality(Ahead(rows, m, b)) < max)
  BY <1>8, Ranks DEF Leaders
<1>14. QED
  BY <1>3, <1>12, <1>13

\* Of each metric there are at most max leaders: the last of them has the others ahead.
LEMMA FewLeaders ==
    ASSUME NEW rows, NEW metrics, RowTable(rows, metrics), NEW m \in metrics,
           NEW max \in Nat
    PROVE  /\ IsFiniteSet(Leaders(rows, m, max))
           /\ Cardinality(Leaders(rows, m, max)) <= max
<1> DEFINE L == Leaders(rows, m, max)
           f == [k \in L |-> Cardinality(Ahead(rows, m, k))]
<1>1. IsFiniteSet(DOMAIN rows)
  BY FS_Interval DEF RowTable
<1>2. L \in SUBSET DOMAIN rows
  BY DEF Leaders
<1>3. IsFiniteSet(L) /\ Cardinality(L) \in Nat
  <2> HIDE DEF L
  <2>1. QED
    BY <1>1, <1>2, FS_Subset, FS_CardinalityType
<1>4. CASE L = {}
  BY <1>4, FS_EmptySet
<1>5. CASE L # {}
  <2>1. f \in [L -> 0..Cardinality(DOMAIN rows)]
    BY <1>2, Ranks
  <2>2. PICK k \in L : \A j \in L : f[j] <= f[k]
    <3> HIDE DEF L, f
    <3>1. QED
      BY <1>1, <1>2, <1>5, <2>1, Extremes
  <2>3. k \in DOMAIN rows /\ Cardinality(Ahead(rows, m, k)) < max
    BY DEF Leaders
  <2>4. IsFiniteSet(Ahead(rows, m, k)) /\ Cardinality(Ahead(rows, m, k)) \in Nat
    BY <2>3, Ranks
  <2>5. ASSUME NEW j \in L \ {k} PROVE j \in Ahead(rows, m, k)
    <3>1. j \in DOMAIN rows /\ j # k
      BY <1>2
    <3>2. SUFFICES ASSUME ~Before(rows, m, j, k) PROVE FALSE
      BY <3>1 DEF Ahead
    <3>3. k \in Ahead(rows, m, j)
      BY <2>3, <3>1, <3>2, Sorted DEF Ahead
    <3>4. Cardinality(Ahead(rows, m, k)) < Cardinality(Ahead(rows, m, j))
      BY <3>1, <3>3, Ranks
    <3>5. Cardinality(Ahead(rows, m, j)) <= Cardinality(Ahead(rows, m, k))
      BY <2>2
    <3>6. Cardinality(Ahead(rows, m, j)) \in Nat
      BY <3>1, Ranks
    <3>7. QED
      BY <2>4, <3>4, <3>5, <3>6
  <2>6. L \ {k} \in SUBSET Ahead(rows, m, k)
    BY <2>5
  <2>7. Cardinality(L \ {k}) <= Cardinality(Ahead(rows, m, k))
    <3> HIDE DEF L
    <3>1. QED
      BY <2>4, <2>6, FS_Subset
  <2>8. Cardinality(L \ {k}) = Cardinality(L) - 1
    <3> HIDE DEF L
    <3>1. QED
      BY <1>3, <2>2, FS_RemoveElement
  <2>9. QED
    BY <1>3, <2>3, <2>4, <2>7, <2>8
<1>6. QED
  BY <1>3, <1>4, <1>5

\* capUnion never cuts a row that leads: in each metric, a row it drops is matched or
\* beaten by at least max of the rows it keeps, in every snapshot, with ties and with
\* any number of rows.
THEOREM CutRowsAreBeaten ==
    ASSUME NEW rows, NEW metrics, RowTable(rows, metrics), NEW max \in Nat,
           NEW k \in DOMAIN rows \ CapUnion(rows, metrics, max), NEW m \in metrics
    PROVE  Cardinality({j \in CapUnion(rows, metrics, max) : rows[j][m] >= rows[k][m]}) >= max
<1> DEFINE Kept == {j \in CapUnion(rows, metrics, max) : rows[j][m] >= rows[k][m]}
           Best == Ahead(rows, m, k) \cap Leaders(rows, m, max)
<1>1. Leaders(rows, m, max) \subseteq CapUnion(rows, metrics, max)
  BY DEF Leaders, CapUnion, Ahead
<1>2. k \in DOMAIN rows \ Leaders(rows, m, max)
  BY <1>1
<1>3. Cardinality(Best) >= max
  BY <1>2, LeadersAhead
<1>4. Best \in SUBSET Kept
  <2>1. ASSUME NEW j \in Best PROVE j \in Kept
    <3>1. j \in DOMAIN rows /\ Before(rows, m, j, k) /\ j \in CapUnion(rows, metrics, max)
      BY <1>1 DEF Ahead
    <3>2. rows[j][m] >= rows[k][m]
      BY <3>1, Sorted
    <3>3. QED
      BY <3>1, <3>2
  <2>2. QED
    BY <2>1
<1>5. IsFiniteSet(Kept)
  <2>1. IsFiniteSet(DOMAIN rows) /\ Kept \in SUBSET DOMAIN rows
    BY FS_Interval DEF RowTable, CapUnion
  <2> HIDE DEF Kept
  <2>2. QED
    BY <2>1, FS_Subset
<1>6. Cardinality(Best) <= Cardinality(Kept)
  <2> HIDE DEF Kept, Best
  <2>1. QED
    BY <1>4, <1>5, FS_Subset
<1>7. Cardinality(Best) \in Nat /\ Cardinality(Kept) \in Nat
  <2> HIDE DEF Kept, Best
  <2>1. QED
    BY <1>4, <1>5, FS_Subset, FS_CardinalityType
<1>8. QED
  BY <1>3, <1>6, <1>7

\* With the four metrics of capUnion at most 4 * max rows are left.
THEOREM CutIsSmall ==
    ASSUME NEW rows, NEW max \in Nat, RowTable(rows, {"cpu", "rss", "vram", "threads"})
    PROVE  Cardinality(CapUnion(rows, {"cpu", "rss", "vram", "threads"}, max)) <= 4 * max
<1> DEFINE metrics == {"cpu", "rss", "vram", "threads"}
           L(m) == Leaders(rows, m, max)
<1>1. ASSUME NEW m \in metrics
      PROVE  IsFiniteSet(L(m)) /\ Cardinality(L(m)) \in Nat /\ Cardinality(L(m)) <= max
  <2>1. IsFiniteSet(L(m)) /\ Cardinality(L(m)) <= max
    BY FewLeaders
  <2>2. QED
    BY <2>1, FS_CardinalityType
<1>2. CapUnion(rows, metrics, max) = (L("cpu") \cup L("rss")) \cup (L("vram") \cup L("threads"))
  BY DEF CapUnion, Leaders, Ahead
<1>3. ASSUME NEW S, NEW T, IsFiniteSet(S), IsFiniteSet(T), NEW a \in Nat,
             Cardinality(S) <= a, Cardinality(T) <= a
      PROVE  IsFiniteSet(S \cup T) /\ Cardinality(S \cup T) <= 2 * a
  <2>1. /\ IsFiniteSet(S \cup T)
        /\ Cardinality(S \cup T) = Cardinality(S) + Cardinality(T) - Cardinality(S \cap T)
    BY <1>3, FS_Union
  <2>2. Cardinality(S) \in Nat /\ Cardinality(T) \in Nat /\ Cardinality(S \cap T) \in Nat
    <3>1. S \cap T \in SUBSET S
      OBVIOUS
    <3>2. IsFiniteSet(S \cap T)
      BY <1>3, <3>1, FS_Subset
    <3>3. QED
      BY <1>3, <3>2, FS_CardinalityType
  <2>3. QED
    BY <1>3, <2>1, <2>2
<1> HIDE DEF L
<1>4. /\ IsFiniteSet(L("cpu") \cup L("rss")) /\ Cardinality(L("cpu") \cup L("rss")) <= 2 * max
      /\ IsFiniteSet(L("vram") \cup L("threads"))
      /\ Cardinality(L("vram") \cup L("threads")) <= 2 * max
  BY <1>1, <1>3
<1>5. Cardinality(CapUnion(rows, metrics, max)) <= 2 * (2 * max)
  BY <1>2, <1>3, <1>4
<1>6. QED
  BY <1>5
=============================================================================
