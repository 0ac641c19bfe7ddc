---------------------------- MODULE ProcSampler -----------------------------
(***************************************************************************)
(* The process sampler (web/procmon): a goroutine that reads the CPU time  *)
(* of every process from /proc, publishes how much was used since the      *)
(* cycle before, and sleeps.  Between its time stamp and /proc it may ask  *)
(* nvidia-smi, which can take seconds.  /proc, or a file in it, may fail   *)
(* to be read.  A panic ends the cycle it strikes, and the baseline is     *)
(* that of the last whole one.                                             *)
(*                                                                         *)
(* A pid may be used again within a cycle.  Time goes on in ticks, and in  *)
(* a tick a process uses at most one jiffy.  Of its memory it matters      *)
(* whether it has any: a kernel thread and a zombie have none, and such a  *)
(* pid is shown only when it used CPU time.  The system's own CPU figure   *)
(* is read and kept like that of a process; names, users and threads have  *)
(* no baseline.                                                            *)
(***************************************************************************)
EXTENDS Naturals, FiniteSets

CONSTANTS
    Pid,
    None,      \* no entry
    Interval,  \* sampleInterval, in ticks
    MaxRows,   \* maxRows: how many rows a metric keeps of a list that is longer
    Every,     \* the cycles from one question to nvidia-smi to the next: 3
    MaxCycle,  \* bound: how long a cycle takes
    MaxTime,   \* bound: ticks, after which the sampler no longer waits for any
    MaxFails,  \* bound: reads of /proc that fail
    MaxPanics  \* bound: panics

ASSUME ProcSamplerAssumption ==
    /\ None \notin Nat
    /\ Interval \in Nat /\ Every \in Nat \ {0} /\ MaxCycle \in Nat
    /\ MaxRows \in Nat \ {0}
    /\ MaxTime \in Nat /\ MaxFails \in Nat /\ MaxPanics \in Nat

VARIABLES
    live,     \* the processes
    resident, \* those with memory (RSS)
    ctr,     \* utime + stime of a process
    carried, \* the jiffies used under a pid, however often it was used
    clock,   \* the ticks so far
    pc,      \* "sleep", "gpu", "list", "read"
    phase,   \* sampler: "seed" before its loop, then "loop"
    i,       \* the cycles begun, modulo Every
    wake,    \* when the sleep is over
    began,   \* when the cycle, or the seed, began: its tcur
    todo,    \* pids that were listed and not read yet
    cur,     \* the ticks read of a pid, or None
    held,    \* the pids that were read to have memory
    prev,    \* those of the last whole cycle
    tprev,   \* its time stamp
    gsum,    \* whether there is a GPU summary
    gage,    \* the cycles begun since nvidia-smi was asked
    rates,   \* published: the jiffies of a pid, or None
    span,    \* published: the time they are divided by
    counted, \* the jiffies built into rows so far
    fails, panics

kernel == <<live, resident, ctr, carried, clock>>
cycle == <<phase, i, wake, began, todo, cur, held>>
baseline == <<prev, tprev>>
gpus == <<gsum, gage>>
published == <<rates, span, counted>>
faults == <<fails, panics>>
vars == <<live, resident, ctr, carried, clock, pc, phase, i, wake, began, todo, cur,
          held, prev, tprev, gsum, gage, rates, span, counted, fails, panics>>

Nothing == [p \in Pid |-> None]

Init ==
    /\ live = {} /\ resident = {} /\ clock = 0
    /\ ctr = [p \in Pid |-> 0] /\ carried = [p \in Pid |-> 0]
    /\ pc = "list" /\ phase = "seed" /\ i = 0 /\ wake = 0 /\ began = 0
    /\ todo = {} /\ cur = Nothing /\ held = {}
    /\ prev = Nothing /\ tprev = 0
    /\ gsum = FALSE /\ gage = 0
    /\ rates = Nothing /\ span = 0 /\ counted = [p \in Pid |-> 0]
    /\ fails = 0 /\ panics = 0

-----------------------------------------------------------------------------
(* The kernel.                                                             *)

\* A process or, without memory, a kernel thread.
Fork(p) ==
    /\ p \notin live
    /\ live' = live \cup {p} /\ ctr' = [ctr EXCEPT ![p] = 0]
    /\ resident' \in {resident, resident \cup {p}}
    /\ UNCHANGED <<carried, clock, pc, cycle, baseline, gpus, published, faults>>

\* A process ends, and has no memory, before its pid is free.
Zombie(p) ==
    /\ p \in resident
    /\ resident' = resident \ {p}
    /\ UNCHANGED <<live, ctr, carried, clock, pc, cycle, baseline, gpus, published, faults>>

Exit(p) ==
    /\ p \in live \ resident
    /\ live' = live \ {p}
    /\ UNCHANGED <<resident, ctr, carried, clock, pc, cycle, baseline, gpus, published,
                   faults>>

\* A tick, in which some of the processes run.
Tick ==
    /\ clock < MaxTime
    /\ pc # "sleep" => clock < began + MaxCycle
    /\ clock' = clock + 1
    /\ \E busy \in SUBSET live :
        /\ ctr' = [p \in Pid |-> IF p \in busy THEN ctr[p] + 1 ELSE ctr[p]]
        /\ carried' = [p \in Pid |-> IF p \in busy THEN carried[p] + 1 ELSE carried[p]]
    /\ UNCHANGED <<live, resident, pc, cycle, baseline, gpus, published, faults>>

-----------------------------------------------------------------------------
(* sampler.                                                                *)

\* What a cycle has read is of no use after it.
Sleep ==
    /\ pc' = "sleep" /\ wake' = clock + Interval
    /\ began' = 0 /\ todo' = {} /\ cur' = Nothing /\ held' = {}

\* The sleep is over, and the cycle takes its time stamp.
Wake ==
    /\ pc = "sleep"
    /\ clock >= wake \/ clock = MaxTime
    /\ pc' = "gpu" /\ i' = (i + 1) % Every /\ wake' = 0 /\ began' = clock
    /\ gage' = gage + 1
    /\ UNCHANGED <<kernel, phase, todo, cur, held, baseline, gsum, published, faults>>

\* Mutant: a GPU that was found once is not asked again.
AskOnce == ~gsum

\* The GPU is asked while there is no summary, and every third cycle.
Ask == ~gsum \/ i = 0

\* gpu: both questions may end without an answer.
Gpu ==
    /\ pc = "gpu"
    /\ IF Ask THEN gsum' \in BOOLEAN /\ gage' = 0 ELSE UNCHANGED gpus
    /\ pc' = "list"
    /\ UNCHANGED <<kernel, cycle, baseline, published, faults>>

Fail == fails < MaxFails /\ fails' = fails + 1

\* pids: a /proc that cannot be read is one without processes.
List ==
    /\ pc = "list"
    /\ \/ todo' = live /\ UNCHANGED fails
       \/ todo' = {} /\ Fail
    /\ pc' = "read"
    /\ UNCHANGED <<kernel, phase, i, wake, began, cur, held, baseline, gpus, published,
                   panics>>

\* readStat: there is nothing to read of a process that is gone by now, or whose stat
\* fails to be read.
ReadStat(p) ==
    /\ pc = "read" /\ p \in todo
    /\ todo' = todo \ {p}
    /\ \/ /\ p \in live
          /\ cur' = [cur EXCEPT ![p] = ctr[p]] /\ held' = held \cup ({p} \cap resident)
          /\ UNCHANGED fails
       \/ p \notin live /\ UNCHANGED <<cur, held, fails>>
       \/ p \in live /\ Fail /\ UNCHANGED <<cur, held>>
    /\ UNCHANGED <<kernel, pc, phase, i, wake, began, baseline, gpus, published, panics>>

Seed ==
    /\ pc = "read" /\ todo = {} /\ phase = "seed"
    /\ prev' = cur /\ tprev' = clock
    /\ phase' = "loop"
    /\ Sleep
    /\ UNCHANGED <<kernel, i, gpus, published, faults>>

\* build: a pid has used CPU time when the cycle before has read it too; a pid that
\* was used again has a smaller count and gets zero.
Jiffies(p) ==
    IF prev[p] # None /\ began > tprev /\ prev[p] <= cur[p] THEN cur[p] - prev[p] ELSE 0

\* build: the pids that have a row, those that used CPU time or have memory, of their
\* own or, as nvidia-smi last said of the pid, on the GPU.
Rows(onGpu) == {p \in Pid : cur[p] # None /\ (p \in held \cup onGpu \/ Jiffies(p) > 0)}

\* capUnion: of more than MaxRows rows the first MaxRows by CPU time are left, with
\* those of three more metrics, which may be any (CapUnion below is the cut itself).
Cuts(R) ==
    IF Cardinality(R) <= MaxRows THEN {R}
    ELSE {K \in SUBSET R :
             /\ Cardinality(K) \in MaxRows..4 * MaxRows
             /\ \E top \in SUBSET K :
                   /\ Cardinality(top) = MaxRows
                   /\ \A p \in top, q \in R \ top : Jiffies(p) >= Jiffies(q)}

Show ==
    /\ \E onGpu \in SUBSET Pid : \E K \in Cuts(Rows(onGpu)) :
        rates' = [p \in Pid |-> IF p \in K THEN Jiffies(p) ELSE None]
    /\ span' = began - tprev
    /\ counted' = [p \in Pid |-> counted[p] + (IF cur[p] = None THEN 0 ELSE Jiffies(p))]

\* Mutant: the ticks of the cycle before are kept.
PublishKeeps ==
    /\ pc = "read" /\ todo = {} /\ phase = "loop"
    /\ Show
    /\ tprev' = began
    /\ Sleep
    /\ UNCHANGED <<kernel, phase, i, prev, gpus, faults>>

\* The new snapshot, and with it the new baseline.
Publish ==
    /\ pc = "read" /\ todo = {} /\ phase = "loop"
    /\ Show
    /\ prev' = cur /\ tprev' = began
    /\ Sleep
    /\ UNCHANGED <<kernel, phase, i, gpus, faults>>

\* Mutant: a cycle that panics moves the time stamp on.
PanicStamps ==
    /\ phase = "loop" /\ pc # "sleep"
    /\ panics < MaxPanics /\ panics' = panics + 1
    /\ tprev' = began
    /\ Sleep
    /\ UNCHANGED <<kernel, phase, i, prev, gpus, published, fails>>

\* Mutant: a panic ends the loop.
PanicEnds ==
    /\ phase = "loop" /\ pc # "sleep"
    /\ panics < MaxPanics /\ panics' = panics + 1
    /\ pc' = "off"
    /\ UNCHANGED <<kernel, cycle, baseline, gpus, published, fails>>

\* A panic in a cycle is recovered, and its baseline is that of the cycle before.
Panic ==
    /\ phase = "loop" /\ pc # "sleep"
    /\ panics < MaxPanics /\ panics' = panics + 1
    /\ Sleep
    /\ UNCHANGED <<kernel, phase, i, baseline, gpus, published, fails>>

Sampler ==
    \/ Wake \/ Gpu \/ List \/ Seed \/ Publish
    \/ \E p \in Pid : ReadStat(p)

Next == (\E p \in Pid : Fork(p) \/ Zombie(p) \/ Exit(p)) \/ Tick \/ Sampler \/ Panic

\* Time goes on, and the goroutine is scheduled.
Fairness == WF_vars(Tick) /\ WF_vars(Sampler)

Spec == Init /\ [][Next]_vars /\ Fairness

-----------------------------------------------------------------------------
(* The rows of a snapshot.                                                 *)

\* Row j comes before row k when they are sorted by metric m, with a stable sort.
Before(rows, m, j, k) ==
    rows[j][m] > rows[k][m] \/ (rows[j][m] = rows[k][m] /\ j < k)

\* capUnion: the rows, in the order they came, that are among the first max by one
\* of the metrics.
CapUnion(rows, metrics, max) ==
    {k \in DOMAIN rows : \E m \in metrics :
        Cardinality({j \in DOMAIN rows : Before(rows, m, j, k)}) < max}

-----------------------------------------------------------------------------
(* Properties.                                                             *)

TypeOK ==
    /\ live \subseteq Pid /\ resident \subseteq live /\ clock \in Nat
    /\ ctr \in [Pid -> Nat] /\ carried \in [Pid -> Nat] /\ counted \in [Pid -> Nat]
    /\ pc \in {"sleep", "gpu", "list", "read"} /\ phase \in {"seed", "loop"}
    /\ i \in Nat /\ wake \in Nat /\ began \in Nat /\ tprev \in Nat /\ span \in Nat
    /\ todo \subseteq Pid /\ held \subseteq Pid
    /\ cur \in [Pid -> Nat \cup {None}] /\ prev \in [Pid -> Nat \cup {None}]
    /\ rates \in [Pid -> Nat \cup {None}]
    /\ gsum \in BOOLEAN /\ gage \in Nat /\ fails \in Nat /\ panics \in Nat

\* The time a process is charged for is the time it ran in: however cycles panic
\* and nvidia-smi stalls them between the time stamp and /proc, a process that uses
\* at most a jiffy a tick is shown with at most that, but for the time two cycles
\* took: the seed takes its stamp when it has read /proc, a cycle before it does.
RatesAreHonest == \A p \in Pid : rates[p] # None => rates[p] <= span + 2 * MaxCycle

\* No jiffy is shown twice or before it was used, across panics (procmon.go:422)
\* and pids that are used again.
Metered == INSTANCE Meter WITH Conn <- Pid, carried <- carried, counted <- counted
KeepsMeter == Metered!Spec

\* The GPU figures, and with them the memory that is charged to a pid, are at most
\* three cycles old, and three more for every cycle that panicked before it asked.
GpuIsRecent == gage <= Every * (panics + 1)

\* The list of processes has as many rows as a cut leaves at least.
Full == Cardinality({p \in Pid : rates[p] # None}) >= MaxRows

\* A process that goes on having memory is shown in the end, failed reads and panics
\* notwithstanding, unless the list has no room for it.
RunningIsShown ==
    \A p \in Pid : p \in resident ~> (rates[p] # None \/ p \notin resident \/ Full)
=============================================================================
