----------------------------- MODULE NetSampler -----------------------------
(***************************************************************************)
(* The network sampler (web/netmon/netmon.go): a goroutine that dumps the  *)
(* byte counters of the established connections over netlink, one address  *)
(* family after the other, subtracts those of the dump before, publishes   *)
(* the difference with the time it took, and sleeps.  A dump of a family   *)
(* may end after some of its sockets were read, with an error or without   *)
(* one, a socket may come without its counter, and a panic ends            *)
(* runSampler, which sampler starts anew.                                  *)
(*                                                                         *)
(* A connection is a 4-tuple: it may close and open again within a cycle,  *)
(* with a counter that starts at zero.  Time goes on in ticks, and in one  *)
(* tick a connection carries at most one byte.  rx and tx are alike, and   *)
(* one of them is modelled: the list of connections is sorted by their sum *)
(* before it is cut to maxRows, so any connections may be those that stay. *)
(* Owners, names and countries are left out, and with them the sums of a   *)
(* process, which are taken before the cut.                                *)
(***************************************************************************)
EXTENDS Naturals, FiniteSets

CONSTANTS
    Conn,      \* connections
    Conn6,     \* those the AF_INET6 dump reads; the others are AF_INET
    None,      \* no entry
    Blind,     \* an entry without its counter: rxOK is false
    MaxRows,   \* maxRows: the length of the list of connections
    Interval,  \* sampleInterval, in ticks
    MaxDump,   \* bound: how long the dumps of a cycle take
    MaxTime,   \* bound: ticks, after which the sampler no longer waits for any
    MaxFails,  \* bound: dumps that go wrong
    MaxPanics  \* bound: panics

ASSUME NetSamplerAssumption ==
    /\ Conn6 \subseteq Conn
    /\ MaxRows \in Nat \ {0}
    /\ Interval \in Nat /\ MaxDump \in Nat /\ MaxTime \in Nat
    /\ MaxFails \in Nat /\ MaxPanics \in Nat

VARIABLES
    live,    \* kernel: the established connections
    ctr,     \* kernel: the byte counter of a connection
    carried, \* how many bytes it has carried, however often it was opened
    clock,   \* the ticks so far
    pc,      \* "sleep", "inet", "inet6", "check" or "publish"
    phase,   \* runSampler: "seed" before its loop, then "loop"
    wake,    \* when the sleep is over
    began,   \* when the dumps of this cycle began
    cur,     \* what they have read of a connection, or None
    ok,      \* okAny: "none" of them, or "some", succeeded
    tcur,    \* when they were over
    prev,    \* what the cycle before has read
    tprev,   \* when it had
    rates,   \* published: the bytes of a listed connection since then, or None
    span,    \* published: the time they took
    counted, \* the bytes built into connections and the sums of processes so far
    fails, panics

kernel == <<live, ctr, carried, clock>>
cycle == <<phase, wake, began, cur, ok, tcur>>
baseline == <<prev, tprev>>
published == <<rates, span, counted>>
faults == <<fails, panics>>
vars == <<live, ctr, carried, clock, pc, phase, wake, began, cur, ok, tcur,
          prev, tprev, rates, span, counted, fails, panics>>

Nothing == [c \in Conn |-> None]

Init ==
    /\ live = {} /\ clock = 0
    /\ ctr = [c \in Conn |-> 0] /\ carried = [c \in Conn |-> 0]
    /\ pc = "inet" /\ phase = "seed" /\ wake = 0 /\ began = 0
    /\ cur = Nothing /\ ok = "none" /\ tcur = 0
    /\ prev = Nothing /\ tprev = 0
    /\ rates = Nothing /\ span = 0 /\ counted = [c \in Conn |-> 0]
    /\ fails = 0 /\ panics = 0

-----------------------------------------------------------------------------
(* The kernel.                                                             *)

Connect(c) ==
    /\ c \notin live
    /\ live' = live \cup {c} /\ ctr' = [ctr EXCEPT ![c] = 0]
    /\ UNCHANGED <<carried, clock, pc, cycle, baseline, published, faults>>

Close(c) ==
    /\ c \in live
    /\ live' = live \ {c}
    /\ UNCHANGED <<ctr, carried, clock, pc, cycle, baseline, published, faults>>

Dumping == pc \in {"inet", "inet6", "check"}

\* A tick, in which some of the connections carry a byte.
Tick ==
    /\ clock < MaxTime
    /\ Dumping => clock < began + MaxDump
    /\ clock' = clock + 1
    /\ \E busy \in SUBSET live :
        /\ ctr' = [c \in Conn |-> IF c \in busy THEN ctr[c] + 1 ELSE ctr[c]]
        /\ carried' = [c \in Conn |-> IF c \in busy THEN carried[c] + 1 ELSE carried[c]]
    /\ UNCHANGED <<live, pc, cycle, baseline, published, faults>>

-----------------------------------------------------------------------------
(* snapshotEstablished.                                                    *)

\* The dump of one family reads all of its sockets.  Or it goes wrong: it reads some of
\* them before it fails or, at an empty or cut datagram, ends as if it were done, and of
\* those it reads it is told the counters of some.
Dump(family, next) ==
    /\ \/ /\ cur' = [c \in Conn |-> IF c \in live \cap family THEN ctr[c] ELSE cur[c]]
          /\ ok' = "some"
          /\ UNCHANGED fails
       \/ /\ fails < MaxFails /\ fails' = fails + 1
          /\ \E seen \in SUBSET (live \cap family) : \E told \in SUBSET seen :
                cur' = [c \in Conn |-> IF c \in told THEN ctr[c]
                                       ELSE IF c \in seen THEN Blind ELSE cur[c]]
          /\ ok' \in {ok, "some"}
    /\ pc' = next
    /\ UNCHANGED <<kernel, phase, wake, began, tcur, baseline, published, panics>>

DumpInet == pc = "inet" /\ Dump(Conn \ Conn6, "inet6")
DumpInet6 == pc = "inet6" /\ Dump(Conn6, "check")

-----------------------------------------------------------------------------
(* runSampler.                                                             *)

\* What a cycle has read is of no use after it.
Sleep(ticks) ==
    /\ pc' = "sleep" /\ wake' = clock + ticks
    /\ cur' = Nothing /\ ok' = "none" /\ began' = 0 /\ tcur' = 0

\* The sleep is over; where the bound on time is reached, it just ends.
Wake ==
    /\ pc = "sleep"
    /\ clock >= wake \/ clock = MaxTime
    /\ pc' = "inet" /\ began' = clock /\ wake' = 0
    /\ UNCHANGED <<kernel, phase, cur, ok, tcur, baseline, published, faults>>

\* The first snapshot, or an empty one, is what the loop starts from.
Seed ==
    /\ pc = "check" /\ phase = "seed"
    /\ prev' = (IF ok = "some" THEN cur ELSE Nothing) /\ tprev' = clock
    /\ phase' = "loop"
    /\ Sleep(Interval)
    /\ UNCHANGED <<kernel, published, faults>>

\* Mutant: a failed cycle counts as one for the time.
RetryStamps ==
    /\ pc = "check" /\ phase = "loop" /\ ok = "none"
    /\ tprev' = clock
    /\ Sleep(2 * Interval)
    /\ UNCHANGED <<kernel, phase, prev, published, faults>>

\* Both dumps failed: the baseline stays, and one interval more is slept.
Retry ==
    /\ pc = "check" /\ phase = "loop" /\ ok = "none"
    /\ Sleep(2 * Interval)
    /\ UNCHANGED <<kernel, phase, baseline, published, faults>>

Stamp ==
    /\ pc = "check" /\ phase = "loop" /\ ok = "some"
    /\ tcur' = clock /\ pc' = "publish"
    /\ UNCHANGED <<kernel, phase, wake, began, cur, ok, baseline, published, faults>>

\* Mutant: a difference that does not saturate.
SubSigned(a, b) == a - b

\* satSub: a counter that was reset counts nothing.
Sub(a, b) == IF a < b THEN 0 ELSE a - b

\* The entry v of a snapshot has its counter.
Counts(v) == v \notin {None, Blind}

\* build: a connection has a rate when this cycle and the one before have its counter.
Rate(c) ==
    IF cur[c] = None THEN None
    ELSE IF Counts(cur[c]) /\ Counts(prev[c]) /\ tcur > tprev THEN Sub(cur[c], prev[c])
    ELSE 0

\* The connections of this cycle.
Rows == {c \in Conn : cur[c] # None}

\* capConns: the lists that are left of them.
Lists ==
    {L \in SUBSET Rows :
        Cardinality(L) <= MaxRows /\ (L = Rows \/ Cardinality(L) = MaxRows)}

\* build, and what it shows of the connections.
Show ==
    /\ pc = "publish"
    /\ \E L \in Lists : rates' = [c \in Conn |-> IF c \in L THEN Rate(c) ELSE None]
    /\ span' = tcur - tprev
    /\ counted' = [c \in Conn |-> counted[c] + (IF cur[c] = None THEN 0 ELSE Rate(c))]

\* Mutant: the baseline is not replaced.
PublishKeeps ==
    /\ Show
    /\ Sleep(Interval)
    /\ UNCHANGED <<kernel, phase, baseline, faults>>

\* The new snapshot, and with it the new baseline.
Publish ==
    /\ Show
    /\ prev' = cur /\ tprev' = tcur
    /\ Sleep(Interval)
    /\ UNCHANGED <<kernel, phase, faults>>

\* Mutant: a panic ends the loop of sampler too.
PanicEnds ==
    /\ pc # "sleep"
    /\ panics < MaxPanics /\ panics' = panics + 1
    /\ pc' = "off"
    /\ UNCHANGED <<kernel, cycle, baseline, published, fails>>

\* A panic is recovered: sampler starts runSampler anew after an interval.
Panic ==
    /\ pc # "sleep"
    /\ panics < MaxPanics /\ panics' = panics + 1
    /\ phase' = "seed" /\ prev' = Nothing /\ tprev' = 0
    /\ Sleep(Interval)
    /\ UNCHANGED <<kernel, published, fails>>

Sampler == Wake \/ DumpInet \/ DumpInet6 \/ Seed \/ Retry \/ Stamp \/ Publish

Next ==
    \/ \E c \in Conn : Connect(c) \/ Close(c)
    \/ Tick \/ Sampler \/ Panic

\* Time goes on, and the goroutine is scheduled.
Fairness == WF_vars(Tick) /\ WF_vars(Sampler)

Spec == Init /\ [][Next]_vars /\ Fairness

-----------------------------------------------------------------------------
(* Properties.                                                             *)

\* Every variable has its type.
TypeOK ==
    /\ live \subseteq Conn /\ clock \in Nat
    /\ ctr \in [Conn -> Nat] /\ carried \in [Conn -> Nat] /\ counted \in [Conn -> Nat]
    /\ pc \in {"sleep", "inet", "inet6", "check", "publish"}
    /\ phase \in {"seed", "loop"} /\ ok \in {"none", "some"}
    /\ wake \in Nat /\ began \in Nat /\ tcur \in Nat /\ tprev \in Nat /\ span \in Nat
    /\ cur \in [Conn -> Nat \cup {None, Blind}]
    /\ prev \in [Conn -> Nat \cup {None, Blind}]
    /\ rates \in [Conn -> Nat \cup {None}]
    /\ fails \in Nat /\ panics \in Nat

\* The time a rate is taken over is the time its bytes took: however cycles fail,
\* panic or take over a counter that was reset, a connection that carries at most
\* one byte a tick is shown with at most that, but for the time the dumps of the
\* baseline took.
RatesAreHonest == \A c \in Conn : rates[c] # None => rates[c] <= span + MaxDump

\* No byte is shown twice or before it was carried, across failed and partial
\* dumps, panics and 4-tuples that are used again.
Metered == INSTANCE Meter WITH carried <- carried, counted <- counted
KeepsMeter == Metered!Spec

\* The list of connections has all the rows it may have.
Full == Cardinality({c \in Conn : rates[c] # None}) = MaxRows

\* A connection that stays open is shown in the end, with the failures, early ends and
\* panics the sampler recovers from, unless the list has no room for it.
OpenIsShown ==
    \A c \in Conn : (c \in live) ~> (rates[c] # None \/ c \notin live \/ Full)
=============================================================================
