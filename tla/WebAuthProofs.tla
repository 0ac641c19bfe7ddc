---------------------------- MODULE WebAuthProofs ----------------------------
(***************************************************************************)
(* Proofs about WebAuth, for any number of browsers, any limit and any     *)
(* length of the lockout: no more failures are counted without a lockout   *)
(* than the logins on their way explain, a lockout lets every browser      *)
(* finish one guess at most, and a password that is on the disk stays      *)
(* until the file fails to be read.                                        *)
(***************************************************************************)
EXTENDS WebAuth, FiniteSetTheorems, TLAPS

\* A login that is still to be checked in a lockout has not been checked in it.
GuessedOnce ==
    \A b \in Browser : lock > 0 => \/ late[b] = 0
                                   \/ late[b] = 1 /\ ~At(b, "verify")

IInv == TypeOK /\ CountedFailuresLock /\ GuessedOnce

-----------------------------------------------------------------------------
(* Invariance.                                                             *)

\* The initial states satisfy the invariant.
LEMMA InitIInv == Init => IInv
<1> SUFFICES ASSUME Init PROVE IInv
  OBVIOUS
<1>1. TypeOK /\ GuessedOnce
  BY WebAuthAssumption DEF Init, TypeOK, GuessedOnce, Idle, Requests, Step, Saving, Checking
<1>2. Cardinality(Waiting) \in Nat
  BY WebAuthAssumption, FS_Subset, FS_CardinalityType DEF Waiting
<1>3. CountedFailuresLock
  BY <1>2, WebAuthAssumption DEF Init, CountedFailuresLock
<1>4. QED
  BY <1>1, <1>3 DEF IInv

\* A request that goes on keeps its password and its age.
LEMMA GoOnKept ==
    ASSUME TypeOK, NEW b \in Browser, NEW step \in Step, GoOn(b, step),
           step = "issue" \/ req[b].at \in Saving \cup Checking
    PROVE  /\ req' \in [Browser -> Requests]
           /\ \A c \in Browser : req'[c].at \in Saving \cup Checking => req'[c].pw \in Password
           /\ req'[b].at = step
           /\ \A c \in Browser \ {b} : req'[c] = req[c]
<1>1. req \in [Browser -> Requests]
  BY DEF TypeOK
<1>2. req' = [req EXCEPT ![b] = [req[b] EXCEPT !.at = step]]
  BY <1>1 DEF GoOn, Requests
<1>3. /\ [req[b] EXCEPT !.at = step] \in Requests
      /\ [req[b] EXCEPT !.at = step].at = step
      /\ [req[b] EXCEPT !.at = step].pw = req[b].pw
  BY <1>1 DEF Requests
<1>4. step # "issue" => req[b].pw \in Password
  BY DEF TypeOK
<1>5. req' \in [Browser -> Requests]
  BY <1>1, <1>2, <1>3
<1>6. /\ req'[b].at = step
      /\ req'[b].pw = req[b].pw
      /\ \A c \in Browser \ {b} : req'[c] = req[c]
  BY <1>1, <1>2, <1>3
<1>7. "issue" \notin Saving \cup Checking
  BY DEF Saving, Checking
<1>8. \A c \in Browser : req'[c].at \in Saving \cup Checking => req'[c].pw \in Password
  BY <1>4, <1>6, <1>7 DEF TypeOK
<1>9. QED
  BY <1>5, <1>6, <1>8

\* A request that begins or ends replaces the record of its browser.
LEMMA SetKept ==
    ASSUME TypeOK, NEW b \in Browser, NEW r \in Requests, req' = [req EXCEPT ![b] = r],
           r.at \in Saving \cup Checking => r.pw \in Password
    PROVE  /\ req' \in [Browser -> Requests]
           /\ \A c \in Browser : req'[c].at \in Saving \cup Checking => req'[c].pw \in Password
           /\ req'[b] = r
           /\ \A c \in Browser \ {b} : req'[c] = req[c]
BY DEF TypeOK

\* The records requests begin and end with.
LEMMA Records ==
    /\ Idle \in Requests /\ Idle.at = "idle" /\ "idle" \notin Saving \cup Checking
    /\ \A p \in Password, step \in Step :
         LET r == [at |-> step, pw |-> p, age |-> 0]
         IN  r \in Requests /\ r.at = step /\ r.pw = p
BY WebAuthAssumption DEF Idle, Requests, Step, Saving, Checking

\* Time keeps the requests, but for their age.
LEMMA TickKept ==
    ASSUME TypeOK, Tick
    PROVE  /\ req' \in [Browser -> Requests]
           /\ \A c \in Browser : req'[c].at = req[c].at /\ req'[c].pw = req[c].pw
<1>1. SUFFICES ASSUME NEW c \in Browser
               PROVE  /\ req'[c] \in Requests
                      /\ req'[c].at = req[c].at
                      /\ req'[c].pw = req[c].pw
  BY DEF Tick
<1>2. req[c] \in Requests /\ (req[c].at \in Checking => req[c].age < MaxAge)
  BY DEF TypeOK, Tick
<1>3. req'[c] = IF req[c].at \in Checking THEN [req[c] EXCEPT !.age = @ + 1] ELSE req[c]
  BY DEF Tick
<1>4. CASE req[c].at \in Checking
  <2>1. req[c].age + 1 \in 0..MaxAge
    BY <1>2, <1>4, WebAuthAssumption DEF Requests
  <2>2. QED
    BY <1>2, <1>3, <1>4, <2>1 DEF Requests
<1>5. QED
  BY <1>2, <1>3, <1>4

\* Every step keeps the types.
LEMMA TypeKept ==
    ASSUME TypeOK, [Next]_vars
    PROVE  TypeOK'
<1> USE WebAuthAssumption DEF throttle
<1> DEFINE Req == /\ req \in [Browser -> Requests]
                  /\ \A b \in Browser : req[b].at \in Saving \cup Checking
                                        => req[b].pw \in Password
           Rest == /\ file \in Password \cup {None} /\ disk \in Password \cup {None}
                   /\ fails \in Nat
                   /\ lock \in 0..Lockout
                   /\ life \in [Browser -> 0..Life]
                   /\ late \in [Browser -> Nat]
                   /\ misses \in Nat
<1>0. Req /\ Rest
  BY DEF TypeOK
<1> SUFFICES Req' /\ Rest'
  BY DEF TypeOK
<1>1. ASSUME NEW b \in Browser, Setup(b) \/ SetupMisread(b) \/ Login(b)
      PROVE  Req' /\ Rest'
  <2>1. Rest'
    BY <1>0, <1>1 DEF Setup, SetupMisread, Miss, Login
  <2>2. PICK p \in Password, step \in Step :
            req' = [req EXCEPT ![b] = [at |-> step, pw |-> p, age |-> 0]]
    BY <1>1 DEF Setup, SetupMisread, Login, Step, Saving, Checking
  <2>3. QED
    BY <2>1, <2>2, SetKept, Records
<1>2. ASSUME NEW b \in Browser, Logout(b)
      PROVE  Req' /\ Rest'
  BY <1>0, <1>2 DEF Logout
<1>3. ASSUME NEW b \in Browser, OpenFile(b) \/ WriteFile(b) \/ Verify(b) \/ CountGood(b) \/ CountBad(b)
      PROVE  Req' /\ Rest'
  <2>1. PICK step \in Step : GoOn(b, step) /\ (step = "issue" \/ req[b].at \in Saving \cup Checking)
    BY <1>3 DEF OpenFile, WriteFile, Verify, CountGood, CountBad, At, Step, Saving, Checking
  <2>2. req[b].at = "write" => req[b].pw \in Password
    BY <1>0 DEF Saving
  <2>3. Rest'
    BY <1>0, <1>3, <2>2 DEF OpenFile, WriteFile, Verify, Miss, CountGood, CountBad, At
  <2>4. QED
    BY <2>1, <2>3, GoOnKept
<1>4. ASSUME NEW b \in Browser, SaveFails(b) \/ Wake(b) \/ Issue(b)
      PROVE  Req' /\ Rest'
  <2>1. req' = [req EXCEPT ![b] = Idle]
    BY <1>4 DEF SaveFails, Wake, Issue, Done
  <2>2. req[b].age \in 0..MaxAge
    BY <1>0 DEF Requests
  <2>3. Remaining(req[b].age) \in 0..Lockout
    BY <2>2 DEF Remaining
  <2>4. Rest'
    BY <1>0, <1>4, <2>3 DEF SaveFails, Wake, Issue
  <2>5. QED
    BY <2>1, <2>4, SetKept, Records
<1>5. CASE Tick
  <2>1. Rest'
    BY <1>0, <1>5 DEF Tick, Less
  <2>2. QED
    BY <1>0, <1>5, <2>1, TickKept
<1>6. CASE Restart \/ PowerLoss
  BY <1>0, <1>6, Records DEF Restart, PowerLoss, Forget
<1>9. CASE Flush
  BY <1>0, <1>9 DEF Flush
<1>7. CASE UNCHANGED vars
  BY <1>0, <1>7 DEF vars
<1>8. QED
  BY <1>1, <1>2, <1>3, <1>4, <1>5, <1>6, <1>7, <1>9 DEF Next, Request, Answer

\* What a request of one browser does to where the browsers are.
LEMMA Moves ==
    ASSUME TypeOK, NEW b \in Browser, Request(b) \/ Answer(b)
    PROVE  /\ \A c \in Browser \ {b} : req'[c] = req[c]
           /\ At(b, "verify")' => At(b, "idle") /\ Login(b)
           /\ At(b, "sleep") => Wake(b)
           /\ CountBad(b) => At(b, "sleep")'
<1> USE WebAuthAssumption DEF At
<1>1. CASE Setup(b) \/ SetupMisread(b) \/ Login(b)
  <2>1. PICK p \in Password, step \in Step :
            /\ req' = [req EXCEPT ![b] = [at |-> step, pw |-> p, age |-> 0]]
            /\ step = IF Login(b) THEN "verify" ELSE "open"
    BY <1>1 DEF Setup, SetupMisread, Login, Step, Saving, Checking
  <2>2. req'[b].at = step /\ \A c \in Browser \ {b} : req'[c] = req[c]
    BY <2>1 DEF TypeOK
  <2>3. req[b].at = "idle"
    BY <1>1 DEF Setup, SetupMisread, Login
  <2>4. QED
    BY <1>1, <2>1, <2>2, <2>3 DEF CountBad
<1>2. CASE Logout(b)
  BY <1>2 DEF Logout, CountBad
<1>3. CASE OpenFile(b) \/ WriteFile(b) \/ Verify(b) \/ CountGood(b) \/ CountBad(b)
  <2>1. PICK step \in Step : /\ GoOn(b, step)
                             /\ step = "issue" \/ req[b].at \in Saving \cup Checking
                             /\ step # "verify" /\ req[b].at # "sleep"
                             /\ CountBad(b) => step = "sleep"
    BY <1>3 DEF OpenFile, WriteFile, Verify, CountGood, CountBad, Step, Saving, Checking, GoOn
  <2>2. req'[b].at = step /\ \A c \in Browser \ {b} : req'[c] = req[c]
    BY <2>1, GoOnKept
  <2>3. QED
    BY <2>1, <2>2
<1>4. CASE SaveFails(b) \/ Wake(b) \/ Issue(b)
  <2>1. req' = [req EXCEPT ![b] = Idle]
    BY <1>4 DEF SaveFails, Wake, Issue, Done
  <2>2. req'[b].at = "idle" /\ \A c \in Browser \ {b} : req'[c] = req[c]
    BY <2>1, Records DEF TypeOK
  <2>3. req[b].at = "sleep" => Wake(b)
    BY <1>4 DEF SaveFails, Issue, Saving
  <2>4. ~CountBad(b)
    BY <1>4 DEF SaveFails, Wake, Issue, CountBad, Saving
  <2>5. QED
    BY <2>2, <2>3, <2>4
<1>5. QED
  BY <1>1, <1>2, <1>3, <1>4 DEF Request, Answer

\* The failed logins that wait are finitely many, and one more when another comes.
LEMMA WaitingCounted ==
    ASSUME NEW S \in SUBSET Browser
    PROVE  /\ Cardinality(S) \in Nat
           /\ \A b \in Browser \ S : Cardinality(S \cup {b}) = Cardinality(S) + 1
<1>1. IsFiniteSet(S)
  BY WebAuthAssumption, FS_Subset
<1>2. Cardinality(S) \in Nat
  BY <1>1, FS_CardinalityType
<1>3. \A b \in Browser \ S : Cardinality(S \cup {b}) = Cardinality(S) + 1
  BY <1>1, FS_AddElement
<1>4. QED
  BY <1>2, <1>3

\* A failed login raises the counter as it begins to wait, and one that stops waiting
\* leaves the counter below the limit.
LEMMA CountKept ==
    ASSUME TypeOK, CountedFailuresLock, [Next]_vars
    PROVE  CountedFailuresLock'
<1> USE WebAuthAssumption DEF CountedFailuresLock, throttle
<1>0. /\ Waiting \in SUBSET Browser /\ Waiting' \in SUBSET Browser
      /\ fails \in Nat /\ Limit \in Nat \ {0}
      /\ Cardinality(Waiting) \in Nat /\ Cardinality(Waiting') \in Nat
  BY WaitingCounted DEF Waiting, TypeOK
<1>1. ASSUME NEW b \in Browser, Request(b) \/ Answer(b)
      PROVE  CountedFailuresLock'
  <2>1. CASE CountBad(b)
    <3>1. Waiting' = Waiting \cup {b} /\ b \notin Waiting
      BY <1>1, <2>1, Moves DEF Waiting, At, CountBad
    <3>2. fails' = fails + 1
      BY <2>1 DEF CountBad
    <3>3. QED
      BY <1>0, <3>1, <3>2, WaitingCounted
  <2>2. CASE Wake(b)
    <3>1. fails' < Limit
      BY <1>0, <2>2 DEF Wake
    <3>2. QED
      BY <1>0, <2>2, <3>1 DEF TypeOK, Wake
  <2>3. CASE ~CountBad(b) /\ ~Wake(b)
    <3>1. fails' = 0 \/ fails' = fails
      BY <1>1, <2>3 DEF Request, Answer, Setup, SetupMisread, Login, Logout, OpenFile, WriteFile, SaveFails,
                        Verify, CountGood, Issue
    <3>2. Waiting \subseteq Waiting'
      BY <1>1, <2>3, Moves DEF Waiting, At
    <3>3. Cardinality(Waiting) <= Cardinality(Waiting')
      BY <1>0, <3>2, WebAuthAssumption, FS_Subset
    <3>4. QED
      BY <1>0, <3>1, <3>3
  <2>4. QED
    BY <2>1, <2>2, <2>3
<1>2. CASE Tick
  <2>1. Waiting' = Waiting /\ fails' = fails
    BY <1>2, TickKept DEF Tick, Waiting, At
  <2>2. QED
    BY <1>0, <2>1
<1>3. CASE Restart \/ PowerLoss
  BY <1>0, <1>3 DEF Restart, PowerLoss, Forget
<1>4. CASE Flush \/ UNCHANGED vars
  <2>1. Waiting' = Waiting /\ fails' = fails
    BY <1>4 DEF Flush, vars, Waiting, At
  <2>2. QED
    BY <1>0, <2>1
<1>5. QED
  BY <1>1, <1>2, <1>3, <1>4 DEF Next

\* A lockout begins with nobody's guess counted, admits no login, and counts each
\* guess as it takes it out of "verify".
LEMMA GuessKept ==
    ASSUME TypeOK, GuessedOnce, [Next]_vars
    PROVE  GuessedOnce'
<1> USE WebAuthAssumption DEF GuessedOnce, throttle
<1>0. lock \in Nat /\ late \in [Browser -> Nat]
  BY DEF TypeOK
<1>1. ASSUME NEW b \in Browser, Request(b) \/ Answer(b)
      PROVE  GuessedOnce'
  <2>1. CASE Verify(b)
    <3>1. \A c \in Browser \ {b} : At(c, "verify")' => At(c, "verify")
      BY <1>1, Moves DEF At
    <3>2. At(b, "verify") /\ ~At(b, "verify")'
      BY <1>1, <2>1, Moves DEF Verify, At, Login
    <3>3. lock' = lock /\ late' = IF lock > 0 THEN [late EXCEPT ![b] = @ + 1] ELSE late
      BY <2>1 DEF Verify
    <3>4. lock > 0 => late'[b] = 1 /\ \A c \in Browser \ {b} : late'[c] = late[c]
      BY <1>0, <3>2, <3>3
    <3>5. QED
      BY <3>1, <3>2, <3>3, <3>4
  <2>2. CASE Wake(b) /\ lock = 0
    <3>1. late' = [c \in Browser |-> 0] \/ lock' = 0
      BY <2>2 DEF Wake
    <3>2. QED
      BY <1>0, <3>1
  <2>3. CASE ~Verify(b) /\ ~(Wake(b) /\ lock = 0)
    <3>1. late' = late /\ (lock' > 0 => lock > 0)
      BY <1>0, <1>1, <2>3 DEF Request, Answer, Setup, SetupMisread, Login, Logout, OpenFile, WriteFile,
                        SaveFails, CountGood, CountBad, Wake, Issue
    <3>2. lock > 0 => ~Login(b)
      BY <1>0 DEF Login
    <3>3. lock > 0 => \A c \in Browser : At(c, "verify")' => At(c, "verify")
      BY <1>1, <3>2, Moves DEF At
    <3>4. QED
      BY <3>1, <3>3
  <2>4. QED
    BY <2>1, <2>2, <2>3
<1>2. CASE Tick
  <2>1. lock' > 0 => lock > 0
    BY <1>0, <1>2 DEF Tick, Less
  <2>2. QED
    BY <1>2, <2>1, TickKept DEF Tick, At
<1>3. CASE Restart \/ PowerLoss
  BY <1>3 DEF Restart, PowerLoss, Forget
<1>4. CASE Flush \/ UNCHANGED vars
  BY <1>4 DEF Flush, vars, At
<1>5. QED
  BY <1>1, <1>2, <1>3, <1>4 DEF Next

\* The invariant holds of every reachable state: the counter and the logins on their
\* way (server.go:398-410), the lockout and the guesses it overtook (server.go:383-401).
THEOREM Invariance == Spec => []IInv
<1>1. IInv /\ [Next]_vars => IInv'
  BY TypeKept, CountKept, GuessKept DEF IInv
<1>2. QED
  BY InitIInv, <1>1, PTL DEF Spec

\* Every variable of WebAuth has its type (server.go:46-80, auth.go:129-160).
THEOREM Typing == Spec => []TypeOK
BY Invariance, PTL DEF IInv

\* The counter exceeds the limit by no more than the failed logins that will still
\* compare it, however the sections of parallel logins interleave (server.go:398-411).
THEOREM FailuresLock == Spec => []CountedFailuresLock
BY Invariance, PTL DEF IInv

\* Between two resets of the counter, no more failures are counted than the limit
\* and one for every browser that asks at the same time (server.go:398-411).
THEOREM GuessesBounded == Spec => [](fails < Limit + Cardinality(Browser))
<1>1. IInv => fails < Limit + Cardinality(Browser)
  <2> SUFFICES ASSUME IInv PROVE fails < Limit + Cardinality(Browser)
    OBVIOUS
  <2>1. Cardinality(Waiting) <= Cardinality(Browser)
    BY WebAuthAssumption, FS_Subset DEF Waiting
  <2>2. Cardinality(Waiting) \in Nat /\ Cardinality(Browser) \in Nat
    BY WebAuthAssumption, FS_CardinalityType, WaitingCounted DEF Waiting
  <2>3. QED
    BY <2>1, <2>2, WebAuthAssumption DEF IInv, TypeOK, CountedFailuresLock
<1>2. QED
  BY Invariance, <1>1, PTL

\* In a lockout no browser has more than one guess checked (server.go:383-401).
THEOREM OneGuess == Spec => []DecidedOnce
<1>1. IInv => DecidedOnce
  BY WebAuthAssumption DEF IInv, TypeOK, GuessedOnce, DecidedOnce
<1>2. QED
  BY Invariance, <1>1, PTL

\* A password that is on the disk is changed by no request, crash or power loss, and no
\* setup is let in to change it, before the file fails to be read (server.go:359-372,
\* auth.go:50-59 and 66-101).
THEOREM PasswordStays == Spec => PasswordSettles
<1>1. ASSUME TypeOK, Settled, [Next]_vars
      PROVE  file' = file /\ (Settled' \/ misses' > misses)
  <2> USE DEF Settled, throttle
  <2>1. ASSUME NEW b \in Browser, Request(b) \/ Answer(b)
        PROVE  file' = file /\ (Settled' \/ misses' > misses)
    <3>1. ~Setup(b) /\ ~OpenFile(b) /\ ~WriteFile(b) /\ ~SaveFails(b)
      BY <1>1 DEF Setup, OpenFile, WriteFile, SaveFails, Saving, At
    <3>2. file' = file /\ disk' = disk
      BY <2>1, <3>1 DEF Request, Answer, SetupMisread, Login, Logout, Verify, CountGood,
                        CountBad, Wake, Issue
    <3>3. CASE Login(b)
      <4>1. PICK p \in Password : req' = [req EXCEPT ![b] = [at |-> "verify", pw |-> p, age |-> 0]]
        BY <3>3 DEF Login
      <4>2. req'[b].at = "verify" /\ \A c \in Browser \ {b} : req'[c] = req[c]
        BY <1>1, <4>1 DEF TypeOK
      <4>3. QED
        BY <1>1, <3>2, <4>2 DEF Saving
    <3>4. CASE Logout(b)
      BY <1>1, <3>2, <3>4 DEF Logout
    <3>5. CASE Verify(b) \/ CountGood(b) \/ CountBad(b)
      <4>1. PICK step \in Step : GoOn(b, step) /\ step \notin Saving /\ req[b].at \in Checking
        BY <3>5 DEF Verify, CountGood, CountBad, At, Step, Saving, Checking
      <4>2. req'[b].at = step /\ \A c \in Browser \ {b} : req'[c] = req[c]
        BY <1>1, <4>1, GoOnKept
      <4>3. QED
        BY <1>1, <3>2, <4>1, <4>2
    <3>6. CASE Wake(b) \/ Issue(b)
      <4>1. req' = [req EXCEPT ![b] = Idle]
        BY <3>6 DEF Wake, Issue, Done
      <4>2. req'[b].at = "idle" /\ \A c \in Browser \ {b} : req'[c] = req[c]
        BY <1>1, <4>1, Records DEF TypeOK
      <4>3. QED
        BY <1>1, <3>2, <4>2 DEF Saving
    <3>7. CASE SetupMisread(b)
      BY <1>1, <3>2, <3>7 DEF SetupMisread, Miss, TypeOK
    <3>8. QED
      BY <2>1, <3>1, <3>3, <3>4, <3>5, <3>6, <3>7 DEF Request, Answer
  <2>2. CASE Tick
    BY <1>1, <2>2, TickKept DEF Tick
  <2>3. CASE Restart \/ PowerLoss
    BY <1>1, <2>3, Records DEF Restart, PowerLoss, Forget, Saving
  <2>4. CASE Flush \/ UNCHANGED vars
    BY <1>1, <2>4 DEF Flush, vars
  <2>5. QED
    BY <1>1, <2>1, <2>2, <2>3, <2>4 DEF Next
<1>2. TypeOK /\ [Next]_vars =>
          [Settled => file' = file /\ (Settled' \/ misses' > misses)]_vars
  BY <1>1
<1>3. QED
  BY Typing, <1>2, PTL DEF Spec, PasswordSettles
=============================================================================
