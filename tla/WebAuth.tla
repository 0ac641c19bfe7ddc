------------------------------- MODULE WebAuth ------------------------------
(***************************************************************************)
(* The password of the dashboard, its sessions and the throttle of its     *)
(* login (web/auth.go, web/server.go).  Requests run in goroutines of      *)
(* their own; what they share is the file with the password, the failure   *)
(* counter with the end of the lockout (failMu) and the session table.     *)
(* All but the file dies with the process, which is restarted.  The file   *)
(* may fail to be read, which counts as no password, and it is not synced: *)
(* after a power loss it is what the kernel has written of it by then.     *)
(*                                                                         *)
(* Points in time are kept relative to now: `lock` is how long the lockout *)
(* still lasts, `life` how long a session does, `age` how long ago a login *)
(* took its `now`.  A browser sends one request at a time and holds one    *)
(* cookie.  The key derivation, the page's token and the checks of the     *)
(* origin decide who may ask at all and are left out.                      *)
(***************************************************************************)
EXTENDS Naturals, FiniteSets

CONSTANTS
    Browser,
    Password,
    None,     \* no password: the file is absent or does not parse
    Limit,    \* failures that start a lockout
    Lockout,  \* how long it lasts, in ticks
    Life,     \* how long a session lasts
    MaxAge,   \* bound: ticks a login may take
    MaxMisses \* bound: reads of the file that fail

ASSUME WebAuthAssumption ==
    /\ IsFiniteSet(Browser) /\ None \notin Password
    /\ Limit \in Nat \ {0} /\ Lockout \in Nat /\ Life \in Nat /\ MaxAge \in Nat
    /\ MaxMisses \in Nat

VARIABLES
    file,   \* the password in auth.json
    disk,   \* the one of it that is on the disk
    req,    \* the request of a browser: its next step, its password, its age
    fails,  \* failCount
    lock,   \* how long it is until failUntil
    life,   \* how long the session of a browser's cookie is valid
    late,   \* how many passwords of a browser were checked since the lockout began
    misses  \* how often the file has failed to be read

throttle == <<fails, lock>>
vars == <<file, disk, req, fails, lock, life, late, misses>>

Saving == {"open", "write"}
Checking == {"verify", "good", "bad", "sleep"}
Step == {"idle", "issue"} \cup Saving \cup Checking

Idle == [at |-> "idle", pw |-> None, age |-> 0]

At(b, step) == req[b].at = step

GoOn(b, step) == req' = [req EXCEPT ![b].at = step]

\* The answer is sent.
Done(b) == req' = [req EXCEPT ![b] = Idle]

Init ==
    /\ file = None /\ disk = None
    /\ req = [b \in Browser |-> Idle]
    /\ fails = 0 /\ lock = 0
    /\ life = [b \in Browser |-> 0]
    /\ late = [b \in Browser |-> 0]
    /\ misses = 0

-----------------------------------------------------------------------------
(* First-run setup.                                                        *)

\* A setup that does not look for a password.
SetupAgain(b) ==
    /\ At(b, "idle")
    /\ \E p \in Password : req' = [req EXCEPT ![b] = [at |-> "open", pw |-> p, age |-> 0]]
    /\ UNCHANGED <<file, disk, throttle, life, late, misses>>

\* Refused once there is a password.
Setup(b) ==
    /\ At(b, "idle")
    /\ file = None
    /\ \E p \in Password : req' = [req EXCEPT ![b] = [at |-> "open", pw |-> p, age |-> 0]]
    /\ UNCHANGED <<file, disk, throttle, life, late, misses>>

\* loadAuth fails to read the file.
Miss == misses < MaxMisses /\ misses' = misses + 1

\* A setup that fails to read the file takes that for the first run.
SetupMisread(b) ==
    /\ At(b, "idle")
    /\ Miss
    /\ \E p \in Password : req' = [req EXCEPT ![b] = [at |-> "open", pw |-> p, age |-> 0]]
    /\ UNCHANGED <<file, disk, throttle, life, late>>

OpenFile(b) ==
    /\ At(b, "open")
    /\ file' = None
    /\ GoOn(b, "write")
    /\ UNCHANGED <<disk, throttle, life, late, misses>>

WriteFile(b) ==
    /\ At(b, "write")
    /\ file' = req[b].pw
    /\ GoOn(b, "issue")
    /\ UNCHANGED <<disk, throttle, life, late, misses>>

SaveFails(b) ==
    /\ req[b].at \in Saving
    /\ Done(b)
    /\ UNCHANGED <<file, disk, throttle, life, late, misses>>

-----------------------------------------------------------------------------
(* Login and logout.                                                       *)

\* A login without the check of failUntil.
LoginUnchecked(b) ==
    /\ At(b, "idle")
    /\ \E p \in Password : req' = [req EXCEPT ![b] = [at |-> "verify", pw |-> p, age |-> 0]]
    /\ UNCHANGED <<file, disk, throttle, life, late, misses>>

\* A refused login extends the lockout.
LoginExtends(b) ==
    /\ At(b, "idle")
    /\ IF lock = 0
       THEN /\ \E p \in Password :
                  req' = [req EXCEPT ![b] = [at |-> "verify", pw |-> p, age |-> 0]]
            /\ UNCHANGED lock
       ELSE lock' = Lockout /\ UNCHANGED req
    /\ UNCHANGED <<file, disk, fails, life, late, misses>>

\* Refused, and nothing else, while the lockout lasts.
Login(b) ==
    /\ At(b, "idle")
    /\ lock = 0
    /\ \E p \in Password : req' = [req EXCEPT ![b] = [at |-> "verify", pw |-> p, age |-> 0]]
    /\ UNCHANGED <<file, disk, throttle, life, late, misses>>

\* A file that fails to be read has no password that could match.
Verify(b) ==
    /\ At(b, "verify")
    /\ \/ GoOn(b, IF file = req[b].pw THEN "good" ELSE "bad") /\ UNCHANGED misses
       \/ GoOn(b, "bad") /\ Miss
    /\ late' = IF lock > 0 THEN [late EXCEPT ![b] = @ + 1] ELSE late
    /\ UNCHANGED <<file, disk, throttle, life>>

CountGood(b) ==
    /\ At(b, "good")
    /\ fails' = 0
    /\ GoOn(b, "issue")
    /\ UNCHANGED <<file, disk, lock, life, late, misses>>

CountBad(b) ==
    /\ At(b, "bad")
    /\ fails' = fails + 1
    /\ GoOn(b, "sleep")
    /\ UNCHANGED <<file, disk, lock, life, late, misses>>

\* The lockout is counted from the time the login took when it began.
Remaining(age) == IF age < Lockout THEN Lockout - age ELSE 0

\* As Wake, with a lockout only at the very number of failures.
WakeAtLimit(b) ==
    /\ At(b, "sleep")
    /\ IF fails = Limit
       THEN /\ fails' = 0
            /\ lock' = Remaining(req[b].age)
            /\ late' = IF lock = 0 THEN [c \in Browser |-> 0] ELSE late
       ELSE UNCHANGED <<throttle, late>>
    /\ Done(b)
    /\ UNCHANGED <<file, disk, life, misses>>

Wake(b) ==
    /\ At(b, "sleep")
    /\ IF fails >= Limit
       THEN /\ fails' = 0
            /\ lock' = Remaining(req[b].age)
            /\ late' = IF lock = 0 THEN [c \in Browser |-> 0] ELSE late
       ELSE UNCHANGED <<throttle, late>>
    /\ Done(b)
    /\ UNCHANGED <<file, disk, life, misses>>

Issue(b) ==
    /\ At(b, "issue")
    /\ life' = [life EXCEPT ![b] = Life]
    /\ Done(b)
    /\ UNCHANGED <<file, disk, throttle, late, misses>>

Logout(b) ==
    /\ At(b, "idle")
    /\ life[b] > 0
    /\ life' = [life EXCEPT ![b] = 0]
    /\ UNCHANGED <<file, disk, req, throttle, late, misses>>

-----------------------------------------------------------------------------

Less(n) == IF n = 0 THEN 0 ELSE n - 1

Tick ==
    /\ \A b \in Browser : req[b].at \in Checking => req[b].age < MaxAge
    /\ req' = [b \in Browser |->
                  IF req[b].at \in Checking THEN [req[b] EXCEPT !.age = @ + 1] ELSE req[b]]
    /\ lock' = Less(lock)
    /\ life' = [b \in Browser |-> Less(life[b])]
    /\ UNCHANGED <<file, disk, fails, late, misses>>

\* The kernel writes the file to the disk.
Flush ==
    /\ disk # file
    /\ disk' = file
    /\ UNCHANGED <<file, req, throttle, life, late, misses>>

\* What a process leaves to the next.
Forget ==
    /\ req' = [b \in Browser |-> Idle]
    /\ fails' = 0 /\ lock' = 0
    /\ life' = [b \in Browser |-> 0]
    /\ late' = [b \in Browser |-> 0]

\* A crash, at any point, and a new process.
Restart == Forget /\ UNCHANGED <<file, disk, misses>>

\* What the kernel had still to write is lost, or an empty file is left of it.
PowerLoss ==
    /\ Forget
    /\ file' \in {disk} \cup (IF disk = file THEN {} ELSE {None})
    /\ disk' = file'
    /\ UNCHANGED misses

Answer(b) ==
    \/ OpenFile(b) \/ WriteFile(b) \/ SaveFails(b)
    \/ Verify(b) \/ CountGood(b) \/ CountBad(b) \/ Wake(b)
    \/ Issue(b)

Request(b) == Setup(b) \/ SetupMisread(b) \/ Login(b) \/ Logout(b)

Next == (\E b \in Browser : Request(b) \/ Answer(b)) \/ Tick \/ Flush \/ Restart \/ PowerLoss

\* Time goes on, and a goroutine that answers a request does.
Fairness == WF_vars(Tick) /\ \A b \in Browser : WF_vars(Answer(b))

Spec == Init /\ [][Next]_vars /\ Fairness

-----------------------------------------------------------------------------
(* Correctness.                                                            *)

Requests == [at : Step, pw : Password \cup {None}, age : 0..MaxAge]

TypeOK ==
    /\ file \in Password \cup {None} /\ disk \in Password \cup {None}
    /\ req \in [Browser -> Requests]
    /\ \A b \in Browser : req[b].at \in Saving \cup Checking => req[b].pw \in Password
    /\ fails \in Nat
    /\ lock \in 0..Lockout
    /\ life \in [Browser -> 0..Life]
    /\ late \in [Browser -> Nat]
    /\ misses \in Nat

\* The counter is raised and compared in two sections with half a second between
\* them (server.go:404 and 410), while others raise and clear it: it exceeds what is
\* below the limit by no more than the failed logins that are still to compare, so
\* that parallel guesses gain one guess each before a lockout, and none goes uncounted.
Waiting == {b \in Browser : At(b, "sleep")}
CountedFailuresLock == fails < Limit + Cardinality(Waiting)

\* The check of the lockout and the password check are two steps: logins that were
\* admitted before the lockout began end in it, but no browser gets a second guess.
DecidedOnce == \A b \in Browser : lock > 0 => late[b] <= 1

\* No login is refused for ever: the lockout ends, although logins that were on
\* their way may set it again.
LockoutEnds == lock > 0 ~> lock = 0

\* Setups race, truncate and overwrite each other's file, and may die half-way; but
\* once a password is on the disk and no setup under way, neither a request nor a crash
\* nor a power loss changes it, and a setup is let in again only when the file fails to
\* be read (auth.go:50-59, server.go:359).
Settled == file # None /\ disk = file /\ \A b \in Browser : req[b].at \notin Saving
PasswordSettles == [][Settled => file' = file /\ (Settled' \/ misses' > misses)]_vars
=============================================================================
