-------------------------- MODULE ShellHooksProofs --------------------------
(***************************************************************************)
(* Proofs about ShellHooks, for any number of shells, commands and         *)
(* toggles: the log of a session is in the order of its commands, nothing  *)
(* is lost but for one of the causes that NothingLost names, and another   *)
(* session's command is logged at most once, at the start.  What bash      *)
(* would log next is younger than all that the session has logged          *)
(* (Position), whatever HISTCONTROL has removed from the history list.     *)
(***************************************************************************)
EXTENDS ShellHooks, FiniteSetTheorems, TLAPS

Steps == {"closed", "hook", "log", "prompt", "run", "exited"}
Entry == [by : Session, cmd : Nat]

Types ==
    /\ flag \in {"absent", "present"}
    /\ step \in [Session -> Steps]
    /\ hist \in [Session -> Seq(Nat)]
    /\ histfile \in Seq(Nat)
    /\ trimmed \subseteq Session
    /\ last \in [Session -> Nat]
    /\ cmds \in Seq(Command)
    /\ log \in Seq(Entry)
    /\ excused \subseteq Cmd

\* Whatever is remembered or logged of commands was entered.
Entered ==
    /\ \A s \in Session : \A i \in DOMAIN hist[s] : hist[s][i] \in Cmd
    /\ \A i \in DOMAIN histfile : histfile[i] \in Cmd
    /\ \A i \in DOMAIN log : log[i].cmd \in Cmd

\* A session that has not begun has done nothing.
Fresh(s) ==
    step[s] = "closed" =>
        /\ hist[s] = <<>> /\ last[s] = 0
        /\ \A i \in DOMAIN log : log[i].by # s
        /\ \A c \in Cmd : cmds[c].by # s

\* bash's history list only grows when nothing removes its entries.
History(s) == s \notin EraseDups \cup trimmed => last[s] <= Len(hist[s])

\* bash logs its newest history entry, or will unless it is disabled.
Pending(s) == hist[s] # <<>> /\ (step[s] = "log" \/ Len(hist[s]) # last[s])

\* What bash logs next is younger than all that the session has logged; it is another
\* session's only before it has logged anything.
Position(s) ==
    /\ step[s] = "log" => hist[s] # <<>>
    /\ s \notin trimmed =>
        /\ step[s] = "log" => Len(hist[s]) = last[s]
        /\ Pending(s) => \A i \in DOMAIN log : log[i].by = s =>
                log[i].cmd < Newest(s) /\ cmds[Newest(s)].by = s

\* zsh and fish have not logged the command that they are about to run, and log no other
\* session's.
Ahead(s) ==
    /\ step[s] \in {"hook", "log"} =>
        \A i \in DOMAIN log, c \in Current(s) : log[i].by = s => log[i].cmd < c
    /\ \A i \in DOMAIN log : log[i].by = s => cmds[log[i].cmd].by = s

IInv ==
    /\ Types /\ Entered /\ LoggedInOrder /\ ForeignIsFirst
    /\ \A s \in Session : Fresh(s)
    /\ \A s \in Bash : History(s) /\ Position(s)
    /\ \A s \in Session \ Bash : Ahead(s)

\* A command on its way to the log: bash has it as its newest history entry, which is
\* not logged yet, and the others are in their hook.
Waiting(s, c) ==
    /\ c \in Current(s)
    /\ IF s \in Bash
       THEN /\ hist[s] # <<>> /\ Newest(s) = c
            /\ step[s] = "log" \/ (step[s] \in {"run", "hook"} /\ Len(hist[s]) # last[s])
       ELSE step[s] \in {"hook", "log"}

Settled(c) == c \in excused \/ \E i \in DOMAIN log : log[i] = Exec(cmds[c].by, c)

\* Every command is excused, logged, dropped by bash or, while the layer is enabled, on
\* its way; but for those of a session whose history list was trimmed.
Accounted ==
    \A c \in Cmd : \/ cmds[c].by \in trimmed
                   \/ Settled(c) \/ Dropped(cmds[c].by, c)
                   \/ flag = "absent" /\ Waiting(cmds[c].by, c)

-----------------------------------------------------------------------------
(* What a step of a session leaves alone.                                  *)

\* The initial states satisfy the invariant, and there is nothing to account for.
LEMMA InitIInv == Init => IInv /\ Accounted
<1> SUFFICES ASSUME Init PROVE IInv /\ Accounted
  OBVIOUS
<1>1. /\ cmds = <<>> /\ log = <<>> /\ histfile = <<>>
      /\ Cmd = {} /\ DOMAIN log = {} /\ DOMAIN histfile = {}
      /\ \A s \in Session : hist[s] = <<>> /\ DOMAIN hist[s] = {} /\ Len(hist[s]) = 0
      /\ \A s \in Session : step[s] = "closed" /\ last[s] = 0
  BY DEF Init, Cmd
<1>2. Types
  <2>1. /\ <<>> \in Seq(Nat) /\ <<>> \in Seq(Command) /\ <<>> \in Seq(Entry)
        /\ "closed" \in Steps
    BY DEF Steps
  <2>2. QED
    BY <2>1 DEF Init, Types
<1>3. Entered /\ LoggedInOrder /\ ForeignIsFirst /\ Accounted
  BY <1>1 DEF Entered, LoggedInOrder, ForeignIsFirst, Positions, Accounted
<1>4. ASSUME NEW s \in Session
      PROVE  Fresh(s) /\ History(s) /\ Position(s) /\ Ahead(s)
  BY <1>1 DEF Fresh, History, Pending, Position, Ahead
<1>5. QED
  BY <1>2, <1>3, <1>4, ShellAssumption DEF IInv

\* The log as it is, or with one record more.
LEMMA LogMore ==
    ASSUME Types, NEW e \in Entry, log' = Append(log, e)
    PROVE  /\ log' \in Seq(Entry)
           /\ Len(log) + 1 \in DOMAIN log' /\ log'[Len(log) + 1] = e
           /\ \A i \in DOMAIN log : i \in DOMAIN log' /\ log'[i] = log[i]
           /\ \A i \in DOMAIN log' :
                \/ i \in DOMAIN log /\ log'[i] = log[i] /\ i < Len(log) + 1
                \/ i = Len(log) + 1 /\ log'[i] = e
<1>1. log \in Seq(Entry) /\ Len(log) \in Nat /\ DOMAIN log = 1..Len(log)
  BY DEF Types
<1>2. QED
  BY <1>1

\* A command more has the next number, and is the current one of its session.
LEMMA CommandMore ==
    ASSUME Types, NEW s \in Session, NEW t \in Text,
           cmds' = Append(cmds, [by |-> s, text |-> t])
    PROVE  /\ cmds' \in Seq(Command)
           /\ Len(cmds) \in Nat /\ Len(cmds') = Len(cmds) + 1
           /\ Cmd = 1..Len(cmds) /\ Cmd' = 1..Len(cmds) + 1
           /\ \A c \in Cmd : cmds'[c] = cmds[c]
           /\ cmds'[Len(cmds) + 1].by = s
           /\ Current(s)' = {Len(cmds) + 1}
           /\ \A r \in Session \ {s} : Current(r)' = Current(r)
<1>1. /\ cmds \in Seq(Command) /\ Len(cmds) \in Nat /\ Cmd = 1..Len(cmds)
      /\ [by |-> s, text |-> t] \in Command
  BY DEF Types, Cmd, Command
<1>2. /\ cmds' \in Seq(Command) /\ Len(cmds') = Len(cmds) + 1
      /\ \A c \in Cmd : cmds'[c] = cmds[c]
      /\ cmds'[Len(cmds) + 1] = [by |-> s, text |-> t]
  BY <1>1
<1>3. Cmd' = 1..Len(cmds) + 1
  BY <1>1, <1>2 DEF Cmd
<1>4. Current(s)' = {Len(cmds) + 1}
  <2>1. Len(cmds) + 1 \in Current(s)'
    BY <1>1, <1>2, <1>3 DEF Current
  <2>2. \A c \in Current(s)' : c = Len(cmds) + 1
    BY <1>1, <1>2, <1>3 DEF Current
  <2>3. QED
    BY <2>1, <2>2
<1>5. ASSUME NEW r \in Session \ {s}
      PROVE  Current(r)' = Current(r)
  <2>1. \A c \in Cmd' : cmds'[c].by = r <=> (c \in Cmd /\ cmds[c].by = r)
    BY <1>1, <1>2, <1>3
  <2>2. \A c \in Cmd : c \in Cmd'
    BY <1>1, <1>3
  <2>3. QED
    BY <2>1, <2>2 DEF Current
<1>6. QED
  BY <1>1, <1>2, <1>3, <1>4, <1>5

\* What is left of a list is a list of elements that are left.
LEMMA LeftElements ==
    ASSUME NEW h \in Seq(Nat), NEW S \in SUBSET DOMAIN h, NEW g \in Left(h, S)
    PROVE  /\ g \in Seq(Nat)
           /\ Len(g) = Cardinality(S)
           /\ \A i \in DOMAIN g : \E j \in S : g[i] = h[j]
<1> DEFINE n == Cardinality(S)
<1>1. Len(h) \in Nat /\ DOMAIN h = 1..Len(h)
  OBVIOUS
<1>2. n \in Nat
  <2>1. IsFiniteSet(DOMAIN h)
    BY <1>1, FS_Interval
  <2>2. IsFiniteSet(S)
    BY <2>1, FS_Subset
  <2>3. QED
    BY <2>2, FS_CardinalityType
<1>3. PICK f \in [1..n -> S] : g = [i \in DOMAIN f |-> h[f[i]]]
  BY DEF Left
<1> HIDE DEF n
<1>4. DOMAIN f = 1..n /\ \A i \in 1..n : f[i] \in S /\ f[i] \in DOMAIN h
  BY <1>3
<1>5. \A i \in 1..n : h[f[i]] \in Nat
  BY <1>4
<1>6. g \in [1..n -> Nat]
  BY <1>3, <1>4, <1>5
<1>7. g \in Seq(Nat) /\ Len(g) = n /\ DOMAIN g = 1..n
  BY <1>2, <1>6
<1>8. QED
  BY <1>3, <1>4, <1>7 DEF n

\* Nothing is removed from a list that keeps all its entries.
LEMMA LeftAll ==
    ASSUME NEW h \in Seq(Nat), NEW g \in Left(h, DOMAIN h)
    PROVE  Len(g) = Len(h)
<1>1. Len(h) \in Nat /\ DOMAIN h = 1..Len(h)
  OBVIOUS
<1>2. Cardinality(1..Len(h)) = Len(h)
  BY <1>1, FS_Interval
<1>3. QED
  BY <1>1, <1>2, LeftElements

\* A list that grows by one element.
LEMMA OneMore ==
    ASSUME NEW h \in Seq(Nat), NEW n \in Nat
    PROVE  /\ Append(h, n) # <<>> /\ Len(h) \in Nat
           /\ Len(Append(h, n)) = Len(h) + 1 /\ DOMAIN h = 1..Len(h)
           /\ DOMAIN Append(h, n) = 1..Len(h) + 1
           /\ \A i \in 1..Len(h) : Append(h, n)[i] = h[i]
           /\ Append(h, n)[Len(h) + 1] = n
OBVIOUS

\* The newest entry of a history list is a command.
LEMMA NewestEntered ==
    ASSUME Types, Entered, NEW s \in Session, hist[s] # <<>>
    PROVE  Newest(s) \in Cmd /\ Newest(s) \in Nat
<1>1. hist[s] \in Seq(Nat)
  BY DEF Types
<1>2. Len(hist[s]) \in DOMAIN hist[s]
  BY <1>1
<1>3. QED
  BY <1>1, <1>2 DEF Entered, Newest

\* The records of the log are records with a number.
LEMMA LogTypes ==
    ASSUME Types
    PROVE  \A i \in DOMAIN log : log[i] \in Entry /\ log[i].cmd \in Nat
<1>1. \A i \in DOMAIN log : log[i] \in Entry
  BY DEF Types
<1>2. QED
  BY <1>1 DEF Entry

\* What another session does: a record or a command of its own at most.
Elsewhere(s, r) ==
    /\ hist'[r] = hist[r] /\ last'[r] = last[r] /\ (r \in trimmed' <=> r \in trimmed)
    /\ step'[r] = step[r]
    /\ \/ log' = log
       \/ \E e \in Entry : log' = Append(log, e) /\ e.by = s
    /\ \/ cmds' = cmds
       \/ \E t \in Text : cmds' = Append(cmds, [by |-> s, text |-> t])

\* The number and the text of a record that a session logs.
LEMMA RecordType ==
    ASSUME Types, NEW s \in Session, NEW c \in (IF s \in Bash THEN {Newest(s)} ELSE Current(s)),
           s \in Bash => hist[s] # <<>>
    PROVE  Exec(s, c) \in Entry /\ c \in Nat
<1>1. hist[s] \in Seq(Nat) /\ Cmd \subseteq Nat
  BY DEF Types, Cmd
<1>2. CASE s \in Bash
  <2>1. c = hist[s][Len(hist[s])] /\ hist[s] # <<>>
    BY <1>2 DEF Newest
  <2>2. QED
    BY <1>1, <2>1 DEF Exec, Entry
<1>3. CASE s \notin Bash
  BY <1>1, <1>3 DEF Current, Exec, Entry
<1>4. QED
  BY <1>2, <1>3

LogReady(s) == s \in Bash /\ step[s] = "log" => hist[s] # <<>>

\* A step of one session is elsewhere for the others.
LEMMA OthersStay ==
    ASSUME Types, NEW s \in Session, Shell(s), NEW r \in Session \ {s}, LogReady(s)
    PROVE  Elsewhere(s, r)
<1>1. CASE Open(s) \/ EmptyEnter(s) \/ Return(s) \/ Exit(s) \/ Check(s)
  BY <1>1 DEF Open, EmptyEnter, Return, Exit, Check, Goto, Elsewhere, Types
<1>2. CASE Trim(s)
  BY <1>2 DEF Trim, Elsewhere, Types
<1>3. ASSUME NEW t \in Text, Enter(s, t)
      PROVE  Elsewhere(s, r)
  <2>1. hist'[r] = hist[r]
    BY <1>3 DEF Enter, Remember, Types
  <2>2. QED
    BY <1>3, <2>1 DEF Enter, Goto, Elsewhere, Types
<1>4. CASE Log(s)
  <2>1. log' = log \/ \E e \in Entry : log' = Append(log, e) /\ e.by = s
    <3>1. ASSUME NEW c \in (IF s \in Bash THEN {Newest(s)} ELSE Current(s)),
                 log' = Append(log, Exec(s, c))
          PROVE  \E e \in Entry : log' = Append(log, e) /\ e.by = s
      <4>1. Exec(s, c) \in Entry /\ Exec(s, c).by = s
        BY <1>4, RecordType DEF LogReady, Log, Exec
      <4>2. QED
        BY <3>1, <4>1
    <3>2. QED
      BY <1>4, <3>1 DEF Log
  <2>2. QED
    BY <1>4, <2>1 DEF Log, Goto, Elsewhere, Types
<1>5. QED
  BY <1>1, <1>2, <1>3, <1>4 DEF Shell

\* What is known of a session stays known while another one takes a step.
LEMMA ElsewhereKept ==
    ASSUME Types, Entered, NEW s \in Session, NEW r \in Session \ {s}, Elsewhere(s, r)
    PROVE  /\ Fresh(r) => Fresh(r)'
           /\ History(r) => History(r)'
           /\ Position(r) => Position(r)'
           /\ Ahead(r) => Ahead(r)'
           /\ \A c \in Cmd : Waiting(r, c) => Waiting(r, c)'
<1>1. \A i \in DOMAIN log' : log'[i].by = r => i \in DOMAIN log /\ log'[i] = log[i]
  BY LogMore DEF Elsewhere
<1>2. Current(r)' = Current(r)
  BY CommandMore DEF Elsewhere, Current, Cmd
<1>3. /\ \A c \in Cmd' : cmds'[c].by = r => c \in Cmd /\ cmds[c].by = r
      /\ \A c \in Cmd : cmds'[c] = cmds[c]
  <2>1. CASE cmds' = cmds
    BY <2>1 DEF Cmd
  <2>2. ASSUME NEW t \in Text, cmds' = Append(cmds, [by |-> s, text |-> t])
        PROVE  /\ \A c \in Cmd' : cmds'[c].by = r => c \in Cmd /\ cmds[c].by = r
               /\ \A c \in Cmd : cmds'[c] = cmds[c]
    BY <2>2, CommandMore
  <2>3. QED
    BY <2>1, <2>2 DEF Elsewhere
<1>4. Fresh(r) => Fresh(r)'
  BY <1>1, <1>3 DEF Fresh, Elsewhere
<1>5. History(r) => History(r)'
  BY DEF History, Elsewhere
<1>6. Position(r) => Position(r)'
  <2>1. Pending(r)' <=> Pending(r)
    BY DEF Pending, Elsewhere
  <2>2. Newest(r)' = Newest(r)
    BY DEF Newest, Elsewhere
  <2>3. Pending(r) => cmds'[Newest(r)] = cmds[Newest(r)]
    <3>1. Pending(r) => Newest(r) \in Cmd
      BY NewestEntered DEF Pending
    <3>2. QED
      BY <1>3, <3>1
  <2>4. QED
    BY <1>1, <2>1, <2>2, <2>3 DEF Position, Elsewhere
<1>7. Ahead(r) => Ahead(r)'
  <2>1. \A i \in DOMAIN log' : log'[i].by = r =>
            i \in DOMAIN log /\ log'[i] = log[i] /\ cmds'[log'[i].cmd] = cmds[log[i].cmd]
    BY <1>1, <1>3 DEF Entered
  <2>2. QED
    BY <1>2, <2>1 DEF Ahead, Elsewhere
<1>8. \A c \in Cmd : Waiting(r, c) => Waiting(r, c)'
  BY <1>2 DEF Waiting, Newest, Elsewhere
<1>9. QED
  BY <1>4, <1>5, <1>6, <1>7, <1>8

-----------------------------------------------------------------------------
(* Invariance.                                                             *)

\* A bash session that logs has an entry to log.
LEMMA ReadyToLog ==
    ASSUME IInv, NEW s \in Session
    PROVE  LogReady(s)
BY DEF IInv, Types, Position, LogReady

\* Every step keeps the types.
LEMMA TypeStep ==
    ASSUME IInv, [Next]_vars
    PROVE  Types'
<1>0. Types
  BY DEF IInv
<1> USE <1>0 DEF Types, Steps
<1>1. CASE Disable
  BY <1>1 DEF Disable, Under, Current, Cmd
<1>2. CASE Enable
  BY <1>2 DEF Enable, Cmd
<1>3. ASSUME NEW s \in Session, Open(s)
      PROVE  Types'
  <2>1. step' \in [Session -> Steps]
    BY <1>3 DEF Open, Goto
  <2>2. hist' \in [Session -> Seq(Nat)]
    BY <1>3 DEF Open
  <2>3. QED
    BY <1>3, <2>1, <2>2 DEF Open, Cmd
<1>4. ASSUME NEW s \in Session, EmptyEnter(s) \/ Return(s) \/ Check(s)
      PROVE  Types'
  <2>1. step' \in [Session -> Steps]
    BY <1>4 DEF EmptyEnter, Return, Check, AfterHook, Goto
  <2>2. last' \in [Session -> Nat]
    <3>1. Len(hist[s]) \in Nat
      OBVIOUS
    <3>2. QED
      BY <1>4, <3>1 DEF EmptyEnter, Return, Check
  <2>3. QED
    BY <1>4, <2>1, <2>2 DEF EmptyEnter, Return, Check, Cmd
<1>5. ASSUME NEW s \in Session, Exit(s)
      PROVE  Types'
  <2>1. PICK own \in Left(hist[s], {i \in DOMAIN hist[s] : cmds[hist[s][i]].by = s}) :
            histfile' = histfile \o own
    BY <1>5 DEF Exit
  <2>2. own \in Seq(Nat)
    BY LeftElements
  <2>3. histfile' \in Seq(Nat)
    BY <2>1, <2>2
  <2>4. step' \in [Session -> Steps]
    BY <1>5 DEF Exit, Goto
  <2>5. QED
    BY <1>5, <2>3, <2>4, Zenon DEF Exit, Cmd
<1>6. ASSUME NEW s \in Session, NEW t \in Text, Enter(s, t)
      PROVE  Types'
  <2>1. cmds' = Append(cmds, [by |-> s, text |-> t])
    BY <1>6 DEF Enter
  <2>2. cmds' \in Seq(Command) /\ Len(cmds) + 1 \in Nat /\ Cmd \subseteq Cmd' /\ Len(cmds) + 1 \in Cmd'
    BY <2>1, CommandMore
  <2>3. excused' \subseteq Cmd'
    BY <1>6, <2>2 DEF Enter
  <2>4. hist' \in [Session -> Seq(Nat)]
    <3>1. CASE hist' = hist
      BY <3>1
    <3>2. CASE Remember(s, t) /\ Kept(s, t)
      <4>1. PICK h \in Left(hist[s], DOMAIN hist[s] \ Older(s, t)) :
                hist' = [hist EXCEPT ![s] = Append(h, Len(cmds) + 1)]
        BY <3>2 DEF Remember
      <4>2. h \in Seq(Nat)
        BY LeftElements
      <4>3. Append(h, Len(cmds) + 1) \in Seq(Nat)
        BY <2>2, <4>2
      <4>4. QED
        BY <4>1, <4>3
    <3>3. QED
      BY <1>6, <3>1, <3>2 DEF Enter, Remember
  <2>5. QED
    BY <1>6, <2>2, <2>3, <2>4 DEF Enter, Goto
<1>7. ASSUME NEW s \in Session, Log(s)
      PROVE  Types'
  <2>1. ASSUME NEW c \in (IF s \in Bash THEN {Newest(s)} ELSE Current(s)),
               log' = Append(log, Exec(s, c))
        PROVE  log' \in Seq(Entry)
    <3>1. Exec(s, c) \in Entry
      BY <1>7, ReadyToLog, RecordType DEF LogReady, Log
    <3>2. QED
      BY <2>1, <3>1, LogMore
  <2>2. excused' \subseteq Cmd
    BY <1>7 DEF Log, Current
  <2>3. log' \in Seq(Entry) /\ step' \in [Session -> Steps]
    BY <1>7, <2>1 DEF Log, Goto, AfterHook
  <2>4. QED
    BY <1>7, <2>2, <2>3, Zenon DEF Log, Cmd
<1>8. ASSUME NEW s \in Session, Trim(s)
      PROVE  Types'
  <2>1. PICK S \in SUBSET DOMAIN hist[s] : \E h \in Left(hist[s], S) :
            hist' = [hist EXCEPT ![s] = h]
    BY <1>8 DEF Trim
  <2>2. PICK h \in Left(hist[s], S) : hist' = [hist EXCEPT ![s] = h]
    BY <2>1
  <2>3. h \in Seq(Nat)
    BY LeftElements
  <2>4. hist' \in [Session -> Seq(Nat)] /\ trimmed' \subseteq Session
    BY <1>8, <2>2, <2>3 DEF Trim
  <2>5. QED
    BY <1>8, <2>4, Zenon DEF Trim, Cmd
<1>9. CASE UNCHANGED vars
  BY <1>9 DEF vars, Cmd
<1>10. QED
  BY <1>1, <1>2, <1>3, <1>4, <1>5, <1>6, <1>7, <1>8, <1>9 DEF Next, Shell

\* Every step keeps what is remembered and logged among the commands entered.
LEMMA EnteredStep ==
    ASSUME IInv, [Next]_vars
    PROVE  Entered'
<1> USE DEF IInv, Entered
<1>1. CASE UNCHANGED <<hist, histfile, log, cmds>>
  BY <1>1 DEF Cmd
<1>2. ASSUME NEW s \in Session, Open(s)
      PROVE  Entered'
  BY <1>2 DEF Open, Types, Cmd
<1>3. ASSUME NEW s \in Session, Exit(s)
      PROVE  Entered'
  <2>1. PICK own \in Left(hist[s], {i \in DOMAIN hist[s] : cmds[hist[s][i]].by = s}) :
            histfile' = histfile \o own
    BY <1>3 DEF Exit
  <2>2. hist[s] \in Seq(Nat) /\ histfile \in Seq(Nat) /\ Len(histfile) \in Nat
    BY DEF Types
  <2>3. own \in Seq(Nat) /\ \A i \in DOMAIN own : own[i] \in Cmd
    BY <2>2, LeftElements
  <2>4. \A i \in DOMAIN (histfile \o own) :
            \/ i \in DOMAIN histfile /\ (histfile \o own)[i] = histfile[i]
            \/ i - Len(histfile) \in DOMAIN own
                 /\ (histfile \o own)[i] = own[i - Len(histfile)]
    BY <2>2, <2>3
  <2>5. UNCHANGED <<hist, log, cmds>>
    BY <1>3 DEF Exit
  <2>6. QED
    BY <2>1, <2>3, <2>4, <2>5 DEF Cmd
<1>4. ASSUME NEW s \in Session, NEW t \in Text, Enter(s, t)
      PROVE  Entered'
  <2>1. Cmd \subseteq Cmd' /\ Len(cmds) + 1 \in Cmd' /\ Len(cmds) + 1 \in Nat
    BY <1>4, CommandMore DEF Enter
  <2>2. ASSUME NEW r \in Session, NEW i \in DOMAIN hist'[r]
        PROVE  hist'[r][i] \in Cmd'
    <3>1. CASE hist'[r] = hist[r]
      BY <2>1, <2>2, <3>1
    <3>2. CASE r = s /\ Remember(s, t) /\ Kept(s, t)
      <4>1. PICK h \in Left(hist[s], DOMAIN hist[s] \ Older(s, t)) :
                hist' = [hist EXCEPT ![s] = Append(h, Len(cmds) + 1)]
        BY <3>2 DEF Remember
      <4>2. hist[s] \in Seq(Nat) /\ hist'[s] = Append(h, Len(cmds) + 1)
        BY <4>1 DEF Types
      <4>3. h \in Seq(Nat) /\ \A j \in DOMAIN h : h[j] \in Cmd
        BY <4>2, LeftElements
      <4>4. \/ i \in DOMAIN h /\ hist'[s][i] = h[i]
            \/ hist'[s][i] = Len(cmds) + 1
        BY <2>1, <2>2, <3>2, <4>2, <4>3, OneMore
      <4>5. QED
        BY <2>1, <3>2, <4>3, <4>4
    <3>3. QED
      BY <1>4, <3>1, <3>2 DEF Enter, Remember, Types
  <2>3. QED
    BY <1>4, <2>1, <2>2 DEF Enter
<1>5. ASSUME NEW s \in Session, Log(s)
      PROVE  Entered'
  <2>1. ASSUME NEW c \in (IF s \in Bash THEN {Newest(s)} ELSE Current(s)),
               log' = Append(log, Exec(s, c))
        PROVE  \A i \in DOMAIN log' : log'[i].cmd \in Cmd
    <3>1. Exec(s, c) \in Entry /\ Exec(s, c).cmd = c
      BY <1>5, ReadyToLog, RecordType DEF LogReady, Log, Exec
    <3>2. c \in Cmd
      BY <1>5, ReadyToLog, NewestEntered DEF LogReady, Log, Current
    <3>3. QED
      BY <2>1, <3>1, <3>2, LogMore
  <2>2. \A i \in DOMAIN log' : log'[i].cmd \in Cmd
    BY <1>5, <2>1 DEF Log
  <2>3. QED
    BY <1>5, <2>2 DEF Log, Cmd
<1>6. ASSUME NEW s \in Session, Trim(s)
      PROVE  Entered'
  <2>1. PICK S \in SUBSET DOMAIN hist[s] : \E h \in Left(hist[s], S) :
            hist' = [hist EXCEPT ![s] = h]
    BY <1>6 DEF Trim
  <2>2. PICK h \in Left(hist[s], S) : hist' = [hist EXCEPT ![s] = h]
    BY <2>1
  <2>3. hist[s] \in Seq(Nat)
    BY DEF Types
  <2>4. \A i \in DOMAIN h : h[i] \in Cmd
    BY <2>3, LeftElements
  <2>5. \A r \in Session : \A i \in DOMAIN hist'[r] : hist'[r][i] \in Cmd
    BY <2>2, <2>4 DEF Types
  <2>6. QED
    BY <1>6, <2>5 DEF Trim, Cmd
<1>7. QED
  BY <1>1, <1>2, <1>3, <1>4, <1>5, <1>6
  DEF Next, Shell, Disable, Enable, EmptyEnter, Return, Check, vars

\* What a session does to itself.
Own(s) ==
    /\ Fresh(s)
    /\ s \in Bash => History(s) /\ Position(s)
    /\ s \notin Bash => Ahead(s)

\* A session opens: bash has read what others have saved, and logged nothing.
LEMMA OpenOwn ==
    ASSUME IInv, NEW s \in Session, Open(s)
    PROVE  Own(s)'
<1>1. step[s] = "closed" /\ step'[s] \in {"hook", "prompt"} /\ log' = log /\ last' = last
  BY DEF IInv, Types, Open, Goto
<1>2. last[s] = 0 /\ \A i \in DOMAIN log : log[i].by # s
  BY <1>1 DEF IInv, Fresh
<1>3. Fresh(s)' /\ (s \notin Bash => Ahead(s)')
  BY <1>1, <1>2 DEF Fresh, Ahead, Open, Goto
<1>4. ASSUME s \in Bash
      PROVE  History(s)' /\ Position(s)'
  <2>1. hist'[s] = histfile /\ Len(histfile) \in Nat
    BY <1>4 DEF Open, IInv, Types
  <2>2. History(s)'
    BY <1>1, <1>2, <2>1 DEF History
  <2>3. Position(s)'
    BY <1>1, <1>2 DEF Position
  <2>4. QED
    BY <2>2, <2>3
<1>5. QED
  BY <1>3, <1>4 DEF Own

\* Steps that neither enter nor log a command.
LEMMA QuietOwn ==
    ASSUME IInv, NEW s \in Session,
           \/ EmptyEnter(s) \/ Return(s) \/ Exit(s)
           \/ Check(s) /\ step'[s] # "log"
    PROVE  Own(s)'
<1>1. /\ step[s] # "log" /\ step'[s] \notin {"closed", "log"}
      /\ s \notin Bash => step'[s] # "hook"
      /\ UNCHANGED <<hist, last, trimmed, cmds, log>>
  BY DEF IInv, Types, Steps, EmptyEnter, Return, Exit, Check, AfterHook, Goto
<1>2. Fresh(s)' /\ (s \notin Bash => Ahead(s)')
  BY <1>1 DEF IInv, Fresh, Ahead
<1>3. ASSUME s \in Bash
      PROVE  History(s)' /\ Position(s)'
  <2>1. History(s) /\ Position(s)
    BY <1>3 DEF IInv
  <2>2. Pending(s)' <=> Pending(s)
    BY <1>1 DEF Pending
  <2>3. QED
    BY <1>1, <2>1, <2>2 DEF History, Position, Newest
<1>4. QED
  BY <1>2, <1>3 DEF Own

\* The user removes entries while a command runs: bash logs nothing then.
LEMMA TrimOwn ==
    ASSUME IInv, NEW s \in Session, Trim(s)
    PROVE  Own(s)'
<1>1. /\ step[s] = "run" /\ step'[s] = "run" /\ s \in Bash /\ s \in trimmed'
  BY DEF Trim
<1>2. QED
  BY <1>1 DEF Own, Fresh, History, Position

\* A command is entered: it is younger than all that was remembered or logged.
LEMMA EnterOwn ==
    ASSUME IInv, NEW s \in Session, NEW t \in Text, Enter(s, t)
    PROVE  Own(s)'
<1>1. /\ step[s] = "prompt" /\ step'[s] = (IF s \in Bash THEN "run" ELSE "hook")
      /\ UNCHANGED <<last, trimmed, log>> /\ Len(cmds) \in Nat /\ Cmd = 1..Len(cmds)
  BY DEF IInv, Types, Enter, Goto, Cmd
<1>2. Fresh(s)'
  BY <1>1 DEF Fresh
<1>3. /\ \A c \in Cmd : cmds'[c] = cmds[c]
      /\ cmds'[Len(cmds) + 1].by = s /\ Current(s)' = {Len(cmds) + 1}
  BY CommandMore DEF IInv, Enter
<1>4. \A i \in DOMAIN log : log[i].cmd \in Cmd /\ log[i].cmd < Len(cmds) + 1
  BY <1>1 DEF IInv, Entered
<1>5. ASSUME s \in Bash
      PROVE  History(s)' /\ Position(s)'
  <2> DEFINE n == Len(cmds) + 1
  <2>1. /\ hist[s] \in Seq(Nat) /\ Len(hist[s]) \in Nat /\ last[s] \in Nat /\ n \in Nat
        /\ History(s) /\ Position(s)
    BY <1>1, <1>5 DEF IInv, Types
  <2>2. CASE hist'[s] = hist[s]
    <3>1. Pending(s)' => Pending(s) /\ Newest(s)' = Newest(s)
      BY <1>1, <1>5, <2>2 DEF Pending, Newest
    <3>2. Pending(s) => cmds'[Newest(s)] = cmds[Newest(s)]
      BY <1>3, NewestEntered DEF IInv, Pending
    <3>3. History(s)'
      BY <1>1, <2>1, <2>2 DEF History
    <3>4. Position(s)'
      BY <1>1, <1>5, <2>1, <3>1, <3>2 DEF Position
    <3>5. QED
      BY <3>3, <3>4
  <2>3. CASE Remember(s, t) /\ Kept(s, t)
    <3>1. PICK h \in Left(hist[s], DOMAIN hist[s] \ Older(s, t)) :
              hist' = [hist EXCEPT ![s] = Append(h, n)]
      BY <2>3 DEF Remember
    <3>2. hist'[s] = Append(h, n)
      BY <3>1 DEF IInv, Types
    <3>3. h \in Seq(Nat)
      BY <2>1, LeftElements
    <3>4. Len(hist'[s]) = Len(h) + 1 /\ Len(h) \in Nat /\ Newest(s)' = n
      BY <2>1, <3>2, <3>3, OneMore DEF Newest
    <3>5. History(s)'
      <4>1. s \notin EraseDups => Len(h) = Len(hist[s])
        BY <2>1, LeftAll DEF Older
      <4>2. QED
        BY <1>1, <2>1, <3>4, <4>1 DEF History
    <3>6. Position(s)'
      BY <1>1, <1>3, <1>4, <1>5, <3>4 DEF Position
    <3>7. QED
      BY <3>5, <3>6
  <2>4. QED
    BY <1>5, <2>2, <2>3 DEF Enter, Remember
<1>6. ASSUME s \notin Bash
      PROVE  Ahead(s)'
  <2>1. \A i \in DOMAIN log : log[i].by = s => cmds'[log[i].cmd].by = s
    BY <1>3, <1>4, <1>6 DEF IInv, Ahead
  <2>2. QED
    BY <1>1, <1>3, <1>4, <2>1 DEF Ahead
<1>7. QED
  BY <1>2, <1>5, <1>6 DEF Own

\* A hook that goes on to log: bash has remembered the number of a younger entry.
LEMMA CheckOwn ==
    ASSUME IInv, NEW s \in Session, Check(s), step'[s] = "log"
    PROVE  Own(s)'
<1>1. step[s] = "hook" /\ UNCHANGED <<hist, trimmed, log, cmds>>
  BY DEF Check
<1>2. Fresh(s)'
  BY DEF Fresh
<1>3. ASSUME s \in Bash
      PROVE  History(s)' /\ Position(s)'
  <2>1. hist[s] \in Seq(Nat) /\ Len(hist[s]) \in Nat /\ History(s) /\ Position(s)
    BY <1>3 DEF IInv, Types
  <2>2. last'[s] = Len(hist[s]) /\ hist[s] # <<>> /\ Len(hist[s]) # last[s]
    BY <1>3 DEF Check, AfterHook, Goto, IInv, Types
  <2>3. Pending(s)
    BY <2>2 DEF Pending
  <2>4. History(s)'
    BY <1>1, <2>1, <2>2 DEF History
  <2>5. Position(s)'
    BY <1>1, <2>1, <2>2, <2>3 DEF Position, Newest
  <2>6. QED
    BY <2>4, <2>5
<1>4. ASSUME s \notin Bash
      PROVE  Ahead(s)'
  BY <1>1, <1>4 DEF IInv, Ahead, Current, Cmd
<1>5. QED
  BY <1>2, <1>3, <1>4 DEF Own

\* What is logged is younger than what the session has logged, and is another session's
\* only when it is the first.
LEMMA LogYounger ==
    ASSUME IInv, NEW s \in Session \ trimmed, Log(s),
           NEW c \in (IF s \in Bash THEN {Newest(s)} ELSE Current(s))
    PROVE  \A i \in DOMAIN log : log[i].by = s => log[i].cmd < c /\ cmds[c].by = s
<1>1. CASE s \in Bash
  <2>1. Position(s) /\ step[s] = "log"
    BY <1>1 DEF IInv, Log
  <2>2. Pending(s)
    BY <2>1 DEF Position, Pending
  <2>3. QED
    BY <1>1, <2>1, <2>2 DEF Position
<1>2. CASE s \notin Bash
  BY <1>2 DEF IInv, Log, Ahead, Current
<1>3. QED
  BY <1>1, <1>2

\* After its hook has tried to log, a session has nothing to log.
LEMMA LogOwn ==
    ASSUME IInv, NEW s \in Session, Log(s)
    PROVE  Own(s)'
<1>1. /\ step[s] = "log" /\ step'[s] = AfterHook(s)
      /\ UNCHANGED <<hist, trimmed, last, cmds>>
  BY DEF Log, Goto, IInv, Types
<1>2. Fresh(s)'
  BY <1>1 DEF AfterHook, Fresh
<1>3. ASSUME s \in Bash
      PROVE  History(s)' /\ Position(s)'
  <2>1. History(s) /\ Position(s)
    BY <1>3 DEF IInv
  <2>2. s \notin trimmed' => ~Pending(s)'
    BY <1>1, <1>3, <2>1 DEF Position, Pending, AfterHook
  <2>3. QED
    BY <1>1, <1>3, <2>1, <2>2 DEF History, Position, AfterHook
<1>4. ASSUME s \notin Bash
      PROVE  Ahead(s)'
  <2>1. CASE log' = log
    BY <1>1, <1>4, <2>1 DEF IInv, Ahead, AfterHook
  <2>2. ASSUME NEW c \in Current(s), log' = Append(log, Exec(s, c))
        PROVE  Ahead(s)'
    <3>1. Exec(s, c) \in Entry /\ Exec(s, c).cmd = c /\ cmds[c].by = s
      BY <1>4, RecordType DEF IInv, Exec, Current
    <3>2. \A i \in DOMAIN log' : log'[i].by = s => cmds[log'[i].cmd].by = s
      BY <1>4, <2>2, <3>1, LogMore DEF IInv, Ahead
    <3>3. QED
      BY <1>1, <1>4, <3>2 DEF Ahead, AfterHook
  <2>3. QED
    BY <1>4, <2>1, <2>2 DEF Log
<1>5. QED
  BY <1>2, <1>3, <1>4 DEF Own

\* A record that is appended is the youngest of its session, and a foreign one is its
\* first.
LEMMA LogOrder ==
    ASSUME IInv, NEW s \in Session, Log(s)
    PROVE  LoggedInOrder' /\ ForeignIsFirst'
<1>1. UNCHANGED <<trimmed, cmds>> /\ Types
  BY DEF Log, IInv
<1>2. CASE log' = log
  BY <1>1, <1>2 DEF IInv, LoggedInOrder, ForeignIsFirst, Positions
<1>3. ASSUME NEW c \in (IF s \in Bash THEN {Newest(s)} ELSE Current(s)),
             log' = Append(log, Exec(s, c))
      PROVE  LoggedInOrder' /\ ForeignIsFirst'
  <2>1. Exec(s, c) \in Entry /\ Exec(s, c).cmd = c /\ Exec(s, c).by = s
    BY ReadyToLog, RecordType DEF LogReady, Log, Exec, IInv
  <2>2. /\ Len(log) \in Nat
        /\ \A i \in DOMAIN log' :
            \/ i \in DOMAIN log /\ log'[i] = log[i] /\ i < Len(log) + 1
            \/ i = Len(log) + 1 /\ log'[i] = Exec(s, c)
    BY <1>1, <1>3, <2>1, LogMore DEF Types
  <2>3. ASSUME NEW r \in Session \ trimmed, NEW i \in Positions(r)', NEW j \in Positions(r)'
        PROVE  /\ i < j => log'[i].cmd < log'[j].cmd
               /\ cmds[log'[i].cmd].by # r => i <= j
    <3>1. i \in DOMAIN log' /\ j \in DOMAIN log' /\ log'[i].by = r /\ log'[j].by = r
      BY DEF Positions
    <3>2. CASE i \in DOMAIN log /\ j \in DOMAIN log /\ log'[i] = log[i] /\ log'[j] = log[j]
      BY <3>1, <3>2 DEF IInv, LoggedInOrder, ForeignIsFirst, Positions
    <3>3. CASE /\ i \in DOMAIN log /\ log'[i] = log[i] /\ i < Len(log) + 1
               /\ j = Len(log) + 1 /\ log'[j] = Exec(s, c)
      <4>1. r = s /\ log[i].cmd < c
        BY <1>3, <2>1, <3>1, <3>3, LogYounger
      <4>2. i <= j
        BY <2>2, <3>3
      <4>3. QED
        BY <2>1, <3>3, <4>1, <4>2
    <3>4. CASE /\ j \in DOMAIN log /\ log'[j] = log[j] /\ j < Len(log) + 1
               /\ i = Len(log) + 1 /\ log'[i] = Exec(s, c)
      <4>1. r = s /\ cmds[c].by = s
        BY <1>3, <2>1, <3>1, <3>4, LogYounger
      <4>2. ~(i < j)
        BY <2>2, <3>4
      <4>3. QED
        BY <2>1, <3>4, <4>1, <4>2
    <3>5. CASE i = Len(log) + 1 /\ j = Len(log) + 1
      BY <2>2, <3>5
    <3>6. QED
      BY <2>2, <3>1, <3>2, <3>3, <3>4, <3>5
  <2>4. QED
    BY <1>1, <2>3 DEF LoggedInOrder, ForeignIsFirst
<1>4. QED
  BY <1>2, <1>3 DEF Log

\* Every step of a session keeps what is known of it.
LEMMA OwnStep ==
    ASSUME IInv, NEW s \in Session, Shell(s)
    PROVE  Own(s)'
BY OpenOwn, QuietOwn, TrimOwn, EnterOwn, CheckOwn, LogOwn DEF Shell

\* The inductive invariant.
THEOREM Invariance == Spec => []IInv
<1>1. Init => IInv
  BY InitIInv
<1>2. IInv /\ [Next]_vars => IInv'
  <2> SUFFICES ASSUME IInv, [Next]_vars PROVE IInv'
    OBVIOUS
  <2>1. Types' /\ Entered'
    BY TypeStep, EnteredStep
  <2>2. LoggedInOrder' /\ ForeignIsFirst'
    <3>1. ASSUME NEW s \in Session, Log(s) PROVE LoggedInOrder' /\ ForeignIsFirst'
      BY <3>1, LogOrder
    <3>2. CASE log' = log /\ trimmed \subseteq trimmed' /\ \A c \in Cmd : cmds'[c] = cmds[c]
      <4>1. \A i \in DOMAIN log : cmds'[log[i].cmd] = cmds[log[i].cmd]
        BY <3>2 DEF IInv, Entered
      <4>2. QED
        BY <3>2, <4>1 DEF IInv, LoggedInOrder, ForeignIsFirst, Positions
    <3>3. ASSUME NEW s \in Session, NEW t \in Text, Enter(s, t)
          PROVE  log' = log /\ trimmed \subseteq trimmed' /\ \A c \in Cmd : cmds'[c] = cmds[c]
      BY <3>3, CommandMore DEF IInv, Enter
    <3>4. QED
      BY <3>1, <3>2, <3>3 DEF Next, Shell, Disable, Enable, Open, EmptyEnter, Trim, Return,
         Exit, Check, vars
  <2>3. \A r \in Session : Own(r)'
    <3>1. ASSUME NEW s \in Session, Shell(s), NEW r \in Session
          PROVE  Own(r)'
      <4>1. CASE r = s
        BY <3>1, <4>1, OwnStep
      <4>2. CASE r # s
        BY <3>1, <4>2, ReadyToLog, OthersStay, ElsewhereKept DEF IInv, Own
      <4>3. QED
        BY <4>1, <4>2
    <3>2. CASE UNCHANGED <<step, hist, trimmed, last, cmds, log>>
      BY <3>2 DEF IInv, Own, Fresh, History, Pending, Position, Newest, Ahead, Current, Cmd
    <3>3. QED
      BY <3>1, <3>2 DEF Next, Disable, Enable, vars
  <2>4. QED
    BY <2>1, <2>2, <2>3, ShellAssumption DEF IInv, Own
<1>3. QED
  BY <1>1, <1>2, PTL DEF Spec

\* A session logs its commands in the order they were entered, and none twice, until
\* its user removes entries from bash's history list.
THEOREM LogIsOrdered == Spec => []LoggedInOrder
<1>1. IInv => LoggedInOrder
  BY DEF IInv
<1>2. QED
  BY <1>1, Invariance, PTL

\* bash logs a command of another session once at most, before any of its own.
THEOREM ForeignLogsFirst == Spec => []ForeignIsFirst
<1>1. IInv => ForeignIsFirst
  BY DEF IInv
<1>2. QED
  BY <1>1, Invariance, PTL

-----------------------------------------------------------------------------
(* Completeness of the log.                                                *)

\* A command has a session.
LEMMA CommandTypes ==
    ASSUME Types
    PROVE  \A c \in Cmd : cmds[c].by \in Session /\ c \in Nat
<1>1. \A c \in Cmd : cmds[c] \in Command /\ c \in Nat
  BY DEF Types, Cmd
<1>2. QED
  BY <1>1 DEF Command

\* The current command of a session is one.
LEMMA OneCurrent ==
    ASSUME Types, NEW s \in Session, NEW c \in Current(s), NEW d \in Current(s)
    PROVE  c = d
<1>1. c \in Nat /\ d \in Nat /\ c <= d /\ d <= c
  BY CommandTypes DEF Current
<1>2. QED
  BY <1>1

\* What a step of a session keeps of commands that were entered before: they stay
\* commands, excused or logged.
LEMMA SettledStays ==
    ASSUME IInv, NEW s \in Session, Shell(s)
    PROVE  /\ flag' = flag
           /\ \A c \in Cmd : c \in Cmd' /\ cmds'[c] = cmds[c] /\ (Settled(c) => Settled(c)')
<1>1. flag' = flag /\ excused \subseteq excused'
  BY DEF Shell, Open, EmptyEnter, Trim, Enter, Return, Exit, Check, Log
<1>2. \A i \in DOMAIN log : i \in DOMAIN log' /\ log'[i] = log[i]
  <2>1. ASSUME NEW c \in (IF s \in Bash THEN {Newest(s)} ELSE Current(s)),
               Log(s), log' = Append(log, Exec(s, c))
        PROVE  \A i \in DOMAIN log : i \in DOMAIN log' /\ log'[i] = log[i]
    <3>1. Exec(s, c) \in Entry
      BY <2>1, ReadyToLog, RecordType DEF LogReady, Log, IInv
    <3>2. QED
      BY <2>1, <3>1, LogMore DEF IInv
  <2>2. CASE log' = log
    BY <2>2
  <2>3. QED
    BY <2>1, <2>2 DEF Shell, Open, EmptyEnter, Trim, Enter, Return, Exit, Check, Log
<1>3. \A c \in Cmd : c \in Cmd' /\ cmds'[c] = cmds[c]
  <2>1. ASSUME NEW t \in Text, Enter(s, t)
        PROVE  \A c \in Cmd : c \in Cmd' /\ cmds'[c] = cmds[c]
    <3>1. cmds' = Append(cmds, [by |-> s, text |-> t]) /\ Types
      BY <2>1 DEF Enter, IInv
    <3>2. Cmd \subseteq Cmd' /\ \A c \in Cmd : cmds'[c] = cmds[c]
      BY <3>1, CommandMore
    <3>3. QED
      BY <3>2
  <2>2. CASE cmds' = cmds
    BY <2>2 DEF Cmd
  <2>3. QED
    BY <2>1, <2>2 DEF Shell, Open, EmptyEnter, Trim, Return, Exit, Check, Log
<1>4. QED
  BY <1>1, <1>2, <1>3 DEF Settled

\* A command on its way stays on it, or is logged, when its own session takes a
\* step while the layer is enabled.
LEMMA WaitingGoesOn ==
    ASSUME IInv, NEW s \in Session, Shell(s), flag = "absent",
           NEW c \in Cmd, cmds[c].by = s, Waiting(s, c)
    PROVE  s \in trimmed' \/ Settled(c)' \/ Waiting(s, c)'
<1> Types
  BY DEF IInv
<1>1. /\ c \in Current(s)
      /\ step[s] \in {"log", "hook"} \/ (s \in Bash /\ step[s] = "run")
  BY DEF Waiting
<1>2. ~Open(s) /\ ~EmptyEnter(s) /\ ~Exit(s) /\ \A t \in Text : ~Enter(s, t)
  BY <1>1 DEF Open, EmptyEnter, Exit, Enter
<1>3. CASE Return(s)
  BY <1>1, <1>3 DEF Return, Goto, Waiting, Current, Cmd, Newest, Types
<1>4. CASE Check(s)
  <2>1. step[s] = "hook" /\ UNCHANGED <<hist, cmds>> /\ Current(s)' = Current(s)
    BY <1>4 DEF Check, Current, Cmd
  <2>2. CASE s \in Bash
    <3>1. hist[s] # <<>> /\ Newest(s) = c
      BY <2>2 DEF Waiting
    <3>2. Len(hist[s]) # last[s]
      BY <2>1, <2>2 DEF Waiting
    <3>3. step'[s] = "log"
      BY <1>4, <2>2, <3>1, <3>2 DEF Check, Goto, Types
    <3>4. QED
      BY <1>1, <2>1, <2>2, <3>1, <3>3 DEF Waiting, Newest
  <2>3. CASE s \notin Bash
    <3>1. step'[s] = "log"
      BY <1>4, <2>3 DEF Check, Goto, Types
    <3>2. QED
      BY <1>1, <2>1, <2>3, <3>1 DEF Waiting
  <2>4. QED
    BY <2>2, <2>3
<1>5. CASE Log(s)
  <2>1. cmds' = cmds
    BY <1>5 DEF Log
  <2>2. ASSUME NEW d \in (IF s \in Bash THEN {Newest(s)} ELSE Current(s)),
               log' = Append(log, Exec(s, d))
        PROVE  Settled(c)'
    <3>1. d = c
      <4>1. s \in Bash => Newest(s) = c
        BY DEF Waiting
      <4>2. QED
        BY <1>1, <2>2, <4>1, OneCurrent
    <3>2. Exec(s, d) \in Entry
      BY <1>5, ReadyToLog, RecordType DEF LogReady, Log
    <3>3. Len(log) + 1 \in DOMAIN log' /\ log'[Len(log) + 1] = Exec(s, c)
      BY <2>2, <3>1, <3>2, LogMore
    <3>4. QED
      BY <2>1, <3>3 DEF Settled, Exec
  <2>3. CASE excused' = excused \cup Current(s)
    BY <1>1, <2>3 DEF Settled
  <2>4. QED
    BY <1>5, <2>2, <2>3 DEF Log
<1>6. CASE Trim(s)
  BY <1>6 DEF Trim
<1>7. QED
  BY <1>2, <1>3, <1>4, <1>5, <1>6 DEF Shell

\* A command that bash has dropped does not come into its history list later.
LEMMA DroppedStays ==
    ASSUME IInv, NEW s \in Session, Shell(s), NEW c \in Cmd, NEW r \in Session,
           r = cmds[c].by, Dropped(r, c)
    PROVE  Dropped(r, c)'
<1>1. Types /\ Fresh(s) /\ c \in 1..Len(cmds) /\ Len(cmds) \in Nat
  BY DEF IInv, Types, Cmd
<1>2. CASE r # s
  BY <1>1, <1>2, ReadyToLog, OthersStay DEF Elsewhere, Dropped
<1>3. CASE r = s
  <2>1. ~Open(s)
    BY <1>1, <1>3 DEF Open, Fresh
  <2>2. ASSUME NEW t \in Text, Enter(s, t)
        PROVE  Dropped(r, c)'
    <3>1. \A i \in DOMAIN hist[s] : hist[s][i] # c
      BY <1>3 DEF Dropped
    <3>2. CASE hist' = hist
      BY <1>3, <3>1, <3>2 DEF Dropped
    <3>3. CASE Remember(s, t) /\ Kept(s, t)
      <4>1. PICK h \in Left(hist[s], DOMAIN hist[s] \ Older(s, t)) :
                hist' = [hist EXCEPT ![s] = Append(h, Len(cmds) + 1)]
        BY <3>3 DEF Remember
      <4>2. hist[s] \in Seq(Nat) /\ hist'[s] = Append(h, Len(cmds) + 1)
        BY <1>1, <4>1 DEF Types
      <4>3. h \in Seq(Nat) /\ \A i \in DOMAIN h : h[i] # c
        BY <3>1, <4>2, LeftElements
      <4>4. Len(cmds) + 1 \in Nat /\ Len(cmds) + 1 # c
        BY <1>1
      <4>5. /\ DOMAIN hist'[s] = 1..Len(h) + 1 /\ DOMAIN h = 1..Len(h) /\ Len(h) \in Nat
            /\ \A i \in 1..Len(h) : hist'[s][i] = h[i]
            /\ hist'[s][Len(h) + 1] = Len(cmds) + 1
        BY <4>2, <4>3, <4>4, OneMore
      <4>6. \A i \in DOMAIN hist'[s] : i \in DOMAIN h \/ i = Len(h) + 1
        BY <4>5
      <4>7. QED
        BY <1>3, <4>3, <4>4, <4>5, <4>6 DEF Dropped
    <3>4. QED
      BY <2>2, <3>2, <3>3 DEF Enter, Remember
  <2>3. CASE hist' = hist
    BY <2>3 DEF Dropped
  <2>4. ASSUME Trim(s)
        PROVE  Dropped(r, c)'
    <3>1. PICK S \in SUBSET DOMAIN hist[s] : \E h \in Left(hist[s], S) :
              hist' = [hist EXCEPT ![s] = h]
      BY <2>4 DEF Trim
    <3>2. PICK h \in Left(hist[s], S) : hist' = [hist EXCEPT ![s] = h]
      BY <3>1
    <3>3. hist[s] \in Seq(Nat) /\ hist'[s] = h
      BY <1>1, <3>2 DEF Types
    <3>4. \A i \in DOMAIN h : h[i] # c
      BY <1>3, <3>3, LeftElements DEF Dropped
    <3>5. QED
      BY <1>3, <3>3, <3>4 DEF Dropped
  <2>5. QED
    BY <2>1, <2>2, <2>3, <2>4 DEF Shell, EmptyEnter, Return, Exit, Check, Log
<1>4. QED
  BY <1>2, <1>3

\* A new command is excused, dropped or on its way.
LEMMA EnterAccounted ==
    ASSUME IInv, NEW s \in Session, NEW t \in Text, Enter(s, t),
           NEW c, c = Len(cmds) + 1
    PROVE  \/ s \in trimmed'
           \/ Settled(c)' \/ Dropped(s, c)' \/ (flag' = "absent" /\ Waiting(s, c)')
<1>1. /\ Types /\ cmds' = Append(cmds, [by |-> s, text |-> t]) /\ trimmed' = trimmed
      /\ flag' = flag
  BY DEF IInv, Enter
<1>2. CASE flag = "present" \/ Renumbered(s)
  BY <1>2 DEF Enter, Settled
<1>3. CASE flag = "absent" /\ ~Renumbered(s) /\ s \notin trimmed
  <2>1. flag' = "absent" /\ c \in Current(s)' /\ c \in Nat
    BY <1>1, <1>3, CommandMore
  <2>2. CASE s \in Bash /\ Kept(s, t)
    <3>1. PICK h \in Left(hist[s], DOMAIN hist[s] \ Older(s, t)) :
              hist' = [hist EXCEPT ![s] = Append(h, c)]
      BY <2>2 DEF Enter, Remember
    <3>2. /\ hist[s] \in Seq(Nat) /\ hist'[s] = Append(h, c)
          /\ step'[s] = "run" /\ last'[s] = last[s] /\ last[s] \in Nat
      <4>1. step' = [step EXCEPT ![s] = "run"] /\ last' = last
        BY <2>2 DEF Enter, Goto
      <4>2. QED
        BY <1>1, <3>1, <4>1 DEF Types
    <3>3. h \in Seq(Nat)
      BY <3>2, LeftElements
    <3>4. hist'[s] # <<>> /\ Len(hist'[s]) = Len(h) + 1 /\ Len(h) \in Nat /\ Newest(s)' = c
      BY <2>1, <3>2, <3>3, OneMore DEF Newest
    <3>5. Len(hist'[s]) # last'[s]
      <4>1. CASE s \in EraseDups
        BY <1>3, <3>2, <4>1 DEF Renumbered
      <4>2. CASE s \notin EraseDups
        <5>1. Len(h) = Len(hist[s])
          BY <3>2, <4>2, LeftAll DEF Older
        <5>2. last[s] <= Len(hist[s])
          BY <1>3, <2>2, <4>2 DEF IInv, History
        <5>3. QED
          BY <3>2, <3>4, <5>1, <5>2
      <4>3. QED
        BY <4>1, <4>2
    <3>6. QED
      BY <2>1, <2>2, <3>2, <3>4, <3>5 DEF Waiting
  <2>3. CASE s \notin Bash
    BY <1>1, <2>1, <2>3 DEF Enter, Goto, Waiting, Types
  <2>4. CASE s \in Bash /\ ~Kept(s, t)
    <3>1. s \in IgnoreDups /\ hist' = hist
      BY <2>4 DEF Enter, Remember, Kept
    <3>2. \A i \in DOMAIN hist[s] : hist[s][i] \in Cmd
      BY DEF IInv, Entered
    <3>3. c \notin Cmd
      BY <1>1 DEF Cmd, Types
    <3>4. QED
      BY <3>1, <3>2, <3>3 DEF Dropped
  <2>5. QED
    BY <2>2, <2>3, <2>4
<1>4. QED
  BY <1>1, <1>2, <1>3 DEF Types

\* A step of a session keeps every command accounted for.
LEMMA AccountedStep ==
    ASSUME IInv, Accounted, NEW s \in Session, Shell(s)
    PROVE  Accounted'
<1>0. trimmed \subseteq trimmed'
  BY DEF Shell, Open, EmptyEnter, Trim, Enter, Return, Exit, Check, Log
<1>1. ASSUME NEW c \in Cmd
      PROVE  \/ cmds'[c].by \in trimmed'
             \/ Settled(c)' \/ Dropped(cmds[c].by, c)'
             \/ flag' = "absent" /\ Waiting(cmds[c].by, c)'
  <2>1. CASE Settled(c) \/ cmds[c].by \in trimmed
    BY <1>0, <2>1, SettledStays
  <2>2. CASE flag = "absent" /\ Waiting(cmds[c].by, c) /\ cmds[c].by = s
    BY <2>2, WaitingGoesOn, SettledStays
  <2>3. CASE flag = "absent" /\ Waiting(cmds[c].by, c) /\ cmds[c].by # s
    <3>1. PICK r \in Session \ {s} : r = cmds[c].by
      BY <2>3, CommandTypes DEF IInv
    <3>2. Waiting(r, c)'
      BY <2>3, <3>1, ReadyToLog, OthersStay, ElsewhereKept DEF IInv
    <3>3. QED
      BY <2>3, <3>1, <3>2, SettledStays
  <2>4. CASE Dropped(cmds[c].by, c)
    <3>1. PICK r \in Session : r = cmds[c].by
      BY CommandTypes DEF IInv
    <3>2. Dropped(r, c)' /\ cmds'[c] = cmds[c]
      BY <2>4, <3>1, DroppedStays, SettledStays
    <3>3. QED
      BY <3>1, <3>2 DEF Dropped
  <2>5. QED
    BY <2>1, <2>2, <2>3, <2>4 DEF Accounted
<1>2. ASSUME NEW c \in Cmd', c \notin Cmd
      PROVE  \/ cmds'[c].by \in trimmed'
             \/ Settled(c)' \/ Dropped(cmds[c].by, c)'
             \/ flag' = "absent" /\ Waiting(cmds[c].by, c)'
  <2>1. PICK t \in Text : Enter(s, t)
    BY <1>2 DEF Cmd, Shell, Open, EmptyEnter, Trim, Return, Exit, Check, Log
  <2>2. Types /\ cmds' = Append(cmds, [by |-> s, text |-> t])
    BY <2>1 DEF IInv, Enter
  <2>3. c = Len(cmds) + 1 /\ cmds'[c].by = s
    BY <1>2, <2>2, CommandMore
  <2>4. QED
    BY <2>1, <2>3, EnterAccounted
<1>3. QED
  BY <1>1, <1>2 DEF Accounted

\* At its next prompt a session has logged what it ran, unless the layer was disabled
\* meanwhile, the append failed, or bash's history list did not show it: it was told to
\* drop the command, gave it the number that was logged last, or was trimmed.
THEOREM NoneLost == Spec => []NothingLost
<1>1. Init => Accounted
  BY InitIInv
<1>2. IInv /\ Accounted /\ [Next]_vars => Accounted'
  <2> SUFFICES ASSUME IInv, Accounted, [Next]_vars
               PROVE  Accounted'
    OBVIOUS
  <2>1. ASSUME NEW s \in Session, Shell(s) PROVE Accounted'
    BY <2>1, AccountedStep
  <2>2. CASE Disable
    <3>1. UNCHANGED <<trimmed, cmds, hist, log>> /\ excused \subseteq excused'
      BY <2>2 DEF Disable
    <3>2. ASSUME NEW c \in Cmd
          PROVE  cmds[c].by \in trimmed \/ Settled(c)' \/ Dropped(cmds[c].by, c)'
      <4>1. CASE Settled(c)
        BY <3>1, <4>1 DEF Settled
      <4>2. CASE Waiting(cmds[c].by, c)
        <5>1. cmds[c].by \in Session /\ c \in Current(cmds[c].by)
              /\ step[cmds[c].by] \in {"hook", "log", "run"}
          BY <4>2, CommandTypes DEF IInv, Waiting
        <5>2. c \in Under
          BY <5>1 DEF Under
        <5>3. QED
          BY <2>2, <5>2 DEF Disable, Settled
      <4>3. CASE Dropped(cmds[c].by, c)
        BY <3>1, <4>3 DEF Dropped
      <4>4. QED
        BY <4>1, <4>2, <4>3 DEF Accounted
    <3>3. Cmd' = Cmd
      BY <3>1 DEF Cmd
    <3>4. QED
      BY <3>1, <3>2, <3>3 DEF Accounted
  <2>3. CASE Enable
    <3>1. flag = "present" /\ UNCHANGED <<trimmed, cmds, hist, log, excused>>
      BY <2>3 DEF Enable
    <3>2. \A c \in Cmd : cmds[c].by \in trimmed \/ Settled(c)' \/ Dropped(cmds[c].by, c)'
      BY <3>1 DEF Accounted, Settled, Dropped
    <3>3. Cmd' = Cmd
      BY <3>1 DEF Cmd
    <3>4. QED
      BY <3>1, <3>2, <3>3 DEF Accounted
  <2>4. CASE UNCHANGED vars
    BY <2>4 DEF vars, Accounted, Settled, Dropped, Waiting, Current, Newest, Cmd
  <2>5. QED
    BY <2>1, <2>2, <2>3, <2>4 DEF Next
<1>3. IInv /\ Accounted => NothingLost
  <2> SUFFICES ASSUME IInv, Accounted, NEW c \in Cmd,
                      step[cmds[c].by] = "prompt", cmds[c].by \notin trimmed,
                      c \notin excused, ~Dropped(cmds[c].by, c)
               PROVE  \E i \in DOMAIN log : log[i] = Exec(cmds[c].by, c)
    BY DEF NothingLost
  <2>1. ~Waiting(cmds[c].by, c)
    BY DEF Waiting
  <2>2. QED
    BY <2>1 DEF Accounted, Settled
<1>4. QED
  BY <1>1, <1>2, <1>3, Invariance, PTL DEF Spec
=============================================================================
