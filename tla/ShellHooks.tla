----------------------------- MODULE ShellHooks -----------------------------
(***************************************************************************)
(* The shell-capture plane: the hooks of src/shell/linaudit.{bash,zsh,fish}*)
(* in the interactive shells of one user, the command log they share and   *)
(* the shared `disabled` flag, which the CLI and the dashboard toggle.     *)
(* zsh and fish log a command before it runs.  bash has no such hook: its  *)
(* PROMPT_COMMAND logs the newest entry of the history list before every   *)
(* prompt, once per history number: the number of an entry is its place in *)
(* the list, which HISTCONTROL and the user may remove entries from.  The  *)
(* check of the flag and the append to the log are separate steps, so that *)
(* a toggle can come between them, and the append may fail.                *)
(*                                                                         *)
(* A member of Session is one run of a shell.  Executed commands are       *)
(* numbered in the order in which they are entered.                        *)
(***************************************************************************)
EXTENDS Naturals, Sequences, FiniteSets

CONSTANTS
    Session,    \* runs of interactive shells
    Bash,       \* those of bash; the others are zsh or fish
    Text,       \* what a user may enter
    IgnoreDups, \* those of bash whose HISTCONTROL drops a repeated command
    EraseDups,  \* those of bash whose HISTCONTROL removes older entries of a command
    MaxCmds,    \* bound: commands executed
    MaxToggles  \* bound: toggles of the layer

ASSUME ShellAssumption ==
    /\ Bash \subseteq Session
    /\ IgnoreDups \subseteq Bash /\ EraseDups \subseteq Bash
    /\ MaxCmds \in Nat /\ MaxToggles \in Nat

VARIABLES
    flag,     \* the disabled flag file: "absent" or "present"
    toggles,  \* how often it was toggled
    step,     \* what each session does: "closed", "hook", "log", "prompt", "run" or "exited"
    hist,     \* bash's history list: a sequence of commands
    histfile, \* HISTFILE, which bash reads on start and appends to on exit
    trimmed,  \* the sessions whose user removed entries from the history list
    last,     \* _LINAUDIT_LAST_HIST, 0 while it is empty
    cmds,     \* the commands executed so far: who entered them, and what
    log,      \* commands.log: the session and the command of each EXEC record
    excused   \* the commands whose loss has a cause: the layer was disabled, the append
              \* failed, or bash numbered them as the one it had logged last

vars == <<flag, toggles, step, hist, histfile, trimmed, last, cmds, log, excused>>

Command == [by : Session, text : Text]

\* The commands are known by their numbers.
Cmd == DOMAIN cmds
Current(s) == {c \in Cmd : cmds[c].by = s /\ \A d \in Cmd : cmds[d].by = s => d <= c}
Newest(s) == hist[s][Len(hist[s])]
Exec(s, c) == [by |-> s, cmd |-> c]

Init ==
    /\ flag \in {"absent", "present"} /\ toggles = 0
    /\ step = [s \in Session |-> "closed"]
    /\ hist = [s \in Session |-> <<>>] /\ histfile = <<>>
    /\ trimmed = {} /\ last = [s \in Session |-> 0]
    /\ cmds = <<>> /\ log = <<>> /\ excused = {}

Goto(s, p) == step' = [step EXCEPT ![s] = p]

-----------------------------------------------------------------------------
(* The layer is toggled: disableShell and enableShell of the CLI, toggle of *)
(* the web server.                                                         *)

\* The commands that are being run, or wait for bash to log them.
Under == UNION {Current(s) : s \in {t \in Session : step[t] \in {"hook", "log", "run"}}}

Disable ==
    /\ flag = "absent" /\ toggles < MaxToggles
    /\ flag' = "present" /\ toggles' = toggles + 1
    /\ excused' = excused \cup Under
    /\ UNCHANGED <<step, hist, histfile, trimmed, last, cmds, log>>

Enable ==
    /\ flag = "present" /\ toggles < MaxToggles
    /\ flag' = "absent" /\ toggles' = toggles + 1
    /\ UNCHANGED <<step, hist, histfile, trimmed, last, cmds, log, excused>>

-----------------------------------------------------------------------------
(* A shell.                                                                *)

\* What is left of the list h when it keeps its entries at the indexes S.
Left(h, S) ==
    {[i \in DOMAIN at |-> h[at[i]]] : at \in
        {f \in [1..Cardinality(S) -> S] :
            \A i, j \in DOMAIN f : i < j => f[i] < f[j]}}

\* bash reads HISTFILE; its hook runs before the first prompt already.
Open(s) ==
    /\ step[s] = "closed"
    /\ IF s \in Bash
       THEN hist' = [hist EXCEPT ![s] = histfile] /\ Goto(s, "hook")
       ELSE Goto(s, "prompt") /\ UNCHANGED hist
    /\ UNCHANGED <<flag, toggles, histfile, trimmed, last, cmds, log, excused>>

\* Enter on an empty line: bash runs its hook again.
EmptyEnter(s) ==
    /\ step[s] = "prompt" /\ s \in Bash
    /\ Goto(s, "hook")
    /\ UNCHANGED <<flag, toggles, hist, histfile, trimmed, last, cmds, log, excused>>

\* bash keeps the command in its history list, unless it is told to drop a
\* repeated one.
Kept(s, t) == ~(s \in IgnoreDups /\ hist[s] # <<>> /\ cmds[Newest(s)].text = t)

\* The entries that make room for the command.
Older(s, t) ==
    IF s \in EraseDups THEN {i \in DOMAIN hist[s] : cmds[hist[s][i]].text = t} ELSE {}

\* The history list with the command.
Remember(s, t) ==
    IF Kept(s, t)
    THEN \E h \in Left(hist[s], DOMAIN hist[s] \ Older(s, t)) :
            hist' = [hist EXCEPT ![s] = Append(h, Len(cmds) + 1)]
    ELSE UNCHANGED hist

\* The command has the number of the one that was logged last.
Renumbered(s) == s \in EraseDups /\ Len(hist'[s]) = last[s]

\* A command is entered: bash runs it, zsh and fish run their hook first.
Enter(s, t) ==
    /\ step[s] = "prompt" /\ Len(cmds) < MaxCmds
    /\ cmds' = Append(cmds, [by |-> s, text |-> t])
    /\ IF s \in Bash
       THEN Remember(s, t) /\ Goto(s, "run")
       ELSE Goto(s, "hook") /\ UNCHANGED hist
    /\ excused' = excused \cup
                     (IF flag = "present" \/ Renumbered(s) THEN {Len(cmds) + 1} ELSE {})
    /\ UNCHANGED <<flag, toggles, histfile, trimmed, last, log>>

\* The command is one that removes entries from the history list (history -c and -d).
Trim(s) ==
    /\ step[s] = "run" /\ s \in Bash
    /\ \E S \in SUBSET DOMAIN hist[s] : \E h \in Left(hist[s], S) :
        S # DOMAIN hist[s] /\ hist' = [hist EXCEPT ![s] = h]
    /\ trimmed' = trimmed \cup {s}
    /\ UNCHANGED <<flag, toggles, step, histfile, last, cmds, log, excused>>

Return(s) ==
    /\ step[s] = "run"
    /\ Goto(s, IF s \in Bash THEN "hook" ELSE "prompt")
    /\ UNCHANGED <<flag, toggles, hist, histfile, trimmed, last, cmds, log, excused>>

\* bash saves what was entered in the session.
Exit(s) ==
    /\ step[s] = "prompt"
    /\ Goto(s, "exited")
    /\ \E own \in Left(hist[s], {i \in DOMAIN hist[s] : cmds[hist[s][i]].by = s}) :
        histfile' = histfile \o own
    /\ UNCHANGED <<flag, toggles, hist, trimmed, last, cmds, log, excused>>

-----------------------------------------------------------------------------
(* The hooks.                                                              *)

\* Where a shell goes after its hook.
AfterHook(s) == IF s \in Bash THEN "prompt" ELSE "run"

\* Mutant: a command is new when its text differs from the one before.
CheckText(s) ==
    /\ step[s] = "hook"
    /\ IF \/ flag = "present"
          \/ /\ s \in Bash
             /\ \/ hist[s] = <<>> \/ Len(hist[s]) = last[s]
                \/ Len(hist[s]) > 1 /\ cmds[Newest(s)].text = cmds[hist[s][Len(hist[s]) - 1]].text
       THEN Goto(s, AfterHook(s)) /\ UNCHANGED last
       ELSE Goto(s, "log") /\ last' = [last EXCEPT ![s] = Len(hist[s])]
    /\ UNCHANGED <<flag, toggles, hist, histfile, trimmed, cmds, log, excused>>

\* Mutant: bash does not remember what it has logged.
CheckForgets(s) ==
    /\ step[s] = "hook"
    /\ IF flag = "present" \/ (s \in Bash /\ hist[s] = <<>>)
       THEN Goto(s, AfterHook(s))
       ELSE Goto(s, "log")
    /\ UNCHANGED <<flag, toggles, hist, histfile, trimmed, last, cmds, log, excused>>

\* Nothing is logged while the layer is disabled, and bash logs a history
\* number only once.
Check(s) ==
    /\ step[s] = "hook"
    /\ IF \/ flag = "present"
          \/ s \in Bash /\ (hist[s] = <<>> \/ Len(hist[s]) = last[s])
       THEN Goto(s, AfterHook(s)) /\ UNCHANGED last
       ELSE /\ Goto(s, "log")
            /\ last' = (IF s \in Bash THEN [last EXCEPT ![s] = Len(hist[s])] ELSE last)
    /\ UNCHANGED <<flag, toggles, hist, histfile, trimmed, cmds, log, excused>>

\* One record is appended, if it can be: bash's newest history entry, or the command
\* zsh and fish are about to run.
Log(s) ==
    /\ step[s] = "log"
    /\ \/ /\ \E c \in (IF s \in Bash THEN {Newest(s)} ELSE Current(s)) :
                log' = Append(log, Exec(s, c))
          /\ UNCHANGED excused
       \/ excused' = excused \cup Current(s) /\ UNCHANGED log
    /\ Goto(s, AfterHook(s))
    /\ UNCHANGED <<flag, toggles, hist, histfile, trimmed, last, cmds>>

Shell(s) ==
    \/ Open(s) \/ EmptyEnter(s) \/ Trim(s) \/ Return(s) \/ Exit(s) \/ Check(s) \/ Log(s)
    \/ \E t \in Text : Enter(s, t)

Next == Disable \/ Enable \/ \E s \in Session : Shell(s)

Spec == Init /\ [][Next]_vars

-----------------------------------------------------------------------------
(* Properties.                                                             *)

\* The records of one session, in the order of the log.
Positions(s) == {i \in DOMAIN log : log[i].by = s}

\* A session logs the commands in the order they were entered, and none twice:
\* not at a redrawn prompt, not after a toggle, and not when the same text is
\* entered again; until its user removes entries from bash's history list.
LoggedInOrder ==
    \A s \in Session \ trimmed : \A i, j \in Positions(s) :
        i < j => log[i].cmd < log[j].cmd

\* bash was told to keep a command out of its history list, where the hook looks.
Dropped(s, c) == s \in IgnoreDups /\ \A i \in DOMAIN hist[s] : hist[s][i] # c

\* No command is lost but for a cause: at its next prompt, whatever a session ran is in
\* the log, unless the layer was disabled while the shell was at it, the append failed,
\* bash's history list did not get it, or the list had lost an older entry and gave it
\* the number of the command that was logged last.  A command that is lost hides none
\* before or after it.
NothingLost ==
    \A c \in Cmd :
        LET s == cmds[c].by
        IN  step[s] = "prompt" /\ s \notin trimmed /\ c \notin excused /\ ~Dropped(s, c) =>
                \E i \in DOMAIN log : log[i] = Exec(s, c)

\* bash's comment says that its hook logs the just-entered command (linaudit.bash:12).
\* Before the first prompt it logs the newest entry of HISTFILE, which another session
\* has entered: that happens once, and before the session logs anything of its own.
ForeignIsFirst ==
    \A s \in Session \ trimmed : \A i, j \in Positions(s) :
        cmds[log[i].cmd].by # s => i <= j
=============================================================================
