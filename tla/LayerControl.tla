---------------------------- MODULE LayerControl ----------------------------
(***************************************************************************)
(* The switches of the three layers -- shell capture, input logger and     *)
(* auditd -- and what status says of them: the control panel of the        *)
(* command line and its menu (cli/cli.go), the dashboard's server          *)
(* (web/data.go) and the page that polls it (web/dashboard.html).          *)
(*                                                                         *)
(* None of them takes a lock: every rc file, the disabled flag and the     *)
(* state of a unit are read and changed by a system call or a command of   *)
(* its own, while others do the same.  A call of a caller is one request   *)
(* to the server or one command of the control panel, from its start to    *)
(* the status it ends with.                                                *)
(***************************************************************************)
EXTENDS Naturals, Sequences

CONSTANTS
    Web,       \* requests the server handles at a time; all are the page's
    Cli,       \* control panels that run at a time
    Units,     \* the layers that are units, in the order of status: <<"input", "audit">>
    Hooks,     \* the rc files that load a hook: <<"zsh", "bash", "fish">>
    Installed, \* those of "zsh" and "bash" whose shell is on PATH, in that order
    MaxToggles \* bound: toggles

Shell == "shell"
Unit == {Units[k] : k \in DOMAIN Units}
Layer == {Shell} \cup Unit

Rc == {Hooks[k] : k \in DOMAIN Hooks}

Caller == Web \cup Cli

ASSUME LayerControlAssumption ==
    /\ Web \cap Cli = {}
    /\ Units \in Seq({"input", "audit"}) /\ Units # <<>>
    /\ Hooks \in Seq({"zsh", "bash", "fish"}) /\ Hooks # <<>>
    /\ Installed \in Seq(Rc \ {"fish"})
    /\ MaxToggles \in Nat

VARIABLES
    wired,   \* the rc files that load the hook
    flag,    \* whether the disabled flag exists
    up,      \* the units that are active
    call,    \* what a caller is doing
    seen,    \* annotation: whether the shell layer was on, since the call began
    shown,   \* the layers the page shows as on
    toggles

vars == <<wired, flag, up, call, seen, shown, toggles>>

\* A call: its next step, what it does to which layers, the layer it is at, the rc
\* files it still has to go through, whether something failed, and the layers it has
\* read as on.
Idle == [at |-> "idle", act |-> "none", layers |-> <<>>, n |-> 1, rcs |-> <<>>,
         err |-> FALSE, on |-> {}]

Now(w, f) == w # {} /\ ~f

\* Capture is in force: a hook is wired and the flag is absent.
ShellOn == Now(wired, flag)

InForce == (IF ShellOn THEN {Shell} ELSE {}) \cup up

Init ==
    /\ wired \in SUBSET Rc /\ flag \in BOOLEAN /\ up \in SUBSET Unit
    /\ call = [c \in Caller |-> Idle]
    /\ seen = [c \in Caller |-> {}]
    /\ shown = {}
    /\ toggles = 0

\* What every step does to the annotation; a request that toggles has not begun to
\* look at anything.
Observe ==
    seen' = [c \in Caller |->
                IF call'[c].at = "idle" \/ (c \in Web /\ call'[c].at = "act") THEN {}
                ELSE seen[c] \cup {ShellOn, Now(wired', flag')}]

Becomes(c, r) == call' = [call EXCEPT ![c] = r]

-----------------------------------------------------------------------------
(* Calls.                                                                  *)

Reading(act) == [Idle EXCEPT !.at = "hooks", !.act = act, !.rcs = Hooks]

\* The rc files that the command line wires when it enables the shell layer.
ToWire(c, r) ==
    IF c \in Cli /\ r.act = "enable" /\ r.layers[r.n] = Shell THEN Installed ELSE <<>>

\* Whether the command line tells that it has enabled the shell layer.
Enabled(c, r) == c \in Cli /\ r.act = "enable" /\ r.layers[1] = Shell /\ ~r.err

\* On to the next layer, or to the status.  The page does not use the one in the
\* answer to a toggle, but asks for another: only that one is modelled.
Acting(c, r) ==
    IF r.n > Len(r.layers) THEN Reading(IF Enabled(c, r) THEN "enable" ELSE "none")
    ELSE [r EXCEPT !.at = "act", !.rcs = ToWire(c, r)]

\* /api/status
Poll(c) ==
    /\ c \in Web /\ call[c] = Idle
    /\ Becomes(c, Reading("none"))
    /\ UNCHANGED <<wired, flag, up, shown, toggles>>
    /\ Observe

\* /api/toggle, linaudit enable and linaudit disable.
Toggle(c) ==
    /\ call[c] = Idle
    /\ toggles < MaxToggles /\ toggles' = toggles + 1
    /\ \E act \in {"enable", "disable"},
          layers \in {<<l>> : l \in Layer} \cup {<<Shell>> \o Units} :
        /\ c \in Web => Len(layers) = 1
        /\ Becomes(c, Acting(c, [Idle EXCEPT !.act = act, !.layers = layers]))
    /\ UNCHANGED <<wired, flag, up, shown>>
    /\ Observe

\* The menu looks at a layer and then does the opposite.
Flip(c) ==
    /\ c \in Cli /\ call[c] = Idle
    /\ toggles < MaxToggles /\ toggles' = toggles + 1
    /\ \E l \in Layer :
        Becomes(c, IF l = Shell THEN Reading("flip")
                   ELSE [Idle EXCEPT !.at = l, !.act = "flip"])
    /\ UNCHANGED <<wired, flag, up, shown>>
    /\ Observe

Acts(c, act, layers) ==
    LET r == call[c] IN r.at = "act" /\ r.act = act /\ r.layers[r.n] \in layers

\* The layer is done, with an error or without.
NextLayer(c, failed) ==
    LET r == call[c]
    IN  Becomes(c, Acting(c, [r EXCEPT !.n = @ + 1, !.err = @ \/ failed]))

\* Mutant: the flag is removed (`err` notes it) before the rc files are wired.
WireRcLate(c) ==
    /\ Acts(c, "enable", {Shell}) /\ call[c].rcs # <<>>
    /\ LET r == call[c]
       IN  IF ~r.err
           THEN flag' = FALSE /\ Becomes(c, [r EXCEPT !.err = TRUE]) /\ UNCHANGED wired
           ELSE /\ wired' = wired \cup {Head(r.rcs)} /\ UNCHANGED flag
                /\ Becomes(c, IF Len(r.rcs) > 1 THEN [r EXCEPT !.rcs = Tail(@)]
                              ELSE Acting(c, [r EXCEPT !.n = @ + 1, !.err = FALSE]))
    /\ UNCHANGED <<up, shown, toggles>>
    /\ Observe

\* wireRc: an rc file that does not name the hook yet gets it.
WireRc(c) ==
    /\ Acts(c, "enable", {Shell}) /\ call[c].rcs # <<>>
    /\ LET r == call[c]
           rc == Head(r.rcs)
       IN  \/ /\ wired' = wired \cup {rc}
              /\ Becomes(c, [r EXCEPT !.rcs = Tail(@)])
           \/ /\ rc \notin wired
              /\ Becomes(c, [r EXCEPT !.rcs = Tail(@), !.err = TRUE])
              /\ UNCHANGED wired
    /\ UNCHANGED <<flag, up, shown, toggles>>
    /\ Observe

\* The last step of enabling; the server's only one.
RemoveFlag(c) ==
    /\ Acts(c, "enable", {Shell}) /\ call[c].rcs = <<>>
    /\ \/ flag' = FALSE /\ NextLayer(c, FALSE)
       \/ flag /\ UNCHANGED flag /\ NextLayer(c, TRUE)
    /\ UNCHANGED <<wired, up, shown, toggles>>
    /\ Observe

\* disableShell
CreateFlag(c) ==
    /\ Acts(c, "disable", {Shell})
    /\ \/ flag' = TRUE /\ NextLayer(c, FALSE)
       \/ UNCHANGED flag /\ NextLayer(c, TRUE)
    /\ UNCHANGED <<wired, up, shown, toggles>>
    /\ Observe

\* systemctl enable --now and disable --now, which may fail; so may auditctl, which
\* follows the former.  A host without auditd is told so, without an error.
Systemctl(c) ==
    /\ \/ /\ Acts(c, "enable", Unit)
          /\ up' \in {up, up \cup {call[c].layers[call[c].n]}}
       \/ /\ Acts(c, "disable", Unit)
          /\ up' \in {up, up \ {call[c].layers[call[c].n]}}
    /\ \E failed \in BOOLEAN : NextLayer(c, failed)
    /\ UNCHANGED <<wired, flag, shown, toggles>>
    /\ Observe

-----------------------------------------------------------------------------
(* status, and shellOn in it.                                              *)

\* What status looks at after a layer.
After(l) ==
    IF l = Shell THEN Units[1]
    ELSE LET k == CHOOSE j \in DOMAIN Units : Units[j] = l
         IN  IF k = Len(Units) THEN "answer" ELSE Units[k + 1]

\* A layer is read as on or off: the status goes on, the menu turns to the opposite.
Found(c, l, isOn) ==
    LET r == call[c]
    IN  Becomes(c,
            IF r.act = "flip"
            THEN Acting(c, [Idle EXCEPT !.act = IF isOn THEN "disable" ELSE "enable",
                                        !.layers = <<l>>])
            ELSE [r EXCEPT !.at = After(l), !.rcs = <<>>,
                           !.on = IF isOn THEN @ \cup {l} ELSE @])

\* Mutant: the flag is read (`err` notes it) before the hooks.
ReadHookLate(c) ==
    /\ call[c].at = "hooks"
    /\ LET r == call[c]
       IN  IF ~r.err
           THEN IF flag THEN Found(c, Shell, FALSE) ELSE Becomes(c, [r EXCEPT !.err = TRUE])
           ELSE IF Head(r.rcs) \in wired THEN Found(c, Shell, TRUE)
           ELSE IF Tail(r.rcs) = <<>> THEN Found(c, Shell, FALSE)
           ELSE Becomes(c, [r EXCEPT !.rcs = Tail(@)])
    /\ UNCHANGED <<wired, flag, up, shown, toggles>>
    /\ Observe

\* shellHookWired looks at one file after the other, until one has the hook.
ReadHook(c) ==
    /\ call[c].at = "hooks"
    /\ LET r == call[c]
       IN  IF Head(r.rcs) \in wired THEN Becomes(c, [r EXCEPT !.at = "flag", !.rcs = <<>>])
           ELSE IF Tail(r.rcs) = <<>> THEN Found(c, Shell, FALSE)
           ELSE Becomes(c, [r EXCEPT !.rcs = Tail(@)])
    /\ UNCHANGED <<wired, flag, up, shown, toggles>>
    /\ Observe

ReadFlag(c) ==
    /\ call[c].at = "flag"
    /\ Found(c, Shell, ~flag)
    /\ UNCHANGED <<wired, flag, up, shown, toggles>>
    /\ Observe

\* systemctl is-active
ReadUnit(c) ==
    /\ call[c].at \in Unit
    /\ Found(c, call[c].at, call[c].at \in up)
    /\ UNCHANGED <<wired, flag, up, shown, toggles>>
    /\ Observe

\* Mutant: a layer that was shown as on stays so.
AnswerAdds(c) ==
    /\ call[c].at = "answer"
    /\ shown' = IF c \in Web THEN shown \cup call[c].on ELSE shown
    /\ Becomes(c, Idle)
    /\ UNCHANGED <<wired, flag, up, toggles>>
    /\ Observe

\* The answer arrives, and renderStatus shows it; or Status has printed it.
Answer(c) ==
    /\ call[c].at = "answer"
    /\ shown' = IF c \in Web THEN call[c].on ELSE shown
    /\ Becomes(c, Idle)
    /\ UNCHANGED <<wired, flag, up, toggles>>
    /\ Observe

Step(c) ==
    \/ WireRc(c) \/ RemoveFlag(c) \/ CreateFlag(c) \/ Systemctl(c)
    \/ ReadHook(c) \/ ReadFlag(c) \/ ReadUnit(c) \/ Answer(c)

Next == \E c \in Caller : Poll(c) \/ Toggle(c) \/ Flip(c) \/ Step(c)

\* Every call ends, and the page goes on polling.
Fairness == \A c \in Caller : WF_vars(Step(c)) /\ WF_vars(Poll(c))

Spec == Init /\ [][Next]_vars /\ Fairness

-----------------------------------------------------------------------------
(* Correctness.                                                            *)

TypeOK ==
    /\ wired \subseteq Rc /\ flag \in BOOLEAN /\ up \subseteq Unit /\ shown \subseteq Layer
    /\ seen \in [Caller -> SUBSET BOOLEAN] /\ toggles \in Nat

\* What status says of the shell layer held at some time during the call, although
\* it reads three files and a flag one after the other while they change: hooks are
\* only ever added, and the flag is read last.
ShellAnswerTrue ==
    \A c \in Caller : call[c].at = "answer" => (Shell \in call[c].on) \in seen[c]

\* When the command line has enabled the shell layer without an error, it was on at
\* some time, whatever others did meanwhile: it clears the flag last.  Only where
\* fish alone is installed, without the hook that its installer places, it was not.
EnableWasOn ==
    \A c \in Cli :
        call[c].at = "answer" /\ call[c].act = "enable" =>
            TRUE \in seen[c] \/ (Installed = <<>> /\ wired = {})

\* Answers overtake each other on their way to the page, and toggles fail half-way;
\* but when nobody toggles any more the page shows in the end what is in force.
PageConverges == <>[](shown = InForce)
=============================================================================
