-------------------------- MODULE DashboardProofs ---------------------------
(***************************************************************************)
(* Proofs about what the dashboard and the command line show.              *)
(*                                                                         *)
(* Of the layers (LayerControl) they rest on three facts: hooks are only   *)
(* ever added, the flag is read and cleared last, and what a call has seen *)
(* stays seen until its next status.                                       *)
(*                                                                         *)
(* Of the report (LogViews): a record that was due when the report began   *)
(* is in its file from then on or was cut off with it, and a window that   *)
(* ends where the reader sought the end holds the last records before it.  *)
(***************************************************************************)
EXTENDS LayerControl, LogViews, SequenceTheorems, TLAPS

-----------------------------------------------------------------------------
(* The inductive invariant.                                                *)

Status == {"hooks", "flag", "answer"} \cup Unit

Call == [at : {"idle", "act"} \cup Status, act : {"none", "enable", "disable", "flip"},
         layers : Seq(Layer), n : Nat \ {0}, rcs : Seq(Rc), err : BOOLEAN,
         on : SUBSET Layer]

\* A call that acts has a layer to act on; one that reads has a file to read and has
\* found nothing yet.  Where no shell with an rc file is installed, none is wired.
WellFormed(c) ==
    LET r == call[c]
    IN  /\ r.at = "act" =>
               /\ r.act \in {"enable", "disable"} /\ r.n \in DOMAIN r.layers
               /\ Installed = <<>> => r.rcs = <<>>
        /\ r.at = "hooks" => r.rcs # <<>>
        /\ r.at \in {"hooks", "flag"} => r.on = {}
        /\ r.at = "answer" => r.act # "flip"

\* What a status will say of the shell layer was seen: as long as no hook is found,
\* either one is still ahead or the layer was off before.
ShellSeen(c) ==
    LET r == call[c]
    IN  /\ r.at = "hooks" => FALSE \in seen[c] \/ \E i \in DOMAIN r.rcs : r.rcs[i] \in wired
        /\ r.at = "flag" => wired # {}
        /\ r.at \in Unit \cup {"answer"} /\ r.act # "flip" => (Shell \in r.on) \in seen[c]

WasOn(c) == TRUE \in seen[c] \/ (Installed = <<>> /\ wired = {})

\* A control panel that enables the shell layer and has had no error has a hook wired
\* when it comes to the flag, and has seen the layer on after that.
OnSeen(c) ==
    LET r == call[c]
    IN  r.act = "enable" =>
            /\ r.at = "act" /\ r.layers[1] = Shell /\ ~r.err =>
                   IF r.n = 1 THEN wired # {} \/ r.rcs # <<>> \/ Installed = <<>>
                   ELSE WasOn(c)
            /\ r.at \in Status => WasOn(c)

CallInv(c) ==
    /\ call[c] \in Call
    /\ WellFormed(c)
    /\ ShellSeen(c)
    /\ c \in Cli => OnSeen(c)

IInv ==
    /\ TypeOK
    /\ call \in [Caller -> Call]
    /\ \A c \in Caller : CallInv(c)

-----------------------------------------------------------------------------
(* Steps of calls.                                                         *)

\* The layers are a shell and units, and their lists are what they list.
LEMMA Lists ==
    /\ Unit \subseteq {"input", "audit"} /\ Units[1] \in Unit /\ Shell \notin Unit
    /\ Units \in Seq(Unit) /\ Len(Units) \in Nat \ {0}
    /\ Hooks \in Seq(Rc) /\ Hooks # <<>>
    /\ Installed \in Seq(Rc)
<1> USE LayerControlAssumption
<1>1. Unit \subseteq {"input", "audit"} /\ Units \in Seq(Unit) /\ Shell \notin Unit
  BY DEF Unit, Shell
<1>2. Units[1] \in Unit /\ Len(Units) \in Nat \ {0}
  BY DEF Unit
<1>3. Hooks \in Seq(Rc) /\ Hooks # <<>>
  BY DEF Rc
<1>4. Installed \in Seq(Rc)
  BY DEF Rc
<1>5. QED
  BY <1>1, <1>2, <1>3, <1>4

\* Hooks are only added, and only by a shell that is installed.
Grows ==
    /\ wired \subseteq wired' /\ wired' \subseteq Rc
    /\ Installed = <<>> => wired' = wired

\* The calls that a step leaves alone keep their invariant.
LEMMA OtherKept ==
    ASSUME NEW d \in Caller, IInv, Grows, Observe, call'[d] = call[d]
    PROVE  CallInv(d)'
<1> USE DEF IInv, CallInv
<1>1. call[d].at # "idle" /\ ~(d \in Web /\ call[d].at = "act") => seen[d] \subseteq seen'[d]
  BY DEF Observe
<1>2. WellFormed(d)'
  BY DEF WellFormed
<1>3. ShellSeen(d)'
  <2>1. call[d].at = "hooks" => FALSE \in seen'[d] \/ \E i \in DOMAIN call[d].rcs : call[d].rcs[i] \in wired'
    BY <1>1 DEF ShellSeen, Grows
  <2>2. call[d].at = "flag" => wired' # {}
    BY DEF ShellSeen, Grows
  <2>3. call[d].at \in Unit \cup {"answer"} /\ call[d].act # "flip" => (Shell \in call[d].on) \in seen'[d]
    BY <1>1, Lists DEF ShellSeen
  <2>4. QED
    BY <2>1, <2>2, <2>3 DEF ShellSeen
<1>4. ASSUME d \in Cli PROVE OnSeen(d)'
  <2>1. d \notin Web
    BY <1>4, LayerControlAssumption
  <2>2. ASSUME call[d].at # "idle", WasOn(d) PROVE WasOn(d)'
    BY <1>1, <2>1, <2>2 DEF WasOn, Grows
  <2>3. ASSUME call[d].act = "enable", call[d].at = "act", call[d].layers[1] = Shell,
               ~call[d].err
        PROVE  IF call[d].n = 1 THEN wired' # {} \/ call[d].rcs # <<>> \/ Installed = <<>>
               ELSE WasOn(d)'
    BY <1>4, <2>2, <2>3 DEF OnSeen, Grows
  <2>4. ASSUME call[d].act = "enable", call[d].at \in Status
        PROVE  WasOn(d)'
    BY <1>4, <2>2, <2>4, Lists DEF OnSeen, Status
  <2>5. QED
    BY <2>3, <2>4 DEF OnSeen
<1>5. QED
  BY <1>2, <1>3, <1>4

\* A status begins with all files ahead of it.
LEMMA ReadingKept ==
    ASSUME NEW c \in Caller, IInv, Grows, Observe, NEW act \in {"none", "enable", "flip"},
           call'[c] = Reading(act),
           c \in Cli /\ act = "enable" => WasOn(c)'
    PROVE  CallInv(c)'
<1> DEFINE r == Reading(act)
<1>1. /\ r \in Call
      /\ r.at = "hooks" /\ r.act = act /\ r.rcs = Hooks /\ r.on = {}
  <2>1. r = [at |-> "hooks", act |-> act, layers |-> <<>>, n |-> 1, rcs |-> Hooks,
             err |-> FALSE, on |-> {}]
    BY DEF Reading, Idle
  <2>2. <<>> \in Seq(Layer)
    OBVIOUS
  <2>3. r \in Call
    BY <2>1, <2>2, Lists DEF Call, Status
  <2>4. QED
    BY <2>1, <2>3
<1>2. seen'[c] = seen[c] \cup {ShellOn, Now(wired', flag')}
  BY <1>1 DEF Observe
<1>3. FALSE \in seen'[c] \/ \E i \in DOMAIN Hooks : Hooks[i] \in wired'
  <2>1. CASE wired' = {}
    BY <1>2, <2>1 DEF Now
  <2>2. CASE wired' # {}
    BY <2>2 DEF Grows, Rc
  <2>3. QED
    BY <2>1, <2>2
<1>4. WellFormed(c)'
  BY <1>1, Lists DEF WellFormed
<1>5. ShellSeen(c)'
  BY <1>1, <1>3, Lists DEF ShellSeen
<1>6. c \in Cli => OnSeen(c)'
  BY <1>1 DEF OnSeen
<1>7. QED
  BY <1>1, <1>4, <1>5, <1>6 DEF CallInv

\* A call that is done with a layer goes on to the next one, or to the status.
LEMMA ActingKept ==
    ASSUME NEW c \in Caller, IInv, Grows, Observe, NEW r \in Call,
           call'[c] = Acting(c, r), r.act \in {"enable", "disable"}, r.layers # <<>>,
           c \in Cli /\ r.act = "enable" /\ r.layers[1] = Shell /\ ~r.err =>
               r.n = 1 \/ WasOn(c)'
    PROVE  CallInv(c)'
<1>1. CASE r.n > Len(r.layers)
  <2>1. r.n # 1
    BY <1>1 DEF Call
  <2>2. PICK act \in {"none", "enable"} :
            Acting(c, r) = Reading(act) /\ (act = "enable" => Enabled(c, r))
    BY <1>1 DEF Acting
  <2>3. c \in Cli /\ act = "enable" => WasOn(c)'
    BY <2>1, <2>2 DEF Enabled
  <2>4. QED
    BY <2>2, <2>3, ReadingKept
<1>2. CASE ~(r.n > Len(r.layers))
  <2> DEFINE q == [r EXCEPT !.at = "act", !.rcs = ToWire(c, r)]
  <2>1. /\ q \in Call /\ call'[c] = q
        /\ q.at = "act" /\ q.act = r.act /\ q.layers = r.layers /\ q.n = r.n
        /\ q.err = r.err /\ q.rcs = ToWire(c, r)
    <3>1. ToWire(c, r) \in Seq(Rc)
      BY Lists DEF ToWire
    <3>2. QED
      BY <1>2, <3>1 DEF Acting, Call
  <2>2. r.n \in DOMAIN r.layers
    BY <1>2 DEF Call
  <2>3. WellFormed(c)'
    BY <2>1, <2>2 DEF WellFormed, ToWire
  <2>4. ShellSeen(c)'
    BY <2>1, Lists DEF ShellSeen
  <2>5. ASSUME c \in Cli PROVE OnSeen(c)'
    BY <2>1, <2>5, Lists DEF OnSeen, Status, ToWire
  <2>6. QED
    BY <2>1, <2>3, <2>4, <2>5 DEF CallInv
<1>3. QED
  BY <1>1, <1>2

\* A call that begins to act keeps the invariant, whatever it acts on.
LEMMA BegunKept ==
    ASSUME NEW c \in Caller, IInv, Grows, Observe, NEW act \in {"enable", "disable"},
           NEW layers \in Seq(Layer), layers # <<>>,
           call'[c] = Acting(c, [Idle EXCEPT !.act = act, !.layers = layers])
    PROVE  CallInv(c)'
<1> DEFINE q == [Idle EXCEPT !.act = act, !.layers = layers]
<1>1. Idle \in Call /\ Idle.n = 1
  <2>1. <<>> \in Seq(Layer) /\ <<>> \in Seq(Rc)
    OBVIOUS
  <2>2. QED
    BY <2>1 DEF Idle, Call
<1>2. q \in Call /\ q.n = 1 /\ q.layers = layers /\ q.act = act
  BY <1>1 DEF Call
<1>3. call'[c] = Acting(c, q)
  OBVIOUS
<1> HIDE DEF q
<1>4. QED
  BY <1>2, <1>3, ActingKept

\* Such a call has a next step.
LEMMA ActingAt ==
    ASSUME NEW c \in Caller, NEW r \in Call
    PROVE  Acting(c, r).at \in {"hooks", "act"}
BY DEF Acting, Reading, Idle, Call

\* What a call has seen it has seen until its next status, and so has a control panel
\* that the layer was on.
LEMMA SeenGrows ==
    ASSUME NEW c \in Caller, IInv, Grows, Observe,
           call'[c].at # "idle", c \in Web => call'[c].at # "act"
    PROVE  /\ seen'[c] = seen[c] \cup {ShellOn, Now(wired', flag')}
           /\ WasOn(c) => WasOn(c)'
BY DEF Observe, WasOn, Grows

\* After a layer the status looks at a unit or is complete.
LEMMA AfterType ==
    ASSUME NEW l \in Layer
    PROVE  After(l) \in Unit \cup {"answer"}
<1>1. CASE l = Shell
  BY <1>1, Lists DEF After
<1>2. CASE l # Shell
  <2> DEFINE k == CHOOSE j \in DOMAIN Units : Units[j] = l
  <2>1. k \in DOMAIN Units
    BY <1>2 DEF Layer, Unit
  <2>2. k # Len(Units) => Units[k + 1] \in Unit
    BY <2>1, Lists
  <2>3. QED
    BY <1>2, <2>2 DEF After
<1>3. QED
  BY <1>1, <1>2

\* A layer is read as on or off: of the shell layer either was seen.
LEMMA FoundKept ==
    ASSUME NEW c \in Caller, IInv, Grows, Observe, NEW l \in Layer, NEW isOn \in BOOLEAN,
           Found(c, l, isOn),
           \/ l \in Unit /\ call[c].at = l
           \/ l = Shell /\ call[c].at \in {"hooks", "flag"} /\ isOn \in seen'[c]
           \/ l = Shell /\ call[c].at \in {"hooks", "flag"} /\ call[c].act = "flip"
    PROVE  CallInv(c)'
<1> DEFINE r == call[c]
<1> USE DEF IInv
<1>0. r \in Call /\ CallInv(c)
  OBVIOUS
<1>1. CASE r.act = "flip"
  <2>1. PICK act \in {"enable", "disable"} :
            call'[c] = Acting(c, [Idle EXCEPT !.act = act, !.layers = <<l>>])
    BY <1>1 DEF Found, Becomes
  <2>2. <<l>> \in Seq(Layer) /\ <<l>> # <<>>
    OBVIOUS
  <2>3. QED
    BY <2>1, <2>2, BegunKept
<1>2. CASE r.act # "flip"
  <2> DEFINE q == [r EXCEPT !.at = After(l), !.rcs = <<>>,
                            !.on = IF isOn THEN @ \cup {l} ELSE @]
  <2>1. /\ call'[c] = q /\ q \in Call
        /\ q.at = After(l) /\ q.act = r.act
        /\ q.on = IF isOn THEN r.on \cup {l} ELSE r.on
    <3>1. call'[c] = q
      BY <1>2 DEF Found, Becomes
    <3>2. q \in Call
      <4>1. After(l) \in Unit \cup {"answer"} /\ <<>> \in Seq(Rc)
        BY AfterType
      <4>2. (IF isOn THEN r.on \cup {l} ELSE r.on) \in SUBSET Layer
        BY <1>0 DEF Call
      <4>3. QED
        BY <1>0, <4>1, <4>2 DEF Call, Status
    <3>3. QED
      BY <1>0, <3>1, <3>2 DEF Call
  <2>2. q.at \in Unit \cup {"answer"}
    BY <2>1, AfterType
  <2>3. /\ seen'[c] = seen[c] \cup {ShellOn, Now(wired', flag')}
        /\ WasOn(c) => WasOn(c)'
    BY <2>1, <2>2, Lists, SeenGrows
  <2>4. WellFormed(c)'
    BY <1>2, <2>1, <2>2, Lists DEF WellFormed
  <2>5. (Shell \in q.on) \in seen'[c]
    <3>1. CASE l \in Unit /\ r.at = l
      <4>1. (Shell \in r.on) \in seen[c]
        BY <1>0, <1>2, <3>1 DEF CallInv, ShellSeen
      <4>2. (Shell \in q.on) = (Shell \in r.on)
        BY <2>1, <3>1, Lists DEF Shell
      <4>3. QED
        BY <2>3, <4>1, <4>2
    <3>2. CASE l = Shell /\ r.at \in {"hooks", "flag"} /\ isOn \in seen'[c]
      <4>1. r.on = {}
        BY <1>0, <3>2 DEF CallInv, WellFormed
      <4>2. (Shell \in q.on) = isOn
        BY <2>1, <3>2, <4>1
      <4>3. QED
        BY <3>2, <4>2
    <3>3. QED
      BY <1>2, <3>1, <3>2
  <2>6. ShellSeen(c)'
    BY <2>1, <2>2, <2>5, Lists DEF ShellSeen
  <2>7. ASSUME c \in Cli PROVE OnSeen(c)'
    <3>1. r.act = "enable" => WasOn(c)
      BY <1>0, <2>7 DEF CallInv, OnSeen, Status
    <3>2. QED
      BY <2>1, <2>2, <2>3, <3>1, Lists DEF OnSeen
  <2>8. QED
    BY <2>1, <2>4, <2>6, <2>7 DEF CallInv
<1>3. QED
  BY <1>1, <1>2

-----------------------------------------------------------------------------
(* Invariance.                                                             *)

\* A call that is over promises nothing.
LEMMA IdleKept ==
    ASSUME NEW c \in Caller, call'[c] = Idle
    PROVE  CallInv(c)'
<1>1. <<>> \in Seq(Layer) /\ <<>> \in Seq(Rc)
  OBVIOUS
<1>2. Idle \in Call
  BY <1>1 DEF Idle, Call
<1>3. WellFormed(c)' /\ ShellSeen(c)' /\ OnSeen(c)'
  BY Lists DEF Idle, WellFormed, ShellSeen, OnSeen, Status
<1>4. QED
  BY <1>2, <1>3 DEF CallInv

\* The types of what is not a call, and the growth of the wired files.
LEMMA TypeKept ==
    ASSUME IInv, Next
    PROVE  TypeOK' /\ Grows /\ Observe
<1> USE DEF IInv, TypeOK, Grows
<1>1. Observe
  BY DEF Next, Poll, Toggle, Flip, Step, WireRc, RemoveFlag, CreateFlag, Systemctl,
         ReadHook, ReadFlag, ReadUnit, Answer
<1>2. seen' \in [Caller -> SUBSET BOOLEAN]
  <2>1. ShellOn \in BOOLEAN /\ Now(wired', flag') \in BOOLEAN
    BY DEF ShellOn, Now
  <2>2. QED
    BY <1>1, <2>1 DEF Observe
<1>3. PICK c \in Caller : Poll(c) \/ Toggle(c) \/ Flip(c) \/ Step(c)
  BY DEF Next
<1>4. CASE Poll(c) \/ Toggle(c) \/ Flip(c)
  <2>1. UNCHANGED <<wired, flag, up, shown>> /\ (toggles' = toggles \/ toggles' = toggles + 1)
    BY <1>4, Zenon DEF Poll, Toggle, Flip
  <2>2. QED
    BY <1>1, <1>2, <2>1
<1>5. CASE WireRc(c)
  <2>1. call[c] \in Call /\ call[c].rcs # <<>>
    BY <1>5 DEF WireRc
  <2>2. Head(call[c].rcs) \in Rc
    BY <2>1 DEF Call
  <2>3. Installed # <<>>
    BY <1>5 DEF WireRc, Acts, CallInv, WellFormed
  <2>4. QED
    BY <1>1, <1>2, <1>5, <2>2, <2>3 DEF WireRc
<1>6. CASE RemoveFlag(c) \/ CreateFlag(c)
  BY <1>1, <1>2, <1>6 DEF RemoveFlag, CreateFlag
<1>7. CASE Systemctl(c)
  BY <1>1, <1>2, <1>7 DEF Systemctl, Acts
<1>8. CASE ReadHook(c) \/ ReadFlag(c) \/ ReadUnit(c)
  BY <1>1, <1>2, <1>8 DEF ReadHook, ReadFlag, ReadUnit
<1>9. CASE Answer(c)
  BY <1>1, <1>2, <1>9 DEF Answer, Call
<1>10. QED
  BY <1>3, <1>4, <1>5, <1>6, <1>7, <1>8, <1>9 DEF Step

\* An enabling call that goes on from a layer has seen what it has to have seen.
LEMMA NextLayerKept ==
    ASSUME NEW c \in Caller, IInv, Grows, Observe, NEW failed \in BOOLEAN,
           call[c].at = "act", NextLayer(c, failed),
           \/ call[c].act # "enable"
           \/ call[c].layers[call[c].n] \in Unit
           \/ failed
           \/ call[c].rcs = <<>> /\ flag' = FALSE
    PROVE  CallInv(c)'
<1> DEFINE r == call[c]
           e == r.err \/ failed
           q == [r EXCEPT !.n = @ + 1, !.err = e]
<1>1. r \in Call /\ CallInv(c)
  BY DEF IInv
<1>2. q \in Call /\ q.n = r.n + 1 /\ q.layers = r.layers /\ q.act = r.act /\ q.err = e
  <2>1. e \in BOOLEAN
    BY <1>1 DEF Call
  <2> HIDE DEF e
  <2>2. r.n + 1 \in Nat \ {0}
    BY <1>1 DEF Call
  <2>3. q \in Call
    BY <1>1, <2>1, <2>2 DEF Call
  <2>4. q.n = r.n + 1 /\ q.layers = r.layers /\ q.act = r.act
    BY <1>1 DEF Call
  <2>5. q.err = e
    BY <1>1, Zenon DEF Call
  <2>6. QED
    BY <2>3, <2>4, <2>5
<1>3. ~q.err => ~r.err /\ ~failed
  BY <1>2
<1>4. call'[c] = Acting(c, q)
  BY DEF NextLayer, Becomes, IInv
<1>5. call'[c].at # "idle" /\ seen'[c] = IF c \in Web /\ call'[c].at = "act" THEN {}
                                         ELSE seen[c] \cup {ShellOn, Now(wired', flag')}
  BY <1>2, <1>4, ActingAt DEF Observe
<1>6. ASSUME c \in Cli, r.act = "enable", r.layers[1] = Shell, ~q.err
      PROVE  WasOn(c)'
  <2>1. seen'[c] = seen[c] \cup {ShellOn, Now(wired', flag')} /\ (WasOn(c) => WasOn(c)')
    BY <1>5, <1>6, LayerControlAssumption, SeenGrows
  <2>2. CASE r.n # 1
    BY <1>1, <1>3, <1>6, <2>1, <2>2 DEF CallInv, OnSeen
  <2>3. CASE r.n = 1
    <3>1. r.rcs = <<>> /\ flag' = FALSE
      BY <1>3, <1>6, <2>3, Lists
    <3>2. wired # {} \/ Installed = <<>>
      BY <1>1, <1>3, <1>6, <2>3, <3>1 DEF CallInv, OnSeen
    <3>3. CASE wired' # {}
      BY <2>1, <3>1, <3>3 DEF WasOn, Now
    <3>4. CASE wired' = {}
      BY <3>2, <3>4 DEF WasOn, Grows
    <3>5. QED
      BY <3>3, <3>4
  <2>4. QED
    BY <2>2, <2>3
<1>7. q.act \in {"enable", "disable"} /\ q.layers # <<>>
  BY <1>1, <1>2 DEF CallInv, WellFormed, Call
<1> HIDE DEF q
<1>8. QED
  BY <1>2, <1>4, <1>6, <1>7, ActingKept

\* A step keeps the invariant of the call it is of: the calls that begin.
LEMMA BeginKept ==
    ASSUME NEW c \in Caller, IInv, Grows, Observe, Poll(c) \/ Toggle(c) \/ Flip(c)
    PROVE  CallInv(c)'
<1> USE DEF IInv
<1>1. CASE Poll(c)
  <2>1. call'[c] = Reading("none")
    BY <1>1 DEF Poll, Becomes
  <2>2. QED
    BY <2>1, ReadingKept
<1>2. CASE Toggle(c)
  <2>1. PICK act \in {"enable", "disable"},
             layers \in {<<l>> : l \in Layer} \cup {<<Shell>> \o Units} :
            call'[c] = Acting(c, [Idle EXCEPT !.act = act, !.layers = layers])
    BY <1>2 DEF Toggle, Becomes
  <2>2. layers \in Seq(Layer) /\ layers # <<>>
    <3>1. ASSUME NEW l \in Layer, layers = <<l>>
          PROVE  layers \in Seq(Layer) /\ layers # <<>>
      BY <3>1
    <3>2. CASE layers = <<Shell>> \o Units
      <4>1. <<Shell>> \in Seq(Layer) /\ Units \in Seq(Layer)
        BY Lists DEF Layer
      <4>2. <<Shell>> \o Units \in Seq(Layer) /\ Len(<<Shell>> \o Units) = 1 + Len(Units)
        BY <4>1
      <4>3. QED
        BY <3>2, <4>1, <4>2, Lists
    <3>3. QED
      BY <2>1, <3>1, <3>2
  <2>3. QED
    BY <2>1, <2>2, BegunKept
<1>3. CASE Flip(c)
  <2>1. PICK l \in Layer : call'[c] = IF l = Shell THEN Reading("flip")
                                      ELSE [Idle EXCEPT !.at = l, !.act = "flip"]
    BY <1>3 DEF Flip, Becomes
  <2>2. CASE l = Shell
    <3>1. call'[c] = Reading("flip")
      BY <2>1, <2>2
    <3>2. QED
      BY <3>1, ReadingKept
  <2>3. CASE l # Shell
    <3>1. l \in Unit
      BY <2>3 DEF Layer
    <3>2. Idle \in Call
      <4>1. <<>> \in Seq(Layer) /\ <<>> \in Seq(Rc)
        OBVIOUS
      <4>2. QED
        BY <4>1 DEF Idle, Call
    <3>3. call'[c] \in Call /\ call'[c].at = l /\ call'[c].act = "flip"
      BY <2>1, <2>3, <3>1, <3>2 DEF Call, Status
    <3>4. WellFormed(c)' /\ ShellSeen(c)' /\ OnSeen(c)'
      BY <3>1, <3>3, Lists DEF WellFormed, ShellSeen, OnSeen
    <3>5. QED
      BY <3>3, <3>4 DEF CallInv
  <2>4. QED
    BY <2>2, <2>3
<1>4. QED
  BY <1>1, <1>2, <1>3

\* And the wiring of a file.
LEMMA WireRcKept ==
    ASSUME NEW c \in Caller, IInv, Grows, Observe, WireRc(c)
    PROVE  CallInv(c)'
<1> DEFINE r == call[c]
<1> USE DEF IInv
<1>1. r \in Call /\ CallInv(c) /\ r.at = "act" /\ r.act = "enable" /\ r.rcs # <<>>
  BY DEF WireRc, Acts
<1>2. Installed # <<>> /\ r.n \in DOMAIN r.layers
  BY <1>1 DEF CallInv, WellFormed
<1>3. PICK err \in BOOLEAN :
          /\ call'[c] = [r EXCEPT !.rcs = Tail(@), !.err = err]
          /\ ~err => ~r.err /\ wired' # {}
  <2>1. CASE call' = [call EXCEPT ![c] = [r EXCEPT !.rcs = Tail(@), !.err = TRUE]]
    BY <2>1
  <2>2. CASE wired' # {} /\ call' = [call EXCEPT ![c] = [r EXCEPT !.rcs = Tail(@)]]
    <3>1. r.err \in BOOLEAN /\ [r EXCEPT !.rcs = Tail(@)] = [r EXCEPT !.rcs = Tail(@), !.err = r.err]
      BY <1>1 DEF Call
    <3>2. QED
      BY <2>2, <3>1
  <2>3. QED
    BY <2>1, <2>2 DEF WireRc, Becomes
<1>4. /\ call'[c] \in Call /\ call'[c].at = "act" /\ call'[c].act = "enable"
      /\ call'[c].n = r.n /\ call'[c].layers = r.layers /\ call'[c].err = err
  <2>1. Tail(r.rcs) \in Seq(Rc)
    BY <1>1 DEF Call
  <2>2. QED
    BY <1>1, <1>3, <2>1 DEF Call
<1>5. WellFormed(c)' /\ ShellSeen(c)'
  BY <1>2, <1>4, Lists DEF WellFormed, ShellSeen
<1>6. ASSUME c \in Cli PROVE OnSeen(c)'
  <2>1. WasOn(c) => WasOn(c)'
    BY <1>4, <1>6, LayerControlAssumption, SeenGrows
  <2>2. ~err /\ r.layers[1] = Shell /\ r.n # 1 => WasOn(c)
    BY <1>1, <1>3, <1>6 DEF CallInv, OnSeen
  <2>3. QED
    BY <1>3, <1>4, <2>1, <2>2, Lists DEF OnSeen, Status
<1>7. QED
  BY <1>4, <1>5, <1>6 DEF CallInv

\* And the other steps that act.
LEMMA ActKept ==
    ASSUME NEW c \in Caller, IInv, Grows, Observe,
           RemoveFlag(c) \/ CreateFlag(c) \/ Systemctl(c)
    PROVE  CallInv(c)'
<1>1. CASE RemoveFlag(c)
  BY <1>1, NextLayerKept DEF RemoveFlag, Acts
<1>2. CASE CreateFlag(c)
  BY <1>2, NextLayerKept DEF CreateFlag, Acts
<1>3. CASE Systemctl(c)
  <2>1. /\ call[c].at = "act"
        /\ call[c].act # "enable" \/ call[c].layers[call[c].n] \in Unit
        /\ \E failed \in BOOLEAN : NextLayer(c, failed)
    BY <1>3 DEF Systemctl, Acts
  <2>2. QED
    BY <2>1, NextLayerKept
<1>4. QED
  BY <1>1, <1>2, <1>3

\* And the steps that read: a status that goes on from the last file has seen the
\* layer off, as no file ahead of it had the hook.
LEMMA ReadKept ==
    ASSUME NEW c \in Caller, IInv, Grows, Observe,
           ReadHook(c) \/ ReadFlag(c) \/ ReadUnit(c)
    PROVE  CallInv(c)'
<1> DEFINE r == call[c]
<1> USE DEF IInv
<1>0. r \in Call /\ CallInv(c)
  OBVIOUS
<1>1. CASE ReadFlag(c)
  <2>1. Found(c, Shell, ~flag) /\ r.at = "flag" /\ UNCHANGED <<wired, flag>>
    BY <1>1 DEF ReadFlag
  <2>2. (~flag) \in BOOLEAN /\ Shell \in Layer
    BY DEF Layer
  <2>3. CASE r.act = "flip"
    BY <2>1, <2>2, <2>3, FoundKept
  <2>4. CASE r.act # "flip"
    <3>1. call'[c].at \in Unit
      <4>1. call'[c].at = After(Shell)
        BY <1>0, <2>1, <2>4 DEF Found, Becomes, Call
      <4>2. QED
        BY <4>1, Lists DEF After
    <3>2. ShellOn = ~flag
      BY <1>0, <2>1 DEF CallInv, ShellSeen, ShellOn, Now
    <3>3. (~flag) \in seen'[c]
      BY <3>1, <3>2, Lists, SeenGrows
    <3>4. QED
      BY <2>1, <2>2, <3>3, FoundKept
  <2>5. QED
    BY <2>3, <2>4
<1>2. CASE ReadUnit(c)
  <2>1. r.at \in Unit /\ Found(c, r.at, r.at \in up) /\ (r.at \in up) \in BOOLEAN
    BY <1>2 DEF ReadUnit
  <2>2. QED
    BY <2>1, FoundKept DEF Layer
<1>3. CASE ReadHook(c)
  <2>1. r.at = "hooks" /\ r.rcs # <<>> /\ r.rcs \in Seq(Rc) /\ UNCHANGED <<wired, flag>>
    BY <1>0, <1>3 DEF ReadHook, CallInv, WellFormed, Call
  <2>2. FALSE \in seen[c] \/ \E i \in DOMAIN r.rcs : r.rcs[i] \in wired
    BY <1>0, <2>1 DEF CallInv, ShellSeen
  <2>3. c \in Cli => (r.act = "enable" => WasOn(c))
    BY <1>0, <2>1 DEF CallInv, OnSeen, Status
  <2>4. CASE Head(r.rcs) \in wired
    <3>1. call'[c] = [r EXCEPT !.at = "flag", !.rcs = <<>>]
      BY <1>3, <2>4 DEF ReadHook, Becomes
    <3>2. <<>> \in Seq(Rc)
      OBVIOUS
    <3>3. call'[c] \in Call /\ call'[c].at = "flag" /\ call'[c].act = r.act /\ call'[c].on = r.on
      BY <1>0, <3>1, <3>2 DEF Call, Status
    <3>4. WellFormed(c)' /\ ShellSeen(c)'
      BY <1>0, <2>1, <2>4, <3>3, Lists DEF WellFormed, ShellSeen, CallInv
    <3>5. WasOn(c) => WasOn(c)'
      BY <3>3, SeenGrows
    <3>6. c \in Cli => OnSeen(c)'
      BY <2>3, <3>3, <3>5 DEF OnSeen
    <3>7. QED
      BY <3>3, <3>4, <3>6 DEF CallInv
  <2>5. CASE Head(r.rcs) \notin wired /\ Tail(r.rcs) = <<>>
    <3>1. Found(c, Shell, FALSE) /\ Shell \in Layer
      BY <1>3, <2>5 DEF ReadHook, Layer
    <3>2. FALSE \in seen[c]
      <4>1. Len(r.rcs) \in Nat \ {0} /\ Len(Tail(r.rcs)) = Len(r.rcs) - 1
        BY <2>1
      <4>2. Len(r.rcs) = 1
        <5>1. Len(<<>>) = 0
          OBVIOUS
        <5>2. Len(Tail(r.rcs)) = 0
          BY <2>5, <5>1, Zenon
        <5> HIDE DEF r
        <5>3. QED
          BY <4>1, <5>2
      <4>3. \A i \in DOMAIN r.rcs : i = 1
        BY <2>1, <4>2
      <4>4. r.rcs[1] = Head(r.rcs)
        BY <2>1
      <4>5. QED
        BY <2>2, <2>5, <4>3, <4>4
    <3>3. CASE r.act = "flip"
      BY <2>1, <3>1, <3>3, FoundKept
    <3>4. CASE r.act # "flip"
      <4>1. call'[c].at \in Unit
        <5>1. call'[c].at = After(Shell)
          BY <1>0, <3>1, <3>4 DEF Found, Becomes, Call
        <5>2. QED
          BY <5>1, Lists DEF After
      <4>2. FALSE \in seen'[c]
        BY <3>2, <4>1, Lists, SeenGrows
      <4>3. QED
        BY <2>1, <3>1, <4>2, FoundKept
    <3>5. QED
      BY <3>3, <3>4
  <2>6. CASE Head(r.rcs) \notin wired /\ Tail(r.rcs) # <<>>
    <3>1. call'[c] = [r EXCEPT !.rcs = Tail(@)]
      BY <1>3, <2>6 DEF ReadHook, Becomes
    <3>2. Tail(r.rcs) \in Seq(Rc)
      BY <2>1
    <3>3. /\ call'[c] \in Call /\ call'[c].at = "hooks" /\ call'[c].act = r.act
          /\ call'[c].on = r.on /\ call'[c].rcs = Tail(r.rcs)
      BY <1>0, <2>1, <3>1, <3>2 DEF Call
    <3>4. seen[c] \subseteq seen'[c] /\ (WasOn(c) => WasOn(c)')
      BY <3>3, SeenGrows
    <3>5. FALSE \in seen'[c] \/ \E i \in DOMAIN Tail(r.rcs) : Tail(r.rcs)[i] \in wired'
      <4>1. ASSUME NEW i \in DOMAIN r.rcs, r.rcs[i] \in wired
            PROVE  \E j \in DOMAIN Tail(r.rcs) : Tail(r.rcs)[j] \in wired'
        <5>1. i # 1
          BY <2>1, <2>6, <4>1
        <5>2. i - 1 \in DOMAIN Tail(r.rcs) /\ Tail(r.rcs)[i - 1] = r.rcs[i]
          BY <2>1, <5>1
        <5>3. QED
          BY <2>1, <4>1, <5>2
      <4>2. QED
        BY <2>2, <3>4, <4>1
    <3>6. WellFormed(c)' /\ ShellSeen(c)'
      BY <1>0, <2>1, <2>6, <3>3, <3>5, Lists DEF WellFormed, ShellSeen, CallInv
    <3>7. c \in Cli => OnSeen(c)'
      BY <2>3, <3>3, <3>4 DEF OnSeen
    <3>8. QED
      BY <3>3, <3>6, <3>7 DEF CallInv
  <2>7. QED
    BY <2>4, <2>5, <2>6
<1>4. QED
  BY <1>1, <1>2, <1>3

\* Every step keeps the invariant.
LEMMA NextKept ==
    ASSUME IInv, [Next]_vars
    PROVE  IInv'
<1>1. CASE UNCHANGED vars
  BY <1>1 DEF vars, IInv, TypeOK, CallInv, WellFormed, ShellSeen, OnSeen, WasOn, Call
<1>2. CASE Next
  <2>1. TypeOK' /\ Grows /\ Observe
    BY <1>2, TypeKept
  <2>2. PICK c \in Caller : Poll(c) \/ Toggle(c) \/ Flip(c) \/ Step(c)
    BY <1>2 DEF Next
  <2>3. ASSUME Answer(c) PROVE CallInv(c)'
    <3>1. call'[c] = Idle
      BY <2>3 DEF Answer, Becomes, IInv
    <3>2. QED
      BY <3>1, IdleKept
  <2>4. CallInv(c)'
    BY <1>2, <2>1, <2>2, <2>3, BeginKept, WireRcKept, ActKept, ReadKept DEF Step
  <2>5. PICK q : call' = [call EXCEPT ![c] = q]
    BY <2>2 DEF Poll, Toggle, Flip, Step, WireRc, RemoveFlag, CreateFlag, Systemctl,
                ReadHook, ReadFlag, ReadUnit, Answer, NextLayer, Found, Becomes
  <2>6. ASSUME NEW d \in Caller PROVE CallInv(d)'
    <3>1. CASE d = c
      BY <2>4, <3>1
    <3>2. CASE d # c
      <4>1. call'[d] = call[d]
        BY <2>5, <3>2 DEF IInv
      <4>2. QED
        BY <1>2, <2>1, <4>1, OtherKept
    <3>3. QED
      BY <3>1, <3>2
  <2>7. call' \in [Caller -> Call]
    BY <2>4, <2>5 DEF IInv, CallInv
  <2>8. QED
    BY <2>1, <2>6, <2>7 DEF IInv
<1>3. QED
  BY <1>1, <1>2

\* The initial states satisfy the invariant.
LEMMA InitIInv == Init => IInv
<1> SUFFICES ASSUME Init PROVE IInv
  OBVIOUS
<1>1. <<>> \in Seq(Layer) /\ <<>> \in Seq(Rc)
  OBVIOUS
<1>2. Idle \in Call
  BY <1>1 DEF Idle, Call
<1>3. TypeOK
  BY DEF Init, TypeOK
<1>4. ASSUME NEW c \in Caller PROVE CallInv(c)
  <2>1. call[c] = Idle
    BY DEF Init
  <2>2. WellFormed(c) /\ ShellSeen(c) /\ OnSeen(c)
    BY <2>1, Lists DEF Idle, WellFormed, ShellSeen, OnSeen, Status
  <2>3. QED
    BY <1>2, <2>1, <2>2 DEF CallInv
<1>5. QED
  BY <1>2, <1>3, <1>4 DEF IInv, Init

-----------------------------------------------------------------------------
(* The theorems.                                                           *)

\* The inductive invariant: what a status will say of the shell layer, and that an
\* enabling had it on, was seen since the call began (shellOn, enableShell).
THEOREM Invariance == Spec => []IInv
<1>1. IInv /\ [Next]_vars => IInv'
  BY NextKept
<1>2. QED
  BY <1>1, InitIInv, PTL DEF Spec

\* What status and the menu say of the shell layer held at some time since they began
\* to look, for any number of panels, requests, units and toggles.
THEOREM ShellAnswersHold == Spec => []ShellAnswerTrue
<1>1. IInv => ShellAnswerTrue
  BY DEF IInv, CallInv, WellFormed, ShellSeen, ShellAnswerTrue
<1>2. QED
  BY <1>1, Invariance, PTL

\* An enabling of the shell layer that ends without an error had it on, for any number
\* of panels, requests and toggles.
THEOREM EnablingWorks == Spec => []EnableWasOn
<1>1. IInv => EnableWasOn
  BY DEF IInv, CallInv, OnSeen, WasOn, Status, EnableWasOn, Caller
<1>2. QED
  BY <1>1, Invariance, PTL

-----------------------------------------------------------------------------
(* The timeline.                                                           *)

Reports == [at : {"idle", "read", "seek", "answer"}, by : {"web", "cli"}, f : File,
            size : Nat, t0 : Nat, rows : SUBSET Nat, left : SUBSET (File \ {"buffer"}),
            asked : SUBSET Nat, due : SUBSET Nat, missed : SUBSET File, cut : BOOLEAN]

\* No record is logged twice.
NoTwice ==
    \A f \in File : \A i \in DOMAIN log[f] : \A j \in DOMAIN log["buffer"] :
        log[f][i] = log["buffer"][j] => f = "buffer" /\ i = j

\* What a report looks for and what it has was logged.
LogsOK ==
    /\ log \in [File -> Seq(Nat)] /\ used \subseteq Nat
    /\ \A f \in File : \A i \in DOMAIN log[f] : log[f][i] \in used
    /\ report \in Reports
    /\ report.due \cup report.asked \cup report.rows \subseteq used

\* The prompts that a report is about to read.
Prompted == LastOf(TailOf(log["buffer"]), Prompts)

\* It looks for the prompts first, and on the web it will read those it is asked for.
AskedInv ==
    report.at = "read" /\ report.f = "buffer" /\ ~report.cut =>
        /\ report.size \in 0..Len(log["buffer"])
        /\ report.by = "web" => report.asked = Range(Prompted)
        /\ report.left = File \ {"buffer"}
        /\ report.rows = {}

Later == report.at = "seek" \/ (report.at = "read" /\ report.f # "buffer")

\* It has the prompts, the first of them is where it starts, and it has what is due of
\* the logs that it is done with.
RowsInv ==
    Later /\ ~report.cut =>
        /\ HasPrompts
        /\ FirstShown(report.t0)
        /\ \A f \in File \ ({"buffer"} \cup report.left \cup report.missed) :
              (f = report.f /\ report.at = "read") \/ HasSince(report.t0, f)

\* What is due of the log that it reads was there when it looked for the end.
SizeInv ==
    report.at = "read" /\ report.f # "buffer" /\ ~report.cut =>
        /\ report.size \in 0..Len(log[report.f])
        /\ \A i \in DOMAIN log[report.f] : log[report.f][i] \in report.due => i <= report.size

ReportInv == LogsOK /\ NoTwice /\ AskedInv /\ RowsInv /\ SizeInv /\ ReportComplete

\* A part of a log.
LEMMA Part ==
    ASSUME NEW s \in Seq(Nat), NEW m \in Nat \ {0}, NEW n \in 0..Len(s)
    PROVE  /\ SubSeq(s, m, n) \in Seq(Nat)
           /\ Len(SubSeq(s, m, n)) = IF m <= n THEN n - m + 1 ELSE 0
           /\ \A i \in 1..n - m + 1 : SubSeq(s, m, n)[i] = s[m + i - 1]
<1>1. \A i \in m..n : s[i] \in Nat
  OBVIOUS
<1>2. QED
  BY <1>1, SubSeqProperties

\* The last records of a log are those that come late enough in it.
LEMMA LastOfIs ==
    ASSUME NEW s \in Seq(Nat), NEW n \in Nat \ {0}
    PROVE  /\ LastOf(s, n) \in Seq(Nat)
           /\ Range(LastOf(s, n)) = {s[i] : i \in {j \in DOMAIN s : j > Len(s) - n}}
<1>1. CASE Len(s) <= n
  <2>1. LastOf(s, n) = s
    BY <1>1 DEF LastOf
  <2>2. \A j \in DOMAIN s : j > Len(s) - n
    BY <1>1
  <2>3. QED
    BY <2>1, <2>2 DEF Range
<1>2. CASE Len(s) > n
  <2> DEFINE m == Len(s) - n + 1
             t == SubSeq(s, m, Len(s))
  <2>1. LastOf(s, n) = t
    BY <1>2 DEF LastOf
  <2>2. m \in Nat \ {0} /\ m <= Len(s) /\ Len(s) - m + 1 = n /\ Len(s) \in 0..Len(s)
    BY <1>2
  <2>3. /\ t \in Seq(Nat) /\ Len(t) = n
        /\ \A i \in 1..n : t[i] = s[m + i - 1]
    BY <2>2, Part
  <2>4. ASSUME NEW j \in DOMAIN s, j > Len(s) - n
        PROVE  s[j] \in Range(t)
    <3>1. j - m + 1 \in 1..n /\ m + (j - m + 1) - 1 = j
      BY <2>2, <2>4
    <3> HIDE DEF m, t
    <3>2. QED
      BY <2>3, <3>1 DEF Range
  <2>5. ASSUME NEW i \in 1..n
        PROVE  \E j \in DOMAIN s : j > Len(s) - n /\ t[i] = s[j]
    <3>1. m + i - 1 \in DOMAIN s /\ m + i - 1 > Len(s) - n
      BY <2>2
    <3>2. QED
      BY <2>3, <3>1
  <2>6. DOMAIN t = 1..n
    BY <2>3
  <2> HIDE DEF t
  <2> DEFINE R == {s[i] : i \in {j \in DOMAIN s : j > Len(s) - n}}
  <2>7. Range(t) \subseteq R
    BY <2>5, <2>6 DEF Range
  <2>8. R \subseteq Range(t)
    BY <2>4
  <2>9. Range(t) = R
    BY <2>7, <2>8, Zenon
  <2>10. QED
    BY <2>1, <2>3, <2>9, Zenon
<1>3. QED
  BY <1>1, <1>2

\* A window that ends where the log ends holds its last records.
LEMMA TailToAll ==
    ASSUME NEW s \in Seq(Nat)
    PROVE  TailTo(s, Len(s)) = LastOf(s, Window)
<1>1. Len(s) <= Window => SubSeq(s, 1, Len(s)) = s
  BY SubSeqFull
<1>2. QED
  BY <1>1 DEF TailTo, LastOf

\* A piece of a log: some records of it that follow each other.
Piece(t, s) ==
    \E k \in Nat \ {0} : \A i \in 1..Len(t) : k + i - 1 \in DOMAIN s /\ t[i] = s[k + i - 1]

LEMMA PartIsPiece ==
    ASSUME NEW s \in Seq(Nat), NEW m \in Nat \ {0}, NEW n \in 0..Len(s)
    PROVE  SubSeq(s, m, n) \in Seq(Nat) /\ Piece(SubSeq(s, m, n), s)
<1> DEFINE t == SubSeq(s, m, n)
<1>1. /\ t \in Seq(Nat) /\ Len(t) = IF m <= n THEN n - m + 1 ELSE 0
      /\ \A i \in 1..n - m + 1 : t[i] = s[m + i - 1]
  BY Part
<1> HIDE DEF t
<1>2. \A i \in 1..Len(t) : m + i - 1 \in DOMAIN s /\ t[i] = s[m + i - 1]
  BY <1>1
<1>3. QED
  BY <1>1, <1>2 DEF Piece, t

LEMMA LastOfIsPiece ==
    ASSUME NEW s \in Seq(Nat), NEW n \in Nat \ {0}
    PROVE  LastOf(s, n) \in Seq(Nat) /\ Piece(LastOf(s, n), s)
<1>1. CASE Len(s) <= n
  <2>1. LastOf(s, n) = s
    BY <1>1 DEF LastOf
  <2>2. \A i \in 1..Len(s) : 1 + i - 1 \in DOMAIN s /\ s[i] = s[1 + i - 1]
    OBVIOUS
  <2>3. QED
    BY <2>1, <2>2 DEF Piece
<1>2. CASE Len(s) > n
  <2>1. LastOf(s, n) = SubSeq(s, Len(s) - n + 1, Len(s))
    BY <1>2 DEF LastOf
  <2>2. Len(s) - n + 1 \in Nat \ {0} /\ Len(s) \in 0..Len(s)
    BY <1>2
  <2>3. QED
    BY <2>1, <2>2, PartIsPiece
<1>3. QED
  BY <1>1, <1>2

LEMMA PieceOfPiece ==
    ASSUME NEW s \in Seq(Nat), NEW t \in Seq(Nat), NEW u \in Seq(Nat),
           Piece(t, s), Piece(u, t)
    PROVE  Piece(u, s)
<1>1. PICK k \in Nat \ {0} : \A i \in 1..Len(t) : k + i - 1 \in DOMAIN s /\ t[i] = s[k + i - 1]
  BY DEF Piece
<1>2. PICK m \in Nat \ {0} : \A i \in 1..Len(u) : m + i - 1 \in DOMAIN t /\ u[i] = t[m + i - 1]
  BY DEF Piece
<1>3. ASSUME NEW i \in 1..Len(u)
      PROVE  (k + m - 1) + i - 1 \in DOMAIN s /\ u[i] = s[(k + m - 1) + i - 1]
  <2> DEFINE j == m + i - 1
  <2>1. j \in 1..Len(t) /\ u[i] = t[j]
    BY <1>2
  <2>2. k + j - 1 \in DOMAIN s /\ t[j] = s[k + j - 1]
    BY <1>1, <2>1
  <2>3. (k + m - 1) + i - 1 = k + j - 1
    OBVIOUS
  <2>4. QED
    BY <2>1, <2>2, <2>3
<1>4. k + m - 1 \in Nat \ {0}
  OBVIOUS
<1>5. QED
  BY <1>3, <1>4 DEF Piece

\* In a log without duplicates nothing of a piece comes before its first record.
LEMMA FirstOfPiece ==
    ASSUME NEW s \in Seq(Nat), NEW t \in Seq(Nat), Piece(t, s),
           \A i, j \in DOMAIN s : s[i] = s[j] => i = j
    PROVE  /\ Range(t) \subseteq Range(s)
           /\ t # <<>> => /\ t[1] \in Range(t)
                          /\ \E k \in DOMAIN s :
                                s[k] = t[1] /\ \A j \in 1..k - 1 : s[j] \notin Range(t)
<1>1. PICK k \in Nat \ {0} : \A i \in 1..Len(t) : k + i - 1 \in DOMAIN s /\ t[i] = s[k + i - 1]
  BY DEF Piece
<1>2. DOMAIN t = 1..Len(t)
  OBVIOUS
<1>3. Range(t) \subseteq Range(s)
  BY <1>1, <1>2 DEF Range
<1>4. ASSUME t # <<>>
      PROVE  /\ t[1] \in Range(t)
             /\ k \in DOMAIN s /\ s[k] = t[1]
             /\ \A j \in 1..k - 1 : s[j] \notin Range(t)
  <2>1. 1 \in 1..Len(t)
    BY <1>4
  <2>2. t[1] \in Range(t)
    BY <1>2, <2>1 DEF Range
  <2>3. k \in DOMAIN s /\ s[k] = t[1]
    BY <1>1, <2>1
  <2>4. ASSUME NEW j \in 1..k - 1, NEW i \in 1..Len(t), s[j] = t[i]
        PROVE  FALSE
    <3>1. j \in DOMAIN s /\ k + i - 1 \in DOMAIN s /\ s[j] = s[k + i - 1]
      BY <1>1, <2>3, <2>4
    <3>2. j = k + i - 1
      BY <3>1
    <3>3. QED
      BY <3>2
  <2>5. QED
    BY <1>2, <2>2, <2>3, <2>4 DEF Range
<1>5. QED
  BY <1>3, <1>4

\* What is read of a log is a piece of it.
LEMMA TailsArePieces ==
    ASSUME NEW s \in Seq(Nat), report \in Reports
    PROVE  TailOf(s) \in Seq(Nat) /\ Piece(TailOf(s), s)
<1> DEFINE n == report.size
           m == IF n <= Window THEN 1 ELSE n - Window + 1
           to == IF Len(s) < n THEN Len(s) ELSE n
<1>1. n \in Nat /\ Window \in Nat \ {0}
  BY LogViewsAssumption DEF Reports
<1> HIDE DEF n
<1>2. m \in Nat \ {0} /\ to \in 0..Len(s) /\ Len(s) \in 0..Len(s)
  BY <1>1
<1>3. TailTo(s, n) = SubSeq(s, m, to)
  BY Zenon DEF TailTo
<1>4. TailFrom(s, n) = LastOf(SubSeq(s, m, Len(s)), Window)
  BY Zenon DEF TailFrom
<1> HIDE DEF m, to
<1>5. TailTo(s, n) \in Seq(Nat) /\ Piece(TailTo(s, n), s)
  BY <1>2, <1>3, PartIsPiece
<1>6. TailFrom(s, n) \in Seq(Nat) /\ Piece(TailFrom(s, n), s)
  <2> DEFINE t == SubSeq(s, m, Len(s))
  <2>1. t \in Seq(Nat) /\ Piece(t, s)
    BY <1>2, PartIsPiece
  <2> HIDE DEF t
  <2>2. LastOf(t, Window) \in Seq(Nat) /\ Piece(LastOf(t, Window), t)
    BY <1>1, <2>1, LastOfIsPiece
  <2>3. Piece(LastOf(t, Window), s)
    BY <2>1, <2>2, PieceOfPiece
  <2>4. QED
    BY <1>4, <2>2, <2>3 DEF t
<1>7. TailOf(s) = TailTo(s, n) \/ TailOf(s) = TailFrom(s, n)
  BY DEF TailOf, n
<1>8. QED
  BY <1>5, <1>6, <1>7

\* A window that ends where the log ends holds its last records, wherever the reader
\* has looked up the end before.
LEMMA TailFromAll ==
    ASSUME NEW s \in Seq(Nat), NEW n \in 0..Len(s)
    PROVE  TailFrom(s, n) = LastOf(s, Window)
<1> DEFINE m == IF n <= Window THEN 1 ELSE n - Window + 1
           t == SubSeq(s, m, Len(s))
<1>1. Window \in Nat \ {0} /\ m \in Nat \ {0} /\ m <= Len(s) + 1 /\ Len(s) \in 0..Len(s)
  BY LogViewsAssumption
<1>2. TailFrom(s, n) = LastOf(t, Window)
  BY Zenon DEF TailFrom
<1>3. m = 1 \/ Len(s) - m + 1 >= Window
  BY <1>1
<1> HIDE DEF m
<1>4. CASE m = 1
  <2>1. t = s
    BY <1>4, SubSeqFull
  <2>2. QED
    BY <1>2, <2>1
<1>5. CASE Len(s) - m + 1 >= Window
  <2>1. /\ t \in Seq(Nat) /\ Len(t) = Len(s) - m + 1
        /\ \A i \in 1..Len(s) - m + 1 : t[i] = s[m + i - 1]
    BY <1>1, <1>5, Part
  <2> HIDE DEF t
  <2> DEFINE a == SubSeq(t, Len(t) - Window + 1, Len(t))
             b == SubSeq(s, Len(s) - Window + 1, Len(s))
  <2>2. LastOf(t, Window) = a
    <3>1. Len(t) <= Window => a = t
      <4>1. Len(t) <= Window => Len(t) - Window + 1 = 1
        BY <1>1, <1>5, <2>1
      <4>2. SubSeq(t, 1, Len(t)) = t
        BY <2>1, SubSeqFull
      <4>3. QED
        BY <4>1, <4>2
    <3>2. QED
      BY <3>1 DEF LastOf
  <2>3. LastOf(s, Window) = b
    <3>1. Len(s) <= Window => b = s
      <4>1. Len(s) <= Window => Len(s) - Window + 1 = 1
        BY <1>1, <1>5
      <4>2. SubSeq(s, 1, Len(s)) = s
        BY SubSeqFull
      <4>3. QED
        BY <4>1, <4>2
    <3>2. QED
      BY <3>1 DEF LastOf
  <2>4. /\ a \in Seq(Nat) /\ Len(a) = Window
        /\ \A i \in 1..Window : a[i] = t[Len(t) - Window + i]
    <3>1. Len(t) - Window + 1 \in Nat \ {0} /\ Len(t) \in 0..Len(t)
          /\ Len(t) - Window + 1 <= Len(t) /\ Len(t) - (Len(t) - Window + 1) + 1 = Window
      BY <1>1, <1>5, <2>1
    <3>2. /\ a \in Seq(Nat) /\ Len(a) = Window
          /\ \A i \in 1..Window : a[i] = t[(Len(t) - Window + 1) + i - 1]
      BY <2>1, <3>1, Part
    <3>3. \A i \in 1..Window : (Len(t) - Window + 1) + i - 1 = Len(t) - Window + i
      BY <1>1, <2>1
    <3> HIDE DEF a
    <3>4. QED
      BY <3>2, <3>3
  <2>5. /\ b \in Seq(Nat) /\ Len(b) = Window
        /\ \A i \in 1..Window : b[i] = s[Len(s) - Window + i]
    <3>1. Len(s) - Window + 1 \in Nat \ {0}
          /\ Len(s) - Window + 1 <= Len(s) /\ Len(s) - (Len(s) - Window + 1) + 1 = Window
      BY <1>1, <1>5
    <3>2. /\ b \in Seq(Nat) /\ Len(b) = Window
          /\ \A i \in 1..Window : b[i] = s[(Len(s) - Window + 1) + i - 1]
      BY <1>1, <3>1, Part
    <3>3. \A i \in 1..Window : (Len(s) - Window + 1) + i - 1 = Len(s) - Window + i
      BY <1>1
    <3> HIDE DEF b
    <3>4. QED
      BY <3>2, <3>3
  <2> HIDE DEF a, b
  <2>6. ASSUME NEW i \in 1..Window PROVE a[i] = b[i]
    <3> DEFINE j == Len(t) - Window + i
    <3>1. j \in 1..Len(s) - m + 1 /\ m + j - 1 = Len(s) - Window + i
      BY <1>1, <1>5, <2>1
    <3>2. t[j] = s[m + j - 1]
      BY <2>1, <3>1
    <3>3. QED
      BY <2>4, <2>5, <3>1, <3>2
  <2>7. a = b
    BY <2>4, <2>5, <2>6, SeqEqual
  <2>8. QED
    BY <1>2, <2>2, <2>3, <2>7
<1>6. QED
  BY <1>3, <1>4, <1>5

\* What is appended behind its end does not change a window.
LEMMA TailToAppend ==
    ASSUME NEW s \in Seq(Nat), NEW e \in Nat, NEW n \in 0..Len(s)
    PROVE  TailTo(Append(s, e), n) = TailTo(s, n)
<1> DEFINE m == IF n <= Window THEN 1 ELSE n - Window + 1
           t == Append(s, e)
<1>1. m \in Nat \ {0}
  BY LogViewsAssumption
<1>2. t \in Seq(Nat) /\ Len(t) = Len(s) + 1 /\ n \in 0..Len(t) /\ \A i \in 1..n : t[i] = s[i]
  OBVIOUS
<1>3. TailTo(t, n) = SubSeq(t, m, n) /\ TailTo(s, n) = SubSeq(s, m, n)
  <2>1. ~(Len(t) < n) /\ ~(Len(s) < n)
    BY <1>2
  <2>2. QED
    BY <2>1, Zenon DEF TailTo
<1> HIDE DEF m, t
<1>4. \A i \in 1..n - m + 1 : SubSeq(t, m, n)[i] = SubSeq(s, m, n)[i]
  <2> SUFFICES ASSUME NEW i \in 1..n - m + 1 PROVE SubSeq(t, m, n)[i] = SubSeq(s, m, n)[i]
    OBVIOUS
  <2>1. m + i - 1 \in 1..n
    BY <1>1
  <2>2. SubSeq(t, m, n)[i] = t[m + i - 1] /\ SubSeq(s, m, n)[i] = s[m + i - 1]
    BY <1>1, <1>2, Part
  <2>3. QED
    BY <1>2, <2>1, <2>2
<1>5. SubSeq(t, m, n) = SubSeq(s, m, n)
  <2>1. SubSeq(t, m, n) \in Seq(Nat) /\ Len(SubSeq(t, m, n)) = IF m <= n THEN n - m + 1 ELSE 0
    BY <1>1, <1>2, Part
  <2>2. SubSeq(s, m, n) \in Seq(Nat) /\ Len(SubSeq(s, m, n)) = IF m <= n THEN n - m + 1 ELSE 0
    BY <1>1, Part
  <2>3. \A i \in 1..Len(SubSeq(t, m, n)) : SubSeq(t, m, n)[i] = SubSeq(s, m, n)[i]
    BY <1>1, <1>4, <2>1
  <2>4. QED
    BY <2>1, <2>2, <2>3, SeqEqual
<1>6. QED
  BY <1>3, <1>5 DEF t

\* A window holds what comes late enough before its end.
LEMMA TailToHas ==
    ASSUME NEW s \in Seq(Nat), NEW n \in 0..Len(s), NEW i \in 1..n, i > n - Window
    PROVE  s[i] \in Range(TailTo(s, n))
<1> DEFINE m == IF n <= Window THEN 1 ELSE n - Window + 1
           t == SubSeq(s, m, n)
<1>1. m \in Nat \ {0} /\ m <= i /\ i <= n
  BY LogViewsAssumption
<1>2. TailTo(s, n) = t
  <2>1. ~(Len(s) < n)
    OBVIOUS
  <2>2. QED
    BY <2>1, Zenon DEF TailTo
<1> HIDE DEF m
<1>3. t \in Seq(Nat) /\ Len(t) = n - m + 1 /\ \A j \in 1..n - m + 1 : t[j] = s[m + j - 1]
  BY <1>1, Part
<1>4. i - m + 1 \in 1..n - m + 1 /\ m + (i - m + 1) - 1 = i
  BY <1>1
<1> HIDE DEF t
<1>5. i - m + 1 \in DOMAIN t /\ t[i - m + 1] = s[i]
  BY <1>3, <1>4
<1>6. QED
  BY <1>2, <1>5 DEF Range

\* A record that is appended adds itself to the last ones, and nothing else.
LEMMA LastOfAppend ==
    ASSUME NEW s \in Seq(Nat), NEW e \in Nat, NEW n \in Nat \ {0},
           NEW x \in Range(LastOf(Append(s, e), n)), x # e
    PROVE  x \in Range(LastOf(s, n))
<1> DEFINE t == Append(s, e)
<1>1. /\ t \in Seq(Nat) /\ Len(t) = Len(s) + 1 /\ t[Len(s) + 1] = e
      /\ \A i \in 1..Len(s) : t[i] = s[i]
  OBVIOUS
<1>2. x \in Range(LastOf(t, n))
  OBVIOUS
<1> HIDE DEF t
<1>3. PICK i \in DOMAIN t : i > Len(t) - n /\ x = t[i]
  <2>1. Range(LastOf(t, n)) = {t[i] : i \in {j \in DOMAIN t : j > Len(t) - n}}
    BY <1>1, LastOfIs
  <2>2. QED
    BY <1>2, <2>1
<1>4. i \in DOMAIN s /\ i > Len(s) - n /\ x = s[i]
  BY <1>1, <1>3
<1>5. QED
  BY <1>4, LastOfIs

\* The last prompts are those that come late enough in their log, and a record that is
\* appended adds itself to them and nothing else.
LEMMA PromptsOfIs ==
    ASSUME NEW s \in Seq(Nat)
    PROVE  Range(PromptsOf(s)) =
               {s[i] : i \in {j \in DOMAIN s : j > Len(s) - Prompts /\ j > Len(s) - Window}}
<1> DEFINE t == LastOf(s, Window)
<1>1. Window \in Nat \ {0} /\ Prompts \in Nat \ {0}
  BY LogViewsAssumption
<1> DEFINE k == IF Len(s) <= Window THEN 0 ELSE Len(s) - Window
<1>2. /\ k \in Nat /\ Len(s) \in Nat
      /\ Len(s) <= Window => k = 0
      /\ Len(s) > Window => k = Len(s) - Window
  BY <1>1
<1> HIDE DEF k
<1>3. t \in Seq(Nat) /\ Len(t) = Len(s) - k /\ \A i \in 1..Len(s) - k : t[i] = s[k + i]
  <2>1. CASE Len(s) <= Window
    BY <1>2, <2>1 DEF LastOf
  <2>2. CASE Len(s) > Window
    <3>1. t = SubSeq(s, k + 1, Len(s))
      <4>1. t = SubSeq(s, Len(s) - Window + 1, Len(s))
        BY <1>1, <2>2 DEF LastOf
      <4>2. QED
        BY <1>2, <2>2, <4>1
    <3>2. k + 1 \in Nat \ {0} /\ k + 1 <= Len(s) /\ Len(s) \in 0..Len(s)
      BY <1>1, <1>2, <2>2
    <3>3. /\ SubSeq(s, k + 1, Len(s)) \in Seq(Nat)
          /\ Len(SubSeq(s, k + 1, Len(s))) = Len(s) - (k + 1) + 1
          /\ \A i \in 1..Len(s) - (k + 1) + 1 :
                SubSeq(s, k + 1, Len(s))[i] = s[(k + 1) + i - 1]
      BY <3>2, Part
    <3>4. Len(s) - (k + 1) + 1 = Len(s) - k /\ \A i \in Nat : (k + 1) + i - 1 = k + i
      BY <1>2, <3>2
    <3> HIDE DEF t
    <3>5. ASSUME NEW i \in 1..Len(s) - k PROVE t[i] = s[k + i]
      <4>1. i \in Nat /\ i \in 1..Len(s) - (k + 1) + 1
        BY <1>2, <3>4
      <4>2. t[i] = s[(k + 1) + i - 1]
        BY <3>1, <3>3, <4>1
      <4>3. QED
        BY <3>4, <4>1, <4>2
    <3>6. QED
      BY <3>1, <3>3, <3>4, <3>5
  <2>3. QED
    BY <1>1, <2>1, <2>2
<1> HIDE DEF t
<1>4. Range(LastOf(t, Prompts)) = {t[i] : i \in {j \in DOMAIN t : j > Len(t) - Prompts}}
  BY <1>1, <1>3, LastOfIs
<1>5. ASSUME NEW i \in DOMAIN t, i > Len(t) - Prompts
      PROVE  k + i \in DOMAIN s /\ k + i > Len(s) - Prompts /\ k + i > Len(s) - Window
             /\ t[i] = s[k + i]
  <2>1. i \in 1..Len(s) - k
    BY <1>3
  <2>2. t[i] = s[k + i]
    BY <1>3, <2>1
  <2>3. k + i \in 1..Len(s) /\ k + i > Len(s) - Prompts
    <3>1. i > (Len(s) - k) - Prompts
      BY <1>3, <1>5
    <3>2. QED
      BY <1>1, <1>2, <2>1, <3>1
  <2>4. k + i > Len(s) - Window
    BY <1>1, <1>2, <2>1
  <2>5. QED
    BY <2>2, <2>3, <2>4
<1>6. ASSUME NEW j \in DOMAIN s, j > Len(s) - Prompts, j > Len(s) - Window
      PROVE  j - k \in DOMAIN t /\ j - k > Len(t) - Prompts /\ t[j - k] = s[j]
  <2>1. j - k \in 1..Len(s) - k /\ k + (j - k) = j
    BY <1>1, <1>2, <1>6
  <2>2. t[j - k] = s[j]
    BY <1>3, <2>1
  <2>3. Len(t) = Len(s) - k /\ DOMAIN t = 1..Len(t)
    BY <1>3
  <2>4. QED
    BY <1>1, <1>2, <1>6, <2>1, <2>2, <2>3
<1>7. Range(LastOf(t, Prompts)) =
          {s[i] : i \in {j \in DOMAIN s : j > Len(s) - Prompts /\ j > Len(s) - Window}}
  BY <1>4, <1>5, <1>6
<1>8. QED
  BY <1>7 DEF PromptsOf, t

LEMMA PromptsOfAppend ==
    ASSUME NEW s \in Seq(Nat), NEW e \in Nat,
           NEW x \in Range(PromptsOf(Append(s, e))), x # e
    PROVE  x \in Range(PromptsOf(s))
<1> DEFINE t == Append(s, e)
<1>1. /\ t \in Seq(Nat) /\ Len(t) = Len(s) + 1 /\ t[Len(s) + 1] = e
      /\ \A i \in 1..Len(s) : t[i] = s[i]
  OBVIOUS
<1>2. x \in Range(PromptsOf(t))
  OBVIOUS
<1> HIDE DEF t
<1>3. PICK i \in DOMAIN t : i > Len(t) - Prompts /\ i > Len(t) - Window /\ x = t[i]
  <2>1. Range(PromptsOf(t)) =
            {t[i] : i \in {j \in DOMAIN t : j > Len(t) - Prompts /\ j > Len(t) - Window}}
    BY <1>1, PromptsOfIs
  <2>2. QED
    BY <1>2, <2>1
<1>4. i \in DOMAIN s /\ x = s[i]
  BY <1>1, <1>3
<1>w. Window \in Nat \ {0} /\ Prompts \in Nat \ {0} /\ i \in Nat /\ Len(s) \in Nat
  BY <1>4, LogViewsAssumption
<1>6. i > Len(s) - Prompts /\ i > Len(s) - Window
  BY <1>1, <1>3, <1>w
<1>7. QED
  BY <1>4, <1>6, PromptsOfIs

\* A report has one first prompt.
LEMMA OneIsFirst ==
    ASSUME log["buffer"] \in Seq(Nat), NEW p, NEW q, FirstShown(p), FirstShown(q)
    PROVE  p = q
<1> DEFINE b == log["buffer"]
<1>1. PICK i \in DOMAIN b : /\ b[i] = p /\ p \in report.rows
                            /\ \A n \in 1..i - 1 : b[n] \notin report.rows
  BY DEF FirstShown
<1>2. PICK j \in DOMAIN b : /\ b[j] = q /\ q \in report.rows
                            /\ \A n \in 1..j - 1 : b[n] \notin report.rows
  BY DEF FirstShown
<1>3. i \in Nat \ {0} /\ j \in Nat \ {0}
  OBVIOUS
<1>4. i < j \/ j < i \/ i = j
  BY <1>3
<1>5. ~(i < j) /\ ~(j < i)
  BY <1>1, <1>2, <1>3
<1>6. QED
  BY <1>1, <1>2, <1>4, <1>5

\* A record that nobody knew is appended: the report stays as it is, and so does what
\* it is to have.
LEMMA LogKept ==
    ASSUME NEW f \in File, ReportInv, Log(f)
    PROVE  ReportInv'
<1> USE DEF ReportInv, LogsOK
<1>1. PICK s \in Nat \ used :
          /\ log' = [log EXCEPT ![f] = Append(@, s)] /\ used' = used \cup {s}
          /\ report' = report
  <2>1. PICK s \in (1..MaxRecords) \ used :
            /\ log' = [log EXCEPT ![f] = Append(@, s)] /\ used' = used \cup {s}
            /\ report' = report
    BY Zenon DEF Log
  <2>2. s \in Nat \ used
    BY LogViewsAssumption
  <2>3. QED
    BY <2>1, <2>2
<1>2. ASSUME NEW g \in File, g # f PROVE log'[g] = log[g]
  BY <1>1, <1>2
<1>3. /\ log'[f] = Append(log[f], s) /\ log'[f] \in Seq(Nat) /\ Len(log'[f]) = Len(log[f]) + 1
      /\ log'[f][Len(log[f]) + 1] = s /\ \A i \in DOMAIN log[f] : log'[f][i] = log[f][i]
      /\ DOMAIN log'[f] = DOMAIN log[f] \cup {Len(log[f]) + 1}
      /\ Len(log[f]) + 1 \notin DOMAIN log[f]
  BY <1>1
<1>4. s \notin report.due /\ s \notin report.asked /\ s \notin report.rows
  BY <1>1
<1>b. "buffer" \in File /\ Window \in Nat \ {0} /\ Prompts \in Nat \ {0}
  BY LogViewsAssumption
<1>5. LogsOK' /\ NoTwice'
  <2>1. log' \in [File -> Seq(Nat)]
    BY <1>1
  <2>2. ASSUME NEW g \in File, NEW i \in DOMAIN log'[g]
        PROVE  \/ i \in DOMAIN log[g] /\ log'[g][i] = log[g][i] /\ log'[g][i] \in used
               \/ g = f /\ i = Len(log[f]) + 1 /\ log'[g][i] = s
    BY <1>1, <1>2, <1>3, <2>2
  <2>3. ASSUME NEW g \in File, NEW i \in DOMAIN log'[g], NEW j \in DOMAIN log'["buffer"],
               log'[g][i] = log'["buffer"][j]
        PROVE  g = "buffer" /\ i = j
    <3>1. s \notin used
      BY <1>1
    <3>2. \/ i \in DOMAIN log[g] /\ log'[g][i] = log[g][i] /\ log'[g][i] \in used
          \/ g = f /\ i = Len(log[f]) + 1 /\ log'[g][i] = s
      BY <2>2
    <3>3. \/ /\ j \in DOMAIN log["buffer"] /\ log'["buffer"][j] = log["buffer"][j]
             /\ log'["buffer"][j] \in used
          \/ f = "buffer" /\ j = Len(log[f]) + 1 /\ log'["buffer"][j] = s
      BY <1>b, <2>2
    <3>4. CASE i \in DOMAIN log[g] /\ log'[g][i] = log[g][i] /\ log'[g][i] \in used
      <4>1. j \in DOMAIN log["buffer"] /\ log["buffer"][j] = log[g][i]
        BY <2>3, <3>1, <3>3, <3>4
      <4>2. QED
        BY <3>4, <4>1 DEF NoTwice
    <3>5. CASE g = f /\ i = Len(log[f]) + 1 /\ log'[g][i] = s
      BY <2>3, <3>1, <3>3, <3>5
    <3>6. QED
      BY <3>2, <3>4, <3>5
  <2>4. used' \subseteq Nat /\ report' \in Reports
        /\ report'.due \cup report'.asked \cup report'.rows \subseteq used'
    BY <1>1
  <2>5. \A g \in File : \A i \in DOMAIN log'[g] : log'[g][i] \in used'
    BY <1>1, <2>2
  <2>6. NoTwice'
    BY <2>3 DEF NoTwice
  <2>7. QED
    BY <2>1, <2>4, <2>5, <2>6
<1>6. ASSUME NEW g \in File, NEW p, HasSince(p, g)
      PROVE  HasSince(p, g)'
  <2>1. CASE g = f
    <3> SUFFICES ASSUME NEW x \in report.due, x \in Range(LastOf(log'[f], Window)), x >= p
                 PROVE  x \in report.rows
      BY <1>1, <2>1 DEF HasSince
    <3>1. x \in Range(LastOf(log[f], Window))
      BY <1>b, <1>1, <1>3, <1>4, LastOfAppend
    <3>2. QED
      BY <1>6, <2>1, <3>1 DEF HasSince
  <2>2. CASE g # f
    BY <1>1, <1>2, <1>6, <2>2 DEF HasSince
  <2>3. QED
    BY <2>1, <2>2
<1>7. HasPrompts => HasPrompts'
  <2> SUFFICES ASSUME HasPrompts,
                      report.asked \cap Range(PromptsOf(log["buffer"])) \subseteq report.rows,
                      NEW x \in report.asked, x \in Range(PromptsOf(log'["buffer"]))
               PROVE  x \in report.rows
    BY <1>1 DEF HasPrompts
  <2>1. CASE f = "buffer"
    <3>1. x \in Range(PromptsOf(log["buffer"]))
      BY <1>b, <1>1, <1>3, <1>4, <2>1, PromptsOfAppend
    <3>2. QED
      BY <3>1
  <2>2. CASE f # "buffer"
    BY <1>b, <1>2, <2>2
  <2>3. QED
    BY <2>1, <2>2
<1>8. ASSUME NEW p
      PROVE  FirstShown(p) <=> FirstShown(p)'
  <2> DEFINE b == log["buffer"]
             c == log'["buffer"]
  <2>1. /\ \A i \in DOMAIN b : i \in DOMAIN c /\ c[i] = b[i]
        /\ \A i \in DOMAIN c : i \in DOMAIN b \/ c[i] = s
        /\ DOMAIN b = 1..Len(b) /\ DOMAIN c = 1..Len(c) /\ Len(b) \in Nat /\ Len(c) \in Nat
    BY <1>b, <1>2, <1>3
  <2>2. FirstShown(p) <=> \E i \in DOMAIN b : /\ b[i] = p /\ p \in report.rows
                                              /\ \A j \in 1..i - 1 : b[j] \notin report.rows
    BY DEF FirstShown
  <2>3. FirstShown(p)' <=> \E i \in DOMAIN c : /\ c[i] = p /\ p \in report.rows
                                               /\ \A j \in 1..i - 1 : c[j] \notin report.rows
    BY <1>1 DEF FirstShown
  <2> HIDE DEF b, c
  <2>4. ASSUME NEW i \in DOMAIN b, NEW j \in 1..i - 1
        PROVE  b[j] = c[j]
    BY <2>1
  <2>5. QED
    BY <1>4, <2>1, <2>2, <2>3, <2>4
<1>9. AskedInv'
  <2> SUFFICES ASSUME report.at = "read", report.f = "buffer", ~report.cut
               PROVE  /\ report.size \in 0..Len(log'["buffer"])
                      /\ report.by = "web" => Prompted' = Prompted
    BY <1>1 DEF AskedInv
  <2>1. report.size \in 0..Len(log["buffer"])
    BY DEF AskedInv
  <2>2. report.size \in 0..Len(log'["buffer"])
    <3>1. Len(log["buffer"]) \in Nat /\ Len(log'["buffer"]) \in Nat
      BY <1>b, <1>5
    <3>2. CASE f = "buffer"
      BY <1>3, <2>1, <3>1, <3>2
    <3>3. CASE f # "buffer"
      BY <1>b, <1>2, <2>1, <3>3
    <3>4. QED
      BY <3>2, <3>3
  <2>3. TailTo(log'["buffer"], report.size) = TailTo(log["buffer"], report.size)
    BY <1>b, <1>1, <1>2, <1>3, <2>1, TailToAppend
  <2>4. QED
    BY <1>1, <2>2, <2>3 DEF Prompted, TailOf
<1>10. RowsInv'
  BY <1>1, <1>6, <1>7, <1>8 DEF RowsInv, Later
<1>11. SizeInv'
  <2> SUFFICES ASSUME report.at = "read", report.f # "buffer", ~report.cut
               PROVE  /\ report.size \in 0..Len(log'[report.f])
                      /\ \A i \in DOMAIN log'[report.f] :
                            log'[report.f][i] \in report.due => i <= report.size
    BY <1>1 DEF SizeInv
  <2>1. report.f \in File
    BY DEF Reports
  <2>2. /\ report.size \in 0..Len(log[report.f])
        /\ \A i \in DOMAIN log[report.f] : log[report.f][i] \in report.due => i <= report.size
    BY DEF SizeInv
  <2>3. CASE report.f = f
    <3>1. report.size \in 0..Len(log'[f])
      BY <1>3, <2>2, <2>3
    <3>2. ASSUME NEW i \in DOMAIN log'[f], log'[f][i] \in report.due
          PROVE  i <= report.size
      <4>1. i \in DOMAIN log[f] /\ log[f][i] = log'[f][i]
        BY <1>3, <1>4, <3>2
      <4>2. QED
        BY <2>2, <2>3, <3>2, <4>1
    <3>3. QED
      BY <2>3, <3>1, <3>2
  <2>4. CASE report.f # f
    BY <1>2, <2>1, <2>2, <2>4
  <2>5. QED
    BY <2>3, <2>4
<1>12. ReportComplete'
  BY <1>1, <1>6, <1>7, <1>8 DEF ReportComplete
<1>13. QED
  BY <1>5, <1>9, <1>10, <1>11, <1>12

\* A rotation that cuts a log cuts the report, which promises nothing any more.
LEMMA TruncateKept ==
    ASSUME NEW f \in File, ReportInv, Truncate(f)
    PROVE  ReportInv'
<1> USE DEF ReportInv, LogsOK
<1>1. /\ log' = [log EXCEPT ![f] = <<>>] /\ used' = used
      /\ report' = [report EXCEPT !.cut = (report.at # "idle")]
  BY DEF Truncate, page
<1>2. LogsOK' /\ NoTwice'
  <2>1. log' \in [File -> Seq(Nat)]
    BY <1>1
  <2>2. ASSUME NEW g \in File, NEW i \in DOMAIN log'[g]
        PROVE  i \in DOMAIN log[g] /\ log'[g][i] = log[g][i]
    BY <1>1, <2>2
  <2>3. (report.at # "idle") \in BOOLEAN
    OBVIOUS
  <2>4. report' \in Reports /\ report'.due = report.due
        /\ report'.asked = report.asked /\ report'.rows = report.rows
    BY <1>1, <2>3 DEF Reports
  <2>5. "buffer" \in File
    BY LogViewsAssumption
  <2>6. ASSUME NEW g \in File, NEW i \in DOMAIN log'[g], NEW j \in DOMAIN log'["buffer"],
               log'[g][i] = log'["buffer"][j]
        PROVE  g = "buffer" /\ i = j
    <3>1. /\ i \in DOMAIN log[g] /\ log'[g][i] = log[g][i]
          /\ j \in DOMAIN log["buffer"] /\ log'["buffer"][j] = log["buffer"][j]
      BY <2>2, <2>5
    <3>2. QED
      BY <2>6, <3>1 DEF NoTwice
  <2>7. \A g \in File : \A i \in DOMAIN log'[g] : log'[g][i] \in used'
    BY <1>1, <2>2
  <2>8. NoTwice'
    BY <2>6 DEF NoTwice
  <2>9. QED
    BY <1>1, <2>1, <2>4, <2>7, <2>8
<1>3. report'.at = report.at /\ (report'.at # "idle" => report'.cut)
  BY <1>1 DEF Reports
<1>4. QED
  BY <1>2, <1>3 DEF AskedInv, RowsInv, SizeInv, Later, ReportComplete

\* Steps that leave the logs alone and report what was logged.
LEMMA SameLogs ==
    ASSUME LogsOK, NoTwice, UNCHANGED <<log, used>>, report' \in Reports,
           report'.due \subseteq used, report'.asked \subseteq used, report'.rows \subseteq used
    PROVE  LogsOK' /\ NoTwice'
BY DEF LogsOK, NoTwice

\* A report begins: what it is asked for on the web is what it would read now.
LEMMA ReportKept ==
    ASSUME NEW by \in {"web", "cli"}, ReportInv, Report(by)
    PROVE  ReportInv'
<1> USE DEF ReportInv, LogsOK
<1> DEFINE b == log["buffer"]
           asked == PromptsOf(b)
           due == UNION {Range(log[f]) : f \in File \ {"buffer"}}
<1>1. "buffer" \in File /\ Window \in Nat \ {0} /\ Prompts \in Nat \ {0}
  BY LogViewsAssumption
<1>2. b \in Seq(Nat) /\ UNCHANGED <<log, used>>
  BY <1>1 DEF Report, logs
<1>3. report' = [at |-> "read", by |-> by, f |-> "buffer", size |-> Len(b), t0 |-> 0,
                 rows |-> {}, left |-> File \ {"buffer"}, asked |-> Range(asked),
                 due |-> due, missed |-> {}, cut |-> FALSE]
  BY DEF Report, NoReport, Range
<1>4. Range(asked) \subseteq used
  <2>1. Range(asked) = {b[i] : i \in {j \in DOMAIN b : j > Len(b) - Prompts /\ j > Len(b) - Window}}
    BY <1>1, <1>2, PromptsOfIs
  <2> HIDE DEF asked
  <2>2. QED
    BY <1>1, <2>1
<1>5. due \subseteq used
  BY DEF Range
<1>t. TailTo(b, Len(b)) = LastOf(b, Window)
  BY <1>2, TailToAll
<1> HIDE DEF due
<1>6. /\ report'.at = "read" /\ report'.f = "buffer" /\ ~report'.cut /\ report'.rows = {}
      /\ report'.size = Len(b) /\ report'.left = File \ {"buffer"}
      /\ report'.asked = Range(asked) /\ report'.due = due /\ report'.by = by
  BY <1>3
<1>7. report' \in Reports
  <2>1. Len(b) \in Nat /\ File \ {"buffer"} \in SUBSET (File \ {"buffer"})
    BY <1>2
  <2>2. Range(asked) \subseteq Nat /\ due \subseteq Nat
    BY <1>4, <1>5
  <2> HIDE DEF asked, b
  <2>3. QED
    BY <1>1, <1>3, <2>1, <2>2 DEF Reports
<1>8. by = "web" => Prompted' = asked
  BY <1>2, <1>6, <1>t DEF Prompted, TailOf, PromptsOf
<1>9. AskedInv'
  <2>1. report'.size \in 0..Len(log'["buffer"])
    BY <1>2, <1>6
  <2> HIDE DEF asked
  <2>2. QED
    BY <1>6, <1>8, <2>1 DEF AskedInv
<1>10. LogsOK' /\ NoTwice'
  <2> HIDE DEF asked
  <2>1. /\ report'.due \subseteq used /\ report'.asked \subseteq used
        /\ report'.rows \subseteq used
    BY <1>4, <1>5, <1>6
  <2>2. QED
    BY <1>2, <1>7, <2>1, SameLogs
<1>11. RowsInv' /\ SizeInv' /\ ReportComplete'
  BY <1>6 DEF RowsInv, SizeInv, Later, ReportComplete
<1>12. QED
  BY <1>9, <1>10, <1>11

\* The prompts are read: on the web those that were asked for, by the CLI the last ones
\* of now.  None of the log comes before the first.
LEMMA ReadPromptsKept ==
    ASSUME ReportInv, ReadPrompts
    PROVE  ReportInv'
<1> USE DEF ReportInv, LogsOK
<1> DEFINE b == log["buffer"]
<1>1. report.at = "read" /\ report.f = "buffer" /\ UNCHANGED <<log, used>>
  BY DEF ReadPrompts, logs
<1>2. /\ Prompted = <<>> => report' = [report EXCEPT !.at = "answer"]
      /\ Prompted # <<>> =>
             report' = [report EXCEPT !.at = "seek", !.size = 0, !.rows = Range(Prompted),
                                      !.t0 = Prompted[1]]
  BY DEF ReadPrompts, Prompted, Range
<1>3. "buffer" \in File /\ Prompts \in Nat \ {0} /\ b \in Seq(Nat)
  BY LogViewsAssumption
<1>4. Prompted \in Seq(Nat) /\ Piece(Prompted, b)
  <2>1. TailOf(b) \in Seq(Nat) /\ Piece(TailOf(b), b)
    BY <1>3, TailsArePieces
  <2>2. Prompted \in Seq(Nat) /\ Piece(Prompted, TailOf(b))
    BY <1>3, <2>1, LastOfIsPiece DEF Prompted
  <2>3. QED
    BY <1>3, <2>1, <2>2, PieceOfPiece
<1>5. ~report.cut =>
          /\ report.left = File \ {"buffer"} /\ report.rows = {}
          /\ report.asked = Range(Prompted) \/
             (report.by = "cli" /\ Prompted = PromptsOf(b))
  <2> SUFFICES ASSUME ~report.cut
               PROVE  /\ report.left = File \ {"buffer"} /\ report.rows = {}
                      /\ report.asked = Range(Prompted) \/
                         (report.by = "cli" /\ Prompted = PromptsOf(b))
    OBVIOUS
  <2>1. /\ report.size \in 0..Len(b) /\ report.left = File \ {"buffer"} /\ report.rows = {}
        /\ report.by = "web" => report.asked = Range(Prompted)
    BY <1>1 DEF AskedInv
  <2>2. report.by \in {"web", "cli"}
    BY DEF Reports
  <2>3. TailFrom(b, report.size) = LastOf(b, Window)
    BY <1>3, <2>1, TailFromAll
  <2>4. report.by = "cli" => Prompted = PromptsOf(b)
    BY <2>3 DEF Prompted, TailOf, PromptsOf
  <2>5. QED
    BY <2>1, <2>2, <2>4
<1>6. \A i, j \in DOMAIN b : b[i] = b[j] => i = j
  BY <1>3 DEF NoTwice
<1>7. /\ Range(Prompted) \subseteq Range(b)
      /\ Prompted # <<>> =>
            /\ Prompted[1] \in Range(Prompted)
            /\ \E k \in DOMAIN b :
                  b[k] = Prompted[1] /\ \A j \in 1..k - 1 : b[j] \notin Range(Prompted)
  BY <1>3, <1>4, <1>6, FirstOfPiece
<1>8. CASE Prompted = <<>>
  <2>1. Range(<<>>) = {}
    BY DEF Range
  <2>2. /\ report' \in Reports /\ report'.at = "answer" /\ report'.cut = report.cut
        /\ report'.asked = report.asked /\ report'.due = report.due
        /\ report'.rows = report.rows /\ report'.by = report.by
    BY <1>2, <1>8 DEF Reports
  <2>3. LogsOK' /\ NoTwice'
    BY <1>1, <2>2 DEF NoTwice
  <2>4. ~report.cut => report.asked = {} \/ (report.by = "cli" /\ PromptsOf(b) = <<>>)
    BY <1>5, <1>8, <2>1
  <2>5. ~report.cut => HasPrompts'
    BY <1>1, <2>1, <2>2, <2>4 DEF HasPrompts
  <2>6. ~report.cut => report'.rows = {}
    BY <1>5, <2>2
  <2>7. QED
    BY <2>2, <2>3, <2>5, <2>6 DEF AskedInv, RowsInv, SizeInv, Later, ReportComplete
<1>9. CASE Prompted # <<>>
  <2> DEFINE rows == Range(Prompted)
             t0 == Prompted[1]
  <2>1. rows \subseteq used /\ t0 \in rows
    BY <1>3, <1>7, <1>9 DEF Range
  <2>2. report' = [report EXCEPT !.at = "seek", !.size = 0, !.rows = rows, !.t0 = t0]
    BY <1>2, <1>9
  <2>3. \E k \in DOMAIN b : b[k] = t0 /\ \A j \in 1..k - 1 : b[j] \notin rows
    BY <1>7, <1>9
  <2>4. ~report.cut => report.asked = rows \/
                       (report.by = "cli" /\ rows = Range(PromptsOf(b)))
    BY <1>5
  <2> HIDE DEF rows, t0
  <2>5. /\ report' \in Reports /\ report'.at = "seek" /\ report'.cut = report.cut
        /\ report'.asked = report.asked /\ report'.due = report.due /\ report'.by = report.by
        /\ report'.rows = rows /\ report'.t0 = t0 /\ report'.left = report.left
    BY <2>1, <2>2 DEF Reports
  <2>6. LogsOK' /\ NoTwice'
    <3>1. report'.due \subseteq used /\ report'.asked \subseteq used
      BY <2>5
    <3>2. QED
      BY <1>1, <2>1, <2>5, <3>1, SameLogs
  <2>7. ~report.cut => HasPrompts'
    BY <1>1, <2>4, <2>5 DEF HasPrompts
  <2>8. FirstShown(report.t0)'
    BY <1>1, <2>1, <2>3, <2>5 DEF FirstShown
  <2>9. RowsInv'
    BY <1>5, <2>5, <2>7, <2>8 DEF RowsInv
  <2>10. QED
    BY <2>5, <2>6, <2>9 DEF AskedInv, SizeInv, ReportComplete
<1>10. QED
  BY <1>8, <1>9

\* A log cannot be read: the report does without it.
LEMMA ReadFailsKept ==
    ASSUME ReportInv, ReadFails
    PROVE  ReportInv'
<1> USE DEF ReportInv, LogsOK
<1>1. report.at = "read" /\ UNCHANGED <<log, used>>
  BY DEF ReadFails, logs
<1>2. /\ report' \in Reports /\ report'.cut = report.cut /\ report'.by = report.by
      /\ report'.at = IF report.f = "buffer" THEN "answer" ELSE "seek"
      /\ report'.asked = report.asked /\ report'.due = report.due /\ report'.f = report.f
      /\ report'.rows = report.rows /\ report'.t0 = report.t0 /\ report'.left = report.left
      /\ report'.missed = report.missed \cup {report.f}
  <2> DEFINE at == IF report.f = "buffer" THEN "answer" ELSE "seek"
             missed == report.missed \cup {report.f}
  <2>1. report' = [report EXCEPT !.at = at, !.size = 0, !.missed = missed]
    BY DEF ReadFails
  <2>2. at \in {"answer", "seek"} /\ missed \subseteq File
    BY DEF Reports
  <2> HIDE DEF at, missed
  <2>3. /\ report' \in Reports /\ report'.cut = report.cut /\ report'.by = report.by
        /\ report'.at = at
        /\ report'.asked = report.asked /\ report'.due = report.due /\ report'.f = report.f
        /\ report'.rows = report.rows /\ report'.t0 = report.t0 /\ report'.left = report.left
        /\ report'.missed = missed
    BY <2>1, <2>2 DEF Reports
  <2>4. QED
    BY <2>3 DEF at, missed
<1>3. LogsOK' /\ NoTwice'
  BY <1>1, <1>2 DEF NoTwice
<1>4. CASE report.f = "buffer"
  <2>1. report'.at = "answer" /\ HasPrompts'
    BY <1>2, <1>4 DEF HasPrompts
  <2>2. ~report.cut => report'.rows = {}
    BY <1>1, <1>2, <1>4 DEF AskedInv
  <2>3. QED
    BY <1>2, <1>3, <2>1, <2>2 DEF AskedInv, RowsInv, SizeInv, Later, ReportComplete
<1>5. CASE report.f # "buffer"
  <2>1. report'.at = "seek"
    BY <1>2, <1>5
  <2>2. \A p : FirstShown(p)' <=> FirstShown(p)
    BY <1>1, <1>2 DEF FirstShown
  <2>3. \A p, f : HasSince(p, f)' <=> HasSince(p, f)
    BY <1>1, <1>2 DEF HasSince
  <2>4. HasPrompts => HasPrompts'
    BY <1>1, <1>2 DEF HasPrompts
  <2>5. RowsInv'
    BY <1>1, <1>2, <1>5, <2>1, <2>2, <2>3, <2>4 DEF RowsInv, Later
  <2>6. QED
    BY <1>3, <2>1, <2>5 DEF AskedInv, SizeInv, ReportComplete
<1>6. QED
  BY <1>4, <1>5

\* It looks for the end of the next log: nothing that is due comes later.
LEMMA SeekKept ==
    ASSUME ReportInv, Seek
    PROVE  ReportInv'
<1> USE DEF ReportInv, LogsOK
<1>1. report.at = "seek" /\ UNCHANGED <<log, used>>
  BY DEF Seek, logs
<1>a. ~report.cut => RowsInv!2
  BY <1>1 DEF RowsInv, Later
<1>2. CASE report.left = {}
  <2>1. report' = [report EXCEPT !.at = "answer"]
    BY <1>2 DEF Seek
  <2>2. /\ report' \in Reports /\ report'.at = "answer" /\ report'.cut = report.cut
        /\ report'.asked = report.asked /\ report'.due = report.due /\ report'.by = report.by
        /\ report'.rows = report.rows /\ report'.missed = report.missed
    BY <2>1 DEF Reports
  <2>3. LogsOK' /\ NoTwice'
    BY <1>1, <2>2 DEF NoTwice
  <2>4. ASSUME ~report.cut
        PROVE  ReportComplete'
    <3>1. HasPrompts' /\ FirstShown(report.t0)
      BY <1>1, <1>a, <2>2, <2>4 DEF HasPrompts
    <3>2. ASSUME NEW p \in report.rows, FirstShown(p)'
          PROVE  p = report.t0
      <4>1. FirstShown(p)
        BY <1>1, <2>2, <3>2 DEF FirstShown
      <4>2. log["buffer"] \in Seq(Nat)
        BY LogViewsAssumption
      <4>3. QED
        BY <3>1, <4>1, <4>2, OneIsFirst
    <3>3. ASSUME NEW f \in File \ ({"buffer"} \cup report.missed)
          PROVE  HasSince(report.t0, f)
      BY <1>1, <1>2, <1>a, <2>4, <3>3
    <3>4. \A p, f : HasSince(p, f)' <=> HasSince(p, f)
      BY <1>1, <2>2 DEF HasSince
    <3>5. QED
      BY <2>2, <3>1, <3>2, <3>3, <3>4 DEF ReportComplete
  <2>5. QED
    BY <2>2, <2>3, <2>4 DEF AskedInv, RowsInv, SizeInv, Later, ReportComplete
<1>3. CASE report.left # {}
  <2> DEFINE f == IF "commands" \in report.left THEN "commands" ELSE "keys"
  <2>1. f \in report.left /\ report.left \subseteq File \ {"buffer"}
    BY <1>3, LogViewsAssumption DEF Reports
  <2>2. report' = [report EXCEPT !.at = "read", !.f = f, !.size = Len(log[f]),
                                 !.left = @ \ {f}]
    BY <1>3 DEF Seek
  <2> HIDE DEF f
  <2>3. Len(log[f]) \in Nat /\ DOMAIN log[f] = 1..Len(log[f])
    BY <2>1
  <2>4. /\ report' \in Reports /\ report'.at = "read" /\ report'.cut = report.cut
        /\ report'.f = f /\ report'.size = Len(log[f]) /\ report'.left = report.left \ {f}
        /\ report'.asked = report.asked /\ report'.due = report.due /\ report'.by = report.by
        /\ report'.rows = report.rows /\ report'.t0 = report.t0
        /\ report'.missed = report.missed
    BY <2>1, <2>2, <2>3 DEF Reports
  <2>5. LogsOK' /\ NoTwice'
    BY <1>1, <2>4 DEF NoTwice
  <2>6. RowsInv'
    <3>1. \A g : HasSince(report.t0, g)' <=> HasSince(report.t0, g)
      BY <1>1, <2>4 DEF HasSince
    <3>2. HasPrompts => HasPrompts'
      BY <1>1, <2>4 DEF HasPrompts
    <3>3. FirstShown(report.t0) => FirstShown(report.t0)'
      BY <1>1, <2>4 DEF FirstShown
    <3>4. QED
      BY <1>1, <1>a, <2>1, <2>4, <3>1, <3>2, <3>3 DEF RowsInv
  <2>7. SizeInv'
    BY <1>1, <2>3, <2>4 DEF SizeInv
  <2>8. QED
    BY <2>1, <2>4, <2>5, <2>6, <2>7 DEF AskedInv, ReportComplete
<1>4. QED
  BY <1>2, <1>3

\* It has read a log up to the end it looked for, or further: what is due of it and
\* still in the window came before that end.
LEMMA ReadEventsKept ==
    ASSUME ReportInv, ReadEvents
    PROVE  ReportInv'
<1> USE DEF ReportInv, LogsOK
<1> DEFINE f == report.f
           got == Range(TailOf(log[f]))
           new == {s \in got : s >= report.t0}
<1>1. report.at = "read" /\ f # "buffer" /\ UNCHANGED <<log, used>>
  BY DEF ReadEvents, logs
<1>2. report' = [report EXCEPT !.at = "seek", !.size = 0, !.rows = @ \cup new]
  BY DEF ReadEvents, Range
<1>3. /\ f \in File /\ "buffer" \in File /\ log[f] \in Seq(Nat) /\ report.size \in Nat
      /\ Window \in Nat \ {0}
  BY LogViewsAssumption DEF Reports
<1>4. new \subseteq Range(log[f])
  <2>1. TailOf(log[f]) \in Seq(Nat) /\ Piece(TailOf(log[f]), log[f])
    BY <1>3, TailsArePieces
  <2>2. PICK k \in Nat \ {0} : \A i \in 1..Len(TailOf(log[f])) :
            k + i - 1 \in DOMAIN log[f] /\ TailOf(log[f])[i] = log[f][k + i - 1]
    BY <2>1 DEF Piece
  <2>3. DOMAIN TailOf(log[f]) = 1..Len(TailOf(log[f]))
    BY <2>1
  <2>4. QED
    BY <2>2, <2>3 DEF Range
<1>u. new \subseteq used /\ new \subseteq Nat
  BY <1>3, <1>4 DEF Range
<1>n. \A j \in DOMAIN log["buffer"] : log["buffer"][j] \notin new
  <2> SUFFICES ASSUME NEW j \in DOMAIN log["buffer"], log["buffer"][j] \in Range(log[f])
               PROVE  FALSE
    BY <1>4
  <2>1. PICK i \in DOMAIN log[f] : log[f][i] = log["buffer"][j]
    BY DEF Range
  <2>2. QED
    BY <1>1, <1>3, <2>1 DEF NoTwice
<1>5. ASSUME ~report.cut, NEW s \in report.due, s \in Range(LastOf(log[f], Window)),
             s >= report.t0
      PROVE  s \in new
  <2>1. PICK i \in DOMAIN log[f] : i > Len(log[f]) - Window /\ s = log[f][i]
    <3>1. Range(LastOf(log[f], Window)) =
              {log[f][i] : i \in {j \in DOMAIN log[f] : j > Len(log[f]) - Window}}
      BY <1>3, LastOfIs
    <3>2. QED
      BY <1>5, <3>1
  <2>2. report.size \in 0..Len(log[f]) /\ i <= report.size
    BY <1>1, <1>5, <2>1 DEF SizeInv
  <2>3. i \in 1..report.size /\ i > report.size - Window
    BY <1>3, <2>1, <2>2
  <2>4. s \in Range(TailTo(log[f], report.size))
    BY <1>3, <2>1, <2>2, <2>3, TailToHas
  <2>5. s \in Range(TailFrom(log[f], report.size))
    BY <1>3, <1>5, <2>2, TailFromAll
  <2>6. s \in got
    BY <2>4, <2>5 DEF TailOf
  <2>7. QED
    BY <1>5, <2>6
<1> HIDE DEF new
<1>6. /\ report' \in Reports /\ report'.at = "seek" /\ report'.cut = report.cut
      /\ report'.f = f /\ report'.left = report.left /\ report'.by = report.by
      /\ report'.asked = report.asked /\ report'.due = report.due
      /\ report'.rows = report.rows \cup new /\ report'.t0 = report.t0
      /\ report'.missed = report.missed
  BY <1>2, <1>u DEF Reports
<1>7. LogsOK' /\ NoTwice'
  <2>1. /\ report'.due \subseteq used /\ report'.asked \subseteq used
        /\ report'.rows \subseteq used
    BY <1>u, <1>6
  <2>2. QED
    BY <1>1, <1>6, <2>1, SameLogs
<1>8. RowsInv'
  <2> SUFFICES ASSUME ~report.cut PROVE RowsInv'
    BY <1>6 DEF RowsInv
  <2>a. RowsInv!2
    BY <1>1 DEF RowsInv, Later
  <2>1. HasPrompts'
    BY <1>1, <1>6, <2>a DEF HasPrompts
  <2>2. FirstShown(report.t0)'
    <3>1. PICK i \in DOMAIN log["buffer"] :
              /\ log["buffer"][i] = report.t0 /\ report.t0 \in report.rows
              /\ \A j \in 1..i - 1 : log["buffer"][j] \notin report.rows
      BY <2>a DEF FirstShown
    <3>2. \A j \in 1..i - 1 : j \in DOMAIN log["buffer"]
      BY <1>3
    <3>3. \A j \in 1..i - 1 : log["buffer"][j] \notin report.rows \cup new
      BY <1>n, <3>1, <3>2
    <3>4. QED
      BY <1>1, <1>6, <3>1, <3>3 DEF FirstShown
  <2>3. HasSince(report.t0, f)'
    BY <1>1, <1>5, <1>6 DEF HasSince
  <2>4. ASSUME NEW g \in File \ ({"buffer"} \cup report.left \cup report.missed), g # f
        PROVE  HasSince(report.t0, g)'
    <3>1. HasSince(report.t0, g)
      BY <2>a, <2>4
    <3>2. QED
      BY <1>1, <1>6, <3>1 DEF HasSince
  <2>5. QED
    BY <1>6, <2>1, <2>2, <2>3, <2>4 DEF RowsInv
<1>9. QED
  BY <1>6, <1>7, <1>8 DEF AskedInv, SizeInv, ReportComplete

\* Every step keeps the invariant.
LEMMA ViewsKept ==
    ASSUME ReportInv, [ViewNext]_viewVars
    PROVE  ReportInv'
<1>1. CASE UNCHANGED <<log, used, report>>
  BY <1>1 DEF ReportInv, LogsOK, NoTwice, AskedInv, RowsInv, SizeInv, Later, Prompted, TailOf,
              HasPrompts, FirstShown, HasSince, ReportComplete
<1>2. ASSUME NEW f \in File, Log(f) \/ Copy(f) \/ Truncate(f)
      PROVE  ReportInv'
  BY <1>1, <1>2, LogKept, TruncateKept DEF Copy
<1>3. CASE PageNext
  BY <1>1, <1>3 DEF PageNext, Select, Click, Loading, PollLog, ReadTail, TailFails,
                    Answers, Render, FetchFails, logs
<1>4. ASSUME NEW by \in {"web", "cli"}, Report(by)
      PROVE  ReportInv'
  BY <1>4, ReportKept
<1>5. CASE ReadPrompts \/ Seek \/ ReadEvents \/ ReadFails
  BY <1>5, ReadPromptsKept, SeekKept, ReadEventsKept, ReadFailsKept
<1>6. CASE Reported
  <2>1. report' = NoReport /\ UNCHANGED <<log, used>>
    BY <1>6 DEF Reported, logs
  <2>2. /\ report' \in Reports /\ report'.at = "idle"
        /\ report'.due = {} /\ report'.asked = {} /\ report'.rows = {}
    BY <2>1, LogViewsAssumption DEF NoReport, Reports
  <2>3. QED
    BY <2>1, <2>2 DEF ReportInv, LogsOK, NoTwice, AskedInv, RowsInv, SizeInv, Later,
                      ReportComplete
<1>7. CASE UNCHANGED viewVars
  BY <1>1, <1>7 DEF viewVars
<1>8. QED
  BY <1>2, <1>3, <1>4, <1>5, <1>6, <1>7 DEF ViewNext, LogsNext, ReportNext

\* A report that no rotation runs into has the prompts it is asked for, or by the CLI
\* those that are still among the last, and what was logged since the first of them in
\* every log that could be read, for any number of logs, records, loads and any window
\* (report, tail and readFull; buildReport, tailLines and readTailBytes).
THEOREM ReportsAreComplete == ViewSpec => []ReportComplete
<1>1. ViewInit => ReportInv
  <2> SUFFICES ASSUME ViewInit PROVE ReportInv
    OBVIOUS
  <2>1. /\ report \in Reports /\ report.at = "idle"
        /\ report.due = {} /\ report.asked = {} /\ report.rows = {}
    BY LogViewsAssumption DEF ViewInit, NoReport, Reports
  <2>2. log = [f \in File |-> <<>>] /\ used = {}
    BY DEF ViewInit
  <2>3. "buffer" \in File
    BY LogViewsAssumption
  <2>4. QED
    BY <2>1, <2>2, <2>3 DEF ReportInv, LogsOK, NoTwice, AskedInv, RowsInv, SizeInv, Later,
                      ReportComplete
<1>2. ReportInv /\ [ViewNext]_viewVars => ReportInv'
  BY ViewsKept
<1>3. ReportInv => ReportComplete
  BY DEF ReportInv
<1>4. QED
  BY <1>1, <1>2, <1>3, PTL DEF ViewSpec
=============================================================================
