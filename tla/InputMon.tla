------------------------------ MODULE InputMon ------------------------------
(***************************************************************************)
(* The input-source monitor (src/inputmon/inputmon.go): one scanner        *)
(* goroutine that rescans /dev/input/event*, one reader goroutine per      *)
(* key-capable device, the shared table `known` under monitor.mu and the   *)
(* append-only log under monitor.logMu.                                    *)
(*                                                                         *)
(* A member of Dev is one incarnation of an input device: unplugging and   *)
(* plugging a keyboard gives a new incarnation, and the kernel may give it *)
(* a device path another one had before.  Each of the two locks protects a *)
(* single map or file operation, so every critical section is one action.  *)
(* A run of the process ends with Crash (a kill, a stop of the unit, a     *)
(* power cut); systemd starts the next one (Restart=always).               *)
(***************************************************************************)
EXTENDS Naturals, Sequences

CONSTANTS
    Path,        \* the device paths, numbered in the order of sort.Strings
    Dev,         \* the device incarnations
    KeyDev,      \* those whose EV_KEY capability bitmap is not empty
    None,        \* no device
    ReadEvents,  \* readEvents: the most events one read returns
    EvdevBuffer, \* how many unread events the kernel keeps for a reader
    MaxKeys,     \* bound: how many key events each of these ever produces
    MaxCrashes   \* bound: how often the process is killed

ASSUME InputMonAssumption ==
    /\ Path \subseteq Nat \ {0}
    /\ KeyDev \subseteq Dev
    /\ None \notin Dev
    /\ ReadEvents \in Nat \ {0}
    /\ EvdevBuffer \in Nat \ {0}
    /\ MaxKeys \in [KeyDev -> Nat]
    /\ MaxCrashes \in Nat

NoPath == 0

VARIABLES
    where,    \* kernel: the path of a device since it was plugged, else NoPath
    present,  \* kernel: the devices that are plugged now
    queue,    \* kernel: the unread key events of a device the monitor has open
    emitted,  \* kernel: how many key events a device has produced
    lost,     \* history: the events that were thrown away before they were logged
    known,    \* monitor.known: the device registered under a path, or None
    pc,       \* the scanner goroutine's next step; "off" when nothing runs
    todo,     \* scan: the paths of this enumeration still to look at
    opening,  \* openDevice: the device being opened, or None
    cap,      \* openDevice: device.keyCap, as the ioctl answered
    phase,       \* Run: "running" once AUDIT_START is logged
    reader,   \* the step of each device's reader goroutine
    batch,    \* reader: events read and not logged yet
    log,      \* keys.log
    crashes   \* how often the process was killed

kernel == <<where, present, emitted, lost>>
scanner == <<pc, todo, opening, cap, phase>>
vars == <<where, present, queue, emitted, lost, known, pc, todo, opening, cap,
          phase, reader, batch, log, crashes>>

\* The scanner's steps inside openDevice, and a reader's inside its loop.
Opened == {"query", "register", "announce"}
Reading == {"read", "log"}

Added(d) == [kind |-> "DEVICE_ADDED", path |-> where[d], dev |-> d, n |-> 0]
Removed(d) == [kind |-> "DEVICE_REMOVED", path |-> where[d], dev |-> d, n |-> 0]
Key(d, e) == [kind |-> "KEY", path |-> where[d], dev |-> d, n |-> e]
AuditStart == [kind |-> "AUDIT_START", path |-> NoPath, dev |-> None, n |-> 0]

Record == [kind : {"DEVICE_ADDED", "DEVICE_REMOVED", "KEY", "AUDIT_START"},
           path : Path \cup {NoPath}, dev : Dev \cup {None}, n : Nat]

\* The members of a sequence.
Elems(s) == {s[i] : i \in DOMAIN s}

Init ==
    /\ where = [d \in Dev |-> NoPath]
    /\ present = {}
    /\ queue = [d \in Dev |-> <<>>]
    /\ emitted = [d \in Dev |-> 0]
    /\ lost = [d \in Dev |-> {}]
    /\ known = [p \in Path |-> None]
    /\ pc = "glob"
    /\ todo = {}
    /\ opening = None
    /\ cap = "non-key"
    /\ phase = "starting"
    /\ reader = [d \in Dev |-> "none"]
    /\ batch = [d \in Dev |-> <<>>]
    /\ log = <<>>
    /\ crashes = 0

-----------------------------------------------------------------------------
(* The kernel and its users.                                               *)

\* A device appears at a path no present device has.
Plug(d, p) ==
    /\ where[d] = NoPath
    /\ \A e \in present : where[e] # p
    /\ where' = [where EXCEPT ![d] = p]
    /\ present' = present \cup {d}
    /\ UNCHANGED <<queue, emitted, lost, known, scanner, reader, batch, log, crashes>>

\* A device goes: its node disappears and unread events are lost with it.
Unplug(d) ==
    /\ d \in present
    /\ present' = present \ {d}
    /\ queue' = [queue EXCEPT ![d] = <<>>]
    /\ lost' = [lost EXCEPT ![d] = @ \cup Elems(queue[d])]
    /\ UNCHANGED <<where, emitted, known, scanner, reader, batch, log, crashes>>

\* The monitor has the device open, and its reader runs or may still start.
HasClient(d) == opening = d \/ reader[d] \in Reading

\* The kernel queues an event for an open reader (one nobody has open is not
\* told to the monitor at all); a full queue is emptied first (SYN_DROPPED,
\* which the monitor ignores).
Press(d) ==
    /\ d \in present \cap KeyDev
    /\ HasClient(d)
    /\ emitted[d] < MaxKeys[d]
    /\ emitted' = [emitted EXCEPT ![d] = @ + 1]
    /\ queue' = [queue EXCEPT ![d] =
                    Append(IF Len(@) = EvdevBuffer THEN <<>> ELSE @, emitted'[d])]
    /\ lost' = IF Len(queue[d]) = EvdevBuffer
               THEN [lost EXCEPT ![d] = @ \cup Elems(queue[d])] ELSE lost
    /\ UNCHANGED <<where, present, known, scanner, reader, batch, log, crashes>>

-----------------------------------------------------------------------------
(* The scanner goroutine: Run, scan, openDevice.                           *)

\* Mutant: the rescan also drops registered paths whose node is gone.
GlobAndPrune ==
    /\ pc = "glob"
    /\ todo' = {where[d] : d \in present}
    /\ known' = [p \in Path |-> IF p \in todo' THEN known[p] ELSE None]
    /\ pc' = "check"
    /\ UNCHANGED <<kernel, queue, opening, cap, phase, reader, batch, log, crashes>>

\* filepath.Glob: the nodes that exist now.
Glob ==
    /\ pc = "glob"
    /\ todo' = {where[d] : d \in present}
    /\ pc' = "check"
    /\ UNCHANGED <<kernel, queue, known, opening, cap, phase, reader, batch,
                   log, crashes>>

\* The first path in sorted order that is still to be looked at.
Next1(p) == p \in todo /\ \A q \in todo : p <= q

\* A path that is known already is skipped.
Skip ==
    /\ pc = "check"
    /\ \E p \in Path :
        /\ Next1(p)
        /\ known[p] # None
        /\ todo' = todo \ {p}
    /\ UNCHANGED <<kernel, queue, known, pc, opening, cap, phase, reader,
                   batch, log, crashes>>

\* A path that is not known goes to openDevice.
Unknown ==
    /\ pc = "check"
    /\ \E p \in Path : Next1(p) /\ known[p] = None
    /\ pc' = "open"
    /\ UNCHANGED <<kernel, queue, known, todo, opening, cap, phase, reader,
                   batch, log, crashes>>

\* os.OpenFile: whatever device has the path now, or the path is skipped.
Open ==
    /\ pc = "open"
    /\ \E p \in Path :
        /\ Next1(p)
        /\ \/ \E d \in present : where[d] = p /\ opening' = d
              /\ pc' = "query" /\ UNCHANGED todo
           \/ /\ \A d \in present : where[d] # p
              /\ pc' = "check" /\ todo' = todo \ {p} /\ UNCHANGED opening
    /\ UNCHANGED <<kernel, queue, known, cap, phase, reader, batch, log, crashes>>

\* The ioctls: a device that is gone answers none of them, and counts as
\* one without keys.
Query ==
    /\ pc = "query"
    /\ cap' = IF opening \in present \cap KeyDev THEN "key-capable" ELSE "non-key"
    /\ pc' = "register"
    /\ UNCHANGED <<kernel, queue, known, todo, opening, phase, reader, batch,
                   log, crashes>>

\* The second look at `known`, under the lock that also writes it.
Register ==
    /\ pc = "register"
    /\ IF known[where[opening]] = None
       THEN /\ known' = [known EXCEPT ![where[opening]] = opening]
            /\ pc' = "announce" /\ UNCHANGED <<todo, opening>>
       ELSE /\ todo' = todo \ {where[opening]} /\ opening' = None
            /\ pc' = "check" /\ UNCHANGED known
    /\ UNCHANGED <<kernel, queue, cap, phase, reader, batch, log, crashes>>

\* DEVICE_ADDED, and the reader goroutine of a device with keys.
Announce ==
    /\ pc = "announce"
    /\ log' = Append(log, Added(opening))
    /\ reader' = [reader EXCEPT ![opening] = IF cap = "key-capable" THEN "read" ELSE @]
    /\ todo' = todo \ {where[opening]}
    /\ opening' = None
    /\ pc' = "check"
    /\ UNCHANGED <<kernel, queue, known, cap, phase, batch, crashes>>

\* The enumeration is over: the first one ends with AUDIT_START, and then the
\* scanner waits for its ticker.
EndScan ==
    /\ pc = "check"
    /\ todo = {}
    /\ log' = IF phase = "running" THEN log ELSE Append(log, AuditStart)
    /\ phase' = "running"
    /\ pc' = "idle"
    /\ UNCHANGED <<kernel, queue, known, todo, opening, cap, reader, batch, crashes>>

Tick ==
    /\ pc = "idle"
    /\ pc' = "glob"
    /\ UNCHANGED <<kernel, queue, known, todo, opening, cap, phase, reader,
                   batch, log, crashes>>

-----------------------------------------------------------------------------
(* The reader goroutine of a device.                                       *)

\* How many of the queued events one read returns.
BatchLen(q) == IF Len(q) <= ReadEvents THEN Len(q) ELSE ReadEvents

\* Mutant: the events of a read stay in the queue.
ReadAgain(d) ==
    /\ reader[d] = "read"
    /\ queue[d] # <<>>
    /\ batch' = [batch EXCEPT ![d] = SubSeq(queue[d], 1, BatchLen(queue[d]))]
    /\ reader' = [reader EXCEPT ![d] = "log"]
    /\ UNCHANGED <<kernel, queue, known, scanner, log, crashes>>

\* Read returns whole events.
Read(d) ==
    /\ reader[d] = "read"
    /\ queue[d] # <<>>
    /\ batch' = [batch EXCEPT ![d] = SubSeq(queue[d], 1, BatchLen(queue[d]))]
    /\ queue' = [queue EXCEPT ![d] = SubSeq(@, BatchLen(@) + 1, Len(@))]
    /\ reader' = [reader EXCEPT ![d] = "log"]
    /\ UNCHANGED <<kernel, known, scanner, log, crashes>>

\* Mutant: the loop over the buffer ends after its first event.
LogKeyOnce(d) ==
    /\ reader[d] = "log"
    /\ log' = Append(log, Key(d, Head(batch[d])))
    /\ batch' = [batch EXCEPT ![d] = Tail(@)]
    /\ reader' = [reader EXCEPT ![d] = "read"]
    /\ UNCHANGED <<kernel, queue, known, scanner, crashes>>

\* One KEY record per event, in the order of the buffer.
LogKey(d) ==
    /\ reader[d] = "log"
    /\ log' = Append(log, Key(d, Head(batch[d])))
    /\ batch' = [batch EXCEPT ![d] = Tail(@)]
    /\ reader' = [reader EXCEPT ![d] = IF Tail(batch[d]) = <<>> THEN "read" ELSE @]
    /\ UNCHANGED <<kernel, queue, known, scanner, crashes>>

\* Mutant: a read that returns nothing is taken for the end of the device.
RemoveOnEmptyRead(d) ==
    /\ reader[d] = "read"
    /\ queue[d] = <<>>
    /\ known' = [known EXCEPT ![where[d]] = None]
    /\ reader' = [reader EXCEPT ![d] = "farewell"]
    /\ UNCHANGED <<kernel, queue, scanner, batch, log, crashes>>

\* Mutant: the reader of a device that is gone leaves it registered.
RemoveNothing(d) ==
    /\ reader[d] = "read"
    /\ d \notin present
    /\ reader' = [reader EXCEPT ![d] = "farewell"]
    /\ UNCHANGED <<kernel, queue, known, scanner, batch, log, crashes>>

\* ENODEV: removeDevice takes the device out of `known` under the lock, or only
\* closes the descriptor when the table holds another one under its path.
RemoveDevice(d) ==
    /\ reader[d] = "read"
    /\ d \notin present
    /\ known' = IF known[where[d]] = d THEN [known EXCEPT ![where[d]] = None] ELSE known
    /\ reader' = [reader EXCEPT ![d] = IF known[where[d]] = d THEN "farewell" ELSE "none"]
    /\ UNCHANGED <<kernel, queue, scanner, batch, log, crashes>>

\* DEVICE_REMOVED, after the lock is released; the goroutine ends.
LogRemoved(d) ==
    /\ reader[d] = "farewell"
    /\ log' = Append(log, Removed(d))
    /\ reader' = [reader EXCEPT ![d] = "done"]
    /\ UNCHANGED <<kernel, queue, known, scanner, batch, crashes>>

-----------------------------------------------------------------------------
(* The process.                                                            *)

\* Everything but the log and the devices is lost.
Crash ==
    /\ pc # "off"
    /\ crashes < MaxCrashes
    /\ crashes' = crashes + 1
    /\ queue' = [d \in Dev |-> <<>>]
    /\ known' = [p \in Path |-> None]
    /\ pc' = "off"
    /\ todo' = {}
    /\ opening' = None
    /\ cap' = "non-key"
    /\ phase' = "starting"
    /\ reader' = [d \in Dev |-> "none"]
    /\ batch' = [d \in Dev |-> <<>>]
    /\ lost' = [d \in Dev |-> lost[d] \cup Elems(queue[d]) \cup Elems(batch[d])]
    /\ UNCHANGED <<where, present, emitted, log>>

Restart ==
    /\ pc = "off"
    /\ pc' = "glob"
    /\ UNCHANGED <<kernel, queue, known, todo, opening, cap, phase, reader,
                   batch, log, crashes>>

Scan == Glob \/ Skip \/ Unknown \/ Open \/ Query \/ Register \/ Announce \/ EndScan \/ Tick

Reader(d) == Read(d) \/ LogKey(d) \/ RemoveDevice(d) \/ LogRemoved(d)

Environment ==
    \/ \E d \in Dev : Unplug(d) \/ Press(d) \/ \E p \in Path : Plug(d, p)
    \/ Crash

Next == Scan \/ (\E d \in Dev : Reader(d)) \/ Environment \/ Restart

\* The goroutines and the ticker run, and systemd restarts the process; no
\* device need ever be plugged, pressed or unplugged.
Fairness ==
    /\ WF_vars(Scan)
    /\ WF_vars(Restart)
    /\ \A d \in Dev : WF_vars(Reader(d))

Spec == Init /\ [][Next]_vars /\ Fairness

-----------------------------------------------------------------------------
(* Properties.                                                             *)

\* Every variable has its type; openDevice always has a device, a batch is never
\* longer than one read returns, a queue never longer than the kernel keeps, and
\* a reader logs exactly while it holds a batch.
TypeOK ==
    /\ where \in [Dev -> Path \cup {NoPath}]
    /\ present \subseteq Dev
    /\ emitted \in [Dev -> Nat]
    /\ lost \in [Dev -> SUBSET Nat]
    /\ known \in [Path -> Dev \cup {None}]
    /\ pc \in {"off", "glob", "check", "open", "query", "register", "announce", "idle"}
    /\ todo \subseteq Path
    /\ opening \in Dev \cup {None}
    /\ opening # None <=> pc \in Opened
    /\ cap \in {"key-capable", "non-key"}
    /\ phase \in {"starting", "running"}
    /\ reader \in [Dev -> {"none", "read", "log", "farewell", "done"}]
    /\ queue \in [Dev -> Seq(Nat)]
    /\ batch \in [Dev -> Seq(Nat)]
    /\ \A d \in Dev :
         /\ Len(batch[d]) <= ReadEvents /\ Len(queue[d]) <= EvdevBuffer
         /\ batch[d] # <<>> <=> reader[d] = "log"
    /\ log \in Seq(Record)
    /\ crashes \in Nat

\* DEVICE_ADDED of d is the last announcement of its path in the log s.
LastAnnounced(d, s) ==
    \E j \in DOMAIN s :
        /\ s[j] = Added(d)
        /\ \A k \in DOMAIN s :
             s[k].kind = "DEVICE_ADDED" /\ s[k].path = where[d] => k <= j

\* The KEY records name a path, so a reader of keys.log takes the device from
\* the last DEVICE_ADDED of that path.  That is the device whose reader logged
\* the KEY, although readers, scanner and re-used paths are not synchronised
\* beyond `known`, and although a restart announces every device anew.
PathAttribution ==
    \A i \in DOMAIN log :
        log[i].kind = "KEY" =>
            \E j \in 1..i :
                /\ log[j].kind = "DEVICE_ADDED"
                /\ log[j].path = log[i].path /\ log[j].dev = log[i].dev
                /\ \A k \in j + 1..i :
                     ~(log[k].kind = "DEVICE_ADDED" /\ log[k].path = log[i].path)

\* DEVICE_REMOVED, written after the lock is released, is still the last record
\* of its device: no KEY or DEVICE_ADDED of the same device comes after it.
RemovedIsFinal ==
    \A i, j \in DOMAIN log :
        i < j /\ log[i].kind = "DEVICE_REMOVED" => log[j].dev # log[i].dev

\* The check of `known` in scan and the one in openDevice are two critical
\* sections, and so are registration and removal: between them nobody takes the
\* path.  A path found free is free when it is registered, a registered device
\* is the one announced, and a device that is read holds its path.
PathOwned ==
    /\ pc \in {"query", "register"} => known[where[opening]] = None
    /\ pc = "announce" => known[where[opening]] = opening
    /\ \A d \in Dev : reader[d] \in Reading => known[where[d]] = d

\* The KEY records of a device are its events in the order they happened, each
\* at most once, across overflows of the kernel's queue and restarts.
KeysInOrder ==
    \A i, j \in DOMAIN log :
        i < j /\ log[i].kind = "KEY" /\ log[j].kind = "KEY" /\ log[i].dev = log[j].dev
            => log[i].n < log[j].n

\* keys.log misses nothing the monitor was given: every event of a device it has
\* open waits in the kernel's queue or in a reader's buffer, is logged, or was
\* thrown away by the kernel (an overflow, a device that goes) or by a kill.
\* The scanner, the readers and removeDevice lose none between them, whatever
\* happens to the path (a record that is written is taken to reach the file).
NothingSkipped ==
    \A d \in Dev : \A e \in 1..emitted[d] :
        \/ e \in lost[d] \cup Elems(queue[d]) \cup Elems(batch[d])
        \/ Key(d, e) \in Elems(log)

\* While the process runs, a device that is plugged is never taken out of
\* `known`: removal is only ever caused by the device itself going away.
NeverDropsLive ==
    [][\A p \in Path :
          known[p] \in present /\ pc' # "off" => known'[p] = known[p]]_vars

\* The path is taken in `known` by a device that is gone and has no reader that
\* could notice: one the monitor registered as a device without keys.
Shadowed(p) ==
    /\ known[p] # None
    /\ known[p] \notin present
    /\ opening # known[p]
    /\ reader[known[p]] = "none"

Announced(d) == Added(d) \in Elems(log)

\* Every device that stays plugged at a path that is not shadowed is announced,
\* even when the path was another device's and that one's reader has not
\* noticed its removal yet.
PluggedAnnounced ==
    \A d \in Dev, p \in Path :
        (d \in present /\ where[d] = p)
            ~> (Announced(d) \/ d \notin present \/ Shadowed(p))

\* An event the kernel has queued leaves the queue, and an event read from it is
\* logged unless the process is killed: no reader is stuck, and none drops the
\* rest of its buffer when its device goes.
KeysGetLogged ==
    \A d \in KeyDev : \A e \in 1..MaxKeys[d] :
        /\ (e \in Elems(queue[d])) ~> (e \notin Elems(queue[d]))
        /\ (e \in Elems(batch[d])) ~> (Key(d, e) \in Elems(log) \/ pc = "off")

\* The header of inputmon.go: "A periodic rescan (every RESCAN) detects new or
\* virtual (uinput) input devices".  Every device that stays plugged would be
\* announced; the code does not do that.
EveryDeviceDetected ==
    \A d \in Dev : (d \in present) ~> (Announced(d) \/ d \notin present)
=============================================================================
