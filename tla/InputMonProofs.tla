--------------------------- MODULE InputMonProofs ---------------------------
(***************************************************************************)
(* Proofs about InputMon, for every number of devices, paths, events and   *)
(* restarts.  The inductive invariant has three parts beside the types:    *)
(*   Scanner   what the scanner goroutine may rely on between its steps;   *)
(*   Readers   what a reader goroutine may rely on between its steps;      *)
(*   History   what keys.log says of the devices that are read now.        *)
(* The order of the key records (KInv) and that none is missing (SInv) are *)
(* proved from invariants of their own.                                    *)
(***************************************************************************)
EXTENDS InputMon, SequenceTheorems, TLAPS

USE DEF NoPath, Opened, Reading

\* The device being opened is at a known path and has no reader yet, and its
\* path is free until it is registered.
Scanner ==
    /\ opening # None => where[opening] \in Path /\ reader[opening] = "none"
    /\ pc = "open" => \E p \in Path : Next1(p) /\ known[p] = None
    /\ pc \in {"query", "register"} => known[where[opening]] = None
    /\ pc = "announce" => known[where[opening]] = opening

\* A device that is read holds its path; one that is no longer read is gone.
Readers ==
    /\ \A d \in present : where[d] \in Path
    /\ \A d \in Dev : reader[d] # "none" => where[d] \in Path
    /\ \A d \in Dev : reader[d] \in Reading => known[where[d]] = d
    /\ \A d \in Dev : reader[d] \in {"farewell", "done"} => d \notin present

\* What is known of a device the log calls removed.
Gone(d) ==
    /\ d \in Dev \ present
    /\ where[d] # NoPath
    /\ opening # d
    /\ reader[d] \in {"none", "done"}

\* A device that is read is the last one announced at its path, and a device
\* with a DEVICE_REMOVED is gone for good.
History ==
    /\ \A d \in Dev : reader[d] \in Reading => LastAnnounced(d, log)
    /\ \A i \in DOMAIN log : log[i].kind = "DEVICE_REMOVED" => Gone(log[i].dev)

IInv == TypeOK /\ Scanner /\ Readers /\ History /\ PathAttribution /\ RemovedIsFinal

-----------------------------------------------------------------------------
(* Types.                                                                  *)

\* The records the monitor appends are records of the log.
LEMMA RecordTypes ==
    ASSUME TypeOK, NEW d \in Dev, NEW e \in Nat
    PROVE  Added(d) \in Record /\ Removed(d) \in Record /\ Key(d, e) \in Record
           /\ AuditStart \in Record
BY DEF TypeOK, Added, Removed, Key, AuditStart, Record

\* What one read takes from the queue, and what it leaves there.
LEMMA SplitQueue ==
    ASSUME NEW q \in Seq(Nat), q # <<>>
    PROVE  /\ SubSeq(q, 1, BatchLen(q)) \in Seq(Nat)
           /\ SubSeq(q, 1, BatchLen(q)) # <<>>
           /\ Len(SubSeq(q, 1, BatchLen(q))) <= ReadEvents
           /\ SubSeq(q, BatchLen(q) + 1, Len(q)) \in Seq(Nat)
           /\ Len(SubSeq(q, BatchLen(q) + 1, Len(q))) <= Len(q)
<1>1. BatchLen(q) \in 1..Len(q) /\ BatchLen(q) <= ReadEvents
  BY InputMonAssumption DEF BatchLen
<1> DEFINE n == BatchLen(q)
<1>2. n \in Nat /\ Len(q) \in Nat /\ 1 <= n /\ n <= Len(q) /\ n <= ReadEvents
  BY <1>1
<1> HIDE DEF n
<1>3. SubSeq(q, 1, n) \in Seq(Nat) /\ Len(SubSeq(q, 1, n)) = n
  BY <1>2
<1>4. SubSeq(q, n + 1, Len(q)) \in Seq(Nat)
  BY <1>2
<1>5. Len(SubSeq(q, n + 1, Len(q))) = Len(q) - n
  BY <1>2
<1>6. SubSeq(q, 1, n) # <<>>
  BY <1>2, <1>3
<1> DEFINE t == SubSeq(q, 1, n)
           u == SubSeq(q, n + 1, Len(q))
<1>7. Len(t) <= ReadEvents /\ Len(u) <= Len(q)
  BY <1>2, <1>3, <1>5
<1>8. QED
  BY <1>3, <1>4, <1>6, <1>7 DEF n

\* A reader that logs has an event to log.
LEMMA BatchHead ==
    ASSUME TypeOK, NEW d \in Dev, LogKey(d)
    PROVE  Head(batch[d]) \in Nat
<1>1. batch[d] \in Seq(Nat)
  BY DEF TypeOK
<1>2. reader[d] = "log"
  BY DEF LogKey
<1>3. batch[d] # <<>>
  BY <1>2 DEF TypeOK
<1>4. QED
  BY <1>1, <1>3

\* What waits for a reader, or in one, is a set of events.
LEMMA EventsWaiting ==
    ASSUME TypeOK
    PROVE  \A d \in Dev : Elems(queue[d]) \subseteq Nat /\ Elems(batch[d]) \subseteq Nat
<1>1. \A d \in Dev : queue[d] \in Seq(Nat) /\ batch[d] \in Seq(Nat)
  BY DEF TypeOK
<1>2. QED
  BY <1>1 DEF Elems

\* The initial state is well typed, and nothing is known, read or logged in it.
LEMMA InitTypes ==
    Init => TypeOK
<1> SUFFICES ASSUME Init PROVE TypeOK
  OBVIOUS
<1> USE InputMonAssumption, EmptySeq
<1>1. queue \in [Dev -> Seq(Nat)] /\ batch \in [Dev -> Seq(Nat)]
  BY DEF Init
<1>2. \A d \in Dev : Len(batch[d]) <= ReadEvents /\ Len(queue[d]) <= EvdevBuffer
  BY DEF Init
<1>3. \A d \in Dev : batch[d] # <<>> <=> reader[d] = "log"
  BY DEF Init
<1>4. opening # None <=> pc \in Opened
  BY DEF Init
<1>5. QED
  BY <1>1, <1>2, <1>3, <1>4 DEF Init, TypeOK

\* Every step keeps every variable in its type.
LEMMA TypeStep ==
    ASSUME TypeOK, Scanner, Readers, [Next]_vars
    PROVE  TypeOK'
<1> USE InputMonAssumption
<1>1. ASSUME NEW d \in Dev, NEW p \in Path, Plug(d, p)
      PROVE  TypeOK'
  BY <1>1 DEF Plug, TypeOK, scanner
<1>2. ASSUME NEW d \in Dev, Unplug(d)
      PROVE  TypeOK'
  <2>1. lost' \in [Dev -> SUBSET Nat]
    BY <1>2, EventsWaiting DEF Unplug, TypeOK
  <2>2. QED
    BY <1>2, <2>1 DEF Unplug, TypeOK, scanner
<1>3. ASSUME NEW d \in Dev, Press(d)
      PROVE  TypeOK'
  <2>1. lost' \in [Dev -> SUBSET Nat]
    BY <1>3, EventsWaiting DEF Press, TypeOK
  <2>2. QED
    BY <1>3, <2>1 DEF Press, TypeOK, scanner
<1>4. CASE Glob
  BY <1>4 DEF Glob, TypeOK, kernel, Readers
<1>5. CASE Skip \/ Unknown \/ Open \/ Query \/ Tick
  <2>1. CASE Skip
    BY <2>1 DEF Skip, TypeOK, kernel, Opened
  <2>2. CASE Unknown
    BY <2>2 DEF Unknown, TypeOK, kernel, Opened
  <2>3. CASE Open
    BY <2>3 DEF Open, TypeOK, kernel, Opened
  <2>4. CASE Query \/ Tick
    BY <2>4 DEF Query, Tick, TypeOK, kernel, Opened
  <2>5. QED
    BY <1>5, <2>1, <2>2, <2>3, <2>4
<1>6. CASE Register
  <2>1. opening \in Dev /\ where[opening] \in Path
    BY <1>6 DEF Register, TypeOK, Scanner, Opened
  <2>2. known' \in [Path -> Dev \cup {None}]
    BY <1>6, <2>1 DEF Register, TypeOK
  <2>3. /\ opening' \in Dev \cup {None} /\ (opening' # None <=> pc' \in Opened)
        /\ pc' \in {"check", "announce"} /\ todo' \subseteq Path
    BY <1>6, <2>1 DEF Register, TypeOK, Opened
  <2>4. UNCHANGED <<kernel, queue, cap, phase, reader, batch, log, crashes>>
    BY <1>6 DEF Register
  <2>5. QED
    BY <2>2, <2>3, <2>4 DEF TypeOK, kernel
<1>7. CASE Announce
  <2>1. Added(opening) \in Record
    BY <1>7, RecordTypes DEF Announce, TypeOK
  <2>2. \A d \in Dev : batch'[d] # <<>> <=> reader'[d] = "log"
    BY <1>7 DEF Announce, TypeOK, Scanner
  <2>3. log' \in Seq(Record)
    BY <1>7, <2>1 DEF Announce, TypeOK
  <2>4. reader' \in [Dev -> {"none", "read", "log", "farewell", "done"}]
    BY <1>7 DEF Announce, TypeOK
  <2>5. QED
    BY <1>7, <2>2, <2>3, <2>4 DEF Announce, TypeOK, kernel
<1>8. CASE EndScan
  <2>1. AuditStart \in Record
    BY DEF AuditStart, Record
  <2>2. log' \in Seq(Record)
    BY <1>8, <2>1 DEF EndScan, TypeOK
  <2>3. QED
    BY <1>8, <2>2 DEF EndScan, TypeOK, kernel
<1>9. ASSUME NEW d \in Dev, Read(d)
      PROVE  TypeOK'
  <2> DEFINE took == SubSeq(queue[d], 1, BatchLen(queue[d]))
             left == SubSeq(queue[d], BatchLen(queue[d]) + 1, Len(queue[d]))
  <2>1. queue[d] \in Seq(Nat) /\ queue[d] # <<>> /\ Len(queue[d]) <= EvdevBuffer
    BY <1>9 DEF Read, TypeOK
  <2>2. /\ took \in Seq(Nat) /\ took # <<>> /\ Len(took) <= ReadEvents
        /\ left \in Seq(Nat) /\ Len(left) <= Len(queue[d])
    BY <2>1, SplitQueue
  <2>3. batch' = [batch EXCEPT ![d] = took] /\ queue' = [queue EXCEPT ![d] = left]
    BY <1>9 DEF Read
  <2> HIDE DEF took, left
  <2>4. batch' \in [Dev -> Seq(Nat)] /\ queue' \in [Dev -> Seq(Nat)]
    BY <2>2, <2>3 DEF TypeOK
  <2>5. reader' \in [Dev -> {"none", "read", "log", "farewell", "done"}]
    BY <1>9 DEF Read, TypeOK
  <2>6. ASSUME NEW e \in Dev
        PROVE  /\ Len(batch'[e]) <= ReadEvents /\ Len(queue'[e]) <= EvdevBuffer
               /\ batch'[e] # <<>> <=> reader'[e] = "log"
    <3>1. CASE e = d
      <4>1. batch'[e] = took /\ queue'[e] = left /\ reader'[e] = "log"
        BY <1>9, <2>3, <3>1 DEF Read, TypeOK
      <4>2. Len(left) <= EvdevBuffer
        BY <2>1, <2>2 DEF TypeOK
      <4>3. QED
        BY <2>2, <4>1, <4>2
    <3>2. CASE e # d
      BY <1>9, <2>3, <3>2 DEF Read, TypeOK
    <3>3. QED
      BY <3>1, <3>2
  <2>7. QED
    BY <1>9, <2>4, <2>5, <2>6 DEF Read, TypeOK, kernel, scanner
<1>10. ASSUME NEW d \in Dev, LogKey(d)
       PROVE  TypeOK'
  <2>1. batch[d] \in Seq(Nat) /\ batch[d] # <<>> /\ Len(batch[d]) <= ReadEvents
    BY <1>10 DEF LogKey, TypeOK
  <2>2. Head(batch[d]) \in Nat /\ Tail(batch[d]) \in Seq(Nat)
        /\ Len(Tail(batch[d])) = Len(batch[d]) - 1
    BY <2>1
  <2>3. log' \in Seq(Record)
    <3>1. Key(d, Head(batch[d])) \in Record
      BY <2>2, RecordTypes
    <3>2. log \in Seq(Record)
      BY DEF TypeOK
    <3>3. log' = Append(log, Key(d, Head(batch[d])))
      BY <1>10 DEF LogKey
    <3>4. QED
      BY <3>1, <3>2, <3>3
  <2>4. /\ batch' \in [Dev -> Seq(Nat)]
        /\ reader' \in [Dev -> {"none", "read", "log", "farewell", "done"}]
    BY <1>10, <2>2 DEF LogKey, TypeOK
  <2>5. ASSUME NEW e \in Dev
        PROVE  /\ Len(batch'[e]) <= ReadEvents
               /\ batch'[e] # <<>> <=> reader'[e] = "log"
    <3>1. CASE e = d
      <4>1. batch'[e] = Tail(batch[d])
        BY <1>10, <3>1 DEF LogKey, TypeOK
      <4>2. reader'[e] = IF Tail(batch[d]) = <<>> THEN "read" ELSE "log"
        BY <1>10, <3>1 DEF LogKey, TypeOK
      <4>3. Len(Tail(batch[d])) <= ReadEvents
        BY <2>1, <2>2
      <4>4. QED
        BY <4>1, <4>2, <4>3
    <3>2. CASE e # d
      BY <1>10, <3>2 DEF LogKey, TypeOK
    <3>3. QED
      BY <3>1, <3>2
  <2>6. QED
    BY <1>10, <2>3, <2>4, <2>5 DEF LogKey, TypeOK, kernel, scanner
<1>11. ASSUME NEW d \in Dev, RemoveDevice(d)
       PROVE  TypeOK'
  BY <1>11 DEF RemoveDevice, TypeOK, kernel, scanner
<1>12. ASSUME NEW d \in Dev, LogRemoved(d)
       PROVE  TypeOK'
  BY <1>12, RecordTypes DEF LogRemoved, TypeOK, kernel, scanner
<1>13. CASE Crash
  <2>1. queue' \in [Dev -> Seq(Nat)] /\ batch' \in [Dev -> Seq(Nat)]
    BY <1>13, EmptySeq DEF Crash
  <2>2. \A d \in Dev : /\ Len(batch'[d]) <= ReadEvents /\ Len(queue'[d]) <= EvdevBuffer
                       /\ batch'[d] # <<>> <=> reader'[d] = "log"
    BY <1>13, EmptySeq DEF Crash
  <2>3. lost' \in [Dev -> SUBSET Nat]
    BY <1>13, EventsWaiting DEF Crash, TypeOK
  <2>4. QED
    BY <1>13, <2>1, <2>2, <2>3 DEF Crash, TypeOK, kernel
<1>14. CASE Restart
  BY <1>14 DEF Restart, TypeOK, kernel
<1>15. CASE UNCHANGED vars
  BY <1>15 DEF vars, TypeOK
<1>16. QED
  BY <1>1, <1>2, <1>3, <1>4, <1>5, <1>6, <1>7, <1>8, <1>9, <1>10, <1>11, <1>12,
     <1>13, <1>14, <1>15 DEF Next, Scan, Environment, Reader

-----------------------------------------------------------------------------
(* The table `known` between the critical sections.                        *)

\* Two paths cannot both be the next one to look at.
LEMMA NextUnique ==
    ASSUME NEW p \in Path, NEW q \in Path, Next1(p), Next1(q)
    PROVE  p = q
BY InputMonAssumption DEF Next1

\* The scanner's knowledge survives every step, its own and the readers'.
LEMMA ScannerStep ==
    ASSUME TypeOK, Scanner, Readers, [Next]_vars
    PROVE  Scanner'
<1> USE InputMonAssumption
<1>1. ASSUME NEW d \in Dev, NEW p \in Path, Plug(d, p)
      PROVE  Scanner'
  BY <1>1 DEF Plug, TypeOK, Scanner, scanner, Next1
<1>2. ASSUME NEW d \in Dev, Unplug(d) \/ Press(d)
      PROVE  Scanner'
  BY <1>2 DEF Unplug, Press, TypeOK, Scanner, scanner, Next1
<1>3. CASE Glob \/ Skip \/ EndScan \/ Tick \/ Restart
  BY <1>3 DEF Glob, Skip, EndScan, Tick, Restart, TypeOK, Scanner, kernel, Next1
<1>4. CASE Unknown
  BY <1>4 DEF Unknown, TypeOK, Scanner, kernel, Next1
<1>5. CASE Open
  <2>1. PICK p \in Path : Next1(p) /\ known[p] = None
    BY <1>5 DEF Open, Scanner
  <2>2. ASSUME NEW d \in present, where[d] = p, opening' = d, pc' = "query"
        PROVE  Scanner'
    <3>1. d \in Dev /\ reader[d] = "none"
      BY <2>1, <2>2 DEF TypeOK, Readers
    <3>2. QED
      BY <1>5, <2>1, <2>2, <3>1 DEF Open, Scanner, TypeOK, kernel
  <2>3. CASE pc' = "check" /\ UNCHANGED opening
    BY <1>5, <2>3 DEF Open, Scanner, TypeOK, kernel
  <2>4. \A q \in Path : Next1(q) => q = p
    BY <2>1, NextUnique
  <2>5. QED
    BY <1>5, <2>2, <2>3, <2>4 DEF Open
<1>6. CASE Query
  BY <1>6 DEF Query, TypeOK, Scanner, kernel
<1>7. CASE Register
  BY <1>7 DEF Register, TypeOK, Scanner, kernel
<1>8. CASE Announce
  BY <1>8 DEF Announce, TypeOK, Scanner, kernel
<1>9. ASSUME NEW d \in Dev, Read(d) \/ LogKey(d) \/ LogRemoved(d)
      PROVE  Scanner'
  <2>1. CASE Read(d)
    BY <2>1 DEF Read, TypeOK, Scanner, kernel, scanner, Next1
  <2>2. CASE LogKey(d)
    BY <2>2 DEF LogKey, TypeOK, Scanner, kernel, scanner, Next1
  <2>3. CASE LogRemoved(d)
    BY <2>3 DEF LogRemoved, TypeOK, Scanner, kernel, scanner, Next1
  <2>4. QED
    BY <1>9, <2>1, <2>2, <2>3
<1>10. ASSUME NEW d \in Dev, RemoveDevice(d)
       PROVE  Scanner'
  BY <1>10 DEF RemoveDevice, TypeOK, Scanner, kernel, scanner, Next1
<1>11. CASE Crash
  BY <1>11 DEF Crash, TypeOK, Scanner, kernel
<1>12. CASE UNCHANGED vars
  BY <1>12 DEF vars, Scanner, Next1
<1>13. QED
  BY <1>1, <1>2, <1>3, <1>4, <1>5, <1>6, <1>7, <1>8, <1>9, <1>10, <1>11, <1>12
  DEF Next, Scan, Environment, Reader

\* A reader's knowledge survives every step, its own and the scanner's.
LEMMA ReadersStep ==
    ASSUME TypeOK, Scanner, Readers, [Next]_vars
    PROVE  Readers'
<1> USE InputMonAssumption
<1>1. ASSUME NEW d \in Dev, NEW p \in Path, Plug(d, p)
      PROVE  Readers'
  BY <1>1 DEF Plug, TypeOK, Readers, scanner
<1>2. ASSUME NEW d \in Dev, Unplug(d) \/ Press(d)
      PROVE  Readers'
  BY <1>2 DEF Unplug, Press, TypeOK, Readers, scanner
<1>3. CASE Glob \/ Skip \/ Unknown \/ Open \/ Query \/ EndScan \/ Tick \/ Restart
  BY <1>3 DEF Glob, Skip, Unknown, Open, Query, EndScan, Tick, Restart, TypeOK,
     Readers, kernel
<1>4. CASE Register
  <2>1. CASE known[where[opening]] = None
    <3>1. where[opening] \in Path /\ where' = where /\ reader' = reader /\ present' = present
      BY <1>4 DEF Register, TypeOK, Scanner, kernel
    <3>2. \A p \in Path : known'[p] = IF p = where[opening] THEN opening ELSE known[p]
      BY <1>4, <2>1, <3>1 DEF Register, TypeOK
    <3>3. \A d \in Dev : reader[d] \in Reading => known'[where[d]] = d
      BY <2>1, <3>2 DEF Readers
    <3>4. QED
      BY <3>1, <3>3 DEF Readers
  <2>2. CASE known[where[opening]] # None
    BY <1>4, <2>2 DEF Register, Readers, kernel
  <2>3. QED
    BY <2>1, <2>2
<1>5. CASE Announce
  BY <1>5 DEF Announce, TypeOK, Scanner, Readers, kernel
<1>6. ASSUME NEW d \in Dev, Read(d) \/ LogKey(d) \/ LogRemoved(d)
      PROVE  Readers'
  <2>1. CASE Read(d)
    BY <2>1 DEF Read, TypeOK, Readers, kernel, scanner
  <2>2. CASE LogKey(d)
    BY <2>2 DEF LogKey, TypeOK, Readers, kernel, scanner
  <2>3. CASE LogRemoved(d)
    BY <2>3 DEF LogRemoved, TypeOK, Readers, kernel, scanner
  <2>4. QED
    BY <1>6, <2>1, <2>2, <2>3
<1>7. ASSUME NEW d \in Dev, RemoveDevice(d)
      PROVE  Readers'
  BY <1>7 DEF RemoveDevice, TypeOK, Readers, kernel, scanner
<1>8. CASE Crash
  BY <1>8 DEF Crash, TypeOK, Readers, kernel
<1>9. CASE UNCHANGED vars
  BY <1>9 DEF vars, Readers
<1>10. QED
  BY <1>1, <1>2, <1>3, <1>4, <1>5, <1>6, <1>7, <1>8, <1>9
  DEF Next, Scan, Environment, Reader

\* The owners of the paths: the three parts below are inductive together.
Owners == TypeOK /\ Scanner /\ Readers

\* Types, and who owns which path between the critical sections of scanner and
\* readers: the part of the invariant that does not look at the log.
THEOREM OwnersInvariant == Spec => []Owners
<1>1. Init => Owners
  BY InitTypes, InputMonAssumption DEF Init, Owners, Scanner, Readers
<1>2. Owners /\ [Next]_vars => Owners'
  BY TypeStep, ScannerStep, ReadersStep DEF Owners
<1>3. QED
  BY <1>1, <1>2, PTL DEF Spec

\* Every variable keeps its type.
THEOREM Typing == Spec => []TypeOK
<1>1. Owners => TypeOK
  BY DEF Owners
<1>2. QED
  BY <1>1, OwnersInvariant, PTL

\* Between the check and the use of a path nobody takes it.
THEOREM PathsAreOwned == Spec => []PathOwned
<1>1. Owners => PathOwned
  BY DEF Owners, Scanner, Readers, PathOwned
<1>2. QED
  BY <1>1, OwnersInvariant, PTL

\* A device that is plugged is never taken out of `known` while the process runs.
THEOREM LiveDevicesStay == Spec => NeverDropsLive
<1> DEFINE Keeps == \A p \in Path : known[p] \in present /\ pc' # "off" => known'[p] = known[p]
<1>1. Owners /\ [Next]_vars => [Keeps]_vars
  <2> SUFFICES ASSUME Owners, Next PROVE Keeps
    BY DEF Owners
  <2> USE InputMonAssumption
  <2>1. CASE Register
    BY <2>1 DEF Owners, Scanner, TypeOK, Register, kernel
  <2>2. ASSUME NEW d \in Dev, RemoveDevice(d) PROVE Keeps
    BY <2>2 DEF Owners, Readers, TypeOK, RemoveDevice
  <2>3. CASE Crash
    BY <2>3 DEF Crash
  <2>4. CASE UNCHANGED known
    BY <2>4
  <2>5. QED
    BY <2>1, <2>2, <2>3, <2>4 DEF Next, Scan, Environment, Reader, Plug, Unplug,
       Press, Glob, Skip, Unknown, Open, Query, Announce, EndScan, Tick, Restart,
       Read, LogKey, LogRemoved
<1>2. QED
  BY <1>1, OwnersInvariant, PTL DEF Spec, NeverDropsLive

-----------------------------------------------------------------------------
(* What keys.log says.                                                     *)

\* A record more: the others stay where they are.
LEMMA LogGrows ==
    ASSUME TypeOK, NEW r \in Record, log' = Append(log, r)
    PROVE  /\ Len(log) \in Nat
           /\ DOMAIN log = 1..Len(log)
           /\ DOMAIN log' = 1..Len(log) + 1
           /\ \A i \in 1..Len(log) : log'[i] = log[i]
           /\ log'[Len(log) + 1] = r
BY DEF TypeOK

\* A record that announces no device of its path changes nothing for a device.
LEMMA StillAnnounced ==
    ASSUME TypeOK, NEW d \in Dev, LastAnnounced(d, log), where'[d] = where[d],
           \/ log' = log
           \/ \E r \in Record : /\ log' = Append(log, r)
                                /\ r.kind = "DEVICE_ADDED" => r.path # where[d]
    PROVE  LastAnnounced(d, log)'
<1>1. CASE log' = log
  BY <1>1 DEF LastAnnounced, Added
<1>2. ASSUME NEW r \in Record, log' = Append(log, r),
             r.kind = "DEVICE_ADDED" => r.path # where[d]
      PROVE  LastAnnounced(d, log)'
  <2>1. PICK j \in DOMAIN log :
            /\ log[j] = Added(d)
            /\ \A k \in DOMAIN log :
                 log[k].kind = "DEVICE_ADDED" /\ log[k].path = where[d] => k <= j
    BY DEF LastAnnounced
  <2>2. j \in DOMAIN log' /\ log'[j] = Added(d)'
    BY <1>2, <2>1, LogGrows DEF Added
  <2>3. \A k \in DOMAIN log' :
            log'[k].kind = "DEVICE_ADDED" /\ log'[k].path = where'[d] => k <= j
    BY <1>2, <2>1, LogGrows
  <2>4. QED
    BY <2>2, <2>3 DEF LastAnnounced
<1>3. QED
  BY <1>1, <1>2

\* The last announcement of a device that is read is its own.
LEMMA AnnouncedStep ==
    ASSUME TypeOK, Scanner, Readers, History, [Next]_vars
    PROVE  \A d \in Dev : reader'[d] \in Reading => LastAnnounced(d, log)'
<1> SUFFICES ASSUME NEW d \in Dev, reader'[d] \in Reading
             PROVE  LastAnnounced(d, log)'
  OBVIOUS
<1> USE InputMonAssumption
<1>1. CASE Announce /\ d = opening
  <2>1. Added(d) \in Record /\ log' = Append(log, Added(d)) /\ where' = where
    BY <1>1, RecordTypes DEF Announce, TypeOK, kernel
  <2>2. Len(log) + 1 \in DOMAIN log' /\ log'[Len(log) + 1] = Added(d)'
    BY <2>1, LogGrows DEF Added
  <2>3. \A k \in DOMAIN log' : k <= Len(log) + 1
    BY <2>1, LogGrows
  <2>4. QED
    BY <2>2, <2>3 DEF LastAnnounced
<1>2. CASE Announce /\ d # opening
  <2>1. Added(opening) \in Record /\ opening \in Dev
    BY <1>2, RecordTypes DEF Announce, TypeOK
  <2>2. reader[d] \in Reading /\ where' = where
    BY <1>2, <2>1 DEF Announce, TypeOK, kernel
  <2>3. Added(opening).path # where[d]
    BY <1>2, <2>1, <2>2 DEF Announce, Scanner, Readers, Added, TypeOK
  <2>4. LastAnnounced(d, log)
    BY <2>2 DEF History
  <2>5. QED
    BY <1>2, <2>1, <2>2, <2>3, <2>4, StillAnnounced DEF Announce
<1>3. ASSUME ~Announce
      PROVE  LastAnnounced(d, log)'
  <2>1. reader[d] \in Reading
    BY <1>3 DEF Next, Scan, Environment, Reader, vars, kernel, scanner, TypeOK,
       Plug, Unplug, Press, Glob, Skip, Unknown, Open, Query, Register, EndScan,
       Tick, Crash, Restart, Read, LogKey, RemoveDevice, LogRemoved
  <2>2. where'[d] = where[d]
    BY <1>3, <2>1 DEF Next, Scan, Environment, Reader, vars, kernel, TypeOK, Readers,
       Plug, Unplug, Press, Glob, Skip, Unknown, Open, Query, Register, EndScan,
       Tick, Crash, Restart, Read, LogKey, RemoveDevice, LogRemoved
  <2>3. LastAnnounced(d, log)
    BY <2>1 DEF History
  <2>4. \/ log' = log
        \/ \E r \in Record : log' = Append(log, r) /\ r.kind # "DEVICE_ADDED"
    <3>1. ASSUME NEW e \in Dev, LogKey(e)
          PROVE  \E r \in Record : log' = Append(log, r) /\ r.kind # "DEVICE_ADDED"
      <4>1. Head(batch[e]) \in Nat
        BY <3>1, BatchHead
      <4>2. Key(e, Head(batch[e])) \in Record /\ Key(e, Head(batch[e])).kind # "DEVICE_ADDED"
        BY <4>1, RecordTypes DEF Key
      <4>3. QED
        BY <3>1, <4>2 DEF LogKey
    <3>2. ASSUME NEW e \in Dev, LogRemoved(e)
          PROVE  \E r \in Record : log' = Append(log, r) /\ r.kind # "DEVICE_ADDED"
      <4>1. Removed(e) \in Record /\ Removed(e).kind # "DEVICE_ADDED"
        BY RecordTypes, 0 \in Nat DEF Removed
      <4>2. QED
        BY <3>2, <4>1 DEF LogRemoved
    <3>3. AuditStart \in Record /\ AuditStart.kind # "DEVICE_ADDED"
      BY DEF AuditStart, Record
    <3>4. EndScan => log' = log \/ log' = Append(log, AuditStart)
      BY DEF EndScan
    <3>5. ASSUME ~EndScan, \A e \in Dev : ~LogKey(e) /\ ~LogRemoved(e)
          PROVE  log' = log
      BY <1>3, <3>5 DEF Next, Scan, Environment, Reader, vars, Plug, Unplug, Press,
         Glob, Skip, Unknown, Open, Query, Register, Tick, Crash, Restart, Read, RemoveDevice
    <3>6. QED
      BY <3>1, <3>2, <3>3, <3>4, <3>5
  <2>5. QED
    BY <2>2, <2>3, <2>4, StillAnnounced
<1>4. QED
  BY <1>1, <1>2, <1>3

\* A device that is gone stays gone, and nothing more is logged of it.
LEMMA GoneStays ==
    ASSUME TypeOK, Scanner, NEW d, Gone(d), [Next]_vars
    PROVE  /\ Gone(d)'
           /\ \/ log' = log
              \/ \E r \in Record : log' = Append(log, r) /\ r.dev # d
<1> USE InputMonAssumption
<1>1. CASE Announce
  <2>1. Added(opening) \in Record /\ Added(opening).dev # d
    BY <1>1, RecordTypes DEF Announce, TypeOK, Gone, Added
  <2>2. QED
    BY <1>1, <2>1 DEF Announce, TypeOK, Gone, kernel
<1>2. CASE EndScan
  <2>1. AuditStart \in Record /\ AuditStart.dev # d
    BY DEF AuditStart, Record, Gone
  <2>2. QED
    BY <1>2, <2>1 DEF EndScan, Gone, kernel
<1>3. ASSUME NEW e \in Dev, LogKey(e)
      PROVE  /\ Gone(d)'
             /\ \E r \in Record : log' = Append(log, r) /\ r.dev # d
  <2>1. e # d /\ Head(batch[e]) \in Nat
    BY <1>3, BatchHead DEF LogKey, Gone
  <2>2. Key(e, Head(batch[e])) \in Record /\ Key(e, Head(batch[e])).dev # d
    BY <2>1, RecordTypes DEF Key
  <2>3. log' = Append(log, Key(e, Head(batch[e])))
    BY <1>3 DEF LogKey
  <2>4. Gone(d)'
    BY <1>3, <2>1 DEF LogKey, TypeOK, Gone, kernel, scanner
  <2>5. QED
    BY <2>2, <2>3, <2>4
<1>4. ASSUME NEW e \in Dev, LogRemoved(e)
      PROVE  /\ Gone(d)'
             /\ \E r \in Record : log' = Append(log, r) /\ r.dev # d
  <2>1. e # d
    BY <1>4 DEF LogRemoved, Gone
  <2>2. Removed(e) \in Record /\ Removed(e).dev # d
    BY <2>1, RecordTypes DEF Removed
  <2>3. QED
    BY <1>4, <2>1, <2>2 DEF LogRemoved, TypeOK, Gone, kernel, scanner
<1>5. ASSUME NEW e \in Dev, Read(e) \/ RemoveDevice(e)
      PROVE  log' = log /\ Gone(d)'
  BY <1>5 DEF Read, RemoveDevice, TypeOK, Gone, kernel, scanner
<1>6. ASSUME NEW e \in Dev, Unplug(e) \/ Press(e) \/ \E p \in Path : Plug(e, p)
      PROVE  log' = log /\ Gone(d)'
  BY <1>6 DEF Unplug, Press, Plug, TypeOK, Gone, scanner
<1>7. CASE Open
  BY <1>7 DEF Open, TypeOK, Gone, kernel
<1>8. CASE Glob \/ Skip \/ Unknown \/ Query \/ Register \/ Tick \/ Restart
  BY <1>8 DEF Glob, Skip, Unknown, Query, Register, Tick, Restart, TypeOK, Gone, kernel
<1>9. CASE Crash
  BY <1>9 DEF Crash, TypeOK, Gone, kernel
<1>10. CASE UNCHANGED vars
  BY <1>10 DEF vars, Gone
<1>11. QED
  BY <1>1, <1>2, <1>3, <1>4, <1>5, <1>6, <1>7, <1>8, <1>9, <1>10
  DEF Next, Scan, Environment, Reader

\* Every device with a DEVICE_REMOVED is gone, also after the step that logs it.
LEMMA HistoryStep ==
    ASSUME TypeOK, Scanner, Readers, History, TypeOK', [Next]_vars
    PROVE  History'
<1>1. \A i \in DOMAIN log : log[i].kind = "DEVICE_REMOVED" => Gone(log[i].dev)
  BY DEF History, Gone
<1>2. ASSUME NEW i \in DOMAIN log', log'[i].kind = "DEVICE_REMOVED",
             NEW d, d = log'[i].dev
      PROVE  Gone(d)'
  <2>1. CASE i \in DOMAIN log /\ log'[i] = log[i]
    BY <1>1, <1>2, <2>1, GoneStays
  <2>2. ASSUME NEW e \in Dev, LogRemoved(e), log'[i] = Removed(e)
        PROVE  Gone(d)'
    <3>1. d = e
      BY <1>2, <2>2 DEF Removed
    <3>2. e \notin present /\ where[e] # NoPath /\ opening # e
      BY <2>2, InputMonAssumption DEF LogRemoved, Readers, Scanner
    <3>3. QED
      BY <2>2, <3>1, <3>2 DEF LogRemoved, Gone, TypeOK, kernel, scanner
  <2>3. \/ i \in DOMAIN log /\ log'[i] = log[i]
        \/ \E e \in Dev : LogRemoved(e) /\ log'[i] = Removed(e)
    <3>1. ASSUME NEW r, log' = Append(log, r), r \in Record
          PROVE  (i \in DOMAIN log /\ log'[i] = log[i]) \/ log'[i] = r
      BY <3>1, LogGrows, <1>2
    <3>2. CASE Announce
      BY <1>2, <3>1, <3>2, RecordTypes DEF Announce, Added, TypeOK
    <3>3. CASE EndScan
      <4>1. AuditStart \in Record /\ AuditStart.kind # "DEVICE_REMOVED"
        BY DEF AuditStart, Record
      <4>2. QED
        BY <1>2, <3>1, <3>3, <4>1 DEF EndScan
    <3>4. ASSUME NEW e \in Dev, LogKey(e)
          PROVE  i \in DOMAIN log /\ log'[i] = log[i]
      <4>1. Head(batch[e]) \in Nat
        BY <3>4 DEF LogKey, TypeOK
      <4>2. /\ Key(e, Head(batch[e])) \in Record
            /\ Key(e, Head(batch[e])).kind # "DEVICE_REMOVED"
        BY <4>1, RecordTypes DEF Key
      <4>3. QED
        BY <1>2, <3>1, <3>4, <4>2 DEF LogKey
    <3>5. ASSUME NEW e \in Dev, LogRemoved(e)
          PROVE  (i \in DOMAIN log /\ log'[i] = log[i]) \/ log'[i] = Removed(e)
      BY <3>1, <3>5, RecordTypes DEF LogRemoved
    <3>6. CASE log' = log
      BY <1>2, <3>6
    <3>7. QED
      BY <3>2, <3>3, <3>4, <3>5, <3>6 DEF Next, Scan, Environment, Reader, vars,
         Plug, Unplug, Press, Glob, Skip, Unknown, Open, Query, Register, Tick,
         Crash, Restart, Read, RemoveDevice
  <2>4. QED
    BY <2>1, <2>2, <2>3
<1>3. \A i \in DOMAIN log' : log'[i].kind = "DEVICE_REMOVED" =>
        /\ log'[i].dev \in Dev \ present'
        /\ where'[log'[i].dev] # NoPath
        /\ opening' # log'[i].dev
        /\ reader'[log'[i].dev] \in {"none", "done"}
  BY <1>2 DEF Gone
<1>4. QED
  BY <1>3, AnnouncedStep DEF History, Gone

\* A new record is a KEY only when a reader logs one.
LEMMA NewRecord ==
    ASSUME TypeOK, [Next]_vars
    PROVE  \/ log' = log
           \/ \E r \in Record :
                /\ log' = Append(log, r)
                /\ r.kind = "KEY" =>
                     \E e \in Dev, n \in Nat : reader[e] = "log" /\ r = Key(e, n)
<1>1. CASE Announce
  BY <1>1, RecordTypes DEF Announce, Added, TypeOK
<1>2. CASE EndScan
  <2>1. AuditStart \in Record /\ AuditStart.kind # "KEY"
    BY DEF AuditStart, Record
  <2>2. QED
    BY <1>2, <2>1 DEF EndScan
<1>3. ASSUME NEW e \in Dev, LogKey(e)
      PROVE  \E r \in Record :
                /\ log' = Append(log, r)
                /\ r.kind = "KEY" =>
                     \E d \in Dev, n \in Nat : reader[d] = "log" /\ r = Key(d, n)
  <2>1. Head(batch[e]) \in Nat
    BY <1>3 DEF LogKey, TypeOK
  <2>2. Key(e, Head(batch[e])) \in Record
    BY <2>1, RecordTypes
  <2>3. QED
    BY <1>3, <2>1, <2>2 DEF LogKey
<1>4. ASSUME NEW e \in Dev, LogRemoved(e)
      PROVE  \E r \in Record : log' = Append(log, r) /\ r.kind # "KEY"
  BY <1>4, RecordTypes DEF LogRemoved, Removed
<1>5. CASE log' = log
  BY <1>5
<1>6. QED
  BY <1>1, <1>2, <1>3, <1>4, <1>5 DEF Next, Scan, Environment, Reader, vars,
     Plug, Unplug, Press, Glob, Skip, Unknown, Open, Query, Register, Tick,
     Crash, Restart, Read, RemoveDevice

\* A step appends at most one record, and a KEY among them names the device last
\* announced at its path: older records keep their announcement.
LEMMA AttributionStep ==
    ASSUME TypeOK, History, PathAttribution, [Next]_vars
    PROVE  PathAttribution'
<1>1. CASE log' = log
  BY <1>1 DEF PathAttribution
<1>2. ASSUME NEW r \in Record, log' = Append(log, r),
             r.kind = "KEY" => \E e \in Dev, n \in Nat : reader[e] = "log" /\ r = Key(e, n)
      PROVE  PathAttribution'
  <2> SUFFICES ASSUME NEW i \in DOMAIN log', log'[i].kind = "KEY"
               PROVE  \E j \in 1..i :
                        /\ log'[j].kind = "DEVICE_ADDED"
                        /\ log'[j].path = log'[i].path /\ log'[j].dev = log'[i].dev
                        /\ \A k \in j + 1..i :
                             ~(log'[k].kind = "DEVICE_ADDED" /\ log'[k].path = log'[i].path)
    BY DEF PathAttribution
  <2> USE <1>2, LogGrows
  <2>1. CASE i \in 1..Len(log)
    <3>1. PICK j \in 1..i :
             /\ log[j].kind = "DEVICE_ADDED"
             /\ log[j].path = log[i].path /\ log[j].dev = log[i].dev
             /\ \A k \in j + 1..i :
                  ~(log[k].kind = "DEVICE_ADDED" /\ log[k].path = log[i].path)
      BY <2>1 DEF PathAttribution
    <3>2. \A k \in 1..i : log'[k] = log[k]
      BY <2>1
    <3>3. QED
      BY <2>1, <3>1, <3>2
  <2>2. CASE i = Len(log) + 1
    <3>1. PICK e \in Dev, n \in Nat : reader[e] = "log" /\ r = Key(e, n)
      BY <2>2
    <3>2. PICK j \in DOMAIN log :
             /\ log[j] = Added(e)
             /\ \A k \in DOMAIN log :
                  log[k].kind = "DEVICE_ADDED" /\ log[k].path = where[e] => k <= j
      BY <3>1 DEF History, LastAnnounced
    <3>3. /\ j \in 1..i
          /\ log'[j].kind = "DEVICE_ADDED"
          /\ log'[j].path = log'[i].path /\ log'[j].dev = log'[i].dev
      BY <2>2, <3>1, <3>2 DEF Added, Key
    <3>4. ASSUME NEW k \in j + 1..i
          PROVE  ~(log'[k].kind = "DEVICE_ADDED" /\ log'[k].path = log'[i].path)
      BY <2>2, <3>1, <3>2, <3>4 DEF Key
    <3>5. QED
      BY <3>3, <3>4
  <2>3. i \in 1..Len(log) \/ i = Len(log) + 1
    OBVIOUS
  <2>4. QED
    BY <2>1, <2>2, <2>3
<1>3. QED
  BY <1>1, <1>2, NewRecord

\* A device with a DEVICE_REMOVED is gone, and whoever logs has a device that
\* is not.
LEMMA FinalStep ==
    ASSUME TypeOK, Scanner, History, RemovedIsFinal, [Next]_vars
    PROVE  RemovedIsFinal'
<1>1. CASE log' = log
  BY <1>1 DEF RemovedIsFinal
<1>2. ASSUME NEW r \in Record, log' = Append(log, r)
      PROVE  RemovedIsFinal'
  <2> SUFFICES ASSUME NEW i \in DOMAIN log', NEW j \in DOMAIN log', i < j,
                      log'[i].kind = "DEVICE_REMOVED"
               PROVE  log'[j].dev # log'[i].dev
    BY DEF RemovedIsFinal
  <2>1. i \in DOMAIN log /\ log'[i] = log[i]
    BY <1>2, LogGrows
  <2>2. CASE j \in DOMAIN log
    BY <1>2, <2>1, <2>2, LogGrows DEF RemovedIsFinal
  <2>3. CASE j = Len(log) + 1
    <3>1. PICK d : d = log[i].dev
      OBVIOUS
    <3>2. Gone(d)
      BY <2>1, <3>1 DEF History, Gone
    <3>3. log' # log
      BY <1>2, LogGrows
    <3>4. PICK q \in Record : log' = Append(log, q) /\ q.dev # d
      BY <3>2, <3>3, GoneStays
    <3>5. log'[j] = q
      BY <2>3, <3>4, LogGrows
    <3>6. QED
      BY <2>1, <3>1, <3>4, <3>5
  <2>4. QED
    BY <1>2, <2>2, <2>3, LogGrows
<1>3. QED
  BY <1>1, <1>2, NewRecord

\* The inductive invariant.
THEOREM Invariance == Spec => []IInv
<1>1. Init => IInv
  <2>1. Init => DOMAIN log = {}
    BY DEF Init
  <2>2. QED
    BY <2>1, InitTypes, InputMonAssumption
    DEF Init, IInv, Scanner, Readers, History, PathAttribution, RemovedIsFinal
<1>2. IInv /\ [Next]_vars => IInv'
  BY TypeStep, ScannerStep, ReadersStep, HistoryStep, AttributionStep, FinalStep DEF IInv
<1>3. QED
  BY <1>1, <1>2, PTL DEF Spec

\* A KEY record belongs to the device last announced at its path.
THEOREM KeysAreAttributed == Spec => []PathAttribution
<1>1. IInv => PathAttribution
  BY DEF IInv
<1>2. QED
  BY <1>1, Invariance, PTL

\* Nothing of a device is logged after its DEVICE_REMOVED.
THEOREM RemovalIsFinal == Spec => []RemovedIsFinal
<1>1. IInv => RemovedIsFinal
  BY DEF IInv
<1>2. QED
  BY <1>1, Invariance, PTL
-----------------------------------------------------------------------------
(* The order of the events.                                                *)

\* The events of a device on their way to the log: those read come before those
\* still queued, and all come after those logged, whatever of the queue is lost.
Pending(d) ==
    /\ \A i, j \in DOMAIN batch[d] : i < j => batch[d][i] < batch[d][j]
    /\ \A i, j \in DOMAIN queue[d] : i < j => queue[d][i] < queue[d][j]
    /\ \A i \in DOMAIN batch[d], j \in DOMAIN queue[d] : batch[d][i] < queue[d][j]
    /\ \A i \in DOMAIN batch[d] : batch[d][i] <= emitted[d]
    /\ \A i \in DOMAIN queue[d] : queue[d][i] <= emitted[d]

\* Event n of a device is older than all of those.
Older(n, d) ==
    /\ n <= emitted[d]
    /\ \A i \in DOMAIN batch[d] : n < batch[d][i]
    /\ \A i \in DOMAIN queue[d] : n < queue[d][i]

Logged ==
    \A k \in DOMAIN log :
        log[k].kind = "KEY" => log[k].dev \in Dev /\ Older(log[k].n, log[k].dev)

KInv == KeysInOrder /\ Logged /\ \A d \in Dev : Pending(d)

\* A record that is not a KEY, or none, disturbs nothing as long as the events of
\* every device stay as they are.
LEMMA OtherRecord ==
    ASSUME TypeOK, KInv, UNCHANGED <<batch, queue, emitted>>,
           \/ log' = log
           \/ \E r \in Record : log' = Append(log, r) /\ r.kind # "KEY"
    PROVE  KInv'
<1>1. \A d \in Dev : Pending(d)'
  BY DEF KInv, Pending
<1>2. CASE log' = log
  BY <1>1, <1>2 DEF KInv, KeysInOrder, Logged, Older
<1>3. ASSUME NEW r \in Record, log' = Append(log, r), r.kind # "KEY"
      PROVE  KInv'
  <2>1. \A i \in DOMAIN log' : log'[i].kind = "KEY" => i \in DOMAIN log /\ log'[i] = log[i]
    BY <1>3, LogGrows
  <2>2. KeysInOrder'
    BY <2>1 DEF KInv, KeysInOrder
  <2>3. Logged'
    BY <2>1 DEF KInv, Logged, Older
  <2>4. QED
    BY <1>1, <2>2, <2>3 DEF KInv
<1>4. QED
  BY <1>2, <1>3

\* Every record has a number.
LEMMA LogNumbers ==
    ASSUME TypeOK
    PROVE  \A k \in DOMAIN log : log[k].n \in Nat
<1>1. \A k \in DOMAIN log : log[k] \in Record
  BY DEF TypeOK
<1>2. QED
  BY <1>1 DEF Record

\* Events that come, are read or are lost stay behind those that were logged.
LEMMA EventsMove ==
    ASSUME TypeOK, KInv, log' = log,
           \A d \in Dev : Pending(d)',
           \A d \in Dev, n \in Nat : Older(n, d) => Older(n, d)'
    PROVE  KInv'
<1>1. KeysInOrder'
  BY DEF KInv, KeysInOrder
<1>3. Logged'
  BY LogNumbers DEF KInv, Logged
<1>4. QED
  BY <1>1, <1>3 DEF KInv

\* A new event is younger than all others; when the queue is full they are lost.
LEMMA PressInOrder ==
    ASSUME TypeOK, KInv, NEW d \in Dev, Press(d)
    PROVE  KInv'
<1> DEFINE kept == IF Len(queue[d]) = EvdevBuffer THEN <<>> ELSE queue[d]
<1>1. /\ kept \in Seq(Nat)
      /\ \A i \in DOMAIN kept : i \in DOMAIN queue[d] /\ kept[i] = queue[d][i]
      /\ emitted[d] \in Nat
  BY DEF TypeOK
<1>2. /\ queue' = [queue EXCEPT ![d] = Append(kept, emitted[d] + 1)]
      /\ emitted' = [emitted EXCEPT ![d] = @ + 1]
      /\ batch' = batch /\ log' = log
  BY DEF Press, TypeOK
<1>3. /\ queue'[d] = Append(kept, emitted[d] + 1) /\ emitted'[d] = emitted[d] + 1
      /\ \A e \in Dev \ {d} : queue'[e] = queue[e] /\ emitted'[e] = emitted[e]
  BY <1>2 DEF TypeOK
<1> HIDE DEF kept
<1>4. \A i \in DOMAIN queue'[d] :
          \/ i \in DOMAIN queue[d] /\ i \in DOMAIN kept /\ queue'[d][i] = queue[d][i]
          \/ i = Len(kept) + 1 /\ queue'[d][i] = emitted[d] + 1
  BY <1>1, <1>3
<1>5. /\ \A i \in DOMAIN queue[d] : queue[d][i] \in Nat
      /\ \A i \in DOMAIN batch[d] : batch[d][i] \in Nat
  BY DEF TypeOK
<1>6. Pending(d)'
  <2>1. Pending(d)
    BY DEF KInv
  <2>2. \A i, j \in DOMAIN queue'[d] : i < j => queue'[d][i] < queue'[d][j]
    BY <1>1, <1>4, <1>5, <2>1 DEF Pending
  <2>3. \A i \in DOMAIN queue'[d] : queue'[d][i] <= emitted'[d]
    BY <1>1, <1>3, <1>4, <1>5, <2>1 DEF Pending
  <2>4. \A i \in DOMAIN batch[d], j \in DOMAIN queue'[d] : batch[d][i] < queue'[d][j]
    BY <1>1, <1>4, <1>5, <2>1 DEF Pending
  <2>5. \A i \in DOMAIN batch[d] : batch[d][i] <= emitted'[d]
    BY <1>1, <1>3, <1>5, <2>1 DEF Pending
  <2>6. QED
    BY <1>2, <2>1, <2>2, <2>3, <2>4, <2>5 DEF Pending
<1>7. \A e \in Dev : Pending(e)'
  BY <1>2, <1>3, <1>6 DEF KInv, Pending
<1>8. \A n \in Nat : Older(n, d) => Older(n, d)'
  BY <1>1, <1>2, <1>3, <1>4 DEF Older
<1>9. \A e \in Dev, n \in Nat : Older(n, e) => Older(n, e)'
  BY <1>2, <1>3, <1>8 DEF Older
<1>10. QED
  BY <1>2, <1>7, <1>9, EventsMove

\* A device that goes, or a process that ends, loses events.
LEMMA LossInOrder ==
    ASSUME TypeOK, KInv, log' = log, emitted' = emitted,
           \A d \in Dev : (queue'[d] = queue[d] \/ queue'[d] = <<>>)
                          /\ (batch'[d] = batch[d] \/ batch'[d] = <<>>)
    PROVE  KInv'
<1>1. \A d \in Dev : /\ \A i \in DOMAIN queue'[d] : i \in DOMAIN queue[d] /\ queue'[d][i] = queue[d][i]
                     /\ \A i \in DOMAIN batch'[d] : i \in DOMAIN batch[d] /\ batch'[d][i] = batch[d][i]
  OBVIOUS
<1>2. \A d \in Dev : Pending(d)'
  BY <1>1 DEF KInv, Pending
<1>3. \A d \in Dev, n \in Nat : Older(n, d) => Older(n, d)'
  BY <1>1 DEF Older
<1>4. QED
  BY <1>2, <1>3, EventsMove

\* The parts of a queue that a read takes and leaves.
LEMMA SplitParts ==
    ASSUME NEW q \in Seq(Nat), q # <<>>
    PROVE  LET b == BatchLen(q)
               taken == SubSeq(q, 1, b)
               left == SubSeq(q, b + 1, Len(q))
           IN  /\ b \in 1..Len(q)
               /\ \A i \in DOMAIN taken : i \in 1..b /\ taken[i] = q[i]
               /\ \A i \in DOMAIN left :
                    i + b \in b + 1..Len(q) /\ i \in Nat /\ left[i] = q[i + b]
<1>1. BatchLen(q) \in 1..Len(q)
  BY InputMonAssumption DEF BatchLen
<1> DEFINE b == BatchLen(q)
<1>2. b \in Nat /\ Len(q) \in Nat /\ 1 <= b /\ b <= Len(q)
  BY <1>1
<1> HIDE DEF b
<1> DEFINE taken == SubSeq(q, 1, b)
           left == SubSeq(q, b + 1, Len(q))
<1>3. \A i \in DOMAIN taken : i \in 1..b /\ taken[i] = q[i]
  BY <1>2
<1>4. /\ Len(left) = Len(q) - b
      /\ \A i \in 1..Len(q) - b : left[i] = q[b + 1 + i - 1]
  BY <1>2
<1>5. left \in Seq(Nat)
  BY <1>2
<1> HIDE DEF left
<1>6. DOMAIN left = 1..Len(q) - b
  BY <1>4, <1>5
<1>7. \A i \in 1..Len(q) - b :
          i + b \in b + 1..Len(q) /\ i \in Nat /\ b + 1 + i - 1 = i + b
  BY <1>2
<1>8. \A i \in DOMAIN left : i + b \in b + 1..Len(q) /\ i \in Nat /\ left[i] = q[i + b]
  BY <1>4, <1>6, <1>7
<1>9. QED
  BY <1>1, <1>3, <1>8 DEF b, left

\* A read moves the front of the queue to the batch, which is empty before.
LEMMA ReadInOrder ==
    ASSUME TypeOK, KInv, NEW d \in Dev, Read(d)
    PROVE  KInv'
<1> DEFINE b == BatchLen(queue[d])
<1>1. /\ queue[d] \in Seq(Nat) /\ queue[d] # <<>>
      /\ log' = log /\ emitted' = emitted
      /\ batch'[d] = SubSeq(queue[d], 1, b)
      /\ queue'[d] = SubSeq(queue[d], b + 1, Len(queue[d]))
      /\ \A e \in Dev \ {d} : queue'[e] = queue[e] /\ batch'[e] = batch[e]
  BY DEF Read, TypeOK, kernel
<1>2. /\ b \in 1..Len(queue[d])
      /\ \A i \in DOMAIN batch'[d] : i \in 1..b /\ batch'[d][i] = queue[d][i]
      /\ \A i \in DOMAIN queue'[d] :
           i + b \in b + 1..Len(queue[d]) /\ i \in Nat /\ queue'[d][i] = queue[d][i + b]
  BY <1>1, SplitParts
<1> HIDE DEF b
<1>3. DOMAIN queue[d] = 1..Len(queue[d]) /\ Len(queue[d]) \in Nat /\ b \in Nat
  BY <1>1, <1>2
<1>4. \A i \in DOMAIN batch'[d] : i \in DOMAIN queue[d] /\ i <= b
  BY <1>2, <1>3
<1>5. \A i \in DOMAIN queue'[d] : i + b \in DOMAIN queue[d] /\ b < i + b
  BY <1>2, <1>3
<1>6. Pending(d)'
  <2>1. Pending(d)
    BY DEF KInv
  <2>2. \A i, j \in DOMAIN batch'[d] : i < j => batch'[d][i] < batch'[d][j]
    BY <1>2, <1>4, <2>1 DEF Pending
  <2>3. \A i, j \in DOMAIN queue'[d] : i < j => queue'[d][i] < queue'[d][j]
    <3>1. ASSUME NEW i \in DOMAIN queue'[d], NEW j \in DOMAIN queue'[d], i < j
          PROVE  i + b < j + b
      BY <1>2, <1>3, <3>1
    <3>2. QED
      BY <1>2, <1>5, <2>1, <3>1 DEF Pending
  <2>4. \A i \in DOMAIN batch'[d], j \in DOMAIN queue'[d] : i < j + b
    BY <1>2, <1>3, <1>4, <1>5
  <2>5. \A i \in DOMAIN batch'[d], j \in DOMAIN queue'[d] : batch'[d][i] < queue'[d][j]
    BY <1>2, <1>4, <1>5, <2>1, <2>4 DEF Pending
  <2>6. /\ \A i \in DOMAIN batch'[d] : batch'[d][i] <= emitted[d]
        /\ \A i \in DOMAIN queue'[d] : queue'[d][i] <= emitted[d]
    BY <1>2, <1>4, <1>5, <2>1 DEF Pending
  <2>7. QED
    BY <1>1, <2>2, <2>3, <2>5, <2>6 DEF Pending
<1>7. \A e \in Dev : Pending(e)'
  BY <1>1, <1>6 DEF KInv, Pending
<1>8. \A n \in Nat : Older(n, d) => Older(n, d)'
  BY <1>1, <1>2, <1>4, <1>5 DEF Older
<1>9. \A e \in Dev, n \in Nat : Older(n, e) => Older(n, e)'
  BY <1>1, <1>8 DEF Older
<1>10. QED
  BY <1>1, <1>7, <1>9, EventsMove

\* The event that is logged is the oldest that was not.
LEMMA LogInOrder ==
    ASSUME TypeOK, KInv, NEW d \in Dev, LogKey(d)
    PROVE  KInv'
<1> PICK n \in Nat : n = Head(batch[d])
  BY BatchHead
<1>1. /\ batch[d] \in Seq(Nat) /\ batch[d] # <<>> /\ emitted[d] \in Nat
      /\ log' = Append(log, Key(d, n))
      /\ queue' = queue /\ emitted' = emitted
      /\ batch'[d] = Tail(batch[d])
      /\ \A e \in Dev \ {d} : batch'[e] = batch[e]
  BY DEF LogKey, TypeOK, kernel
<1>2. /\ n \in Nat /\ 1 \in DOMAIN batch[d] /\ n = batch[d][1]
      /\ \A i \in DOMAIN batch'[d] :
           /\ i \in Nat /\ i + 1 \in DOMAIN batch[d] /\ 1 < i + 1
           /\ batch'[d][i] = batch[d][i + 1]
  BY <1>1
<1>3. Pending(d)
  BY DEF KInv
<1>4. Pending(d)'
  <2>1. \A i, j \in DOMAIN batch'[d] : i < j => batch'[d][i] < batch'[d][j]
    BY <1>2, <1>3 DEF Pending
  <2>2. /\ \A i \in DOMAIN batch'[d], j \in DOMAIN queue[d] : batch'[d][i] < queue[d][j]
        /\ \A i \in DOMAIN batch'[d] : batch'[d][i] <= emitted[d]
    BY <1>2, <1>3 DEF Pending
  <2>3. QED
    BY <1>1, <1>3, <2>1, <2>2 DEF Pending
<1>5. \A e \in Dev : Pending(e)'
  BY <1>1, <1>4 DEF KInv, Pending
<1>6. Older(n, d)'
  BY <1>1, <1>2, <1>3 DEF Pending, Older
<1>7. \A e \in Dev, m \in Nat : Older(m, e) => Older(m, e)'
  <2>1. \A m \in Nat : Older(m, d) => Older(m, d)'
    BY <1>1, <1>2 DEF Older
  <2>2. \A e \in Dev \ {d}, m \in Nat : Older(m, e) => Older(m, e)'
    BY <1>1 DEF Older
  <2>3. QED
    BY <2>1, <2>2
<1>8. /\ Key(d, n) \in Record /\ Key(d, n).dev = d /\ Key(d, n).n = n
      /\ \A k \in DOMAIN log : log[k].n \in Nat
  BY LogNumbers, RecordTypes DEF Key
<1>9. \A i \in DOMAIN log' : \/ i \in DOMAIN log /\ log'[i] = log[i]
                             \/ i = Len(log) + 1 /\ log'[i] = Key(d, n)
  BY <1>1, <1>8, LogGrows
<1>10. Logged'
  BY <1>6, <1>7, <1>8, <1>9 DEF KInv, Logged
<1>11. KeysInOrder'
  <2>1. \A i \in DOMAIN log : log[i].kind = "KEY" /\ log[i].dev = d => log[i].n < n
    BY <1>2 DEF KInv, Logged, Older
  <2>2. \A i, j \in DOMAIN log' : i < j => i \in DOMAIN log /\ log'[i] = log[i]
    BY <1>1, <1>8, LogGrows
  <2>3. QED
    BY <1>8, <1>9, <2>1, <2>2 DEF KInv, KeysInOrder
<1>12. QED
  BY <1>5, <1>10, <1>11 DEF KInv

\* The events of a device are logged in the order they happened, each once.
THEOREM EventsInOrder == Spec => []KeysInOrder
<1>1. Init => KInv
  BY DEF Init, KInv, KeysInOrder, Logged, Pending
<1>2. TypeOK /\ KInv /\ [Next]_vars => KInv'
  <2> SUFFICES ASSUME TypeOK, KInv, [Next]_vars PROVE KInv'
    OBVIOUS
  <2>1. ASSUME NEW d \in Dev, Press(d) PROVE KInv'
    BY <2>1, PressInOrder
  <2>2. ASSUME NEW d \in Dev, Unplug(d) PROVE KInv'
    BY <2>2, LossInOrder DEF Unplug, TypeOK
  <2>3. CASE Crash
    BY <2>3, LossInOrder DEF Crash, kernel
  <2>4. ASSUME NEW d \in Dev, Read(d) PROVE KInv'
    BY <2>4, ReadInOrder
  <2>5. ASSUME NEW d \in Dev, LogKey(d) PROVE KInv'
    BY <2>5, LogInOrder
  <2>6. CASE Announce
    <3>1. Added(opening) \in Record /\ Added(opening).kind # "KEY"
      BY <2>6, RecordTypes, 0 \in Nat DEF Announce, TypeOK, Added
    <3>2. QED
      BY <2>6, <3>1, OtherRecord DEF Announce, kernel
  <2>7. ASSUME NEW d \in Dev, LogRemoved(d) PROVE KInv'
    <3>1. Removed(d) \in Record /\ Removed(d).kind # "KEY"
      BY RecordTypes, 0 \in Nat DEF Removed
    <3>2. QED
      BY <2>7, <3>1, OtherRecord DEF LogRemoved, kernel
  <2>8. CASE EndScan
    <3>1. AuditStart \in Record /\ AuditStart.kind # "KEY"
      BY DEF AuditStart, Record
    <3>2. QED
      BY <2>8, <3>1, OtherRecord DEF EndScan, kernel
  <2>9. CASE UNCHANGED <<log, batch, queue, emitted>>
    BY <2>9, OtherRecord
  <2>10. QED
    BY <2>1, <2>2, <2>3, <2>4, <2>5, <2>6, <2>7, <2>8, <2>9
    DEF Next, Scan, Environment, Reader, vars, kernel, scanner, Plug, Glob, Skip, Unknown,
        Open, Query, Register, Tick, Restart, RemoveDevice
<1>3. QED
  <2>1. KInv => KeysInOrder
    BY DEF KInv
  <2>2. QED
    BY <1>1, <1>2, <2>1, Typing, PTL DEF Spec

-----------------------------------------------------------------------------
(* Nothing is skipped.                                                     *)

\* Where event e of device d is, or that it is in the log.
Waits(d, e) == e \in lost[d] \cup Elems(queue[d]) \cup Elems(batch[d])
IsLogged(d, e) == Key(d, e) \in Elems(log)

\* An event has a device with a path, which its record names.
SInv == NothingSkipped /\ \A d \in Dev : emitted[d] # 0 => where[d] # NoPath

\* What one more element adds to a sequence.
LEMMA ElemsAppend ==
    ASSUME NEW S, NEW s \in Seq(S), NEW x \in S
    PROVE  Elems(Append(s, x)) = Elems(s) \cup {x}
<1>1. /\ DOMAIN s = 1..Len(s) /\ DOMAIN Append(s, x) = 1..Len(s) + 1
      /\ \A i \in 1..Len(s) : Append(s, x)[i] = s[i]
      /\ Append(s, x)[Len(s) + 1] = x /\ Len(s) \in Nat
  OBVIOUS
<1>2. QED
  BY <1>1 DEF Elems

\* What is in a sequence is its head or in its tail.
LEMMA ElemsTail ==
    ASSUME NEW s \in Seq(Nat), s # <<>>
    PROVE  Elems(s) \subseteq {Head(s)} \cup Elems(Tail(s))
<1> SUFFICES ASSUME NEW i \in 1..Len(s), i # 1
             PROVE  s[i] \in Elems(Tail(s))
  BY DEF Elems
<1>1. i - 1 \in DOMAIN Tail(s) /\ Tail(s)[i - 1] = s[i]
  OBVIOUS
<1>2. QED
  BY <1>1 DEF Elems

\* What is in a queue is in what a read takes or in what it leaves.
LEMMA ElemsSplit ==
    ASSUME NEW q \in Seq(Nat), q # <<>>
    PROVE  Elems(q) \subseteq Elems(SubSeq(q, 1, BatchLen(q)))
                              \cup Elems(SubSeq(q, BatchLen(q) + 1, Len(q)))
<1>1. BatchLen(q) \in 1..Len(q)
  BY SplitParts
<1> DEFINE n == BatchLen(q)
<1>2. n \in Nat /\ Len(q) \in Nat /\ 1 <= n /\ n <= Len(q)
  BY <1>1
<1> HIDE DEF n
<1> DEFINE taken == SubSeq(q, 1, n)
           left == SubSeq(q, n + 1, Len(q))
<1>3. ASSUME NEW i \in 1..Len(q), i <= n
      PROVE  q[i] \in Elems(taken)
  <2>1. i \in DOMAIN taken /\ taken[i] = q[i]
    BY <1>2, <1>3
  <2>2. QED
    BY <2>1 DEF Elems
<1>4. ASSUME NEW i \in 1..Len(q), ~(i <= n)
      PROVE  q[i] \in Elems(left)
  <2>1. /\ left \in Seq(Nat) /\ Len(left) = Len(q) - n
        /\ \A k \in 1..Len(q) - n : left[k] = q[n + 1 + k - 1]
    BY <1>2
  <2> HIDE DEF left
  <2>2. DOMAIN left = 1..Len(q) - n
    BY <2>1
  <2>3. i - n \in 1..Len(q) - n /\ n + 1 + (i - n) - 1 = i
    BY <1>2, <1>4
  <2>4. QED
    BY <2>1, <2>2, <2>3 DEF Elems
<1>5. \A x \in Elems(q) : x \in Elems(taken) \cup Elems(left)
  <2> HIDE DEF taken, left
  <2>1. Elems(q) = {q[i] : i \in 1..Len(q)}
    BY DEF Elems
  <2>2. QED
    BY <1>3, <1>4, <2>1
<1>6. QED
  BY <1>5 DEF n

\* The log is never cut, and the path in a record of a device does not change.
LEMMA LoggedStays ==
    ASSUME TypeOK, [Next]_vars, NEW d \in Dev, NEW e \in Nat, where[d] # NoPath, IsLogged(d, e)
    PROVE  IsLogged(d, e)'
<1>1. where'[d] = where[d]
  BY DEF TypeOK, Next, Scan, Environment, Reader, vars, kernel, Plug, Unplug, Press, Glob,
     Skip, Unknown, Open, Query, Register, Announce, EndScan, Tick, Crash, Restart, Read,
     LogKey, RemoveDevice, LogRemoved
<1>2. Key(d, e)' = Key(d, e)
  BY <1>1 DEF Key
<1>3. Elems(log) \subseteq Elems(log')
  <2>1. ASSUME NEW r \in Record, log' = Append(log, r)
        PROVE  Elems(log) \subseteq Elems(log')
    BY <2>1, ElemsAppend DEF TypeOK
  <2>2. QED
    BY <2>1, NewRecord
<1>4. QED
  BY <1>2, <1>3 DEF IsLogged

\* The events a step leaves waiting, and those it logs, are all there were.
LEMMA WaitingStep ==
    ASSUME TypeOK, [Next]_vars, NEW d \in Dev, NEW e \in Nat, Waits(d, e)
    PROVE  Waits(d, e)' \/ IsLogged(d, e)'
<1>1. ASSUME NEW c \in Dev, Unplug(c)
      PROVE  Waits(d, e)'
  BY <1>1 DEF Unplug, TypeOK, Waits
<1>2. ASSUME NEW c \in Dev, Press(c)
      PROVE  Waits(d, e)'
  <2>1. CASE Len(queue[c]) = EvdevBuffer
    BY <1>2, <2>1 DEF Press, TypeOK, Waits
  <2>2. CASE Len(queue[c]) # EvdevBuffer
    <3>1. queue[c] \in Seq(Nat) /\ emitted[c] + 1 \in Nat /\ emitted'[c] = emitted[c] + 1
      BY <1>2 DEF Press, TypeOK
    <3>2. queue' = [queue EXCEPT ![c] = Append(@, emitted[c] + 1)] /\ UNCHANGED <<lost, batch>>
      BY <1>2, <2>2, <3>1 DEF Press
    <3>3. Elems(Append(queue[c], emitted[c] + 1)) = Elems(queue[c]) \cup {emitted[c] + 1}
      BY <3>1, ElemsAppend
    <3>4. Elems(queue[d]) \subseteq Elems(queue'[d])
      BY <3>2, <3>3 DEF TypeOK
    <3>5. QED
      BY <3>2, <3>4 DEF Waits
  <2>3. QED
    BY <2>1, <2>2
<1>3. CASE Crash
  BY <1>3 DEF Crash, Waits
<1>4. ASSUME NEW c \in Dev, Read(c)
      PROVE  Waits(d, e)'
  <2>1. /\ queue[c] \in Seq(Nat) /\ queue[c] # <<>> /\ batch[c] = <<>>
        /\ lost' = lost
        /\ batch' = [batch EXCEPT ![c] = SubSeq(queue[c], 1, BatchLen(queue[c]))]
        /\ queue' = [queue EXCEPT ![c] = SubSeq(queue[c], BatchLen(queue[c]) + 1, Len(queue[c]))]
    BY <1>4 DEF Read, TypeOK, kernel
  <2>2. Elems(queue[c]) \subseteq Elems(batch'[c]) \cup Elems(queue'[c])
    BY <2>1, ElemsSplit DEF TypeOK
  <2>3. Elems(batch[c]) = {}
    BY <2>1 DEF Elems
  <2>4. c # d => queue'[d] = queue[d] /\ batch'[d] = batch[d]
    BY <2>1
  <2>5. QED
    BY <2>1, <2>2, <2>3, <2>4 DEF Waits
<1>5. ASSUME NEW c \in Dev, LogKey(c)
      PROVE  Waits(d, e)' \/ IsLogged(d, e)'
  <2>1. PICK n \in Nat : n = Head(batch[c])
    BY <1>5, BatchHead
  <2>2. /\ batch[c] \in Seq(Nat) /\ batch[c] # <<>>
        /\ lost' = lost /\ queue' = queue /\ where' = where
        /\ batch' = [batch EXCEPT ![c] = Tail(batch[c])]
        /\ log' = Append(log, Key(c, n))
    BY <1>5, <2>1 DEF LogKey, TypeOK, kernel
  <2>3. Elems(batch[c]) \subseteq {n} \cup Elems(batch'[c])
    BY <2>1, <2>2, ElemsTail DEF TypeOK
  <2>4. IsLogged(c, n)'
    <3>1. Key(c, n) \in Record
      BY RecordTypes
    <3>2. Key(c, n) \in Elems(log')
      BY <2>2, <3>1, ElemsAppend DEF TypeOK
    <3>3. Key(c, n)' = Key(c, n)
      BY <2>2 DEF Key
    <3>4. QED
      BY <3>2, <3>3 DEF IsLogged
  <2>5. CASE c # d
    BY <2>2, <2>5 DEF Waits
  <2>6. CASE c = d
    BY <2>2, <2>3, <2>4, <2>6 DEF Waits
  <2>7. QED
    BY <2>5, <2>6
<1>6. CASE UNCHANGED <<lost, queue, batch>>
  BY <1>6 DEF Waits
<1>7. QED
  BY <1>1, <1>2, <1>3, <1>4, <1>5, <1>6 DEF Next, Scan, Environment, Reader, vars, kernel,
     scanner, Plug, Glob, Skip, Unknown, Open, Query, Register, Announce, EndScan, Tick,
     Restart, RemoveDevice, LogRemoved

\* Only a press makes an event, and it queues the event it makes.
LEMMA NewEvent ==
    ASSUME TypeOK, Readers, [Next]_vars, NEW d \in Dev, NEW n \in Nat, n = emitted[d] + 1
    PROVE  \/ emitted'[d] = emitted[d]
           \/ emitted'[d] = n /\ Waits(d, n)' /\ where'[d] # NoPath
<1>1. ASSUME NEW c \in Dev, Press(c), c = d
      PROVE  emitted'[d] = n /\ Waits(d, n)' /\ where'[d] # NoPath
  <2> DEFINE kept == IF Len(queue[d]) = EvdevBuffer THEN <<>> ELSE queue[d]
  <2>1. /\ kept \in Seq(Nat) /\ emitted'[d] = n /\ where'[d] # NoPath
    BY <1>1, InputMonAssumption DEF Press, TypeOK, Readers
  <2>2. queue'[d] = Append(kept, n)
    BY <1>1, <2>1 DEF Press, TypeOK
  <2> HIDE DEF kept
  <2>3. n \in Elems(queue'[d])
    BY <2>1, <2>2, ElemsAppend
  <2>4. QED
    BY <2>1, <2>3 DEF Waits
<1>2. ASSUME NEW c \in Dev, Press(c), c # d
      PROVE  emitted'[d] = emitted[d]
  BY <1>2 DEF Press, TypeOK
<1>3. CASE UNCHANGED emitted
  BY <1>3
<1>4. QED
  BY <1>1, <1>2, <1>3 DEF Next, Scan, Environment, Reader, vars, kernel, scanner, Plug, Unplug,
     Glob, Skip, Unknown, Open, Query, Register, Announce, EndScan, Tick, Crash, Restart,
     Read, LogKey, RemoveDevice, LogRemoved

\* Every event of an open device is in the log, on its way there, or was lost
\* outside the monitor.
THEOREM LogIsComplete == Spec => []NothingSkipped
<1>1. Init => SInv
  BY DEF Init, SInv, NothingSkipped
<1>2. Owners /\ SInv /\ [Next]_vars => SInv'
  <2> SUFFICES ASSUME Owners, SInv, [Next]_vars, NEW d \in Dev
               PROVE  /\ \A e \in 1..emitted'[d] : Waits(d, e)' \/ IsLogged(d, e)'
                      /\ emitted'[d] # 0 => where'[d] # NoPath
    BY DEF SInv, NothingSkipped, Waits, IsLogged
  <2>1. emitted[d] \in Nat
    BY DEF Owners, TypeOK
  <2>2. ASSUME NEW e \in 1..emitted[d]
        PROVE  Waits(d, e)' \/ IsLogged(d, e)'
    <3>1. e \in Nat /\ where[d] # NoPath
      BY <2>1 DEF SInv
    <3>2. Waits(d, e) \/ IsLogged(d, e)
      BY DEF SInv, NothingSkipped, Waits, IsLogged
    <3>3. QED
      BY <3>1, <3>2, WaitingStep, LoggedStays DEF Owners
  <2>3. where[d] # NoPath => where'[d] # NoPath
    BY DEF Owners, TypeOK, Next, Scan, Environment, Reader, vars, kernel, Plug, Unplug, Press,
       Glob, Skip, Unknown, Open, Query, Register, Announce, EndScan, Tick, Crash, Restart,
       Read, LogKey, RemoveDevice, LogRemoved
  <2>4. CASE emitted'[d] = emitted[d]
    BY <2>2, <2>3, <2>4 DEF SInv
  <2>5. ASSUME NEW n \in Nat, n = emitted[d] + 1,
               emitted'[d] = n, Waits(d, n)', where'[d] # NoPath
        PROVE  /\ \A e \in 1..emitted'[d] : Waits(d, e)' \/ IsLogged(d, e)'
               /\ emitted'[d] # 0 => where'[d] # NoPath
    <3>1. \A e \in 1..emitted'[d] : e \in 1..emitted[d] \/ e = n
      BY <2>1, <2>5
    <3>2. QED
      BY <2>2, <2>5, <3>1
  <2>6. PICK n \in Nat : n = emitted[d] + 1
    BY <2>1
  <2>7. QED
    BY <2>4, <2>5, <2>6, NewEvent DEF Owners
<1>3. QED
  <2>1. SInv => NothingSkipped
    BY DEF SInv
  <2>2. QED
    BY <1>1, <1>2, <2>1, OwnersInvariant, PTL DEF Spec
=============================================================================
