---------------------------- MODULE StoreProofs -----------------------------
(***************************************************************************)
(* Proofs about Store, for every set of keys and any number of faults.     *)
(* The inductive invariant says what Init has reached at each of its       *)
(* steps, where a staged key can be the container's, and what Up and Down  *)
(* know of the mount.                                                      *)
(***************************************************************************)
EXTENDS Store, TLAPS

\* What Init has made before each of its steps; until it seals the key there is
\* no credential.
Reached ==
    /\ init = "create" => image = "absent"
    /\ init \in {"key", "format"} => image = "raw"
    /\ init = "format" => keytmp # None /\ keytmp # luksKey
    /\ init \in {"open", "mkfs"} => image = "luks" /\ keytmp = luksKey /\ keytmp # None
    /\ init \in {"close", "seal"} => image = "formatted" /\ keytmp = luksKey /\ keytmp # None
    /\ init \notin {"idle", "shred"} => cred = None

\* Where Init has not staged its key yet, one that is there fits nothing.
Unstaged ==
    init \in {"idle", "create", "key"} /\ keytmp # None /\ keytmp = luksKey =>
        faults["kill"] > 0 \/ faults["remove"] > 0

\* What the steps of Up and Down know of the mount.
Mounted ==
    /\ mnt = "store" => mapper = "open" /\ image = "formatted"
    /\ up = "dirs" => mnt = "store"
    /\ unit = "active" => mnt = "store" /\ up = "idle"
    /\ up \in {"umount", "close"} => unit = "stopping"

IInv ==
    /\ TypeOK /\ Reached /\ Unstaged /\ Mounted
    /\ SealedKeyFits /\ DirsAreEncrypted

\* A fault of one kind is counted and no other.
LEMMA Counted ==
    ASSUME TypeOK, NEW f \in Fault, Strikes(f)
    PROVE  /\ faults' \in [Fault -> Nat]
           /\ \A g \in Fault : faults'[g] >= faults[g]
           /\ faults'[f] > 0
BY DEF TypeOK, Strikes

\* Init steps keep the invariant.
LEMMA InitKeeps ==
    ASSUME IInv, InitStep
    PROVE  IInv'
<1> USE DEF disk, kernel, process, service
<1>1. /\ faults' \in [Fault -> Nat] /\ faults'["kill"] >= faults["kill"]
      /\ faults["kill"] \in Nat /\ faults'["kill"] \in Nat
      /\ faults'["remove"] >= faults["remove"]
      /\ faults["remove"] \in Nat /\ faults'["remove"] \in Nat
      /\ Strikes("remove") => faults'["remove"] > 0
  <2>1. CASE Breaks
    BY <2>1, Counted DEF Breaks, IInv, Fault, TypeOK
  <2>2. CASE faults' = faults
    BY <2>2, Counted DEF IInv, TypeOK, Fault
  <2>3. CASE Strikes("remove")
    BY <2>3, Counted DEF IInv, Fault, TypeOK
  <2>4. QED
    BY <2>1, <2>2, <2>3 DEF InitStep, StartInit, CreateImage, WriteKey, LuksFormat, OpenNew,
       Mkfs, CloseNew, Seal, Shred, Works
<1>2. UNCHANGED <<mnt, dirs, up, unit, writer>>
  BY DEF InitStep, StartInit, CreateImage, WriteKey, LuksFormat, OpenNew,
       Mkfs, CloseNew, Seal, Shred
<1> USE DEF IInv, TypeOK, Reached, Unstaged, Mounted, SealedKeyFits, DirsAreEncrypted,
            Fails, FailsStaged
<1>3. CASE StartInit
  BY <1>1, <1>2, <1>3 DEF StartInit
<1>4. CASE CreateImage
  BY <1>1, <1>2, <1>4 DEF CreateImage
<1>5. CASE WriteKey
  BY <1>1, <1>2, <1>5, StoreAssumption DEF WriteKey
<1>6. CASE LuksFormat
  BY <1>1, <1>2, <1>6 DEF LuksFormat
<1>7. CASE OpenNew
  BY <1>1, <1>2, <1>7 DEF OpenNew
<1>8. CASE Mkfs
  BY <1>1, <1>2, <1>8 DEF Mkfs
<1>9. CASE CloseNew
  BY <1>1, <1>2, <1>9 DEF CloseNew
<1>10. CASE Seal
  BY <1>1, <1>2, <1>10 DEF Seal
<1>11. CASE Shred
  BY <1>1, <1>2, <1>11 DEF Shred
<1>12. QED
  BY <1>3, <1>4, <1>5, <1>6, <1>7, <1>8, <1>9, <1>10, <1>11 DEF InitStep

\* Up, Down and the logger keep the invariant.
LEMMA UnitKeeps ==
    ASSUME IInv, UnitStep \/ StartWriter \/ RunWriter
    PROVE  IInv'
<1> USE DEF disk, kernel, process, service
<1>1. /\ faults' \in [Fault -> Nat] /\ faults'["kill"] >= faults["kill"]
      /\ faults["kill"] \in Nat /\ faults'["kill"] \in Nat
      /\ faults'["remove"] >= faults["remove"]
      /\ faults["remove"] \in Nat /\ faults'["remove"] \in Nat
      /\ Strikes("remove") => faults'["remove"] > 0
  <2>1. CASE Breaks
    BY <2>1, Counted DEF Breaks, IInv, Fault, TypeOK
  <2>2. CASE faults' = faults
    BY <2>2, Counted DEF IInv, TypeOK, Fault
  <2>3. CASE Strikes("remove")
    BY <2>3, Counted DEF IInv, Fault, TypeOK
  <2>4. QED
    BY <2>1, <2>2, <2>3 DEF UnitStep, StartUnit, OpenStore, CheckMount, Mount, MakeDirs,
       StopUnit, Umount, CloseStore, StartWriter, RunWriter, Works
<1>2. UNCHANGED <<image, luksKey, cred, tpm, init, answer, keytmp>>
  BY DEF UnitStep, StartUnit, OpenStore, CheckMount, Mount, MakeDirs,
       StopUnit, Umount, CloseStore, StartWriter, RunWriter
<1> USE DEF IInv, TypeOK, Reached, Unstaged, Mounted, SealedKeyFits, DirsAreEncrypted,
            UpFails
<1>3. CASE StartUnit
  BY <1>1, <1>2, <1>3 DEF StartUnit, StartUp, SkipUp
<1>4. CASE OpenStore
  BY <1>1, <1>2, <1>4 DEF OpenStore
<1>5. CASE CheckMount
  BY <1>1, <1>2, <1>5 DEF CheckMount
<1>6. CASE Mount
  BY <1>1, <1>2, <1>6 DEF Mount
<1>7. CASE MakeDirs
  <2>1. mnt = "store" /\ dirs \subseteq {"store"}
    BY <1>7 DEF MakeDirs
  <2>2. dirs' \subseteq {"store"} /\ UNCHANGED <<mapper, mnt, writer>>
    BY <1>7, <2>1 DEF MakeDirs
  <2>3. up' = "idle" /\ unit' \in {"active", "failed"}
    BY <1>7 DEF MakeDirs
  <2>4. QED
    BY <1>1, <1>2, <2>1, <2>2, <2>3
<1>8. CASE StopUnit
  BY <1>1, <1>2, <1>8 DEF StopUnit
<1>9. CASE Umount
  BY <1>1, <1>2, <1>9 DEF Umount
<1>10. CASE CloseStore
  BY <1>1, <1>2, <1>10 DEF CloseStore
<1>11. CASE StartWriter
  BY <1>1, <1>2, <1>11 DEF StartWriter, StartUp, SkipUp
<1>12. CASE RunWriter
  BY <1>1, <1>2, <1>12 DEF RunWriter
<1>13. QED
  BY <1>3, <1>4, <1>5, <1>6, <1>7, <1>8, <1>9, <1>10, <1>11, <1>12 DEF UnitStep

\* Faults keep the invariant.
LEMMA FaultsKeep ==
    ASSUME IInv, KillInit \/ KillUp \/ Reboot \/ ClearTPM
    PROVE  IInv'
<1> USE DEF disk, kernel, process, service
<1>1. TypeOK /\ "kill" \in Fault /\ "reboot" \in Fault /\ "clear" \in Fault
  BY DEF IInv, Fault
<1>2. faults["kill"] \in Nat /\ faults["remove"] \in Nat
  BY <1>1 DEF TypeOK, Fault
<1>3. CASE KillInit
  <2>1. faults' \in [Fault -> Nat] /\ faults'["kill"] > 0
    BY <1>1, <1>3, Counted DEF KillInit
  <2>2. QED
    BY <1>3, <2>1 DEF KillInit, IInv, TypeOK, Reached, Unstaged, Mounted, SealedKeyFits,
       DirsAreEncrypted
<1>4. CASE KillUp
  <2>1. faults' \in [Fault -> Nat] /\ faults'["kill"] > 0
    BY <1>1, <1>4, Counted DEF KillUp
  <2>2. QED
    BY <1>4, <2>1 DEF KillUp, UpFails, IInv, TypeOK, Reached, Unstaged, Mounted,
       SealedKeyFits, DirsAreEncrypted
<1>5. CASE Reboot
  <2>1. faults' \in [Fault -> Nat]
    BY <1>1, <1>5, Counted DEF Reboot
  <2>2. QED
    BY <1>5, <2>1 DEF Reboot, IInv, TypeOK, Reached, Unstaged, Mounted, SealedKeyFits,
       DirsAreEncrypted
<1>6. CASE ClearTPM
  <2>1. /\ faults' \in [Fault -> Nat] /\ faults'["kill"] >= faults["kill"]
        /\ faults'["kill"] \in Nat
        /\ faults'["remove"] >= faults["remove"] /\ faults'["remove"] \in Nat
    BY <1>1, <1>6, Counted DEF ClearTPM, Fault
  <2>2. QED
    BY <1>2, <1>6, <2>1 DEF ClearTPM, IInv, TypeOK, Reached, Unstaged, Mounted,
       SealedKeyFits, DirsAreEncrypted
<1>7. QED
  BY <1>3, <1>4, <1>5, <1>6

-----------------------------------------------------------------------------
(* The theorems.                                                           *)

\* The strengthened invariant holds.
THEOREM Invariance == Spec => []IInv
<1>1. Init => IInv
  BY StoreAssumption DEF Init, IInv, TypeOK, Reached, Unstaged, Mounted, SealedKeyFits,
     DirsAreEncrypted, Fault
<1>2. IInv /\ [Next]_vars => IInv'
  <2> SUFFICES ASSUME IInv, [Next]_vars PROVE IInv'
    OBVIOUS
  <2>1. CASE Next
    BY <2>1, InitKeeps, UnitKeeps, FaultsKeep DEF Next
  <2>2. CASE UNCHANGED vars
    BY <2>2 DEF vars, IInv, TypeOK, Reached, Unstaged, Mounted, SealedKeyFits,
       DirsAreEncrypted
  <2>3. QED
    BY <2>1, <2>2
<1>3. QED
  BY <1>1, <1>2, PTL DEF Spec

\* A credential always holds the key of a container with a file system in it,
\* wherever Init is interrupted.
THEOREM SealedFits == Spec => []SealedKeyFits
BY Invariance, PTL DEF IInv

\* The raw key of a container outlives Init only where Init was killed or its shredding
\* failed.
THEOREM KeysAreShredded == Spec => []KeyIsShredded
<1>1. IInv => KeyIsShredded
  BY DEF IInv, Unstaged, KeyIsShredded
<1>2. QED
  BY <1>1, Invariance, PTL

\* Up makes the log directories inside the store only.
THEOREM DirsStayEncrypted == Spec => []DirsAreEncrypted
BY Invariance, PTL DEF IInv

\* An active unit means a mounted store, however Init and Up interleave.
THEOREM ActiveMeansMounted == Spec => []ActiveIsMounted
<1>1. IInv => ActiveIsMounted
  BY DEF IInv, Mounted, ActiveIsMounted
<1>2. QED
  BY <1>1, Invariance, PTL

\* A file system in the store is never made anew, nor is its key sealed over.
THEOREM NoReformat == Spec => NeverReformats
<1> DEFINE Kept == image' = "formatted" /\ luksKey' = luksKey /\ (cred # None => cred' = cred)
<1>1. IInv /\ [Next]_vars => [image = "formatted" => Kept]_vars
  <2> SUFFICES ASSUME IInv, Next, image = "formatted"
               PROVE  Kept
    OBVIOUS
  <2> USE DEF disk, kernel, process, service, IInv, Reached
  <2>1. CASE InitStep
    BY <2>1 DEF InitStep, StartInit, CreateImage, WriteKey, LuksFormat, OpenNew,
       Mkfs, CloseNew, Seal, Shred
  <2>2. CASE UnitStep \/ StartWriter \/ RunWriter
    BY <2>2 DEF UnitStep, StartUnit, OpenStore, CheckMount, Mount, MakeDirs,
       StopUnit, Umount, CloseStore, StartWriter, RunWriter
  <2>3. CASE KillInit \/ KillUp \/ Reboot \/ ClearTPM
    BY <2>3 DEF KillInit, KillUp, Reboot, ClearTPM
  <2>4. QED
    BY <2>1, <2>2, <2>3 DEF Next
<1>2. QED
  BY <1>1, Invariance, PTL DEF Spec, NeverReformats
=============================================================================
