------------------------------- MODULE Store --------------------------------
(***************************************************************************)
(* The encrypted log store (src/storage/store.go): the one-time Init of a  *)
(* LUKS2 image whose key is sealed to the TPM, the Up and Down that        *)
(* linaudit-store.service runs, and the input logger that the unit files   *)
(* make depend on them.  Every command the code runs is one action, so     *)
(* Init interleaves with Up and Down; systemd runs at most one of Up and   *)
(* Down at a time.  One Init runs at a time: the README has it run once,   *)
(* and nothing in the code keeps a second one out between its look for the *)
(* image and the creation.  A command may fail, a process may be killed,   *)
(* the machine may reboot at any step, the TPM may be cleared and the      *)
(* staged key may resist its removal, as often as MaxFaults allows for     *)
(* each kind.                                                              *)
(***************************************************************************)
EXTENDS Naturals

CONSTANTS
    Key,       \* the 64-byte keys writeKey can draw
    None,      \* no key
    MaxFaults  \* bound: how many faults of each kind

Fault == {"step", "kill", "reboot", "clear", "remove"}

ASSUME StoreAssumption ==
    /\ None \notin Key
    /\ MaxFaults \in [Fault -> Nat]

VARIABLES
    image,    \* IMG: "absent", "raw", "luks" (a container) or "formatted" (ext4 in it)
    luksKey,  \* the key that opens the container
    cred,     \* CRED: the key that is sealed in it
    tpm,      \* whether the TPM releases what CRED seals: "keeps" or "cleared"
    keytmp,   \* keyTmp, on tmpfs
    mapper,   \* MAP: "closed" or "open"
    mnt,      \* what MNT shows: the "bare" directory of /var/log or the "store"
    dirs,     \* where Up has made input/ and shell/
    init,     \* the next step of Init
    answer,   \* how the last Init ended
    up,       \* the next step of Up or Down
    unit,     \* the state of linaudit-store.service
    writer,   \* the input logger: "off", "waiting", or where its keys.log is open
    faults    \* how many faults of each kind there were

disk == <<image, luksKey, cred, tpm>>
kernel == <<mapper, mnt>>
process == <<init, answer, keytmp>>
service == <<up, unit, writer>>
vars == <<image, luksKey, cred, tpm, keytmp, mapper, mnt, dirs, init, answer,
          up, unit, writer, faults>>

Init ==
    /\ image = "absent" /\ luksKey = None /\ cred = None /\ tpm = "keeps"
    /\ keytmp = None
    /\ mapper = "closed" /\ mnt = "bare" /\ dirs = {}
    /\ init = "idle" /\ answer = "none"
    /\ up = "idle" /\ unit = "inactive" /\ writer = "off"
    /\ faults = [f \in Fault |-> 0]

Strikes(f) ==
    /\ faults[f] < MaxFaults[f]
    /\ faults' = [faults EXCEPT ![f] = @ + 1]

\* A command succeeds, or fails by itself.
Works == UNCHANGED faults
Breaks == Strikes("step")

-----------------------------------------------------------------------------
(* linaudit store init.                                                    *)

\* Init returns an error before the key is staged, or with it: the deferred
\* shred comes after that.
Fails == init' = "idle" /\ answer' = "failed"
FailsStaged == init' = "shred" /\ answer' = "failed"

\* Mutant: an image that exists is created again.
StartInitAlways ==
    /\ init = "idle"
    /\ init' = "create" /\ answer' = "running"
    /\ UNCHANGED <<disk, kernel, keytmp, dirs, service, faults>>

\* An image that exists is left as it is, and that is no error.
StartInit ==
    /\ init = "idle"
    /\ IF image # "absent"
       THEN answer' = "exists" /\ UNCHANGED init
       ELSE init' = "create" /\ answer' = "running"
    /\ UNCHANGED <<disk, kernel, keytmp, dirs, service, faults>>

CreateImage ==
    /\ init = "create"
    /\ \/ Works /\ image' = (IF image = "absent" THEN "raw" ELSE image)
          /\ init' = "key" /\ UNCHANGED answer
       \/ Breaks /\ image' \in {image, IF image = "absent" THEN "raw" ELSE image} /\ Fails
    /\ UNCHANGED <<luksKey, cred, tpm, keytmp, kernel, dirs, service>>

\* A fresh key; a write that fails half-way leaves its file.
WriteKey ==
    /\ init = "key"
    /\ \E k \in Key \ {luksKey, cred, keytmp} :
        \/ Works /\ keytmp' = k /\ init' = "format" /\ UNCHANGED answer
        \/ Breaks /\ keytmp' \in {keytmp, k} /\ Fails
    /\ UNCHANGED <<disk, kernel, dirs, service>>

LuksFormat ==
    /\ init = "format"
    /\ \/ Works /\ image' = "luks" /\ luksKey' = keytmp
          /\ init' = "open" /\ UNCHANGED answer
       \/ Breaks /\ FailsStaged /\ UNCHANGED <<image, luksKey>>
    /\ UNCHANGED <<cred, tpm, keytmp, kernel, dirs, service>>

OpenNew ==
    /\ init = "open"
    /\ \/ Works /\ mapper = "closed" /\ mapper' = "open"
          /\ init' = "mkfs" /\ UNCHANGED answer
       \/ Works /\ mapper = "open" /\ FailsStaged /\ UNCHANGED mapper
       \/ Breaks /\ FailsStaged /\ UNCHANGED mapper
    /\ UNCHANGED <<disk, mnt, keytmp, dirs, service>>

\* Without a file system the mapping is closed again, or at least tried to.
Mkfs ==
    /\ init = "mkfs"
    /\ \/ Works /\ mapper = "open" /\ image' = "formatted"
          /\ init' = "close" /\ UNCHANGED <<answer, mapper>>
       \/ Works /\ mapper = "closed" /\ FailsStaged /\ UNCHANGED <<image, mapper>>
       \/ Breaks /\ mapper' \in {mapper, "closed"} /\ FailsStaged /\ UNCHANGED image
    /\ UNCHANGED <<luksKey, cred, tpm, mnt, keytmp, dirs, service>>

\* cryptsetup close fails on a mapping that is mounted, or closed already.
CloseNew ==
    /\ init = "close"
    /\ \/ Works /\ mapper = "open" /\ mnt = "bare" /\ mapper' = "closed"
          /\ init' = "seal" /\ UNCHANGED answer
       \/ Works /\ (mapper = "closed" \/ mnt = "store") /\ FailsStaged /\ UNCHANGED mapper
       \/ Breaks /\ FailsStaged /\ UNCHANGED mapper
    /\ UNCHANGED <<disk, mnt, keytmp, dirs, service>>

\* Mutant: an error of the seal returns before the key is shredded.
SealReturns ==
    /\ init = "seal"
    /\ \/ Works /\ cred' = keytmp /\ tpm' = "keeps"
          /\ init' = "shred" /\ answer' = "made"
       \/ Breaks /\ Fails /\ UNCHANGED <<cred, tpm>>
    /\ UNCHANGED <<image, luksKey, keytmp, kernel, dirs, service>>

\* systemd-creds encrypt, then the chmod of CRED.
Seal ==
    /\ init = "seal"
    /\ \/ Works /\ cred' = keytmp /\ tpm' = "keeps"
          /\ init' = "shred" /\ answer' = "made"
       \/ Breaks /\ cred' \in {cred, keytmp} /\ FailsStaged
          /\ tpm' = (IF cred' = keytmp THEN "keeps" ELSE tpm)
    /\ UNCHANGED <<image, luksKey, keytmp, kernel, dirs, service>>

\* The staged key is overwritten and removed, whatever Init returns; nobody hears of
\* it when neither can be done.
Shred ==
    /\ init = "shred" /\ init' = "idle"
    /\ \/ Works /\ keytmp' = None
       \/ Strikes("remove") /\ UNCHANGED keytmp
    /\ UNCHANGED <<disk, kernel, dirs, answer, service>>

InitStep ==
    \/ StartInit \/ CreateImage \/ WriteKey \/ LuksFormat \/ OpenNew
    \/ Mkfs \/ CloseNew \/ Seal \/ Shred

-----------------------------------------------------------------------------
(* linaudit store up and down, run by linaudit-store.service.              *)

UpFails == up' = "idle" /\ unit' = "failed"

\* Mutant: a mapping that is open counts as a store that is mounted.
StartUpMapped ==
    /\ up = "idle" /\ unit \in {"inactive", "skipped", "failed"}
    /\ image # "absent"
    /\ up' = (IF mapper = "open" THEN "dirs" ELSE "open")
    /\ unit' = "starting"

\* The unit's condition holds, and Up begins: with the key, or with what is
\* open already.
StartUp ==
    /\ up = "idle" /\ unit \in {"inactive", "skipped", "failed"}
    /\ image # "absent"
    /\ up' = (IF mapper = "open" THEN "check" ELSE "open")
    /\ unit' = "starting"

\* ConditionPathExists: without an image the unit is skipped, not failed.
SkipUp ==
    /\ up = "idle" /\ unit \in {"inactive", "skipped", "failed"}
    /\ image = "absent"
    /\ unit' = "skipped"
    /\ UNCHANGED up

StartUnit ==
    /\ StartUp \/ SkipUp
    /\ UNCHANGED <<disk, process, kernel, dirs, writer, faults>>

Unlocks == cred # None /\ tpm = "keeps" /\ cred = luksKey /\ image \in {"luks", "formatted"}

\* decryptAndOpen.
OpenStore ==
    /\ up = "open"
    /\ \/ Works /\ Unlocks /\ mapper = "closed"
          /\ mapper' = "open" /\ up' = "check" /\ UNCHANGED unit
       \/ Works /\ ~(Unlocks /\ mapper = "closed") /\ UpFails /\ UNCHANGED mapper
       \/ Breaks /\ UpFails /\ UNCHANGED mapper
    /\ UNCHANGED <<disk, process, mnt, dirs, writer>>

\* Mutant: where /proc/mounts cannot be read, the store counts as mounted.
CheckMountOpen ==
    /\ up = "check"
    /\ \/ Works /\ up' = (IF mnt = "store" THEN "dirs" ELSE "mount")
       \/ Breaks /\ up' = "dirs"
    /\ UNCHANGED <<disk, process, kernel, dirs, unit, writer>>

\* isMountpoint: where /proc/mounts cannot be read, Up fails.
CheckMount ==
    /\ up = "check"
    /\ \/ Works /\ up' = (IF mnt = "store" THEN "dirs" ELSE "mount") /\ UNCHANGED unit
       \/ Breaks /\ UpFails
    /\ UNCHANGED <<disk, process, kernel, dirs, writer>>

Mount ==
    /\ up = "mount"
    /\ \/ Works /\ mapper = "open" /\ image = "formatted"
          /\ mnt' = "store" /\ up' = "dirs" /\ UNCHANGED unit
       \/ Works /\ ~(mapper = "open" /\ image = "formatted") /\ UpFails /\ UNCHANGED mnt
       \/ Breaks /\ UpFails /\ UNCHANGED mnt
    /\ UNCHANGED <<disk, process, mapper, dirs, writer>>

\* input/ and shell/, wherever MNT leads now.
MakeDirs ==
    /\ up = "dirs"
    /\ \/ Works /\ dirs' = dirs \cup {mnt} /\ up' = "idle" /\ unit' = "active"
       \/ Breaks /\ dirs' \in {dirs, dirs \cup {mnt}} /\ UpFails
    /\ UNCHANGED <<disk, process, kernel, writer>>

\* The logger requires the unit, so that systemd stops it first.
StopUnit ==
    /\ up = "idle" /\ unit = "active"
    /\ writer' = "off" /\ up' = "umount" /\ unit' = "stopping"
    /\ UNCHANGED <<disk, process, kernel, dirs, faults>>

\* Both commands of Down may fail, and nobody asks.
Umount ==
    /\ up = "umount"
    /\ \/ Works /\ mnt' = "bare"
       \/ Breaks /\ UNCHANGED mnt
    /\ up' = "close"
    /\ UNCHANGED <<disk, process, mapper, dirs, unit, writer>>

CloseStore ==
    /\ up = "close"
    /\ \/ Works /\ mapper' = (IF mnt = "bare" THEN "closed" ELSE mapper)
       \/ Breaks /\ mapper = "open" /\ UNCHANGED mapper
    /\ up' = "idle" /\ unit' = "inactive"
    /\ UNCHANGED <<disk, process, mnt, dirs, writer>>

UnitStep ==
    \/ StartUnit \/ OpenStore \/ CheckMount \/ Mount \/ MakeDirs
    \/ StopUnit \/ Umount \/ CloseStore

-----------------------------------------------------------------------------
(* The input logger, under Requires= and After= of the unit.               *)

\* Starting the logger starts the unit it requires.
StartWriter ==
    /\ writer = "off"
    /\ \/ unit \in {"starting", "active"} /\ UNCHANGED <<up, unit>>
       \/ StartUp
       \/ SkipUp
    /\ writer' = "waiting"
    /\ UNCHANGED <<disk, process, kernel, dirs, faults>>

\* inputmon.Run opens keys.log wherever MNT leads; after a failure of the unit
\* systemd does not run it, after a condition that does not hold it does.
RunWriter ==
    /\ writer = "waiting"
    /\ \/ unit \in {"active", "skipped"} /\ writer' = mnt
       \/ unit = "failed" /\ writer' = "off"
    /\ UNCHANGED <<disk, process, kernel, dirs, up, unit, faults>>

-----------------------------------------------------------------------------
(* Faults.                                                                 *)

\* A kill of Init, at any of its steps, leaves everything where it is.
KillInit ==
    /\ init # "idle"
    /\ Strikes("kill")
    /\ init' = "idle" /\ answer' = "failed"
    /\ UNCHANGED <<disk, kernel, keytmp, dirs, service>>

\* systemd kills an Up that takes longer than TimeoutStartSec.
KillUp ==
    /\ unit = "starting"
    /\ Strikes("kill")
    /\ UpFails
    /\ UNCHANGED <<disk, process, kernel, dirs, writer>>

\* A power cut: what is on disk stays.
Reboot ==
    /\ Strikes("reboot")
    /\ mapper' = "closed" /\ mnt' = "bare" /\ keytmp' = None
    /\ init' = "idle" /\ answer' = "none"
    /\ up' = "idle" /\ unit' = "inactive" /\ writer' = "off"
    /\ UNCHANGED <<disk, dirs>>

\* The TPM is cleared, or its firmware reset.
ClearTPM ==
    /\ Strikes("clear")
    /\ tpm' = "cleared"
    /\ UNCHANGED <<image, luksKey, cred, process, kernel, dirs, service>>

Next ==
    \/ InitStep \/ UnitStep \/ StartWriter \/ RunWriter
    \/ KillInit \/ KillUp \/ Reboot \/ ClearTPM

Spec == Init /\ [][Next]_vars

-----------------------------------------------------------------------------
(* Properties.                                                             *)

\* Every variable has its type.
TypeOK ==
    /\ image \in {"absent", "raw", "luks", "formatted"}
    /\ luksKey \in Key \cup {None} /\ cred \in Key \cup {None} /\ keytmp \in Key \cup {None}
    /\ tpm \in {"keeps", "cleared"}
    /\ mapper \in {"closed", "open"} /\ mnt \in {"bare", "store"}
    /\ dirs \subseteq {"bare", "store"}
    /\ init \in {"idle", "create", "key", "format", "open", "mkfs", "close", "seal", "shred"}
    /\ answer \in {"none", "running", "made", "exists", "failed"}
    /\ up \in {"idle", "open", "check", "mount", "dirs", "umount", "close"}
    /\ unit \in {"inactive", "skipped", "starting", "active", "stopping", "failed"}
    /\ writer \in {"off", "waiting", "bare", "store"}
    /\ faults \in [Fault -> Nat]

\* A sealed credential always fits: it holds the key of a container with a file
\* system in it, wherever Init was interrupted and how often it was run again.
SealedKeyFits == cred # None => image = "formatted" /\ cred = luksKey

\* Nothing this code does to a store with a file system in it makes a new one, and
\* a key that is sealed is never sealed over: a store that Up could once open opens
\* until the TPM is cleared, whatever Init is interrupted at or run again after.
NeverReformats ==
    [][image = "formatted" =>
          image' = "formatted" /\ luksKey' = luksKey /\ (cred # None => cred' = cred)]_vars

\* The raw key of a container outlives Init only where Init was killed, or its file
\* could neither be overwritten nor removed: every error path shreds it.
KeyIsShredded ==
    init = "idle" /\ keytmp # None /\ keytmp = luksKey =>
        faults["kill"] > 0 \/ faults["remove"] > 0

\* Up makes the log directories inside the encrypted store only, never on the
\* directory below the mountpoint.
DirsAreEncrypted == dirs \subseteq {"store"}

\* While the unit is active the store is mounted, also when Init and Up overlap:
\* what one of them opens the other does not take away.
ActiveIsMounted == unit = "active" => mnt = "store" /\ mapper = "open"

\* The README says that the writers refuse to start unless the store is mounted.  The
\* input logger opens keys.log on the bare directory where there is no image: the
\* condition of the unit it requires does not hold, and that stops nobody.
WriterNeedsStore == writer # "bare"

\* An init that finds a store and reports success leaves one that opens.  The
\* runbook promises a fresh store of the init after a TPM reset; the code leaves
\* the image as it is.
ReinitMakesStore == [][answer' = "exists" /\ answer # "exists" => Unlocks']_vars
=============================================================================
