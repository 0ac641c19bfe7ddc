# LinAudit in TLA+

LinAudit records, on one Linux machine, what is typed, pasted and injected into its
shells: a root process reads every keyboard, hooks in bash, zsh and fish log the commands,
an encrypted store keeps the logs, and a local dashboard shows them together with network
and process samples. This directory models the parts of it whose correctness depends on
interleavings, failures, restarts or long sequences of calls, checks them with TLC and
proves their invariants with TLAPS.

Paths below are relative to `src/`.

## The system

| Component | State it keeps | Operations | Talks to | What makes it correct |
|---|---|---|---|---|
| Input-source monitor `inputmon/` | `known` (path -> device, `mu`), one goroutine per device with keys, `keys.log` (`logMu`) | rescan every 3 s, open + ioctls, register, announce, read, log, remove | kernel evdev; systemd restarts it | records name the right device, order, nothing live is dropped, every device found |
| Reverse-DNS resolver `web/netmon/rdns.go` | LRU cache (`mu`), in-flight set (`imu`), bounded channel, 8 workers | `resolve`, worker loop, expiry | called by the network sampler, calls DNS | never blocks, one lookup per address, map = list, nothing stuck in flight |
| Encrypted store `storage/` | image, sealed credential, mapping, mount, staged key | `Init`, `Up`, `Down` | cryptsetup, systemd-creds, mount; unit files | key fits or is absent, nothing in the clear, never formats a store |
| Shell hooks `shell/` | flag file, bash's last history number, `commands.log`, `buffer.log` | prompt hook, preexec hook, line-editor hook | shells; toggled by CLI and web | each command once, in order, none lost without a known cause |
| Network sampler `web/netmon/` | `prev`, `tprev`, published snapshot (`stateMu`) | dump, diff, publish, restart after a panic | netlink, /proc, resolver, range tables | bytes counted once, rates over the right time, keeps publishing |
| Range lookup and classification | two sorted tables of each kind, ready flags | load once, `lookup`, `find`, `categorize` | sampler | finds a range that contains the address |
| Process sampler `web/procmon/` | `prev`, `tprev`, `cb0`, `ct0`, `gsum`, `vram`, published snapshot | cycle under `recover`, `capUnion` | /proc, nvidia-smi | baseline stays together; the leaders of every column are kept |
| Web server `web/server.go`, `web/auth.go` | sessions, failure counter, `auth.json`, page token | setup, login, logout, API | browser, data layer | set up once, sessions end, throttle |
| Data layer `web/data.go`, CLI `cli/cli.go` | flag file, rc files, unit state | `toggle`, `status`, `report`, `enable`, `disable` | systemctl, hooks | what is shown is what is in force |
| Dashboard page `web/dashboard.html` | view state, loads under way | polling, tabs, toggles | web server | a late answer does not replace a newer one |
| identity, doctor, installer, `test/inject` | none of their own | look up, check, install | all | -- |

Hard in this system are: the two locks of the monitor and the steps between their
sections, paths that the kernel gives to another device, a log that survives the process,
the critical sections of the resolver with a full queue and a full cache, one-time
initialisation that may stop after any command, unit dependencies with a condition, a
shell hook that learns of a command only from the history list, samplers whose baseline
must fit the time it was taken at over failures and panics, a login throttle in two
critical sections, and switches and logs that are read in pieces, without a lock, while
others change them. `PROJECT.json` lists the hazards line by line.

## Modules

| Module | Models | Run with | Proofs |
|---|---|---|---|
| `InputMon` | `inputmon/inputmon.go` with the kernel's devices and queues | `MCInputMon` | `InputMonProofs` |
| `Rdns`, implementing `PeerNames` | `web/netmon/rdns.go` | `MCRdns` | `RdnsProofs` |
| `Store` | `storage/store.go`, its unit and the logger that requires it | `MCStore` | `StoreProofs` |
| `NetSampler`, implementing `Meter` | `runSampler` of `web/netmon/netmon.go`, the netlink dumps | `MCNetSampler` | `NetSamplerProofs` |
| `ProcSampler`, implementing `Meter` | `sampler`, `build` and `capUnion` of `web/procmon/procmon.go`, `web/procmon/gpu.go` | `MCProcSampler` | `ProcSamplerProofs` |
| `RangeLookup` | the tables of `web/netmon/geoip.go` and `asn.go` | `MCRangeLookup`, in the run of `MCNetSampler` | `NetSamplerProofs` |
| `WebAuth` | setup, login, sessions: `web/server.go`, `web/auth.go` | `MCWebAuth` | `WebAuthProofs` |
| `ShellHooks` | the EXEC hooks of `shell/`, history, the toggle | `MCShellHooks` | `ShellHooksProofs` |
| `LayerControl` | status and toggles: `cli/cli.go`, `web/data.go`, `web/dashboard.html` | `MCLayerControl` | `DashboardProofs` |
| `LogViews` | log tabs and report: `web/data.go`, `cli/cli.go`, `web/dashboard.html`, logrotate | `MCLogViews` | `DashboardProofs` |

### InputMon

One action per critical section or system call: the scanner's `Glob`, `Skip`, `Unknown`,
`Open`, `Query`, `Register`, `Announce`, `EndScan` and `Tick` follow `Run`, `scan` and
`openDevice` with the program counter `pc`; `Read`, `LogKey`, `RemoveDevice` and
`LogRemoved` follow `reader` and `removeDevice` with one step variable per device. Each
lock of the code covers one map or one file operation, so that the lock itself needs no
variable. `Plug`, `Unplug` and `Press` are the kernel: a member of `Dev` is one
incarnation of a device, and a path is free for another device as soon as its owner is
gone, whether its reader has noticed or not. A client that is too slow loses its queue
(`SYN_DROPPED`). `Crash` keeps only the log and the devices, `Restart` is systemd's
`Restart=always`.

The text of a record, key names and timestamps are left out; a record has its kind, its
path and, as an annotation for the properties, the device and the number of the event it
is about. `lost` is a history variable: no action reads it, and it says of each device
which events an overflow, an unplug or a kill threw away, so that `NothingSkipped` can
account for all the others. `logFields` gives up on a record it cannot write; the model
takes every write to succeed.

Two rare failures are left out. `scan` and `reader` recover from a panic
(`inputmon.go:120` and `:189`); a reader that does has ended without `removeDevice`, and
its path stays in `known` like that of a device without keys. And `Open` and `Query` fail
only for a device that is gone: an open or ioctl that fails for one that is present is not
modelled.

### Rdns and PeerNames

`PeerNames` is what the caller may rely on: one lookup per address at a time, what is
remembered of an address is an answer to a lookup of that address, and anything may be
forgotten. `Rdns` is the code: `CacheGet`, `Mark`, `Enqueue` and `Drop` are the critical
sections and the `select` of `resolve`; `Take`, `Lookup`, `CachePut` and `Clear` are the
worker; `Expire` is an entry whose time is over; `NewCycle` is the sampler's next round
over the connections, in any order, as Go's map iteration gives it. Entries expire any
number of times, as both kinds of entry do in the code after their time to live. The
refinement mapping takes as asked what is in the queue or at a worker that has not stored
its answer, and as remembered what `cacheGet` would answer. The resolver is always
enabled, as `web/server.go` starts it.

### Store

Every command that `Init`, `Up` and `Down` run is an action and may fail; a failure
follows the code's error path, with the deferred shred where it is registered. `Init` is
run by hand or by the installer at any time, beside `Up` and `Down`, which systemd runs
one at a time (`linaudit-store.service`). `StartWriter` and `RunWriter` are the input
logger under `Requires=` and `After=`: it runs after an active unit and after one that was
skipped by its `ConditionPathExists`, not after one that failed. `Shred` removes the
staged key, or fails to, which the code ignores. The actions `KillInit`, `KillUp`,
`Reboot` and `ClearTPM` are the environment's. Assumed of the outside: `cryptsetup close`
fails on a mounted mapping, a mount needs the mapping and a file system, a TPM that was
cleared releases nothing sealed before, and systemd starts and stops units as its manual
says. Nobody runs `Up` or `Down` by hand beside the unit, and nobody runs a second `Init`
beside a first: `README.md:180` has it run once, and the code has nothing that keeps a
second one out between its look for the image (`store.go:204`) and the creation
(`store.go:267`), so that two of them at a time could each seal a key for one container.

### ShellHooks

A session is one run of a shell. bash's `Check` and `Log` are the two halves of
`_linaudit_postcmd` and run before every prompt, the first one included; those of zsh and
fish run before a command. `Log` may fail to append, and the hooks discard the error.
`last` is `_LINAUDIT_LAST_HIST`. The number of a history entry is its place in the list:
`IgnoreDups` and `EraseDups` are the bash sessions whose `HISTCONTROL` keeps a repeated
command out of the list or removes its older entries, and `Trim` is a user's `history -c`
or `-d`, so that numbers come again and a new command may have that of the one logged
last, which the hook takes for logged. `excused` is an annotation: the commands whose loss
has such a cause, a failed append or a layer that was disabled meanwhile. A session whose
user trims the list (`trimmed`) is promised nothing from then on. bash reads `HISTFILE`
when it starts and appends to it when it ends. `Disable` and `Enable` are the toggle of
the flag by CLI or dashboard; how they come about is in `LayerControl`.

Left out are zsh's `buffer.log`, the commands that add to the history list (`history -r`,
`-n`, `-s`), the `ignorespace` and `HISTIGNORE` that keep more commands out of it, and a
list that is full (`HISTSIZE`), whose numbers go on growing.

The hook says that it logs the just-entered command (`shell/linaudit.bash:12`). Before the
first prompt that is the newest entry of `HISTFILE`, which another session has entered:
the number it compares with is still empty. `ForeignIsFirst` says what is left of the
comment: it happens once, and before the session logs anything of its own.

### NetSampler and Meter

`Meter` promises that a byte is counted as bandwidth at most once, and only after it was
carried; a byte may be missed. `NetSampler` is `sampler` with `runSampler`: `Wake`,
`DumpInet`, `DumpInet6`, then `Seed` before the loop, and in it `Retry` when both dumps
failed or `Stamp` and `Publish` when one did not. `Dump` reads the counters of a family or
goes wrong: it stops after any of its sockets, with an error or, at an empty or cut
datagram, as if it were done, and a socket may come without its counter (`Blind`, the
code's `rxOK`). What was read is used when `okAny` was set by either family. `Panic` may
strike wherever the goroutine computes; `recover` ends `runSampler` and `sampler` begins
again without a baseline. A member of `Conn` is a 4-tuple, and `Connect` starts its
counter at zero again. `Tick` is a unit of time in which a connection carries at most a
byte, so that the byte rate has a limit the published rates can be held against. `rates`
and `span` are the numerator and the denominator of `RxBps`, and `counted` adds the
numerators up for `Meter`. Transmitted bytes are alike. `Lists` is `capConns`, the cut to
`MaxRows` connections (512 in the code): it sorts by the sum of received and transmitted
bytes, of which the model has one, so that any `MaxRows` of them may be left. Owners,
names, listeners and the rows of the processes, which are summed up before the cut, are
left out.

Not every byte is shown: a dump that fails in part drops the baseline of what it did not
reach, so that the next cycle shows such a connection with a rate of zero. `Meter` allows
this, as does the code. And not every connection is shown: one below `MaxRows` busier ones
never is. `OpenIsShown` promises it only while the list is not full.

### ProcSampler

`sampler` with one action per reading: `Wake` takes the time stamp of a cycle, `Gpu` asks
nvidia-smi while there is no summary and every third cycle, `List` and `ReadStat` go
through /proc, where a pid may be gone by the time it is read and any read may fail (a
/proc that cannot be listed is one without processes), and `Publish` is `build` with the
new baseline. `Seed` is the reading before the loop, whose stamp is taken after it.
`Panic` is recovered and ends the cycle it strikes, with the baseline of the cycle before.
A pid can be used again: `Fork` starts its count at zero. `Meter` promises here that a
jiffy is counted at most once. The system's own CPU figure (`cb0`, `ct0`) is read and kept
like that of a process. A host without a GPU sees only cycles that ask and get nothing.

`resident` is the processes with memory; a kernel thread never has any, and a process has
none left before its pid is free (`Zombie`). `Rows` is the filter of `build`, which shows
a pid only if it has memory, its own or on the GPU, or used CPU time: an idle kernel
thread is never shown. `Cuts` is what `capUnion` may leave of a list that is longer than
`MaxRows` (300): the first by CPU time and those of three metrics the model does not have.
`CapUnion` is that cut itself, as an operator on tables of all metrics, evaluated by
`MCProcSampler` on small ones: of each metric the leaders are kept.

### RangeLookup

The sorted tables as sequences of ranges, `Find` with the binary search and the walk back
along the running maxima, `Load` for the two families of which either both are used or
none. `MCRangeLookup` compares it with a scan of the table.

### WebAuth

A browser's request is a record with its next step; requests of different browsers
interleave. `Setup`, `OpenFile` (which truncates), `WriteFile` and `SaveFails` are the
first-run setup with `saveAuth`; `Login` to `Wake` are the login: the check of `failUntil`
in its section, the password check outside any lock, `CountGood` and `CountBad` in the
second section, the sleep, and `Wake` with the comparison in the third. `Issue` and
`Logout` change the sessions, `Restart` loses all but the file. `loadAuth` has one answer
for a file that is absent, does not parse or fails to be read: `SetupMisread` is a setup
that takes a failed read for the first run, and `Verify` may find no password for the same
reason (`misses` counts these). `saveAuth` does not sync: `disk` is what `Flush` has
written of the file, and `PowerLoss` leaves that, or an empty file where a write was under
way. Times are kept relative to now, so that the model is finite without a bound on the
clock. An expired session stays in the map of the code until it is looked up, which nobody
can tell from one that is gone.

### LayerControl

A call -- a request to the server or a command of the control panel -- goes through rc
files, flag and units one system call at a time, as `shellHookWired`, `status`, `wireRc`,
`enable`, `disable`, `toggle` and the menu do. Every command may fail. `seen` is an
annotation: whether the shell layer was on at some time since the call began. The page
renders the answer that arrives last. Enabling in the dashboard only removes the flag, as
the code does; wiring the hooks is left to the command line. `Installed` is the shells
with an rc file to wire that are found on PATH. There may be none of them, fish needs
none, and then an `enable` of the command line succeeds and has wired nothing: this is the
one exception `EnableWasOn` makes.

### LogViews

Writers append records stamped a little earlier; logrotate's `copytruncate` is `Copy` and
`Truncate`. A reader seeks the end (`Send`, `Report`, `Seek`) and then reads the window
before it. The web server reads up to the end it has looked up (`TailTo`), the command
line from the start of that window to the end of then, and keeps the last lines of it
(`TailFrom`, `readTailBytes`): what is appended in between pushes as much out of its
report at the other side, so that `ReportComplete` promises it only the prompts which are
still among the last. Any tail may fail: a tab shows the diagnostic (`TailFails`), a
report goes on without the log (`ReadFails`, `missed`). `tab`, `load` and `columns` are
the page's `curLog`, its loads and what it renders. `Render` is `safeRender`, which leaves
the table alone while text in it is selected (`selecting`); a request that fails puts an
error in its place (`FetchFails`). `report` goes through the prompts and then the other
logs, as `report` and `buildReport` do. `copied`, `asked`, `due`, `missed` and `cut` are
annotations or the state of logrotate. Page and report read the logs and change nothing
either could see, so that `MCLogViews` explores them one after the other (`reader`) beside
the same writers. Its names (`ViewSpec`, `PollLog`, `columns`) are other than those of
`LayerControl`, so that `DashboardProofs` can be about both.

## Runs

| Run | Question | Bounds |
|---|---|---|
| `input` | attribution, removal and ownership under one path that changes hands; order and completeness of the key log under overflows; announcement and progress under fairness | 2 keyboards, 1 path, 3 events of one and 1 of the other, reads and queues of 2, 1 restart |
| `input_blind_path` | is every device detected? **violated** | 3 devices (1 without keys), 1 path, no restart |
| `rdns` | in-flight set, cache, non-blocking, refinement of `PeerNames`; is a peer that stays named, again after every expiry? | 2 addresses, 2 workers, cache 1, queue 1 |
| `store_safety` | credential, key, directories, mount, logger | 2 keys; 2 failing commands, 1 kill, 1 reboot, 1 cleared TPM, 1 failed removal of the staged key |
| `store_reinit` | does init after a TPM reset make a store? **violated** | only the TPM fails |
| `store_plain` | does the logger start only on a mounted store? **violated** | nothing fails |
| `shell_log` | order and completeness of the log under toggles, failed appends and trimmed history lists; how often and when is a command of another session logged? | 2 bash sessions, 1 other, 2 texts, 3 commands, 2 toggles; one bash drops repeated commands and erases older ones; symmetric texts |
| `net_sampler` | rates, counted bytes, refinement of `Meter`, does it keep showing; also the tables of `RangeLookup` | 2 connections (one quiet), lists of 1 row, 3 ticks, interval 1, dumps of up to 1 tick, 2 dumps that go wrong, 1 panic |
| `proc_sampler` | rates, counted jiffies, refinement of `Meter`, GPU figures, does it keep showing; also the cut of the rows | 2 pids (one idle), lists of 1 row, 4 ticks, interval 1, cycles of up to 1 tick, asking every 3rd, 1 failed read, 1 panic |
| `web_auth` | throttle, guesses in a lockout, its end, the password over races, crashes, power losses and failed reads | 2 browsers, 2 passwords, limit 2, lockout 2, sessions of 1, logins of up to 2 ticks, 1 failed read |
| `layer_control` | are answers true, was enable in force, does the page end up right? | 2 requests and 1 control panel at a time, 1 unit, 2 rc files (bash, fish), bash on PATH, 2 toggles |
| `log_views` | is a report complete, does a tab end up with its log? | 2 loads, 2 logs, windows and prompts of 2, stamps that overtake 1, 3 records, 1 truncation, 1 click; reads, requests and selections fail or change at will |

Why these bounds are enough to show something: two keyboards at one path are a device
whose reader is late and one that takes its path; the third device of `input_blind_path`
is one without a reader. Three events with a queue of two let it overflow before a read,
or fill again while a first event is being logged; the other keyboard's event may wait
while the path changes hands. A queue and a cache of one with two addresses and two
workers make the queue full while lookups are under way and every answer evict another;
two failing commands let an error path be followed by a second failure, and one fault of
every other kind strikes at each step. The second connection and the second process of the
samplers are there for the list with one row and for the failures that strike one and not
the other; counters are kept for each alike, so that one of them may be quiet: a quiet
connection stays open once it is, an idle process starts before the first tick, and beside
it nothing fails and no process ends: with all of that the run explores the other pid
alone. Three or four ticks let a 4-tuple or a pid come back within a cycle and leave whole
cycles around a panic. After the last tick a sleep ends at once, so that the samplers go
on. Two bash sessions are needed for a history that another session wrote, and a third
command for one that is entered after another was dropped. Two browsers are one login that
counts the failure of another, with a limit that both together reach, and a lockout that
ends while a login is still asleep. Two requests under way overtake each other, and a
control panel beside them is the other program; with two toggles a layer is switched and
switched back while its state is read. Three records are one prompt before, one at and one
after the others that are due, more than a window holds. The safety bounds matter less
where the theorems hold for all values.

`shell_log` turns deadlock checking off: sessions end, and the bounds on commands and
toggles stop the rest. All other runs check it.

### What the violated runs show

- **A path goes blind** (`input_blind_path`). `scan` skips every path in `known`, and only
  a reader takes a path out again. A device without keys has no reader, so after it is
  unplugged a keyboard that gets its path is never opened. The same happens when a
  keyboard is unplugged between `OpenFile` and the capability ioctl. The header of
  `inputmon.go` promises that the rescan detects new devices.
- **Init does not re-initialise** (`store_reinit`). After a TPM reset the runbook says to
  run `linaudit store init`, which "creates a new container"; the code leaves any image
  that exists as it is and reports success.
- **The logger runs on the bare directory** (`store_plain`). `README.md:31-32` says that
  the writers refuse to start unless the store is mounted. The store's unit has a
  `ConditionPathExists` on the image, and a unit whose condition fails is skipped and not
  failed: `Requires=` is satisfied, and where there is no image the logger starts and
  writes in the clear.

### Fairness

`InputMon`: weak fairness of the scanner (a goroutine driven by a ticker), of each reader
and of `Restart` (`Restart=always`); none for the kernel or its users. `Rdns`: weak
fairness of the sampler's loop and of each worker; every lookup ends, because its context
has a deadline. `PeersGetNamed` is about peers that fit the cache: such a peer is named
again and again, as its entries expire and are looked up anew; with more of them answers
push each other out, and the code does not promise otherwise. `NetSampler` and
`ProcSampler`: weak fairness of time and of the goroutine, which blocks on nothing but its
sleep and nvidia-smi, whose question has a deadline; none for connections, processes,
failures or panics. `WebAuth`: weak fairness of time and of each request that is being
answered; none for browsers that ask. `LayerControl`: calls end, and the page polls again
when it has no request out, as its timer does. `LogViews`: the page polls, and its loads
are answered; none for writers, clicks, selections or logrotate. `PageShowsTab` asks that
reads and requests succeed and no text is selected from some time on: while a selection
stands, the code leaves the table as it is. `Store` and `ShellHooks` have safety
properties only and assume no fairness.

## Proofs

All theorems are for arbitrary constants under the named assumptions of the modules
(`InputMonAssumption`, `RdnsAssumption`, `StoreAssumption`, `NetSamplerAssumption`,
`ProcSamplerAssumption`, `WebAuthAssumption`, `ShellAssumption`, `LayerControlAssumption`,
`LogViewsAssumption`), which say little more than the types of the constants.
`RangeLookup` assumes nothing.

- **InputMon.** `PathAttribution` and `RemovedIsFinal` are about the log and not
  inductive. The invariant `IInv` adds what the goroutines know between their critical
  sections: `Scanner` (the path of a device being opened is free until it is registered,
  and then the device's own), `Readers` (a device that is read holds its path; one that is
  done is gone) and `History` (a device that is read is the one last announced at its
  path; a device with a `DEVICE_REMOVED` is gone for good). The argument: only the scanner
  registers, so a path that is free stays free until then; a reader holds its path from
  the announcement on, so nobody is announced there before it lets go; and an incarnation
  never comes back. `KeysInOrder` has an invariant of its own, `KInv`: what was logged is
  older than what was read, and that than what is queued, and the queue only loses events
  or gets younger ones. `NothingSkipped` needs little more than the types: a read splits
  the queue without a gap (`ElemsSplit`), the head of a batch goes to the log as the rest
  stays (`ElemsTail`), and a record keeps its path because a device does.
- **Rdns.** `InflightExact`, `CacheConsistent` and the types are inductive once `Working`
  ties a worker's address and answer to its step. The list lemmas (`WithoutOne`, `Front`,
  `KeptPart`) say what removing, moving to the front and cutting do to the elements of a
  list without duplicates. `Refinement` maps a send into the queue to `Ask`, a `CachePut`
  to `Answer`, an expiry to `Forget`, and every other step to a stutter. `MemoryIsBounded`
  counts: the in-flight set, which the code never trims, is what is marked, queued or at a
  worker, hence at most `QueueCap + Cardinality(Worker) + 1` addresses. `NamesAreOwn` is
  the promise in one sentence: an address is answered with an answer to a lookup of that
  address.
- **Store.** `IInv` adds `Reached` (what Init has made before each step; without a sealed
  key until it seals one), `Unstaged` (where the raw key can be the container's) and
  `Mounted` (what Up and Down may rely on between their commands, with an Init that closes
  only what is not mounted).
- **NetSampler.** A rate is wrong only if the baseline and its time do not belong
  together, so `IInv` says what an old baseline still tells: `Paced` (since a dump read
  it, a counter has gained a byte a tick at most) and `Owed` (what was read and not
  counted, and what came after, was carried and not counted), with `Times`, the bounds on
  the clock within a cycle. Both are kept by a 4-tuple that is used again, because
  `satSub` counts nothing then. `HonestRates` and `Refinement` follow at `Publish`.

- **ProcSampler.** The argument of `NetSampler` with two differences: nvidia-smi and /proc
  come after the time stamp, so that a count may be up to `MaxCycle` ahead of its stamp,
  and the bound of `RatesAreHonest` has that slack twice; a panic keeps the whole
  baseline. `Aged` counts the cycles left until the next question to nvidia-smi, which
  every panic may put off by one round. `CutRowsAreBeaten` and `CutIsSmall` are about
  `capUnion`, for any rows: of the rows ahead of one that is dropped, the first that is no
  leader would have fewer than max ahead of it, all of them leaders (`LeadersAhead`), and
  the last leader has all the others ahead (`FewLeaders`).
- **RangeLookup.** `FindIsComplete` and `FindsLastStart` hold for every sorted table: the
  walk back stops early only where the running maximum says that no range before ends late
  enough. Existence of the maxima is by a lemma on bounded sets of numbers. With both,
  `FindIsScan`: the search returns what a scan of the whole table would; and
  `FindIsMostSpecific`, the comment of `find`: where the ranges with the address nest, the
  one found lies within all of them, unless two of them have the same start and different
  ends (which one comes last is then up to the unstable sort).
- **WebAuth.** `CountedFailuresLock` is inductive: a failure that is counted begins to
  wait, and one that has waited leaves the counter below the limit; with finitely many
  browsers, `GuessesBounded` is what that means for whoever guesses in parallel.
  `DecidedOnce` needs `GuessedOnce`: a browser has one request at a time, and one that has
  been checked in a lockout is not admitted again. `PasswordSettles` follows from the
  actions: with a password on the disk and no setup under way, a power loss leaves what it
  finds, and a setup that reads the file is refused; only one that fails to read it
  begins, and the file is untouched until then.

- **ShellHooks.** `LoggedInOrder` and `ForeignIsFirst` follow from `History` and
  `Position`: bash's history list is in order behind what it has read from `HISTFILE`,
  also when entries are taken out of it (`LeftElements`), and what bash logs next, while
  its last history number does not point at the end of the list, is younger than all it
  has logged (`Pending`). `NothingLost` follows from `Accounted`: every command is
  excused, logged, dropped by the list, of a session that was trimmed, or the newest entry
  behind the last history number; a list that was told to drop a repeated command does not
  get it later, and what it drops hides no other command.
- **LayerControl.** A status reads the hooks, file by file, and then the flag, and the
  layer may change between any two of these. The answer is still true of a moment since
  the call began, because hooks are only ever added: one that was found stays wired, so
  that the flag decides at the moment it is read; and while none was found, either one is
  wired in a file still ahead or the layer was off when the call began (`ShellSeen`).
  `EnableWasOn` needs `OnSeen`: `enable` wires the shells before it removes the flag, an
  error of either step is kept to the end, and what was seen of the layer stays seen.
- **LogViews.** `ReportComplete` is strengthened to `ReportInv`. The stamp of a record is
  not used twice (`NoTwice`), so that what is appended later is never due (`LogsOK`).
  While no log is truncated: the prompts that are read are, on the web, the ones the
  report was asked for, and by the command line the last ones of the moment they are read,
  which have all of the former that are still among the last at any later time
  (`AskedInv`, `RowsInv`); what is due of the log being read lies before the end that was
  sought (`SizeInv`), so that either read has it unless it has left the window that ends
  now; and what was due of a log that is done with and could be read is in the rows
  (`RowsInv`). The lemmas on windows (`LastOfIs`, `LastOfAppend`, `TailToHas`, ...) say
  what they hold and what an append does to them.

Only model-checked: liveness (`PluggedAnnounced`, `KeysGetLogged`, `InflightClears`,
`PeersGetNamed`, `OpenIsShown`, `RunningIsShown`, `LockoutEnds`, `PageConverges`,
`PageShowsTab`) and `NeverBlocks`, which is about `ENABLED`; these are outside what the
prover does. Every other safety property that a run checks is proved. That an address
resolves in the table of its own family is evaluated on one pair of tables only
(`FamiliesApart`).

## Not modelled

- `identity`, `doctor`: no state that changes. The installer is one sequence of commands,
  the `test/inject` tool is a device that is plugged and unplugged.
- Parsing: netlink attributes, /proc, CSV rows, evdev records, log lines; the keyword
  tables of `classify.go` and `orgcat.go`; the key derivation; markup and drawing.
- The owners of sockets (an inode map that is older than the dump), listeners and the rows
  of the processes in the network sampler; the `buffer.log` of zsh, whose record is one
  redraw; the sizes and line counts of logs (`logmeta`); the journal behind the usb tab,
  which another program keeps.
- The network and process panels of the page: they are loaded like a log tab, whose races
  include theirs: there is no tab an answer could be taken for.
- Origin, host and token checks: they decide who may ask, not what asking does.
- A panic in the monitor, open and ioctl failures of a device that is present, two `Init`
  at a time, a history list of bash that is full or added to by hand: see the modules
  above.

What is left for a later extension, in this order: the owners of sockets; the line-editor
hook.
