# OsirisOS: a TLA+ verification of its init, supervisor and daemons

OsirisOS is a set of Rust programs: an init (`kha`), a supervisor (`akernet/akernet-bridge`)
with a shared registry and protocol (`maat`), twelve daemons (`daemons/`), and a package
manager (`opium`, `harvester`). This directory holds TLA+ models of that code, TLC
configurations that check them on small instances, and proofs that TLAPS checks for every
value of the constants. Paths below are relative to the repository.

## 1. The system

| Component | State it keeps | Operations | Hard behaviour | What makes it correct |
|---|---|---|---|---|
| AkerNet Bridge (`akernet/akernet-bridge/src/main.rs`) | one `BridgeState` behind a tokio Mutex: the registry, the `Child` handles, the write half of logd's connection | `run_socket_listener`, `run_orchestrator`, `spawn_daemon`, `check_registration_timeout`, `handle_daemon_connection`, `list_daemons` | three kinds of task interleave between the critical sections; batches and timers go stale; daemons crash or hang | ceilings, dependency order, statuses that tell the truth, every failure handled |
| Ma'at (`maat/src`) | 42 `DaemonInfo` | `ready_to_spawn`, `ready_to_restart`, `running_names`, messages | a wrong name or a cycle keeps daemons Pending for ever | the roster is closed and boots |
| Kha (`kha/src/main.rs`) | the Bridge's handle and pid, the restart count, metrics | spawn, restart, reap, forward signals, emit metrics | two waits compete for one exit status; signals do not queue; backoff blocks the loop | one Bridge, no orphan left, shutdown honoured |
| Daemon clients (`daemons/network_akernet/{vpnd,dnsd,firewalld,proxyd}`) | connection, alert window | connect, register, poll, shutdown | 5 s ack timeout, end of the connection | a Stop or a closed connection ends them |
| logd | ring buffer, byte count, two files, `registered` | ingest, evict, flush | cancellation by timeout, exit without a flush, two processes on one file, back-pressure on the Bridge | the ring stays in its bytes, what was logged is kept |
| mountd | a socket taken out of its Option, what fstab expects, known mounts | poll mounts, pools and scrubs, read the Bridge, reload fstab | the taken socket and a timeout | it keeps its connection, and tells what fstab does not expect |
| healthd, timed, entropyd, netd, wifid, kha-watchd | last sample, alert window | poll, compare, alert | wrap-around and stale samples | each threshold crossing gives its alert |
| Harvester, OPIUM | the package database, the installed files, the cache | harvest, install, remove, purge | crash between steps, two at once, two programs on one database | every installed file has one owner on record |
| ra, anubis, thoth | none | none | none | stubs |

Kha starts the Bridge as its only child. The Bridge starts the daemons, which connect back
over a Unix socket, register, and report at each poll; what they report is forwarded to
logd. When the Bridge dies its children go to PID 1, and those that have not connected yet connect to the next Bridge.
kha-watchd is meant to hear Kha's metrics over
a datagram socket. Harvester and OPIUM are run by hand and share `pkg_db` on disk.

## 2. Modules

| Module | Models |
|---|---|
| `Bridge`, `Supervisor`, `Registry` | the Bridge's tasks; what a supervisor promises; the table of 42 daemons |
| `Kha`, `Generations` | PID 1; PID 1 with its successive Bridges, their sockets and their daemons |
| `Logd`, `AppendLog` | logd; what a log promises |
| `Monitor`, `Readings`, `Mounts` | the polling daemons; what they make of what they read; the same for mountd |
| `Packages` | Harvester and OPIUM |
| `BridgeProofs`, `KhaProofs`, `GenerationsProofs`, `LogdProofs`, `ReadingsProofs`, `MonitorProofs`, `PackagesProofs`, `PackagesOrderProofs` | the theorems |
| `MCBridge`, `MCGenerations`, `MCKha`, `MCLogd`, `MCMonitor`, `MCPackages` | the instances; `MCMonitor` has what the daemons find in the runs |

**`Bridge`** has one action per critical section of the Bridge's tasks (or per step between
two of them), so that a task acts on what it read earlier, as the code does.
The orchestrator is `phase`, `stage`, `batch`, `cur`, `newProc`: `ScanPending` and
`ScanFailed` read a batch; `LaunchPending`, `MarkRestarting`, `BackoffElapsed`, `SpawnOk`,
`SpawnError`, `RecordChild`, `RecordFailure` work it off. A handler is `handler[p]`:
`AcceptRegister` to `CloseVerified`, one action per message kind and end of connection, the
forward to logd a step of its own, which may hold the Mutex while logd does not read (`lock`).
A timer is `timer[p]`. A process is `proc[p]`, `owner[p]`, `wire[p]`: it may connect, report,
stop or crash at any moment. Some processes are there from the start (`survivors`): daemons of the last Bridge
that had not connected when it died, which this Bridge did not launch. `ListDaemons` is the answer of `/daemons`.
`attempts`, `registered` and `survivors` are history variables: no action reads
them. A rejected registration (`RejectRegister`) is possible for any process, since the peer
credentials may be unreadable. `Stopping` is a status that nothing in the code sets, and is left out. The 500 ms pause between scans, JSON and log lines are left out.

**`Supervisor`** is what a supervisor promises, with no tasks in it: a daemon is started only after those
it depends on have registered, and launched a bounded number of times between registrations; or it joins, having
registered by itself. `Bridge` states that it implements it (`KeepsPromise`). One that joined and is Running may be launched
once more, since the batch that holds it may be older than its registration.

**`Registry`** is the table of the 42 daemons. Its three `ASSUME`s are evaluated by every run of
`MCBridge`: names are closed and 42 in number, everything is launched in exactly six scans when all
register, and the twelve daemons this repository ships are all launched when the other thirty never register.

**`Kha`** is PID 1 with the kernel it relies on: fork, exit, re-parenting, SIGCHLD that does
not queue, `waitpid(-1)`. One action per branch of its `select!`, with the backoff
as a state in which no branch is taken. `WaitBridge` returns both for a zombie and for a Bridge that
`ReapZombies` has reaped, since the code does not look at the result. Each of the three calls that make a signal
stream may fail after the first Bridge was spawned: main returns the error (`ArmFails`, state `unarmed`) and the Bridge runs on. The metrics sockets
are two counters of queued frames. A new process is the next of the pids (`NextPid`): only which processes are equal matters.

**`Generations`** extends `Kha` with what outlives a Bridge: the path of its socket (`path`: whose listener it names), which each
Bridge removes and binds again (`Listen`), and the daemons' connections (`link`). A daemon connects, is refused and exits, or sees its
connection end and exits. Every step of `Kha` is a step of it, so that `Kha`'s properties are checked of the whole.

**`Logd`** is logd at the end of the Bridge's forward, over several lives (processes) of it, which may overlap: the Bridge may launch
a second logd (finding 1, and a late registration), and a restarted Bridge launches one while the old one still drains its channel. One process is followed at a
time, with its connection; `Start` turns to the next, whether the last has ended or not. One that has not goes on: `adrift` is what it may
still write, and `OthersWrite` appends one of these to the file at any moment, or an entry of a process that was never followed (0). A line is
appended whole; that a full BufWriter may write half a line, and lines of two processes mix, is left out. The Bridge's end
is `peer` and `sock`; the reader task is `reader` and the channel `chan`; the main task is `main`, `waiting`
(the registration wait) and `stage` (where it is in `write_log`), so that the 5 s timeout may cut it off between
any two steps. `ring` and `bytes` are the ring and its byte count; a BufWriter is `buffered`, what it has
given to the file system is `file`, and a write may go through, stay in the buffer, or fail. An entry is a number and
its size a difference of `Total`. `first`, `taken` and `dropped` are history. `Decoded` is the set of frames
the protocol's decoder accepts. In this code a Forward is not one of them (finding 4), so that the
constant has two values: the code's, in the run that shows the finding, and one that holds Forward, in the run
that asks whether logd's own logic is right. Bytes that a failed write left in the middle of a line are
left out, and the wait for a write to the Bridge's socket.

**`AppendLog`** is what a process of logd promises of its file: it only appends, each of its entries at most once and in order, behind a tail that is
written whole or lost whole, beside others that append to the file. The tail is the BufWriter; an exit is a `Lose`, the turn to another process
a `Begin`, what the others write an `Other`, which is never an entry of the present one.

**`Packages`** is Harvester and OPIUM over one disk: the archive cache (`cache`), the Osiris root (`root`), the two
files of the package database (`record`, `manifest`), OPIUM's index of it (`index`) and the staging directories (`staged`). A job is one run of a
program; each action is one change of the disk, and before each the job may be killed (`Crash`) or meet an error
(`MoveFails`, `WriteRecordFails`, `DeleteFails`, ...). A move is a rename or a copy, and a copy may stop when it has emptied the target
(`CopyFails`, `ExtractCut` for OPIUM's tar); a purge removes all of etc/p, whichever package it is of, or a part of it (`PurgeConfig`, `PurgeFails`). A harvest is two steps
beside the jobs, since tar writes the archive in place. A file's contents is the package it came from and how its archive was made: by hand, by
Harvester, corrupt, or altered where the manifest records no checksum (`Checked` are the files for which it does; `Verify` lets the others through);
or it is cut. `broken`, `disputed`, `viaOpium` are history: they say for which packages a property still speaks.

**`Monitor`** is one life of one of the daemons that poll: netd, wifid, timed, healthd, entropyd, kha-watchd, mountd, and vpnd, which
stands also for dnsd, firewalld and proxyd (no checks of their own). `mode` is where main is, `link` the
Bridge's end, `inbox` what main has yet to take, with the end of the connection as `Eof`. `Check` is a poll: `Reports` are
the alerts that the code finds between what it remembers (`known`) and a sample, `Remembered` what it keeps of it,
`Passes` and `Noted` are `emit_alert`. As that function treats its keys apart from each other, one key is followed (`key`,
`window`), any of them. A check is one step: the daemon takes no message during it, and no other task touches its memory.
The clock may be set back between two (`Elapsed`). `CheckFails` is a check whose write fails; `Panic` is the overflow check
of a dev build, where a release build goes on with a wrapped difference, and both happen. mountd reads the Bridge without a task: `socket` is its
`Option`, taken, held or gone; a Reload reads its `fstab` again. The daemons handle Stop and Reload, though this Bridge never sends either. StatusRequest and Forward change no
state here. `seen`, `due`, `heard` are history: `due` is what the last poll had to report if the daemon's memory were that of its samples (`Ideal`).
`Told` is what the daemon has told the Bridge; for mountd, what it takes to have told.

**`Readings`** is what the daemons but mountd make of raw values: sysinfo and `/proc/meminfo` and the fallback between them,
the answers of the NTP servers in turn, `/proc/<pid>/stat`, `/proc/net/dev` with unsigned counters, `/proc/net/wireless`; and their thresholds.
**`Mounts`** is the same for mountd: fstab with its `x-osiris-*` options, `/proc/self/mountinfo` and the two sources it falls back on, `zpool status`,
`btrfs scrub status`, and every comparison of `check_mounts`. Both are operators on records, evaluated by `Monitor`; text that a
parser tells apart is a distinct value (`"3"` is a number, `"3 data errors"` is none). What there is to read is a constant of `Monitor`: `Raw` gives each
daemon what it may find, of the shapes in `Found`, `Fstabs` gives mountd its tables, and `Sampled` is what the daemon makes of it before it looks for
anything to report. The 64 bits of a counter are 20 (`CounterSpan`).

## 3. Runs

| Run | Question | Bounds |
|---|---|---|
| `Bridge_safety` | do the safety properties and the refinement hold under every interleaving? | logd and netd (which waits for it), 3 processes, 1 of them perhaps left by the last Bridge, ceiling 1, 1 message on a wire, pids symmetric |
| `Bridge_liveness` | is every failure, launch and crash dealt with? | 2 processes, 1 of them perhaps left, ceiling 1 |
| `Bridge_stale_batch` | is only a failed daemon restarted, as the comment says? No | 3 processes, none left, ceiling 2 |
| `Bridge_logd` | is each daemon supervised, logd too? No | 2 processes, none left |
| `Kha_init` | does PID 1 keep one Bridge, reap, count and stop, and what becomes of the daemons of a Bridge that died? | `Generations`: 3 processes, 1 restart |
| `Kha_metrics` | does a listener get the metrics? No | 2 processes, 1 frame |
| `Logd_files` | is logd's ring and file logic right, if its decoder accepts a Forward, and is its file an append-only log? | 2 lives, 4 entries of 2, 2, 5, 1 bytes, ring of 4, socket and channel of 1, 1 entry of a process that is not followed |
| `Packages_disk` | do records, manifests and files agree after any sequence of runs, failures and kills? | 4 jobs, one at a time; 2 packages, one file in common (with a checksum in one of them), a dependency, each with a file under the other's etc directory |
| `Packages_harvested` | can Harvester install what it has harvested? No | 1 job |
| `Logd_forward` | does what is forwarded reach logd's file, with the decoder as it is? No | 1 life, with the bounds of `Logd_files` |
| `Monitor_daemons` | does each daemon report what it finds, once, and end when it has to? | the 8 daemons, each key, a window of 2, a clock of 0..2 that goes 1 forth or back between polls, 1 frame waiting |
| `Monitor_mountd` | does what mountd emits reach the Bridge? No | mountd alone |

Why this is enough. Three processes allow two instances of one daemon at once, beside logd or
without it; or a launch, its replacement and a third that finds the ceiling; or one that the last Bridge left and two launches. A ceiling of 1
has a launch that counts and one that is too many; with survivors a ceiling of 2 takes longer than a run should, and is checked without them
(`Bridge_stale_batch`). A pid is
used for one launch only, so a behaviour ends when all are used and later spawns fail
(`SpawnError` is always possible); the proofs are for any set of pids, ceiling and number of survivors. In Kha, three
processes are a Bridge, a daemon it leaves behind and the next Bridge, or a Bridge and two daemons; with all pids used,
respawns fail, as they may in the code. Kha may exit, so `Kha_init` does not check for deadlock.
The entries of logd fill the ring exactly, evict two and evict the one that is larger than it; a second life meets the
files of the first, which may still be writing them. A socket and a channel of one frame make each of them full. The last life
ends, so logd's runs do not check for deadlock.

Four jobs are an install, a removal or a second install that
is cut off, its repair, and one more; two packages that share a file and one of which needs the other give every conflict.
Jobs do not have to end, and their number is bounded: no deadlock check.
A fifth job matters once: a package whose removal was cut off, and which is removed and installed again after another has taken its
path, counts as repaired although it has deleted the other's file. `Undisputed` excepts it; with that, the properties are proved for any number of
jobs (section 5). The cache begins with an archive of p1 that is altered and one of p2 that is by hand or corrupt, and a harvest may replace one of the two
at any moment (`OneHarvested`: a constraint of the run that halves it; with both replaced the invariants held too).

In `Monitor` a window of 2 is the least with a moment inside it and one at its end, and a clock of 0..2 reaches that
end; one step back is a clock that was set back, before or after an alert. A sample has two values of what is compared, or the values at
and next to each threshold, and two access points for a roam; a memory is that of one poll (two for the zombies, whose threshold of 3 is the code's).
fstab has four tables: one plain, one with each option that is looked at, one whose line is overridden, one whose lines do not count.

What the runs show. `RestartCeiling`, `GiveUpIsFinal`: stale batches, late registrations and old timers
never give a daemon more than its launches, and giving up is not undone (a daemon that registers and crashes is restarted for ever,
since its registration resets the count). `DependencyOrder`: a
scan that is stale cannot start a daemon before its dependencies have registered (that they still run is not promised: one may have failed since the scan).
`TransientOwned`: Starting and Restarting always have somebody who will end them. `RunningHasSession`: a
daemon called Running has a connection that is served (it may not be the process whose pid is
on record); `ListedPid`: a pid that `/daemons` lists is a process of that daemon whose connection is served, though two of one daemon
may register and close in any order. `FailureHandled`, `LaunchResolved`, `CrashNoticed` are their liveness counterparts.
For Kha, `OneBridge` and `NoBridgeLeft` although two branches compete for the Bridge's exit
status (a Bridge is left only when a signal stream cannot be made at the start), `OrphansCounted` and `ZombiesReaped` although deaths share a SIGCHLD, `ShutdownHonoured`
although a signal may arrive in a backoff, `BridgeRevived` although its exit may have been taken, `BridgesBounded` although
a respawn may fail and the counter is never reset: a life of PID 1 starts no more Bridges than its ceiling allows. `SocketKept`: a Bridge
removes the socket file without looking whose it is, and it is never that of a live Bridge. `OrphansSettle`: a daemon whose Bridge has died
ends or comes to be served by the next, if it reads the end of its connection: mountd does not once its wait has timed out (finding 6).
For logd, `RingAccounted`: the byte count is that of the entries held, and its saturating subtraction never saturates.
`Kept`: each entry that a process takes is written once and in the order it took them, or known to be lost to an error, whatever other
processes append in between (the order of the file as a whole is not promised: an old process flushes late). `BootstrapEmpty`: the
bootstrap file never gets an entry, since the Bridge acknowledges before it forwards (and logd makes no entries
of its own), so the timeout never cuts off `write_log`. `AppendsOnly`: over its lives, crashes and failed writes, and beside other processes, its file is an append-only log.
`StopKeeps`, `Endures`, `EndsWithBridge`: a stop flushes, a flush
comes, the end of the connection ends logd, whichever loop hears of it.

For packages, `RecordIntact`: what is on the record of an undisturbed package is in the root, its own, and as its manifest says where that has a checksum;
`NoStray`: no file or manifest without a record; `DependentsKept`: an unforced removal is never of something that is needed;
`Verified`: a file with a checksum is in the root only as it was authored, though a harvest may replace the archive between the checks, but for one whose copy
stopped half way (its package is `broken`) and for what OPIUM installs. What TLC found that they
must leave out (`Undisputed`): a forced install over another's file, OPIUM's records that list no files, a removal that was cut off,
after which another package takes the path and the removal, run again, deletes the other's file, and a purge of a directory in which another package has a file. And
two jobs at once: there is no lock and nothing promises one.

For the daemons, `Covered`: what a poll had to report was told, as gravely or more so, within the window, so that
the suppression loses nothing, whatever the daemon remembers and however the clock is set; `Grounded`: an alert goes out only
for what the last samples show, so that a change is not told again; `NotFlooded`: nor twice within the window. `Stops`, `ExitsWithBridge`: a
Stop and the end of the connection are seen, whether they arrive in the wait for the registration, in a check or between two.
What TLC found that these must leave out, each named in its comment: netd forgets addresses between polls, so that one
that stays is a change at each poll and one that goes is none (`ip_change`; against
`project-plans/network_akernet_build_log.md:136`); kha-watchd keeps its count of zombie polls over a poll that found Kha dead;
entropyd gives up its shutdown when it cannot save the seed; mountd (finding 6). `Covered` also says what it does not:
a wifid that disconnects and connects again within the window has told the disconnection only, as both are one key.

Findings (details in `PROJECT.json`):
1. The orchestrator restarts a daemon that is Running, because its batch is stale: two
   live processes of one daemon (`Bridge_stale_batch`).
2. logd's death is never noticed (`Bridge_logd`).
3. Kha's metrics go to Kha's own socket (`Kha_metrics`).
4. A forwarded message does not decode: its frame has the field `type` twice, and logd skips it (`Logd_forward`).
5. Harvester does not install what it has harvested: the manifest's entry has another name than it asks for (`Packages_harvested`).
6. mountd loses its socket when its wait for the registration ends, and logs alerts that nobody gets (`Monitor_mountd`).

Translating what the daemons read shows more, which the models have as the code has it:
- mountd. An `x-osiris-alert=optionschange` entry always differs from the kernel's options, as it holds that option itself. `alert_on_missing`
  is parsed and never read. `project-plans/filesystem_build_log.md:38-43` names `x-osiris-alert-missing=1` and `x-osiris-alert-fsmismatch=1`;
  the code reads `x-osiris-alert=missing` and `x-osiris-alert=fsmismatch`. The tag `propagate_from:` in mountinfo overwrites the options. The two
  other sources have no propagation flags, and take the options of the file system for those of the mount. Mount points that differ in `/`
  and `_` only share their alert keys. An errors line of `zpool status` that is no plain number counts as none.
- healthd skips the disk at `/`, and takes the CPU for idle when it falls back because of the memory alone.
- wifid reads a level with the kernel's trailing dot as 0. netd never reads the carrier, and its unsigned counters
  make a counter that went down a rise. timed sees no drift in a clock that is ahead (`main.rs:288`), and takes the server's seconds, which count from 1900, for
seconds since 1970 (`main.rs:223-225`): `Offset` is what that comes to, any number.
- OPIUM's index lists what is installed, and a retained manifest as a package of its own.

## 4. Fairness

`Bridge`: tokio polls every task that can run, and its Mutex is first come, first served, so
a critical section that is possible again and again is entered: strong fairness for the orchestrator,
each handler and each timer. For a forward that waits, this says that a live logd reads on.
Nothing is assumed of daemons: they may hang, crash, or never register.
`Kha` (`LoopFairness`): `select!` picks at random among ready branches, so each has strong fairness; a
sleep ends; the Bridge installs no handler for SIGTERM and SIGINT, so one that is signalled dies. Signals, deaths and
daemon starts are not fair. `Generations` (`FairGenerations`) adds that a daemon connects or is refused, and reads the end of its connection; that a
Bridge's listener gets to bind is not assumed. The metrics tasks are fair only in `Kha`'s own specification, where they matter.

`Logd`: the reader and `write_log` run when they can (weak fairness); the registration wait ends at its timeout;
`select!` picks at random between a flush that is due and an event, so each has strong fairness. The Bridge, crashes
and the start of a life are not fair.

`Monitor`: timers fire and checks end (weak fairness of `WaitTimeout` and `Checks`); `select!` picks at random between the poll
and the channel, so what is ready in the channel has strong fairness. The Bridge is not fair: it may never answer, stop or close.

## 5. Proofs

**The Bridge.** For every registry, ceiling and set of pids (`BridgeAssumption`: dependencies are daemons,
restartable ones are daemons, the ceiling is a positive number, a wire holds at least a message, `None` is
neither a daemon nor a pid) `BridgeProofs` proves `TypeOK`, `RestartCeiling`, `DependencyOrder`, `TransientOwned`,
`RunningHasSession`, `ListedPid`, `GiveUpIsFinal` and the refinement `KeepsPromise`, with any processes left by the last Bridge. None of them is
inductive. The invariant adds what relates the orchestrator to the registry and a process
to its handler: which stages have a current daemon and a new process (`LaunchControl`);
which processes have an owner, a handler and a timer (`Spawned`); that each member of the batch
still satisfies what the scan knew and no later step can undo, or has been registered by a survivor (`BatchFresh`); that
`attempts` is `restartCount` plus one for a launch that happened (`Accounting`); that a batch of
pending daemons was read when all their dependencies had registered (`Boot`). One lemma per conjunct
shows that each action preserves it, and `Invariance` puts them together; the refinement maps `LaunchPending` to Start,
`SpawnOk` and `SpawnError` to Launch, `AcceptRegister` to Register, and every other step to a stutter.
`LogdAbandoned` is finding 2 without a bound: no handler serves logd's connection (`Unserved`), so that a logd that is Running, and in no batch or launch of the
orchestrator, stays Running for ever, whatever becomes of its processes.

**Kha.** For every set of processes and ceiling `KhaProofs` proves `TypeOK`, `OneBridge`, `NoBridgeLeft`, `OrphansCounted` and `BridgesBounded`. The
invariant `Handle` says what each state of `main` knows of the handle: in `backoff` and
after, the Bridge of the handle is dead, whoever waited for it; `NoBridgeLeft` follows, but for the error of a signal stream. The count needs `Roles` besides (what was born is a Bridge or a daemon,
and the handle is a Bridge's) and the sizes of unions: a turn of `reap_zombies` adds to `reaped` as many as it adds to the upper bound.
`BridgesBounded` is not inductive either: a restart is counted before its Bridge is forked, so that in `backoff` there is one less (`Spawned`).
`MetricsNeverHeard` is finding 3 without a bound: no frame ever gets to kha-watchd, whoever is connected.
`GenerationsProofs` proves `SocketKept`, from `OneBridge` and that the path is that of a Bridge that has had its turn (`Sockets`), and
that `Generations` implements `Kha`, so that what holds of PID 1 alone holds of it among its Bridges and daemons.

**logd.** For any entries, lives, ring and capacities, and for a decoder with or without Forward (`LogdAssumption`: sizes are positive,
that is, `Total` increases; acknowledgement, rejection and Stop decode), `LogdProofs` proves
`TypeOK`, `RingAccounted`, `Kept`, `BootstrapEmpty`, `StopKeeps` and the refinement `AppendsOnly`. The
invariant: the frames in the channel and the socket are those that were forwarded and not taken, in their order (`Queue`); before the
acknowledgement nothing stands in front of the answer (`AnswerFirst`), which is what keeps the bootstrap file empty; `entry` is what was taken
last, and in hand exactly in `write_log` (`InHand`); of what is written, this process's is in order and older than what is in hand (`Older`); what other
processes may still write is older than all of this one's (`Past`, which needs of each start that what the last process holds was forwarded before); what this life has taken is written, lost
or in hand (`Accounted`); a process that is gone has no buffers (`Gone`).
`NothingStored` is finding 4 without a bound: if a Forward does not decode, nothing is ever in logd's ring, its buffers or its files.

**The daemons.** `MonitorProofs` proves `TypeOK`, `Covered`, `Grounded` and `NotFlooded` for any daemons, window, clock and for anything that the
daemons may find: `RawAssumption` says only that it has the shapes of `Found` (counters below `CounterSpan`, lines of words, any number of servers and
of lines). The argument has three parts.
- What is sent (`Inv`): a daemon that has its socket has told the Bridge the last alert that it counts as emitted, since a failed send ends it.
  `HeardWithSocket` is this: `AlertsHeard` fails for mountd alone, and only once its socket is gone (finding 6). `NotFlooded` follows.
- What an alert is (`Typed`, and `ReadingsProofs`): a key has one severity, that of a table (`Gravity`) with two entries that depend on more, wifid's change of
  connection and fstab's own for a missing mount point. One lemma per daemon reads it off the daemon's checks; that the options of fstab give one of three severities
  needs that the last of several is one of them (`LatestIs`). `OneSeverity` follows: no poll weighs an alert against another of the same key.
- What is remembered (`Recalls`): what a daemon knows is what its last polls have seen, in a form that differs for each (`NetdRight`, `WifidRight`,
  `MountdRight`, `KhaWatchdRight`). From it, what a poll reports is what it had to report (`due`), but for `ip_change` and the zombies,
  and with the severities, `Covered` and `Grounded`.

`ReadingsProofs` also settles netd's unsigned subtraction: it is exact while the counters rise (`CountersExact`), and an interface that was
created anew is told for errors that it did not have, unless the old one had nearly the whole span of them (`FewerErrorsTold`). Of `CounterSpan` the
proofs use only that it is positive, so that they stand for 64 bits as for 20.

**Packages.** `PackagesProofs` proves `TypeOK` for any packages, and for any number of jobs side by side, without a lock.
`PackagesOrderProofs` proves `Verified`, `RecordIntact`, `NoStray` and `DependentsKept` for any packages, files, checksums, etc directories and dependencies, if jobs run
one at a time (`OneJob`, a hypothesis of each theorem: the code has no lock). `PackagesAssumption` says nothing of what a package ships under another's directory. The invariant `Orderly` has two halves. `Fit` is what a job
rests on at each of its steps: whether its package is on record (`RecordedBy`), that its paths were free, or it is forced, and that what is staged, and what it has moved, is as verified where there is a checksum
(`PlacedBy`), that a removal leaves no file it has come to (`ClearedBy`), that what it has not come to is the package's own (`PendingBy`, without which
it would delete another's file), that nothing settled depends on it (`NeedlessBy`). `Calm` is what holds of each package whatever goes
on: the two properties, that a settled package has its retained manifest (which `find_dependents` goes by), and that
what a record lists is the package's own even where a job stopped half way. A lemma per action shows `Fit`; for `Calm`,
`StepCalm` reduces a step to its package, the others being out of its reach (`OtherCalm`).

Only model-checked: all liveness (`FailureHandled`, `LaunchResolved`, `CrashNoticed`, `ZombiesReaped`,
`ShutdownHonoured`, `BridgeRevived`, `OrphansSettle`, `Endures`, `EndsWithBridge`, `Stops`, `ExitsWithBridge`), which TLAPS cannot prove here; and the roster's `ASSUME`s, which
are about a table and a recursion over it. All invariants and action properties of the passing runs are proved. What is proved of `Packages` for one job at a time is
said above.

## 6. Plan

1. Done: `Bridge`, `Supervisor`, `Registry`, `Kha`, with all their safety proved; the HTTP surface; what one Bridge leaves to the next (`Generations`, survivors).
2. Done: `Logd`: ring, byte count, files, cancellation, exit; `AppendLog`; all its safety proved.
3. Done: `Packages`: Harvester and OPIUM over one disk, with failures and crashes; all its safety proved, for one job at a time where it needs that.
4. Done: `Monitor`: the daemons' main loop, alert window and checks, with mountd's socket; what they read (`Readings`, `Mounts`); all its safety proved.
5. Done: all invariants, action properties and refinements of the runs are theorems; findings 2 to 4 are proved without a bound, and that 6 is the only way in which `AlertsHeard` fails.
6. Left: what `Packages` promises to two jobs on packages that share nothing; which steps a stale batch (finding 1) can and cannot undo.

## 7. Not modelled

`mount_essentials` and the `mount-essentials` script only
ask the kernel for mounts. `ra`, `anubis` and `thoth` are stubs. Path resolution (`config.rs`) and the splitting of `/proc`'s text into fields
are inputs, as are what `sysinfo`, `statvfs` and the `ntp` crate answer. The HTTP server is what it answers, not how. Reuse of a pid by the kernel is not modelled.
The mixing of two logd processes within a line is not modelled either.
What Harvester finds in the Debian root, OPIUM's `search` and `info`, which change nothing, and wifid's scan of networks, which no check reads, are left out.
