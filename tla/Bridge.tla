------------------------------- MODULE Bridge -------------------------------
(***************************************************************************)
(* AkerNet Bridge, the supervisor of the daemons of the Abyss Network      *)
(* (akernet/akernet-bridge/src/main.rs over maat's DaemonRegistry).        *)
(*                                                                         *)
(* Three kinds of tokio task share one BridgeState behind a Mutex: the     *)
(* orchestrator, one handler per daemon connection, and one registration   *)
(* timer per launch.  Every step below is one critical section of one of   *)
(* them (or one step between two critical sections), so what a task read   *)
(* in an earlier section may be stale when it acts on it.                  *)
(*                                                                         *)
(* A process is a member of Procs, the pids the OS hands out.  The wire    *)
(* of a process is what it has written to its socket and the Bridge has    *)
(* not read.  Time is abstract: a backoff or a timer ends at any moment.   *)
(*                                                                         *)
(* A Bridge is one process, and Kha may have restarted it: a daemon of the *)
(* last Bridge that had not connected when that one died connects to this  *)
(* one, which did not launch it and knows it by its name alone.            *)
(***************************************************************************)
EXTENDS Naturals, Sequences, FiniteSets

CONSTANTS
  Daemons,             \* names in the registry
  Logd,                \* the name "logd", which the handler treats apart
  DependsOn,           \* DependsOn[d]: the names d waits for
  Restartable,         \* names with DaemonInfo.restartable
  MaxDaemonRestarts,   \* MAX_DAEMON_RESTARTS
  Procs,               \* pids; bounds the number of successful launches
  WireCap,             \* messages a socket buffer holds
  MaxSurvivors,        \* bound on the processes of the last Bridge
  None                 \* Option::None

ASSUME BridgeAssumption ==
  /\ DependsOn \in [Daemons -> SUBSET Daemons]
  /\ Restartable \subseteq Daemons
  /\ MaxDaemonRestarts \in Nat \ {0}
  /\ WireCap \in Nat \ {0} /\ MaxSurvivors \in Nat
  /\ None \notin Daemons
  /\ None \notin Procs

Statuses == {"Pending", "Starting", "Running", "Stopped", "Failed", "Restarting"}
Messages == {"Register", "StatusUpdate", "Alert", "Shutdown"}

VARIABLES
  \* BridgeState
  status,        \* status[d]: DaemonInfo.status
  pid,           \* pid[d]: DaemonInfo.pid
  restartCount,  \* restartCount[d]: DaemonInfo.restart_count
  children,      \* children[d]: the Child handle held for d
  logdWriter,    \* the process whose connection logd_write_half writes to
  lock,          \* the handler that awaits a write with the Mutex held
  \* the orchestrator task
  phase,         \* which of its two loops it is in
  stage,         \* where it is in the treatment of one daemon
  batch,         \* the rest of to_spawn or to_restart, as read at the scan
  cur,           \* the daemon being launched
  newProc,       \* the process just spawned, not yet in children
  \* one entry per process
  proc,          \* the process itself
  owner,         \* the daemon it is an instance of
  wire,          \* messages it sent, unread by the Bridge
  handler,       \* its handle_daemon_connection task
  timer,         \* its check_registration_timeout task is pending
  \* history, read by no action
  attempts,      \* attempts[d]: launches of d since it last registered
  registered,    \* the daemons that have registered at least once
  survivors      \* the daemons of which the last Bridge left a process

stateVars   == <<status, pid, restartCount, children>>
orchVars    == <<phase, stage, batch, cur, newProc>>
procVars    == <<proc, owner, wire>>
historyVars == <<attempts, registered, survivors>>
vars == <<stateVars, logdWriter, lock, orchVars, procVars, handler, timer, historyVars>>

TypeOK ==
  /\ status \in [Daemons -> Statuses]
  /\ pid \in [Daemons -> Procs \cup {None}]
  /\ restartCount \in [Daemons -> Nat]
  /\ children \in [Daemons -> Procs \cup {None}]
  /\ logdWriter \in Procs \cup {None}
  /\ lock \in Procs \cup {None}
  /\ phase \in {"spawn", "restart"}
  /\ stage \in {"pick", "backoff", "exec", "record", "execFailed"}
  /\ batch \in SUBSET Daemons
  /\ cur \in Daemons \cup {None}
  /\ newProc \in Procs \cup {None}
  /\ proc \in [Procs -> {"unborn", "booting", "up", "exited"}]
  /\ owner \in [Procs -> Daemons \cup {None}]
  /\ wire \in [Procs -> Seq(Messages)]
  /\ handler \in [Procs -> {"none", "open", "acking", "verified", "forwarding", "writing", "closed"}]
  /\ timer \in [Procs -> BOOLEAN]
  /\ attempts \in [Daemons -> Nat]
  /\ registered \in SUBSET Daemons
  /\ survivors \in SUBSET Daemons

Init ==
  /\ status = [d \in Daemons |-> "Pending"]
  /\ pid = [d \in Daemons |-> None]
  /\ restartCount = [d \in Daemons |-> 0]
  /\ children = [d \in Daemons |-> None]
  /\ logdWriter = None
  /\ lock = None
  /\ phase = "restart" /\ stage = "pick" /\ batch = {} /\ cur = None /\ newProc = None
  /\ proc \in [Procs -> {"unborn", "booting"}]
  /\ Cardinality({p \in Procs : proc[p] = "booting"}) <= MaxSurvivors
  /\ owner \in [Procs -> Daemons \cup {None}]
  /\ \A p \in Procs : owner[p] = None <=> proc[p] = "unborn"
  /\ wire = [p \in Procs |-> <<>>]
  /\ handler = [p \in Procs |-> "none"]
  /\ timer = [p \in Procs |-> FALSE]
  /\ attempts = [d \in Daemons |-> 0]
  /\ registered = {}
  /\ survivors = {d \in Daemons : \E p \in Procs : owner[p] = d}

-----------------------------------------------------------------------------
(* BridgeState and DaemonRegistry methods, called with the Mutex held.     *)

LockFree == lock = None

\* mark_running
MarkRunning(d, p) ==
  /\ status' = [status EXCEPT ![d] = "Running"]
  /\ pid' = [pid EXCEPT ![d] = p]
  /\ restartCount' = [restartCount EXCEPT ![d] = 0]
  /\ UNCHANGED children

\* Mutant: pid becomes Some(0).
MarkFailedPidZero(d) ==
  /\ status' = [status EXCEPT ![d] = "Failed"]
  /\ pid' = [pid EXCEPT ![d] = 0]
  /\ children' = [children EXCEPT ![d] = None]
  /\ UNCHANGED restartCount

\* Mutant: the pid stays on record.
MarkFailedKeepsPid(d) ==
  /\ status' = [status EXCEPT ![d] = "Failed"]
  /\ children' = [children EXCEPT ![d] = None]
  /\ UNCHANGED <<pid, restartCount>>

\* mark_failed: the Child is dropped, not killed.
MarkFailed(d) ==
  /\ status' = [status EXCEPT ![d] = "Failed"]
  /\ pid' = [pid EXCEPT ![d] = None]
  /\ children' = [children EXCEPT ![d] = None]
  /\ UNCHANGED restartCount

\* running_names
RunningNames == {d \in Daemons : status[d] = "Running"}

\* Mutant: a dependency that is merely being started counts.
ReadyToSpawnEarly == {d \in Daemons : status[d] = "Pending" /\ \A e \in DependsOn[d] : status[e] # "Pending"}

\* ready_to_spawn, with is_ready_to_spawn
ReadyToSpawn == {d \in Daemons : status[d] = "Pending" /\ DependsOn[d] \subseteq RunningNames}

\* Mutants: one restart too many, no ceiling at all, failures forgotten.
ReadyToRestartOneMore ==
  {d \in Restartable : status[d] \in {"Failed", "Stopped"} /\ restartCount[d] <= MaxDaemonRestarts}
ReadyToRestartForever == {d \in Restartable : status[d] \in {"Failed", "Stopped"}}
ReadyToRestartStopped == {d \in Restartable : status[d] = "Stopped" /\ restartCount[d] < MaxDaemonRestarts}

\* ready_to_restart
ReadyToRestart ==
  {d \in Restartable : status[d] \in {"Failed", "Stopped"} /\ restartCount[d] < MaxDaemonRestarts}

-----------------------------------------------------------------------------
(* run_orchestrator.  The batch is read in one critical section; each of   *)
(* its members is treated later, without reading its status again.         *)

BatchDone == stage = "pick" /\ batch = {}

ScanPending ==
  /\ phase = "restart" /\ BatchDone /\ LockFree
  /\ phase' = "spawn"
  /\ batch' = ReadyToSpawn
  /\ UNCHANGED <<stateVars, logdWriter, lock, stage, cur, newProc, procVars, handler, timer, historyVars>>

ScanFailed ==
  /\ phase = "spawn" /\ BatchDone /\ LockFree
  /\ phase' = "restart"
  /\ batch' = ReadyToRestart
  /\ UNCHANGED <<stateVars, logdWriter, lock, stage, cur, newProc, procVars, handler, timer, historyVars>>

\* spawn_daemon's first critical section.
SetStarting(d) ==
  /\ LockFree
  /\ status' = [status EXCEPT ![d] = "Starting"]
  /\ cur' = d
  /\ stage' = "exec"
  /\ UNCHANGED <<pid, restartCount, children, logdWriter, lock, phase, newProc,
                 procVars, handler, timer, historyVars>>

LaunchPending(d) ==
  /\ phase = "spawn" /\ stage = "pick" /\ d \in batch
  /\ batch' = batch \ {d}
  /\ SetStarting(d)

\* Mutant: the restart is not counted.
MarkRestartingUncounted(d) ==
  /\ phase = "restart" /\ stage = "pick" /\ d \in batch /\ LockFree
  /\ batch' = batch \ {d}
  /\ status' = [status EXCEPT ![d] = "Restarting"]
  /\ cur' = d
  /\ stage' = "backoff"
  /\ UNCHANGED <<pid, restartCount, children, logdWriter, lock, phase, newProc, procVars, handler, timer, historyVars>>

MarkRestarting(d) ==
  /\ phase = "restart" /\ stage = "pick" /\ d \in batch /\ LockFree
  /\ batch' = batch \ {d}
  /\ status' = [status EXCEPT ![d] = "Restarting"]
  /\ restartCount' = [restartCount EXCEPT ![d] = @ + 1]
  /\ cur' = d
  /\ stage' = "backoff"
  /\ UNCHANGED <<pid, children, logdWriter, lock, phase, newProc, procVars, handler, timer, historyVars>>

BackoffElapsed ==
  /\ stage = "backoff"
  /\ UNCHANGED batch
  /\ SetStarting(cur)

\* Command::spawn: the process runs before its Child is in the map.
SpawnOk(p) ==
  /\ stage = "exec" /\ proc[p] = "unborn"
  /\ proc' = [proc EXCEPT ![p] = "booting"]
  /\ owner' = [owner EXCEPT ![p] = cur]
  /\ newProc' = p
  /\ stage' = "record"
  /\ attempts' = [attempts EXCEPT ![cur] = @ + 1]
  /\ UNCHANGED <<stateVars, logdWriter, lock, phase, batch, cur, wire, handler, timer, registered, survivors>>

SpawnError ==
  /\ stage = "exec"
  /\ stage' = "execFailed"
  /\ attempts' = [attempts EXCEPT ![cur] = @ + 1]
  /\ UNCHANGED <<stateVars, logdWriter, lock, phase, batch, cur, newProc, procVars, handler, timer, registered, survivors>>

\* Mutant: no timer is armed.
RecordChildUntimed ==
  /\ stage = "record" /\ LockFree
  /\ children' = [children EXCEPT ![cur] = newProc]
  /\ stage' = "pick" /\ cur' = None /\ newProc' = None
  /\ UNCHANGED <<status, pid, restartCount, logdWriter, lock, phase, batch, procVars, handler, timer, historyVars>>

\* children.insert, then the timer task is spawned.
RecordChild ==
  /\ stage = "record" /\ LockFree
  /\ children' = [children EXCEPT ![cur] = newProc]
  /\ timer' = [timer EXCEPT ![newProc] = TRUE]
  /\ stage' = "pick" /\ cur' = None /\ newProc' = None
  /\ UNCHANGED <<status, pid, restartCount, logdWriter, lock, phase, batch, procVars, handler, historyVars>>

RecordFailure ==
  /\ stage = "execFailed" /\ LockFree
  /\ status' = [status EXCEPT ![cur] = "Stopped"]
  /\ stage' = "pick" /\ cur' = None
  /\ UNCHANGED <<pid, restartCount, children, logdWriter, lock, phase, batch, newProc,
                 procVars, handler, timer, historyVars>>

-----------------------------------------------------------------------------
(* check_registration_timeout, keyed by the name alone.                    *)

RegistrationTimeout(p) ==
  /\ timer[p] /\ LockFree
  /\ timer' = [timer EXCEPT ![p] = FALSE]
  /\ IF status[owner[p]] = "Starting"
       THEN /\ status' = [status EXCEPT ![owner[p]] = "Failed"]
            /\ children' = [children EXCEPT ![owner[p]] = None]
       ELSE UNCHANGED <<status, children>>
  /\ UNCHANGED <<pid, restartCount, logdWriter, lock, orchVars, procVars, handler, historyVars>>

-----------------------------------------------------------------------------
(* handle_daemon_connection, one task per connection.                      *)

Received(p, m) == wire[p] # <<>> /\ Head(wire[p]) = m

Consume(p) == wire' = [wire EXCEPT ![p] = Tail(@)]

Goto(p, where) == handler' = [handler EXCEPT ![p] = where]

\* Register from a peer whose credentials match.  logd's handler has a
\* second critical section to come; the others read on.
AcceptRegister(p) ==
  /\ handler[p] = "open" /\ Received(p, "Register") /\ LockFree
  /\ Consume(p)
  /\ MarkRunning(owner[p], p)
  /\ Goto(p, IF owner[p] = Logd THEN "acking" ELSE "verified")
  /\ attempts' = [attempts EXCEPT ![owner[p]] = 0]
  /\ registered' = registered \cup {owner[p]}
  /\ UNCHANGED <<logdWriter, lock, orchVars, proc, owner, timer, survivors>>

\* The peer's credentials cannot be read or do not match: the connection is
\* closed and the registry is not told.
RejectRegister(p) ==
  /\ handler[p] = "open" /\ Received(p, "Register")
  /\ Consume(p)
  /\ Goto(p, "closed")
  /\ UNCHANGED <<stateVars, logdWriter, lock, orchVars, proc, owner, timer, historyVars>>

\* logd's write half moves to BridgeState; its handler returns for good.
StoreLogdWriter(p) ==
  /\ handler[p] = "acking" /\ LockFree
  /\ logdWriter' = p
  /\ Goto(p, "closed")
  /\ UNCHANGED <<stateVars, lock, orchVars, procVars, timer, historyVars>>

\* The heartbeat of every daemon but logd carries Running and its own name.
ReadStatusUpdate(p) ==
  /\ handler[p] = "verified" /\ Received(p, "StatusUpdate") /\ LockFree
  /\ Consume(p)
  /\ status' = [status EXCEPT ![owner[p]] = "Running"]
  /\ Goto(p, "forwarding")
  /\ UNCHANGED <<pid, restartCount, children, logdWriter, lock, orchVars, proc, owner, timer, historyVars>>

\* Alert and Error only log.
ReadAlert(p) ==
  /\ handler[p] = "verified" /\ Received(p, "Alert")
  /\ Consume(p)
  /\ Goto(p, "forwarding")
  /\ UNCHANGED <<stateVars, logdWriter, lock, orchVars, proc, owner, timer, historyVars>>

ReadShutdown(p) ==
  /\ handler[p] = "verified" /\ Received(p, "Shutdown") /\ LockFree
  /\ Consume(p)
  /\ MarkFailed(owner[p])
  /\ Goto(p, "forwarding")
  /\ UNCHANGED <<logdWriter, lock, orchVars, proc, owner, timer, historyVars>>

LogdGone == logdWriter # None /\ proc[logdWriter] = "exited"

\* The forward to logd, a critical section of its own that awaits write_all.
Forward(p) ==
  /\ handler[p] = "forwarding" /\ LockFree
  /\ ~LogdGone
  /\ Goto(p, "verified")
  /\ UNCHANGED <<stateVars, logdWriter, lock, orchVars, procVars, timer, historyVars>>

\* logd's socket is full: the write waits and the Mutex stays held.
ForwardBlocks(p) ==
  /\ handler[p] = "forwarding" /\ LockFree
  /\ logdWriter # None /\ ~LogdGone
  /\ lock' = p
  /\ Goto(p, "writing")
  /\ UNCHANGED <<stateVars, logdWriter, orchVars, procVars, timer, historyVars>>

\* logd reads on.
ForwardResumes(p) ==
  /\ handler[p] = "writing" /\ ~LogdGone
  /\ lock' = None
  /\ Goto(p, "verified")
  /\ UNCHANGED <<stateVars, logdWriter, orchVars, procVars, timer, historyVars>>

\* The write fails: only the reference to logd's connection is dropped.
ForwardFails(p) ==
  /\ \/ handler[p] = "forwarding" /\ LockFree
     \/ handler[p] = "writing"
  /\ LogdGone
  /\ logdWriter' = None
  /\ lock' = None
  /\ Goto(p, "verified")
  /\ UNCHANGED <<stateVars, orchVars, procVars, timer, historyVars>>

\* End of file.
Disconnected(p) == wire[p] = <<>> /\ proc[p] = "exited"

CloseUnverified(p) ==
  /\ handler[p] = "open" /\ Disconnected(p)
  /\ Goto(p, "closed")
  /\ UNCHANGED <<stateVars, logdWriter, lock, orchVars, procVars, timer, historyVars>>

\* Mutants: only the process on record counts; the close is only logged.
CloseVerifiedIfCurrent(p) ==
  /\ handler[p] = "verified" /\ Disconnected(p) /\ LockFree
  /\ IF pid[owner[p]] = p THEN MarkFailed(owner[p]) ELSE UNCHANGED stateVars
  /\ Goto(p, "closed")
  /\ UNCHANGED <<logdWriter, lock, orchVars, procVars, timer, historyVars>>
CloseVerifiedSilently(p) ==
  /\ handler[p] = "verified" /\ Disconnected(p) /\ LockFree
  /\ Goto(p, "closed")
  /\ UNCHANGED <<stateVars, logdWriter, lock, orchVars, procVars, timer, historyVars>>

CloseVerified(p) ==
  /\ handler[p] = "verified" /\ Disconnected(p) /\ LockFree
  /\ MarkFailed(owner[p])
  /\ Goto(p, "closed")
  /\ UNCHANGED <<logdWriter, lock, orchVars, procVars, timer, historyVars>>

-----------------------------------------------------------------------------
(* The HTTP surface reads one state, with the Mutex held.                  *)

\* list_daemons.  The counts of /health are those of its statuses; Starting is
\* not among them.
ListDaemons == [d \in Daemons |-> [status |-> status[d], pid |-> pid[d]]]

-----------------------------------------------------------------------------
(* The daemon process, as far as the Bridge can tell.                      *)

Send(p, m) == wire' = [wire EXCEPT ![p] = Append(@, m)]

\* connect_to_bridge, then register, unless the process ends in between.
Connect(p) ==
  /\ proc[p] = "booting"
  /\ Goto(p, "open")
  /\ \/ proc' = [proc EXCEPT ![p] = "up"] /\ Send(p, "Register")
     \/ proc' = [proc EXCEPT ![p] = "exited"] /\ UNCHANGED wire
  /\ UNCHANGED <<stateVars, logdWriter, lock, orchVars, owner, timer, historyVars>>

\* A poll's alerts and heartbeat; sent even if the wait for the ack timed out.
Report(p, m) ==
  /\ proc[p] = "up" /\ owner[p] # Logd /\ handler[p] # "closed"
  /\ Len(wire[p]) < WireCap
  /\ Send(p, m)
  /\ UNCHANGED <<stateVars, logdWriter, lock, orchVars, proc, owner, handler, timer, historyVars>>

\* shutdown() on BridgeMessage::Stop or Restart, then exit.  This Bridge sends
\* neither, but its handler serves the Shutdown of any process.
Stop(p) ==
  /\ proc[p] = "up" /\ owner[p] # Logd /\ handler[p] # "closed"
  /\ Len(wire[p]) < WireCap
  /\ Send(p, "Shutdown")
  /\ proc' = [proc EXCEPT ![p] = "exited"]
  /\ UNCHANGED <<stateVars, logdWriter, lock, orchVars, owner, handler, timer, historyVars>>

\* A crash, a failed connect, or the exit that follows a closed connection.
Crash(p) ==
  /\ proc[p] \in {"booting", "up"}
  /\ proc' = [proc EXCEPT ![p] = "exited"]
  /\ UNCHANGED <<stateVars, logdWriter, lock, orchVars, owner, wire, handler, timer, historyVars>>

-----------------------------------------------------------------------------
Orchestrator ==
  \/ ScanPending \/ ScanFailed \/ BackoffElapsed \/ SpawnError \/ RecordChild \/ RecordFailure
  \/ \E d \in Daemons : LaunchPending(d) \/ MarkRestarting(d)
  \/ \E p \in Procs : SpawnOk(p)

Handler(p) ==
  \/ AcceptRegister(p) \/ RejectRegister(p) \/ StoreLogdWriter(p)
  \/ ReadStatusUpdate(p) \/ ReadAlert(p) \/ ReadShutdown(p)
  \/ Forward(p) \/ ForwardBlocks(p) \/ ForwardResumes(p) \/ ForwardFails(p)
  \/ CloseUnverified(p) \/ CloseVerified(p)

Process(p) == Connect(p) \/ (\E m \in {"StatusUpdate", "Alert"} : Report(p, m)) \/ Stop(p) \/ Crash(p)

Next ==
  \/ Orchestrator
  \/ \E p \in Procs : RegistrationTimeout(p) \/ Handler(p) \/ Process(p)

Spec == Init /\ [][Next]_vars

\* Fairness.  A tokio task that can run is polled, and the Mutex serves its
\* waiters in turn, so a section that is free again and again is entered:
\* strong fairness for every task of the Bridge.  For a write that waits it
\* is the assumption that a live logd reads on.  Nothing is assumed of the
\* daemons, which may hang or crash.
Fairness ==
  /\ SF_vars(Orchestrator)
  /\ \A p \in Procs : SF_vars(Handler(p)) /\ SF_vars(RegistrationTimeout(p))

FairSpec == Spec /\ Fairness

-----------------------------------------------------------------------------
(* Properties.                                                             *)

\* A daemon that does not register is launched once and restarted at most
\* MAX_DAEMON_RESTARTS times, whatever registrations, timeouts and closes
\* fall between the scan that read restart_count and the launch.
RestartCeiling == \A d \in Daemons : attempts[d] <= MaxDaemonRestarts + 1

\* A daemon leaves Pending only when each of its dependencies has registered
\* (the scan's list of running daemons is stale when the launch happens), or
\* because a process that the last Bridge left has registered by itself.
DependencyOrder ==
  \A d \in Daemons :
    status[d] # "Pending" => DependsOn[d] \subseteq registered \/ d \in survivors \cap registered

\* No daemon is stuck in a passing status: Starting has a launch under way or
\* a timer that will end it, Restarting has the orchestrator in its backoff.
TransientOwned ==
  \A d \in Daemons :
    /\ status[d] = "Starting" =>
         \/ cur = d /\ stage \in {"exec", "record", "execFailed"}
         \/ \E p \in Procs : owner[p] = d /\ timer[p]
    /\ status[d] = "Restarting" => cur = d /\ stage = "backoff"

\* What /daemons and /health call Running is attested by a connection the
\* Bridge still serves.  logd is left out: its handler returns on registering.
RunningHasSession ==
  \A d \in Daemons \ {Logd} : status[d] = "Running" =>
    \E p \in Procs : owner[p] = d /\ handler[p] \in {"verified", "forwarding", "writing"}

\* A pid that /daemons lists, under whatever status (a registration timeout
\* leaves it on record), is a process of that daemon whose connection is still
\* served: two processes of one daemon may register and close in any order.
ListedPid ==
  \A d \in Daemons \ {Logd} :
    LET p == ListDaemons[d].pid
    IN  p # None => owner[p] = d /\ handler[p] \in {"verified", "forwarding", "writing"}

\* Giving up is final: with the ceiling reached, no process left and nothing
\* unread from one, no timer, handler or scan changes the daemon's status.
Silent(d) ==
  \A p \in Procs : owner[p] = d => proc[p] = "exited" /\ (wire[p] = <<>> \/ handler[p] = "closed")
GivenUp(d) ==
  /\ status[d] = "Failed" /\ restartCount[d] = MaxDaemonRestarts
  /\ cur # d /\ Silent(d)
GiveUpIsFinal == [][\A d \in Daemons : GivenUp(d) => status'[d] = status[d]]_vars

\* The Bridge implements the supervisor's promise.
Promise == INSTANCE Supervisor WITH
  started <- {d \in Daemons : status[d] # "Pending"},
  launches <- attempts,
  MaxLaunches <- MaxDaemonRestarts + 1
KeepsPromise == Promise!Spec

\* A failed daemon below the ceiling gets the orchestrator's attention again.
FailureHandled ==
  \A d \in Restartable :
    (status[d] = "Failed" /\ restartCount[d] < MaxDaemonRestarts) ~> (cur = d \/ status[d] = "Running")

\* A launch comes to an end: the daemon registers, or the timer gives it up.
LaunchResolved == \A d \in Daemons : status[d] = "Starting" ~> status[d] # "Starting"

\* When the last process of a running daemon is gone the Bridge notices.
DeathNoticed(S) ==
  \A d \in S :
    (status[d] = "Running" /\ \A p \in Procs : owner[p] = d => proc[p] = "exited")
      ~> (status[d] # "Running")
CrashNoticed == DeathNoticed(Daemons \ {Logd})

\* The same of all 42, as the header of main.rs has it: "Supervise all 42 -
\* restart on failure with backoff" (main.rs:8).
SuperviseAll == DeathNoticed(Daemons)

\* "actually restart daemons that have failed/stopped" (main.rs:353): the
\* orchestrator turns to Restarting only a daemon that is Failed or Stopped.
RestartOnlyFailed ==
  [][\A d \in Daemons : status'[d] = "Restarting" /\ status[d] # "Restarting"
                            => status[d] \in {"Failed", "Stopped"}]_vars
=============================================================================
