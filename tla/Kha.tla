-------------------------------- MODULE Kha --------------------------------
(***************************************************************************)
(* Kha, PID 1 (kha/src/main.rs): it spawns the Bridge as its only child,   *)
(* restarts it within a ceiling, reaps whatever the kernel re-parents to   *)
(* it, and forwards SIGTERM and SIGINT.                                    *)
(*                                                                         *)
(* The main loop is one select! over three signal streams and              *)
(* bridge.wait(); the branch that is taken runs to its end, its sleep      *)
(* included, before another is.  Two of its branches compete for the exit  *)
(* status of the Bridge: reap_zombies waits for any child (-1).            *)
(*                                                                         *)
(* A daemon is here only what Kha sees of it: a process the Bridge starts, *)
(* which the kernel hands to PID 1 when the Bridge dies.  A pid that was   *)
(* waited for is not used again.                                           *)
(***************************************************************************)
EXTENDS Naturals, FiniteSets

CONSTANTS
  Procs,              \* pids
  MaxBridgeRestarts,  \* MAX_BRIDGE_RESTARTS
  SndBuf,             \* metrics frames a socket's send buffer holds
  Pid1,               \* Kha, as a parent
  None                \* no process

ASSUME KhaAssumption ==
  /\ IsFiniteSet(Procs)
  /\ MaxBridgeRestarts \in Nat
  /\ SndBuf \in Nat \ {0}
  /\ Pid1 \notin Procs /\ None \notin Procs /\ Pid1 # None

StopSignals == {"TERM", "INT"}

VARIABLES
  kha,       \* where main is
  restarts,  \* bridge_restart_count
  bridge,    \* the pid of the Child handle, and bridge_pid
  pending,   \* signal streams with something to receive; signals do not queue
  reaped,    \* metrics.zombies_reaped
  forwarded, \* metrics.signals_forwarded
  \* the processes
  proc,      \* a zombie becomes gone when its parent waits for it
  role,      \* what it runs
  parent,    \* who may wait for it
  \* the metrics channel
  emitter,   \* the metrics_emitter task
  watching,  \* kha-watchd has bound and connected its own socket
  inbox,     \* frames queued at the two bound sockets
  heard      \* kha-watchd's latest_metrics came from Kha

loopVars   == <<kha, restarts, bridge, pending>>
countVars  == <<reaped, forwarded>>
procVars   == <<proc, role, parent>>
metricVars == <<emitter, watching, inbox, heard>>
vars == <<loopVars, countVars, procVars, metricVars>>

TypeOK ==
  /\ kha \in {"boot", "arming", "select", "backoff", "stopping", "down", "fatal", "unarmed"}
  /\ restarts \in 0..MaxBridgeRestarts
  /\ bridge \in Procs \cup {None}
  /\ pending \in SUBSET ({"CHLD"} \cup StopSignals)
  /\ reaped \in Nat
  /\ forwarded \in Nat
  /\ proc \in [Procs -> {"unborn", "running", "zombie", "gone"}]
  /\ role \in [Procs -> {"none", "bridge", "daemon"}]
  /\ parent \in [Procs -> Procs \cup {None, Pid1}]
  /\ emitter \in {"starting", "sending", "off"}
  /\ watching \in BOOLEAN
  /\ inbox \in [{"kha", "watchd"} -> 0..SndBuf]
  /\ heard \in BOOLEAN

Init ==
  /\ kha = "boot"
  /\ restarts = 0
  /\ bridge = None
  /\ pending = {}
  /\ reaped = 0
  /\ forwarded = 0
  /\ proc = [p \in Procs |-> "unborn"]
  /\ role = [p \in Procs |-> "none"]
  /\ parent = [p \in Procs |-> None]
  /\ emitter = "starting"
  /\ watching = FALSE
  /\ inbox = [s \in {"kha", "watchd"} |-> 0]
  /\ heard = FALSE

\* PID 1 has not exited.
Up == kha \notin {"down", "fatal", "unarmed"}

\* The streams exist: until then PID 1 ignores the signals.
Armed == kha \in {"select", "backoff", "stopping"}

-----------------------------------------------------------------------------
(* main.                                                                   *)

\* Pids are handed out in a fixed order.
NextPid == CHOOSE p \in Procs : proc[p] = "unborn"

Fork(p, r, pp) ==
  /\ proc[p] = "unborn" /\ p = NextPid
  /\ proc' = [proc EXCEPT ![p] = "running"]
  /\ role' = [role EXCEPT ![p] = r]
  /\ parent' = [parent EXCEPT ![p] = pp]

\* spawn_bridge
SpawnBridge(p) == Fork(p, "bridge", Pid1) /\ bridge' = p

Boot(p) ==
  /\ kha = "boot"
  /\ SpawnBridge(p)
  /\ kha' = "arming"
  /\ UNCHANGED <<restarts, pending, countVars, metricVars>>

\* The first spawn is not retried: main returns the error.
BootFails ==
  /\ kha = "boot"
  /\ kha' = "fatal"
  /\ UNCHANGED <<restarts, bridge, pending, countVars, procVars, metricVars>>

\* The handlers are installed after the spawn.
Arm ==
  /\ kha = "arming"
  /\ kha' = "select"
  /\ UNCHANGED <<restarts, bridge, pending, countVars, procVars, metricVars>>

\* One of the three signal(..)? fails: main returns the error, and nobody is
\* left to wait for the Bridge.
ArmFails ==
  /\ kha = "arming"
  /\ kha' = "unarmed"
  /\ UNCHANGED <<restarts, bridge, pending, countVars, procVars, metricVars>>

Zombies == {p \in Procs : proc[p] = "zombie" /\ parent[p] = Pid1}

\* Mutants: one count per signal; one wait per signal.
ReapZombiesCountsOne ==
  /\ kha = "select" /\ "CHLD" \in pending
  /\ pending' = pending \ {"CHLD"}
  /\ proc' = [p \in Procs |-> IF p \in Zombies THEN "gone" ELSE proc[p]]
  /\ reaped' = reaped + 1
  /\ UNCHANGED <<kha, restarts, bridge, forwarded, role, parent, metricVars>>
ReapOneZombie ==
  /\ kha = "select" /\ "CHLD" \in pending
  /\ pending' = pending \ {"CHLD"}
  /\ IF Zombies = {} THEN UNCHANGED <<proc, reaped>>
     ELSE /\ \E p \in Zombies : proc' = [proc EXCEPT ![p] = "gone"]
          /\ reaped' = reaped + 1
  /\ UNCHANGED <<kha, restarts, bridge, forwarded, role, parent, metricVars>>

\* The SIGCHLD branch with reap_zombies, which may take the Bridge's status
\* before bridge.wait() does.
ReapZombies ==
  /\ kha = "select" /\ "CHLD" \in pending
  /\ pending' = pending \ {"CHLD"}
  /\ proc' = [p \in Procs |-> IF p \in Zombies THEN "gone" ELSE proc[p]]
  /\ reaped' = reaped + Cardinality(Zombies)
  /\ UNCHANGED <<kha, restarts, bridge, forwarded, role, parent, metricVars>>

\* Mutants: try_wait, which returns at once; a wait that ends only with a
\* status of its own.
WaitBridgeTry ==
  /\ proc[bridge] # "unborn"
  /\ proc' = IF proc[bridge] = "zombie" THEN [proc EXCEPT ![bridge] = "gone"] ELSE proc
WaitBridgeStatus ==
  /\ proc[bridge] = "zombie"
  /\ proc' = [proc EXCEPT ![bridge] = "gone"]

\* bridge.wait() returns: a status if the Bridge is a zombie, a status it has
\* kept or ECHILD if it is gone.  The branch does not tell them apart.
WaitBridge ==
  /\ proc[bridge] \in {"zombie", "gone"}
  /\ proc' = [proc EXCEPT ![bridge] = "gone"]

\* Mutant: one restart too many.
BridgeExitedOneMore ==
  /\ kha = "select"
  /\ WaitBridge
  /\ IF restarts > MaxBridgeRestarts
       THEN kha' = "fatal" /\ UNCHANGED restarts
       ELSE kha' = "backoff" /\ restarts' = restarts + 1
  /\ UNCHANGED <<bridge, pending, countVars, role, parent, metricVars>>

BridgeExited ==
  /\ kha = "select"
  /\ WaitBridge
  /\ IF restarts >= MaxBridgeRestarts
       THEN kha' = "fatal" /\ UNCHANGED restarts
       ELSE kha' = "backoff" /\ restarts' = restarts + 1
  /\ UNCHANGED <<bridge, pending, countVars, role, parent, metricVars>>

\* Mutant: the signal streams are opened anew with each Bridge.
RespawnRearms(p) ==
  /\ kha = "backoff"
  /\ SpawnBridge(p)
  /\ kha' = "select"
  /\ pending' = {}
  /\ UNCHANGED <<restarts, countVars, metricVars>>

\* Mutant: a Bridge that was started again begins with no restarts.
RespawnResets(p) ==
  /\ kha = "backoff"
  /\ SpawnBridge(p)
  /\ kha' = "select" /\ restarts' = 0
  /\ UNCHANGED <<pending, countVars, metricVars>>

\* After the sleep, in which no other branch runs.
Respawn(p) ==
  /\ kha = "backoff"
  /\ SpawnBridge(p)
  /\ kha' = "select"
  /\ UNCHANGED <<restarts, pending, countVars, metricVars>>

\* The handle and bridge_pid of the dead Bridge stay.
RespawnFails ==
  /\ kha = "backoff"
  /\ kha' = "select"
  /\ UNCHANGED <<restarts, bridge, pending, countVars, procVars, metricVars>>

\* The SIGTERM and SIGINT branches: kill succeeds on a process that was not
\* waited for.
Forward(s) ==
  /\ kha = "select" /\ s \in pending
  /\ pending' = pending \ {s}
  /\ forwarded' = IF proc[bridge] = "gone" THEN forwarded ELSE forwarded + 1
  /\ kha' = "stopping"
  /\ UNCHANGED <<restarts, bridge, reaped, procVars, metricVars>>

\* Mutant: exit without the wait.
ShutDownAtOnce ==
  /\ kha = "stopping"
  /\ kha' = "down"
  /\ UNCHANGED <<restarts, bridge, pending, countVars, procVars, metricVars>>

\* The wait that follows; main returns.
ShutDown ==
  /\ kha = "stopping"
  /\ WaitBridge
  /\ kha' = "down"
  /\ UNCHANGED <<restarts, bridge, pending, countVars, role, parent, metricVars>>

-----------------------------------------------------------------------------
(* The processes and the kernel.                                           *)

Signal(s) ==
  /\ Armed
  /\ pending' = pending \cup {s}
  /\ UNCHANGED <<kha, restarts, bridge, countVars, procVars, metricVars>>

\* The Bridge starts a daemon.
StartDaemon(b, p) ==
  /\ Up /\ proc[b] = "running" /\ role[b] = "bridge"
  /\ Fork(p, "daemon", b)
  /\ UNCHANGED <<loopVars, countVars, metricVars>>

\* The children of p, zombies too, go to PID 1, which is told of its own.
Die(p) ==
  /\ Up /\ proc[p] = "running"
  /\ proc' = [proc EXCEPT ![p] = "zombie"]
  /\ parent' = [q \in Procs |-> IF parent[q] = p /\ proc[q] # "gone" THEN Pid1 ELSE parent[q]]
  /\ pending' = IF Armed /\ parent[p] = Pid1 THEN pending \cup {"CHLD"} ELSE pending
  /\ UNCHANGED <<kha, restarts, bridge, countVars, role, metricVars>>

\* The Bridge's runtime reaps a child it has dropped.
ReapedByBridge(p) ==
  /\ Up /\ proc[p] = "zombie" /\ parent[p] \in Procs
  /\ proc' = [proc EXCEPT ![p] = "gone"]
  /\ UNCHANGED <<loopVars, countVars, role, parent, metricVars>>

-----------------------------------------------------------------------------
(* metrics_emitter, and its reader in kha-watchd.                          *)

\* remove the stale path, bind; on an error the task returns.
BindMetrics ==
  /\ Up /\ emitter = "starting"
  /\ emitter' \in {"sending", "off"}
  /\ UNCHANGED <<loopVars, countVars, procVars, watching, inbox, heard>>

\* send_to(KHA_METRICS_SOCK), the path the socket itself is bound to.  A
\* datagram occupies the sender's buffer until someone receives it.
EmitMetrics ==
  /\ Up /\ emitter = "sending" /\ inbox["kha"] < SndBuf
  /\ inbox' = [inbox EXCEPT !["kha"] = @ + 1]
  /\ UNCHANGED <<loopVars, countVars, procVars, emitter, watching, heard>>

\* connect_kha_metrics, in a kha-watchd that was started.
ConnectMetrics ==
  /\ Up /\ emitter = "sending" /\ ~watching
  /\ \E p \in Procs : proc[p] = "running" /\ role[p] = "daemon"
  /\ watching' = TRUE
  /\ UNCHANGED <<loopVars, countVars, procVars, emitter, inbox, heard>>

\* read_kha_metrics: try_recv on its own socket.
ReadMetrics ==
  /\ Up /\ watching
  /\ heard' = (heard \/ inbox["watchd"] > 0)
  /\ inbox' = [inbox EXCEPT !["watchd"] = IF @ > 0 THEN @ - 1 ELSE 0]
  /\ UNCHANGED <<loopVars, countVars, procVars, emitter, watching>>

-----------------------------------------------------------------------------
Next ==
  \/ BootFails \/ Arm \/ ArmFails \/ ReapZombies \/ BridgeExited \/ RespawnFails \/ ShutDown
  \/ \E s \in StopSignals : Forward(s) \/ Signal(s)
  \/ \E p \in Procs : Boot(p) \/ Respawn(p) \/ Die(p) \/ ReapedByBridge(p)
  \/ \E b, p \in Procs : StartDaemon(b, p)
  \/ BindMetrics \/ EmitMetrics \/ ConnectMetrics \/ ReadMetrics

Spec == Init /\ [][Next]_vars

\* Fairness.  select! picks at random among the branches that are ready, so
\* each has strong fairness; a sleep ends; the kernel finds a free pid or the
\* spawn fails.  A Bridge that was sent SIGTERM or SIGINT dies of it: it
\* installs no handler.  The two metrics tasks tick.
LoopFairness ==
  /\ WF_vars(Arm \/ ArmFails)
  /\ SF_vars(ReapZombies) /\ SF_vars(BridgeExited)
  /\ \A s \in StopSignals : SF_vars(Forward(s))
  /\ WF_vars(RespawnFails \/ \E p \in Procs : Respawn(p))
  /\ WF_vars(ShutDown)
  /\ \A p \in Procs : WF_vars(kha = "stopping" /\ p = bridge /\ Die(p))

FairSpec == Spec /\ LoopFairness /\ WF_vars(EmitMetrics) /\ WF_vars(ReadMetrics)

-----------------------------------------------------------------------------
(* Properties.                                                             *)

\* Never two Bridges: a new one is spawned only when the last one is dead,
\* whoever took its exit status, so two never compete for the socket.
OneBridge == \A p \in Procs : role[p] = "bridge" /\ proc[p] = "running" => p = bridge

\* Once its signal streams exist Kha does not exit over a running Bridge,
\* whichever signal or exit it was that raced into the last turn of the loop;
\* nor does it when a spawn fails.  Only an error of signal(..) at the start
\* leaves the Bridge running behind it.
NoBridgeLeft ==
  ~Up => kha = "unarmed" \/ \A p \in Procs : role[p] = "bridge" => proc[p] # "running"

\* A life of Kha starts at most MAX_BRIDGE_RESTARTS + 1 Bridges, however long
\* each of them ran, and a failed respawn uses up one of them too.
Bridges == {p \in Procs : role[p] = "bridge"}
BridgesBounded == Cardinality(Bridges) <= MaxBridgeRestarts + 1

\* zombies_reaped counts each orphan once; the Bridge's own deaths may or may
\* not be in it, as either branch may have waited for them.
GoneOf(S) == {p \in Procs : proc[p] = "gone" /\ parent[p] = Pid1 /\ role[p] \in S}
OrphansCounted ==
  reaped \in Cardinality(GoneOf({"daemon"}))..Cardinality(GoneOf({"daemon", "bridge"}))

\* The zombies a pending SIGCHLD is about are all reaped, although several
\* deaths are one SIGCHLD and no branch but the chosen one runs.
ZombiesReaped ==
  \A p \in Procs : (p \in Zombies /\ "CHLD" \in pending) ~> (proc[p] = "gone" \/ ~Up \/ kha = "stopping")

\* SIGTERM or SIGINT ends Kha, also one that came during a backoff.
ShutdownHonoured == \A s \in StopSignals : s \in pending ~> ~Up

\* A dead Bridge is replaced, or the ceiling makes it fatal.
BridgeAlive == \E p \in Procs : p = bridge /\ proc[p] = "running"
BridgeRevived == (kha = "select" /\ ~BridgeAlive) ~> (~Up \/ BridgeAlive)

\* "any listener on the socket receives it" (kha/src/main.rs:234): what Kha
\* emits reaches the kha-watchd that is connected to the socket.
MetricsHeard == (emitter = "sending" /\ watching) ~> (heard \/ ~Up)
=============================================================================
