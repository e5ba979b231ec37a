----------------------------- MODULE KhaProofs -----------------------------
(***************************************************************************)
(* Proofs about Kha, for any number of processes and any ceiling.          *)
(***************************************************************************)
EXTENDS Kha, FiniteSetTheorems, TLAPS

\* Why the Bridge is alone: outside the loop there is none, inside it is the
\* one on the handle, and the branches that leave the loop or spawn come after
\* its exit status was taken.
Handle ==
  /\ kha = "boot" => \A p \in Procs : role[p] # "bridge"
  /\ kha \in {"arming", "select", "backoff", "stopping", "down"} => bridge \in Procs
  /\ kha \in {"backoff", "down"} => proc[bridge] = "gone"
  /\ kha = "fatal" => \A p \in Procs : role[p] = "bridge" => proc[p] # "running"

Inv == TypeOK /\ Handle /\ OneBridge

-----------------------------------------------------------------------------
\* Every step keeps the types.
LEMMA TypeStep == Inv /\ [Next]_vars => TypeOK'
<1> SUFFICES ASSUME Inv, [Next]_vars PROVE TypeOK'
  OBVIOUS
<1> USE KhaAssumption DEF Inv, TypeOK, StopSignals, loopVars, countVars, procVars, metricVars
<1>1. ASSUME NEW p \in Procs, Boot(p) \/ Respawn(p) PROVE TypeOK'
  BY <1>1 DEF Boot, Respawn, SpawnBridge, Fork
<1>2. CASE BootFails \/ Arm \/ ArmFails \/ RespawnFails
  BY <1>2 DEF BootFails, Arm, ArmFails, RespawnFails
<1>3. CASE ReapZombies
  <2>1. Cardinality(Zombies) \in Nat
    BY FS_Subset, FS_CardinalityType, Zombies \subseteq Procs DEF Zombies
  <2>2. proc' \in [Procs -> {"unborn", "running", "zombie", "gone"}] /\ reaped' \in Nat
    BY <1>3, <2>1 DEF ReapZombies
  <2>3. pending' \in SUBSET ({"CHLD"} \cup StopSignals)
    BY <1>3 DEF ReapZombies
  <2>4. QED
    BY <1>3, <2>2, <2>3 DEF ReapZombies
<1>4. CASE BridgeExited
  <2>1. restarts' \in 0..MaxBridgeRestarts /\ kha' \in {"fatal", "backoff"}
    BY <1>4 DEF BridgeExited
  <2>2. proc' \in [Procs -> {"unborn", "running", "zombie", "gone"}]
    BY <1>4 DEF BridgeExited, WaitBridge
  <2>3. QED
    BY <1>4, <2>1, <2>2 DEF BridgeExited
<1>5. ASSUME NEW s \in StopSignals, Forward(s) \/ Signal(s) PROVE TypeOK'
  <2>1. pending' \in SUBSET ({"CHLD"} \cup StopSignals)
    BY <1>5 DEF Forward, Signal
  <2>2. forwarded' \in Nat /\ kha' \in {kha, "stopping"}
    BY <1>5 DEF Forward, Signal
  <2>3. QED
    BY <1>5, <2>1, <2>2 DEF Forward, Signal
<1>6. CASE ShutDown
  BY <1>6 DEF ShutDown, WaitBridge
<1>7. ASSUME NEW p \in Procs, Die(p) \/ ReapedByBridge(p) PROVE TypeOK'
  BY <1>7 DEF Die, ReapedByBridge
<1>8. ASSUME NEW b \in Procs, NEW p \in Procs, StartDaemon(b, p) PROVE TypeOK'
  BY <1>8 DEF StartDaemon, Fork
<1>9. CASE BindMetrics \/ ConnectMetrics
  BY <1>9 DEF BindMetrics, ConnectMetrics
<1>10. CASE EmitMetrics
  BY <1>10 DEF EmitMetrics
<1>11. CASE ReadMetrics
  BY <1>11 DEF ReadMetrics
<1>12. CASE UNCHANGED vars
  BY <1>12 DEF vars
<1>13. QED
  BY <1>1, <1>2, <1>3, <1>4, <1>5, <1>6, <1>7, <1>8, <1>9, <1>10, <1>11, <1>12 DEF Next

\* Every step keeps the handle on the only Bridge.
LEMMA HandleStep == Inv /\ [Next]_vars => Handle' /\ OneBridge'
<1> SUFFICES ASSUME Inv, [Next]_vars PROVE Handle' /\ OneBridge'
  OBVIOUS
<1> USE KhaAssumption DEF Inv, TypeOK, Handle, OneBridge, loopVars, countVars, procVars, metricVars
<1>1. ASSUME NEW p \in Procs, Boot(p) PROVE Handle' /\ OneBridge'
  BY <1>1 DEF Boot, SpawnBridge, Fork
<1>2. ASSUME NEW p \in Procs, Respawn(p) PROVE Handle' /\ OneBridge'
  BY <1>2 DEF Respawn, SpawnBridge, Fork
<1>3. CASE BootFails \/ Arm \/ ArmFails \/ RespawnFails
  BY <1>3 DEF BootFails, Arm, ArmFails, RespawnFails
<1>4. CASE ReapZombies
  BY <1>4 DEF ReapZombies, Zombies
<1>5. CASE BridgeExited
  BY <1>5 DEF BridgeExited, WaitBridge
<1>6. ASSUME NEW s \in StopSignals, Forward(s) \/ Signal(s) PROVE Handle' /\ OneBridge'
  BY <1>6 DEF Forward, Signal
<1>7. CASE ShutDown
  BY <1>7 DEF ShutDown, WaitBridge
<1>8. ASSUME NEW p \in Procs, Die(p) \/ ReapedByBridge(p) PROVE Handle' /\ OneBridge'
  BY <1>8 DEF Die, ReapedByBridge, Up
<1>9. ASSUME NEW b \in Procs, NEW p \in Procs, StartDaemon(b, p) PROVE Handle' /\ OneBridge'
  BY <1>9 DEF StartDaemon, Fork, Up
<1>10. CASE BindMetrics \/ EmitMetrics \/ ConnectMetrics \/ ReadMetrics
  BY <1>10 DEF BindMetrics, EmitMetrics, ConnectMetrics, ReadMetrics
<1>11. CASE UNCHANGED vars
  BY <1>11 DEF vars
<1>12. QED
  BY <1>1, <1>2, <1>3, <1>4, <1>5, <1>6, <1>7, <1>8, <1>9, <1>10, <1>11 DEF Next

LEMMA InitInv == Init => Inv
<1> SUFFICES ASSUME Init PROVE Inv
  OBVIOUS
<1>1. TypeOK
  <2>1. inbox \in [{"kha", "watchd"} -> 0..SndBuf] /\ restarts \in 0..MaxBridgeRestarts
    BY KhaAssumption DEF Init
  <2>2. proc \in [Procs -> {"unborn", "running", "zombie", "gone"}]
    BY DEF Init
  <2>3. role \in [Procs -> {"none", "bridge", "daemon"}] /\ parent \in [Procs -> Procs \cup {None, Pid1}]
    BY DEF Init
  <2>4. QED
    BY <2>1, <2>2, <2>3 DEF Init, TypeOK
<1>2. Handle /\ OneBridge
  BY DEF Init, Handle, OneBridge
<1>3. QED
  BY <1>1, <1>2 DEF Inv

LEMMA InvStep == Inv /\ [Next]_vars => Inv'
BY TypeStep, HandleStep DEF Inv

LEMMA Invariance == Spec => []Inv
BY InitInv, InvStep, PTL DEF Spec

-----------------------------------------------------------------------------
(* The count of zombies.                                                   *)

\* Every process runs something, and the one on the handle is a Bridge.
Roles ==
  /\ \A p \in Procs : proc[p] # "unborn" => role[p] \in {"bridge", "daemon"}
  /\ bridge \in Procs => role[bridge] = "bridge" /\ proc[bridge] # "unborn"

LEMMA RolesStep == Inv /\ Roles /\ [Next]_vars => Roles'
<1> SUFFICES ASSUME Inv, Roles, [Next]_vars PROVE Roles'
  OBVIOUS
<1> USE KhaAssumption DEF Inv, TypeOK, Handle, Roles, loopVars, countVars, procVars, metricVars
<1>1. ASSUME NEW p \in Procs, Boot(p) \/ Respawn(p) PROVE Roles'
  BY <1>1 DEF Boot, Respawn, SpawnBridge, Fork
<1>2. CASE BootFails \/ Arm \/ ArmFails \/ RespawnFails
  BY <1>2 DEF BootFails, Arm, ArmFails, RespawnFails
<1>3. CASE ReapZombies
  BY <1>3 DEF ReapZombies, Zombies
<1>4. CASE BridgeExited \/ ShutDown
  BY <1>4 DEF BridgeExited, ShutDown, WaitBridge
<1>5. ASSUME NEW s \in StopSignals, Forward(s) \/ Signal(s) PROVE Roles'
  BY <1>5 DEF Forward, Signal
<1>6. ASSUME NEW p \in Procs, Die(p) \/ ReapedByBridge(p) PROVE Roles'
  BY <1>6 DEF Die, ReapedByBridge
<1>7. ASSUME NEW b \in Procs, NEW p \in Procs, StartDaemon(b, p) PROVE Roles'
  BY <1>7 DEF StartDaemon, Fork
<1>8. CASE BindMetrics \/ EmitMetrics \/ ConnectMetrics \/ ReadMetrics
  BY <1>8 DEF BindMetrics, EmitMetrics, ConnectMetrics, ReadMetrics
<1>9. CASE UNCHANGED vars
  BY <1>9 DEF vars
<1>10. QED
  BY <1>1, <1>2, <1>3, <1>4, <1>5, <1>6, <1>7, <1>8, <1>9 DEF Next

\* Sets of processes have sizes.
LEMMA Sizes ==
  ASSUME NEW S \in SUBSET Procs PROVE IsFiniteSet(S) /\ Cardinality(S) \in Nat
BY KhaAssumption, FS_Subset, FS_CardinalityType

LEMMA SizeGrows ==
  ASSUME NEW S \in SUBSET Procs, NEW T \in SUBSET S PROVE Cardinality(T) <= Cardinality(S)
BY Sizes, FS_Subset

\* A step that waits for nobody that was PID 1's changes no count.
LEMMA CountSame ==
  ASSUME OrphansCounted, reaped' = reaped,
         \A p \in Procs : (proc'[p] = "gone" /\ parent'[p] = Pid1) <=> (proc[p] = "gone" /\ parent[p] = Pid1),
         \A p \in Procs : proc[p] = "gone" => role'[p] = role[p]
  PROVE  OrphansCounted'
<1>1. ASSUME NEW S PROVE GoneOf(S)' = GoneOf(S)
  BY DEF GoneOf
<1>2. QED
  BY <1>1 DEF OrphansCounted

\* One wait for the Bridge makes the upper bound larger, if anything.
LEMMA WaitCounted ==
  ASSUME Inv, Roles, OrphansCounted, bridge \in Procs, WaitBridge, UNCHANGED <<reaped, role, parent>>
  PROVE  OrphansCounted'
<1> DEFINE low == GoneOf({"daemon"})
           high == GoneOf({"daemon", "bridge"})
<1>1. low' = low /\ high \subseteq high' /\ high' \subseteq Procs
  BY DEF GoneOf, WaitBridge, Roles, Inv, TypeOK
<1>2. Cardinality(high) <= Cardinality(high')
  BY <1>1, SizeGrows
<1>3. Cardinality(low) \in Nat /\ Cardinality(high) \in Nat /\ Cardinality(high') \in Nat
  BY <1>1, Sizes DEF GoneOf
<1>4. reaped \in Cardinality(low)..Cardinality(high)
  BY DEF OrphansCounted
<1>5. Cardinality(low') = Cardinality(low) /\ reaped' = reaped /\ reaped \in Nat
  BY <1>1 DEF Inv, TypeOK
<1> HIDE DEF low, high
<1>6. reaped' \in Cardinality(low')..Cardinality(high')
  BY <1>2, <1>3, <1>4, <1>5
<1>7. QED
  BY <1>6 DEF low, high, OrphansCounted

\* reap_zombies counts as many as it takes, of which only daemons are due.
LEMMA ReapCounted ==
  ASSUME Inv, Roles, OrphansCounted, ReapZombies
  PROVE  OrphansCounted'
<1> DEFINE low == GoneOf({"daemon"})
           high == GoneOf({"daemon", "bridge"})
           taken == Zombies
           due == {p \in Zombies : role[p] = "daemon"}
<1>1. /\ low \in SUBSET Procs /\ high \in SUBSET Procs /\ taken \in SUBSET Procs /\ due \in SUBSET Procs
      /\ due \in SUBSET taken
  BY DEF GoneOf, Zombies
<1>2. low' = low \cup due /\ high' = high \cup taken
  BY DEF ReapZombies, GoneOf, Zombies, Roles, Inv, TypeOK
<1>3. low \cap due = {} /\ high \cap taken = {}
  BY DEF GoneOf, Zombies
<1>4. reaped' = reaped + Cardinality(taken) /\ reaped \in Cardinality(low)..Cardinality(high)
  BY DEF ReapZombies, OrphansCounted
<1> HIDE DEF low, high, taken, due
<1>5. /\ Cardinality(low \cup due) = Cardinality(low) + Cardinality(due) - Cardinality(low \cap due)
      /\ Cardinality(high \cup taken) = Cardinality(high) + Cardinality(taken) - Cardinality(high \cap taken)
  BY <1>1, Sizes, FS_Union
<1>6. Cardinality(low \cap due) = 0 /\ Cardinality(high \cap taken) = 0
  BY <1>3, FS_EmptySet
<1>7. Cardinality(due) <= Cardinality(taken)
  BY <1>1, SizeGrows
<1>8. /\ Cardinality(low) \in Nat /\ Cardinality(high) \in Nat
      /\ Cardinality(due) \in Nat /\ Cardinality(taken) \in Nat
  BY <1>1, Sizes
<1>9. reaped' \in Cardinality(low \cup due)..Cardinality(high \cup taken)
  BY <1>4, <1>5, <1>6, <1>7, <1>8
<1>10. reaped' \in Cardinality(low')..Cardinality(high')
  BY <1>2, <1>9
<1>11. QED
  BY <1>10 DEF low, high, OrphansCounted

LEMMA CountStep == Inv /\ Roles /\ OrphansCounted /\ [Next]_vars => OrphansCounted'
<1> SUFFICES ASSUME Inv, Roles, OrphansCounted, [Next]_vars PROVE OrphansCounted'
  OBVIOUS
<1> USE DEF loopVars, countVars, procVars, metricVars
<1>1. ASSUME NEW p \in Procs, NEW r, NEW pp, Fork(p, r, pp), reaped' = reaped PROVE OrphansCounted'
  <2>1. proc[p] = "unborn" /\ proc'[p] = "running"
    BY <1>1 DEF Fork, Inv, TypeOK
  <2>2. \A q \in Procs \ {p} : proc'[q] = proc[q] /\ role'[q] = role[q] /\ parent'[q] = parent[q]
    BY <1>1 DEF Fork, Inv, TypeOK
  <2>3. QED
    BY <1>1, <2>1, <2>2, CountSame
<1>2. ASSUME NEW p \in Procs, Boot(p) \/ Respawn(p) PROVE OrphansCounted'
  BY <1>1, <1>2 DEF Boot, Respawn, SpawnBridge
<1>3. ASSUME NEW b \in Procs, NEW p \in Procs, StartDaemon(b, p) PROVE OrphansCounted'
  BY <1>1, <1>3 DEF StartDaemon
<1>4. CASE UNCHANGED <<reaped, procVars>>
  BY <1>4, CountSame
<1>5. CASE ReapZombies
  BY <1>5, ReapCounted
<1>6. CASE BridgeExited \/ ShutDown
  BY <1>6, WaitCounted DEF BridgeExited, ShutDown, Inv, Handle
<1>7. ASSUME NEW p \in Procs, Die(p) PROVE OrphansCounted'
  <2>1. proc[p] = "running" /\ proc'[p] = "zombie" /\ reaped' = reaped /\ role' = role
    BY <1>7 DEF Die, Inv, TypeOK
  <2>2. \A q \in Procs \ {p} : proc'[q] = proc[q] /\ (proc[q] = "gone" => parent'[q] = parent[q])
    BY <1>7 DEF Die, Inv, TypeOK
  <2>3. QED
    BY <2>1, <2>2, CountSame
<1>8. ASSUME NEW p \in Procs, ReapedByBridge(p) PROVE OrphansCounted'
  <2>1. parent[p] # Pid1 /\ UNCHANGED <<reaped, role, parent>> /\ proc[p] = "zombie"
    BY <1>8, KhaAssumption DEF ReapedByBridge
  <2>2. \A q \in Procs \ {p} : proc'[q] = proc[q]
    BY <1>8 DEF ReapedByBridge, Inv, TypeOK
  <2>3. QED
    BY <2>1, <2>2, CountSame
<1>9. \/ UNCHANGED <<reaped, procVars>> \/ ReapZombies \/ BridgeExited \/ ShutDown
      \/ \E p \in Procs : Boot(p) \/ Respawn(p) \/ Die(p) \/ ReapedByBridge(p)
      \/ \E b, p \in Procs : StartDaemon(b, p)
  BY DEF Next, vars, BootFails, Arm, ArmFails, RespawnFails, Forward, Signal, BindMetrics, EmitMetrics, ConnectMetrics, ReadMetrics
<1>10. QED
  BY <1>2, <1>3, <1>4, <1>5, <1>6, <1>7, <1>8, <1>9

LEMMA CountInit == Init => Roles /\ OrphansCounted
<1> SUFFICES ASSUME Init PROVE Roles /\ OrphansCounted
  OBVIOUS
<1>1. Roles
  BY KhaAssumption DEF Init, Roles
<1>2. \A S : GoneOf(S) = {}
  BY DEF Init, GoneOf
<1>3. GoneOf({"daemon"}) = {} /\ GoneOf({"daemon", "bridge"}) = {} /\ reaped = 0
  BY <1>2 DEF Init
<1>4. QED
  BY <1>1, <1>3, FS_EmptySet DEF OrphansCounted

-----------------------------------------------------------------------------
(* The number of Bridges.                                                  *)

\* Each restart is counted before the Bridge that it is for: in the backoff
\* there is one Bridge less than the counter allows.
Spawned ==
  /\ Cardinality(Bridges) <= restarts + 1
  /\ kha = "backoff" => Cardinality(Bridges) <= restarts

\* A fork adds at most its own process to the Bridges.
LEMMA ForkBridges ==
  ASSUME Inv, NEW p \in Procs, NEW r, NEW pp, Fork(p, r, pp)
  PROVE  Cardinality(Bridges') <= Cardinality(Bridges) + (IF r = "bridge" THEN 1 ELSE 0)
<1>1. Bridges \in SUBSET Procs /\ Bridges' \in SUBSET Procs
  BY DEF Bridges
<1>2. CASE r = "bridge"
  <2>1. Bridges' = Bridges \cup {p}
    BY <1>2 DEF Bridges, Fork, Inv, TypeOK
  <2>2. Cardinality(Bridges \cup {p}) \in {Cardinality(Bridges), Cardinality(Bridges) + 1}
    BY <1>1, Sizes, FS_AddElement
  <2>3. Cardinality(Bridges) \in Nat
    BY <1>1, Sizes
  <2>4. QED
    BY <1>2, <2>1, <2>2, <2>3
<1>3. CASE r # "bridge"
  <2>1. Bridges' \in SUBSET Bridges
    BY <1>3 DEF Bridges, Fork, Inv, TypeOK
  <2>2. Cardinality(Bridges') <= Cardinality(Bridges) /\ Cardinality(Bridges) \in Nat
    BY <1>1, <2>1, Sizes, SizeGrows
  <2>3. QED
    BY <1>3, <2>2
<1>4. QED
  BY <1>2, <1>3

LEMMA SpawnedStep == Inv /\ Spawned /\ [Next]_vars => Spawned'
<1> SUFFICES ASSUME Inv, Spawned, [Next]_vars PROVE Spawned'
  OBVIOUS
<1> USE DEF loopVars, countVars, procVars, metricVars
<1>1. restarts \in Nat /\ Cardinality(Bridges) \in Nat /\ Cardinality(Bridges') \in Nat
  BY KhaAssumption, Sizes DEF Inv, TypeOK, Bridges
<1>2. ASSUME NEW p \in Procs, Boot(p) PROVE Spawned'
  <2>1. Bridges = {} /\ Cardinality(Bridges) = 0
    BY <1>2, FS_EmptySet DEF Boot, Inv, Handle, Bridges
  <2>2. Cardinality(Bridges') <= Cardinality(Bridges) + 1 /\ UNCHANGED restarts /\ kha' = "arming"
    BY <1>2, ForkBridges DEF Boot, SpawnBridge
  <2>3. QED
    BY <1>1, <2>1, <2>2 DEF Spawned
<1>3. ASSUME NEW p \in Procs, Respawn(p) PROVE Spawned'
  <2>1. Cardinality(Bridges') <= Cardinality(Bridges) + 1 /\ UNCHANGED restarts
    BY <1>3, ForkBridges DEF Respawn, SpawnBridge
  <2>2. kha = "backoff" /\ kha' = "select"
    BY <1>3 DEF Respawn
  <2>3. QED
    BY <1>1, <2>1, <2>2 DEF Spawned
<1>4. ASSUME NEW b \in Procs, NEW p \in Procs, StartDaemon(b, p) PROVE Spawned'
  <2>1. Cardinality(Bridges') <= Cardinality(Bridges) /\ UNCHANGED <<restarts, kha>>
    BY <1>1, <1>4, ForkBridges DEF StartDaemon
  <2>2. QED
    BY <1>1, <2>1 DEF Spawned
<1>5. ASSUME UNCHANGED role PROVE Bridges' = Bridges
  BY <1>5 DEF Bridges
<1>6. CASE BridgeExited
  <2>1. UNCHANGED role /\ ((kha' = "fatal" /\ UNCHANGED restarts) \/ restarts' = restarts + 1)
    BY <1>6 DEF BridgeExited
  <2>2. QED
    BY <1>1, <1>5, <2>1 DEF Spawned
<1>7. ASSUME UNCHANGED <<role, restarts>>, kha' = "backoff" => kha = "backoff"
      PROVE  Spawned'
  BY <1>5, <1>7 DEF Spawned
<1>8. \/ UNCHANGED <<role, restarts>> /\ (kha' = "backoff" => kha = "backoff")
      \/ BridgeExited
      \/ \E p \in Procs : Boot(p) \/ Respawn(p)
      \/ \E b, p \in Procs : StartDaemon(b, p)
  BY DEF Next, vars, BootFails, Arm, ArmFails, ReapZombies, RespawnFails, ShutDown, Forward, Signal, Die, ReapedByBridge,
         BindMetrics, EmitMetrics, ConnectMetrics, ReadMetrics
<1>9. QED
  BY <1>2, <1>3, <1>4, <1>6, <1>7, <1>8

\* Every variable of Kha keeps its type; restart_count its ceiling.
THEOREM TypeCorrect == Spec => []TypeOK
<1>1. Inv => TypeOK
  BY DEF Inv
<1>2. QED
  BY <1>1, Invariance, PTL

\* Two Bridges never run at once, though reap_zombies (main.rs:188) may take
\* the exit status bridge.wait() waits for.
THEOREM OneBridgeHolds == Spec => []OneBridge
<1>1. Inv => OneBridge
  BY DEF Inv
<1>2. QED
  BY <1>1, Invariance, PTL

\* Kha never exits over a running Bridge once its signal streams exist, nor after
\* a spawn that fails (main.rs:276-326); the errors of main.rs:265-267 are the one
\* way to leave a Bridge behind.
THEOREM NoBridgeLeftHolds == Spec => []NoBridgeLeft
<1>1. Inv => NoBridgeLeft
  BY DEF Inv, TypeOK, Handle, OneBridge, NoBridgeLeft, Up
<1>2. QED
  BY <1>1, Invariance, PTL

\* zombies_reaped never misses an orphan nor counts one twice, for any number of
\* processes and of deaths behind one SIGCHLD, and whichever of reap_zombies and
\* bridge.wait() took the status of a Bridge.
THEOREM OrphansCountedHolds == Spec => []OrphansCounted
<1>1. Init => Inv /\ Roles /\ OrphansCounted
  BY InitInv, CountInit
<1>2. (Inv /\ Roles /\ OrphansCounted) /\ [Next]_vars => (Inv /\ Roles /\ OrphansCounted)'
  BY InvStep, RolesStep, CountStep
<1>3. QED
  BY <1>1, <1>2, PTL DEF Spec

\* A life of Kha never starts more than MAX_BRIDGE_RESTARTS + 1 Bridges, for any
\* ceiling and number of processes, in whatever order they end and fail to start.
THEOREM BridgesBoundedHolds == Spec => []BridgesBounded
<1>1. Init => Inv /\ Spawned
  <2>1. Init => Inv /\ Bridges = {} /\ restarts = 0 /\ kha = "boot"
    BY InitInv DEF Init, Bridges
  <2>2. QED
    BY <2>1, FS_EmptySet DEF Spawned
<1>2. (Inv /\ Spawned) /\ [Next]_vars => (Inv /\ Spawned)'
  BY InvStep, SpawnedStep
<1>3. Inv /\ Spawned => BridgesBounded
  <2>1. Inv => restarts <= MaxBridgeRestarts /\ restarts \in Nat /\ Cardinality(Bridges) \in Nat
    BY KhaAssumption, Sizes DEF Inv, TypeOK, Bridges
  <2>2. QED
    BY <2>1, KhaAssumption DEF Spawned, BridgesBounded
<1>4. QED
  BY <1>1, <1>2, <1>3, PTL DEF Spec

\* Every frame that Kha emits goes to its own socket (main.rs:235): no kha-watchd
\* ever receives one, in no life of Kha and however long it is connected.
THEOREM MetricsNeverHeard == Spec => []~heard
<1> DEFINE Deaf == ~heard /\ inbox["watchd"] = 0
<1>1. Init => Deaf
  BY DEF Init
<1>2. Inv /\ Deaf /\ [Next]_vars => Deaf'
  <2> SUFFICES ASSUME Inv, Deaf, [Next]_vars PROVE Deaf'
    OBVIOUS
  <2> USE DEF metricVars
  <2>1. CASE EmitMetrics
    BY <2>1 DEF EmitMetrics, Inv, TypeOK
  <2>2. CASE ReadMetrics
    BY <2>2 DEF ReadMetrics, Inv, TypeOK
  <2>3. UNCHANGED <<inbox, heard>> \/ EmitMetrics \/ ReadMetrics
    BY DEF Next, vars, Boot, BootFails, Arm, ArmFails, ReapZombies, BridgeExited, Respawn, RespawnFails, ShutDown, Forward,
           Signal, StartDaemon, Die, ReapedByBridge, BindMetrics, ConnectMetrics
  <2>4. QED
    BY <2>1, <2>2, <2>3
<1>3. Deaf => ~heard
  OBVIOUS
<1>4. QED
  BY <1>1, <1>2, <1>3, Invariance, PTL DEF Spec
=============================================================================
