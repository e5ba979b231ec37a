---------------------------- MODULE BridgeProofs ----------------------------
(***************************************************************************)
(* Proofs about the Bridge, for every registry, every number of processes  *)
(* and every ceiling.  The inductive invariant Inv says what the           *)
(* orchestrator may still rely on when it acts on a batch read in an       *)
(* earlier critical section.                                               *)
(***************************************************************************)
EXTENDS Bridge, TLAPS

\* The launch under way: cur and newProc are set exactly in its stages.
LaunchControl ==
  /\ stage = "pick" <=> cur = None
  /\ stage = "record" => newProc \in Procs /\ owner[newProc] = cur
  /\ stage = "backoff" => phase = "restart"
  /\ cur \notin batch

\* Only a spawned process has a name, a connection or a timer.
Spawned ==
  \A p \in Procs :
    /\ proc[p] = "unborn" <=> owner[p] = None
    /\ timer[p] \/ handler[p] # "none" => owner[p] \in Daemons
    /\ proc[p] = "booting" => handler[p] = "none"

\* What remains true of a batch until its last member is treated.
BatchFresh ==
  \A d \in batch :
    /\ restartCount[d] < MaxDaemonRestarts
    /\ phase = "spawn" => /\ status[d] = "Pending" \/ d \in survivors
                          /\ DependsOn[d] \subseteq registered
                          /\ attempts[d] = 0
    /\ phase = "restart" => status[d] # "Pending"

\* Every launch is paid for by restart_count before it happens.
Accounting ==
  \A d \in Daemons :
    /\ restartCount[d] <= MaxDaemonRestarts
    /\ attempts[d] <= restartCount[d] + 1
    /\ cur = d /\ stage \in {"backoff", "exec"} => attempts[d] <= restartCount[d]

\* A Pending daemon has no past but a process of the last Bridge; any other had
\* its dependencies, or joined by itself; a verified connection belongs to a
\* daemon that has registered.
Boot ==
  /\ \A p \in Procs : handler[p] \in {"verified", "forwarding", "writing"} => owner[p] \in registered
  /\ \A d \in Daemons :
       /\ status[d] = "Running" => d \in registered
       /\ status[d] # "Pending" => DependsOn[d] \subseteq registered \/ d \in survivors \cap registered
       /\ status[d] = "Pending" =>
            /\ attempts[d] = 0 /\ restartCount[d] = 0 /\ cur # d
            /\ \A p \in Procs : owner[p] = d =>
                 d \in survivors /\ handler[p] \in {"none", "open", "closed"} /\ ~timer[p]

Inv == TypeOK /\ LaunchControl /\ Spawned /\ BatchFresh /\ Accounting /\ Boot /\ TransientOwned

-----------------------------------------------------------------------------
(* The steps, one conjunct of Inv at a time.                               *)

\* The timers, the handlers and the processes leave the orchestrator's
\* variables alone, and only the orchestrator names a process.
LEMMA OutsideOrchestrator ==
  ASSUME NEW p \in Procs, RegistrationTimeout(p) \/ Handler(p) \/ Process(p)
  PROVE  UNCHANGED <<phase, stage, batch, cur, newProc, owner>>
  BY DEF orchVars, procVars, RegistrationTimeout, Handler, Process, AcceptRegister, RejectRegister, StoreLogdWriter, ReadStatusUpdate, ReadAlert, ReadShutdown, Forward, ForwardBlocks, ForwardResumes, ForwardFails, CloseUnverified, CloseVerified,
         Connect, Report, Stop, Crash

\* Every step keeps the types.
LEMMA TypeStep == Inv /\ [Next]_vars => TypeOK'
<1> SUFFICES ASSUME Inv, [Next]_vars PROVE TypeOK'
  OBVIOUS
<1> USE BridgeAssumption DEF stateVars, orchVars, procVars, historyVars, Inv, LaunchControl, Spawned, BatchDone, MarkRunning, MarkFailed, Consume, Goto,
           Send, Received, TypeOK, Statuses, Messages, ReadyToSpawn, ReadyToRestart
<1>1. CASE ScanPending
  BY <1>1 DEF ScanPending
<1>2. CASE ScanFailed
  BY <1>2 DEF ScanFailed
<1>3. ASSUME NEW d \in Daemons, LaunchPending(d) PROVE TypeOK'
  BY <1>3 DEF LaunchPending, SetStarting
<1>4. ASSUME NEW d \in Daemons, MarkRestarting(d) PROVE TypeOK'
  BY <1>4 DEF MarkRestarting
<1>5. CASE BackoffElapsed
  BY <1>5 DEF BackoffElapsed, SetStarting
<1>6. ASSUME NEW p \in Procs, SpawnOk(p) PROVE TypeOK'
  BY <1>6 DEF SpawnOk
<1>7. CASE SpawnError
  BY <1>7 DEF SpawnError
<1>8. CASE RecordChild
  BY <1>8 DEF RecordChild
<1>9. CASE RecordFailure
  BY <1>9 DEF RecordFailure
<1>10. ASSUME NEW p \in Procs, RegistrationTimeout(p) PROVE TypeOK'
  <2> owner[p] \in Daemons
    BY <1>10 DEF RegistrationTimeout
  <2>1. CASE status[owner[p]] = "Starting"
    <3>1. /\ status' = [status EXCEPT ![owner[p]] = "Failed"]
          /\ children' = [children EXCEPT ![owner[p]] = None]
      BY <1>10, <2>1 DEF RegistrationTimeout
    <3>2. timer' \in [Procs -> BOOLEAN]
      BY <1>10 DEF RegistrationTimeout
    <3>3. QED
      BY <1>10, <3>1, <3>2 DEF RegistrationTimeout
  <2>2. CASE status[owner[p]] # "Starting"
    BY <1>10, <2>2 DEF RegistrationTimeout
  <2>3. QED
    BY <2>1, <2>2
<1>11. ASSUME NEW p \in Procs, AcceptRegister(p) PROVE TypeOK'
  BY <1>11 DEF AcceptRegister
<1>12. ASSUME NEW p \in Procs, RejectRegister(p) PROVE TypeOK'
  BY <1>12 DEF RejectRegister
<1>13. ASSUME NEW p \in Procs, StoreLogdWriter(p) PROVE TypeOK'
  BY <1>13 DEF StoreLogdWriter
<1>14. ASSUME NEW p \in Procs, ReadStatusUpdate(p) PROVE TypeOK'
  BY <1>14 DEF ReadStatusUpdate
<1>15. ASSUME NEW p \in Procs, ReadAlert(p) PROVE TypeOK'
  BY <1>15 DEF ReadAlert
<1>16. ASSUME NEW p \in Procs, ReadShutdown(p) PROVE TypeOK'
  BY <1>16 DEF ReadShutdown
<1>17. ASSUME NEW p \in Procs, Forward(p) PROVE TypeOK'
  BY <1>17 DEF Forward
<1>18. ASSUME NEW p \in Procs, ForwardBlocks(p) PROVE TypeOK'
  BY <1>18 DEF ForwardBlocks
<1>19. ASSUME NEW p \in Procs, ForwardResumes(p) PROVE TypeOK'
  BY <1>19 DEF ForwardResumes
<1>20. ASSUME NEW p \in Procs, ForwardFails(p) PROVE TypeOK'
  BY <1>20 DEF ForwardFails
<1>21. ASSUME NEW p \in Procs, CloseUnverified(p) PROVE TypeOK'
  BY <1>21 DEF CloseUnverified
<1>22. ASSUME NEW p \in Procs, CloseVerified(p) PROVE TypeOK'
  BY <1>22 DEF CloseVerified
<1>23. ASSUME NEW p \in Procs, Process(p) PROVE TypeOK'
  <2>1. CASE Connect(p)
    <3>1. wire' \in [Procs -> Seq(Messages)] /\ proc' \in [Procs -> {"unborn", "booting", "up", "exited"}]
      <4>1. CASE Send(p, "Register") /\ proc' = [proc EXCEPT ![p] = "up"]
        BY <4>1
      <4>2. CASE UNCHANGED wire /\ proc' = [proc EXCEPT ![p] = "exited"]
        BY <4>2
      <4>3. QED
        BY <2>1, <4>1, <4>2 DEF Connect
    <3>2. QED
      BY <2>1, <3>1 DEF Connect
  <2>2. ASSUME NEW m \in {"StatusUpdate", "Alert"}, Report(p, m) PROVE TypeOK'
    BY <2>2 DEF Report
  <2>3. CASE Stop(p)
    BY <2>3 DEF Stop
  <2>4. CASE Crash(p)
    BY <2>4 DEF Crash
  <2>5. QED
    BY <1>23, <2>1, <2>2, <2>3, <2>4 DEF Process
<1>24. CASE UNCHANGED vars
  BY <1>24 DEF vars
<1>25. QED
  BY <1>1, <1>2, <1>3, <1>4, <1>5, <1>6, <1>7, <1>8, <1>9, <1>10, <1>11, <1>12, <1>13, <1>14, <1>15, <1>16, <1>17, <1>18, <1>19, <1>20, <1>21, <1>22, <1>23, <1>24 DEF Next, Orchestrator, Handler

\* Every step keeps cur and newProc in step with the orchestrator's stage.
LEMMA ControlStep == Inv /\ [Next]_vars => LaunchControl'
<1> SUFFICES ASSUME Inv, [Next]_vars PROVE LaunchControl'
  OBVIOUS
<1> USE BridgeAssumption DEF stateVars, orchVars, procVars, historyVars, BatchDone, Inv, TypeOK, LaunchControl, Spawned, ReadyToSpawn, ReadyToRestart
<1>1. CASE ScanPending
  BY <1>1 DEF ScanPending
<1>2. CASE ScanFailed
  BY <1>2 DEF ScanFailed
<1>3. ASSUME NEW d \in Daemons, LaunchPending(d) PROVE LaunchControl'
  BY <1>3 DEF LaunchPending, SetStarting
<1>4. ASSUME NEW d \in Daemons, MarkRestarting(d) PROVE LaunchControl'
  BY <1>4 DEF MarkRestarting
<1>5. CASE BackoffElapsed
  BY <1>5 DEF BackoffElapsed, SetStarting
<1>6. ASSUME NEW p \in Procs, SpawnOk(p) PROVE LaunchControl'
  BY <1>6 DEF SpawnOk
<1>7. CASE SpawnError
  BY <1>7 DEF SpawnError
<1>8. CASE RecordChild
  BY <1>8 DEF RecordChild
<1>9. CASE RecordFailure
  BY <1>9 DEF RecordFailure
<1>10. ASSUME NEW p \in Procs, RegistrationTimeout(p) \/ Handler(p) \/ Process(p) PROVE LaunchControl'
  BY <1>10, OutsideOrchestrator
<1>11. CASE UNCHANGED vars
  BY <1>11 DEF vars
<1>12. QED
  BY <1>1, <1>2, <1>3, <1>4, <1>5, <1>6, <1>7, <1>8, <1>9, <1>10, <1>11 DEF Next, Orchestrator

\* A process is named before it can connect or be timed.
LEMMA SpawnedStep == Inv /\ [Next]_vars => Spawned'
<1> SUFFICES ASSUME Inv, [Next]_vars PROVE Spawned'
  OBVIOUS
<1> USE BridgeAssumption DEF stateVars, orchVars, procVars, historyVars, Goto, Inv, TypeOK, LaunchControl, Spawned
<1>1. CASE ScanPending
  BY <1>1 DEF ScanPending
<1>2. CASE ScanFailed
  BY <1>2 DEF ScanFailed
<1>3. ASSUME NEW d \in Daemons, LaunchPending(d) PROVE Spawned'
  BY <1>3 DEF LaunchPending, SetStarting
<1>4. ASSUME NEW d \in Daemons, MarkRestarting(d) PROVE Spawned'
  BY <1>4 DEF MarkRestarting
<1>5. CASE BackoffElapsed
  BY <1>5 DEF BackoffElapsed, SetStarting
<1>6. ASSUME NEW p \in Procs, SpawnOk(p) PROVE Spawned'
  BY <1>6 DEF SpawnOk
<1>7. CASE SpawnError
  BY <1>7 DEF SpawnError
<1>8. CASE RecordChild
  BY <1>8 DEF RecordChild
<1>9. CASE RecordFailure
  BY <1>9 DEF RecordFailure
<1>10. ASSUME NEW p \in Procs, RegistrationTimeout(p) PROVE Spawned'
  BY <1>10 DEF RegistrationTimeout
<1>11. ASSUME NEW p \in Procs, Handler(p) PROVE Spawned'
  BY <1>11 DEF Handler, AcceptRegister, RejectRegister, StoreLogdWriter, ReadStatusUpdate, ReadAlert, ReadShutdown, Forward, ForwardBlocks, ForwardResumes, ForwardFails, CloseUnverified, CloseVerified
<1>12. ASSUME NEW p \in Procs, Process(p) PROVE Spawned'
  BY <1>12 DEF Process, Connect, Report, Stop, Crash
<1>13. CASE UNCHANGED vars
  BY <1>13 DEF vars
<1>14. QED
  BY <1>1, <1>2, <1>3, <1>4, <1>5, <1>6, <1>7, <1>8, <1>9, <1>10, <1>11, <1>12, <1>13 DEF Next, Orchestrator

\* What the scan read of a batch stays true until its members are treated:
\* nothing but the launch itself ends Pending, and only the orchestrator raises
\* restart_count.
LEMMA BatchStep == Inv /\ [Next]_vars => BatchFresh'
<1> SUFFICES ASSUME Inv, [Next]_vars PROVE BatchFresh'
  OBVIOUS
<1> USE BridgeAssumption DEF stateVars, orchVars, procVars, historyVars, BatchDone, MarkRunning, MarkFailed, Inv, TypeOK, LaunchControl, Spawned,
           BatchFresh, Boot, ReadyToSpawn, ReadyToRestart, RunningNames
<1>1. CASE ScanPending
  BY <1>1 DEF ScanPending
<1>2. CASE ScanFailed
  BY <1>2 DEF ScanFailed
<1>3. ASSUME NEW d \in Daemons, LaunchPending(d) PROVE BatchFresh'
  BY <1>3 DEF LaunchPending, SetStarting
<1>4. ASSUME NEW d \in Daemons, MarkRestarting(d) PROVE BatchFresh'
  BY <1>4 DEF MarkRestarting
<1>5. CASE BackoffElapsed
  BY <1>5 DEF BackoffElapsed, SetStarting
<1>6. ASSUME NEW p \in Procs, SpawnOk(p) PROVE BatchFresh'
  BY <1>6 DEF SpawnOk
<1>7. CASE SpawnError
  BY <1>7 DEF SpawnError
<1>8. CASE RecordChild
  BY <1>8 DEF RecordChild
<1>9. CASE RecordFailure
  BY <1>9 DEF RecordFailure
<1>10. ASSUME NEW p \in Procs, RegistrationTimeout(p) PROVE BatchFresh'
  BY <1>10 DEF RegistrationTimeout
<1>11. ASSUME NEW p \in Procs, AcceptRegister(p) PROVE BatchFresh'
  BY <1>11 DEF AcceptRegister
<1>12. ASSUME NEW p \in Procs, RejectRegister(p) PROVE BatchFresh'
  BY <1>12 DEF RejectRegister
<1>13. ASSUME NEW p \in Procs, StoreLogdWriter(p) PROVE BatchFresh'
  BY <1>13 DEF StoreLogdWriter
<1>14. ASSUME NEW p \in Procs, ReadStatusUpdate(p) PROVE BatchFresh'
  BY <1>14 DEF ReadStatusUpdate
<1>15. ASSUME NEW p \in Procs, ReadAlert(p) PROVE BatchFresh'
  BY <1>15 DEF ReadAlert
<1>16. ASSUME NEW p \in Procs, ReadShutdown(p) PROVE BatchFresh'
  BY <1>16 DEF ReadShutdown
<1>17. ASSUME NEW p \in Procs, Forward(p) PROVE BatchFresh'
  BY <1>17 DEF Forward
<1>18. ASSUME NEW p \in Procs, ForwardBlocks(p) PROVE BatchFresh'
  BY <1>18 DEF ForwardBlocks
<1>19. ASSUME NEW p \in Procs, ForwardResumes(p) PROVE BatchFresh'
  BY <1>19 DEF ForwardResumes
<1>20. ASSUME NEW p \in Procs, ForwardFails(p) PROVE BatchFresh'
  BY <1>20 DEF ForwardFails
<1>21. ASSUME NEW p \in Procs, CloseUnverified(p) PROVE BatchFresh'
  BY <1>21 DEF CloseUnverified
<1>22. ASSUME NEW p \in Procs, CloseVerified(p) PROVE BatchFresh'
  BY <1>22 DEF CloseVerified
<1>23. ASSUME NEW p \in Procs, Process(p) PROVE BatchFresh'
  BY <1>23 DEF Process, Connect, Report, Stop, Crash
<1>24. CASE UNCHANGED vars
  BY <1>24 DEF vars
<1>25. QED
  BY <1>1, <1>2, <1>3, <1>4, <1>5, <1>6, <1>7, <1>8, <1>9, <1>10, <1>11, <1>12, <1>13, <1>14, <1>15, <1>16, <1>17, <1>18, <1>19, <1>20, <1>21, <1>22, <1>23, <1>24 DEF Next, Orchestrator, Handler

\* restart_count pays for each launch, and a registration that resets it resets
\* the launches it pays for.
LEMMA AccountingStep == Inv /\ [Next]_vars => Accounting'
<1> SUFFICES ASSUME Inv, [Next]_vars PROVE Accounting'
  OBVIOUS
<1> USE BridgeAssumption DEF stateVars, orchVars, procVars, historyVars, MarkRunning, MarkFailed, Inv, TypeOK, LaunchControl, Spawned, BatchFresh,
           Accounting, Boot
<1>1. CASE ScanPending
  BY <1>1 DEF ScanPending
<1>2. CASE ScanFailed
  BY <1>2 DEF ScanFailed
<1>3. ASSUME NEW d \in Daemons, LaunchPending(d) PROVE Accounting'
  BY <1>3 DEF LaunchPending, SetStarting
<1>4. ASSUME NEW d \in Daemons, MarkRestarting(d) PROVE Accounting'
  BY <1>4 DEF MarkRestarting
<1>5. CASE BackoffElapsed
  BY <1>5 DEF BackoffElapsed, SetStarting
<1>6. ASSUME NEW p \in Procs, SpawnOk(p) PROVE Accounting'
  BY <1>6 DEF SpawnOk
<1>7. CASE SpawnError
  BY <1>7 DEF SpawnError
<1>8. CASE RecordChild
  BY <1>8 DEF RecordChild
<1>9. CASE RecordFailure
  BY <1>9 DEF RecordFailure
<1>10. ASSUME NEW p \in Procs, RegistrationTimeout(p) PROVE Accounting'
  BY <1>10 DEF RegistrationTimeout
<1>11. ASSUME NEW p \in Procs, AcceptRegister(p) PROVE Accounting'
  BY <1>11 DEF AcceptRegister
<1>12. ASSUME NEW p \in Procs, RejectRegister(p) PROVE Accounting'
  BY <1>12 DEF RejectRegister
<1>13. ASSUME NEW p \in Procs, StoreLogdWriter(p) PROVE Accounting'
  BY <1>13 DEF StoreLogdWriter
<1>14. ASSUME NEW p \in Procs, ReadStatusUpdate(p) PROVE Accounting'
  BY <1>14 DEF ReadStatusUpdate
<1>15. ASSUME NEW p \in Procs, ReadAlert(p) PROVE Accounting'
  BY <1>15 DEF ReadAlert
<1>16. ASSUME NEW p \in Procs, ReadShutdown(p) PROVE Accounting'
  BY <1>16 DEF ReadShutdown
<1>17. ASSUME NEW p \in Procs, Forward(p) PROVE Accounting'
  BY <1>17 DEF Forward
<1>18. ASSUME NEW p \in Procs, ForwardBlocks(p) PROVE Accounting'
  BY <1>18 DEF ForwardBlocks
<1>19. ASSUME NEW p \in Procs, ForwardResumes(p) PROVE Accounting'
  BY <1>19 DEF ForwardResumes
<1>20. ASSUME NEW p \in Procs, ForwardFails(p) PROVE Accounting'
  BY <1>20 DEF ForwardFails
<1>21. ASSUME NEW p \in Procs, CloseUnverified(p) PROVE Accounting'
  BY <1>21 DEF CloseUnverified
<1>22. ASSUME NEW p \in Procs, CloseVerified(p) PROVE Accounting'
  BY <1>22 DEF CloseVerified
<1>23. ASSUME NEW p \in Procs, Process(p) PROVE Accounting'
  BY <1>23 DEF Process, Connect, Report, Stop, Crash
<1>24. CASE UNCHANGED vars
  BY <1>24 DEF vars
<1>25. QED
  BY <1>1, <1>2, <1>3, <1>4, <1>5, <1>6, <1>7, <1>8, <1>9, <1>10, <1>11, <1>12, <1>13, <1>14, <1>15, <1>16, <1>17, <1>18, <1>19, <1>20, <1>21, <1>22, <1>23, <1>24 DEF Next, Orchestrator, Handler

\* Registrations precede the launches that depend on them.
LEMMA BootStep == Inv /\ [Next]_vars => Boot'
<1> SUFFICES ASSUME Inv, [Next]_vars PROVE Boot'
  OBVIOUS
<1> USE BridgeAssumption DEF stateVars, orchVars, procVars, historyVars, MarkRunning, MarkFailed, Goto, Inv, TypeOK, LaunchControl, Spawned,
           BatchFresh, Boot
<1>1. CASE ScanPending
  BY <1>1 DEF ScanPending
<1>2. CASE ScanFailed
  BY <1>2 DEF ScanFailed
<1>3. ASSUME NEW d \in Daemons, LaunchPending(d) PROVE Boot'
  BY <1>3 DEF LaunchPending, SetStarting
<1>4. ASSUME NEW d \in Daemons, MarkRestarting(d) PROVE Boot'
  BY <1>4 DEF MarkRestarting
<1>5. CASE BackoffElapsed
  BY <1>5 DEF BackoffElapsed, SetStarting
<1>6. ASSUME NEW p \in Procs, SpawnOk(p) PROVE Boot'
  BY <1>6 DEF SpawnOk
<1>7. CASE SpawnError
  BY <1>7 DEF SpawnError
<1>8. CASE RecordChild
  BY <1>8 DEF RecordChild
<1>9. CASE RecordFailure
  BY <1>9 DEF RecordFailure
<1>10. ASSUME NEW p \in Procs, RegistrationTimeout(p) PROVE Boot'
  <2>1. \A d \in Daemons : /\ status'[d] = "Running" => status[d] = "Running"
                           /\ status'[d] = "Pending" <=> status[d] = "Pending"
    BY <1>10 DEF RegistrationTimeout
  <2>2. /\ UNCHANGED <<handler, owner, registered, survivors, attempts, restartCount, cur>>
        /\ \A q \in Procs : timer'[q] => timer[q]
    BY <1>10 DEF RegistrationTimeout
  <2>3. QED
    BY <2>1, <2>2
<1>11. ASSUME NEW p \in Procs, AcceptRegister(p) PROVE Boot'
  BY <1>11 DEF AcceptRegister
<1>12. ASSUME NEW p \in Procs, RejectRegister(p) PROVE Boot'
  BY <1>12 DEF RejectRegister
<1>13. ASSUME NEW p \in Procs, StoreLogdWriter(p) PROVE Boot'
  BY <1>13 DEF StoreLogdWriter
<1>14. ASSUME NEW p \in Procs, ReadStatusUpdate(p) PROVE Boot'
  BY <1>14 DEF ReadStatusUpdate
<1>15. ASSUME NEW p \in Procs, ReadAlert(p) PROVE Boot'
  BY <1>15 DEF ReadAlert
<1>16. ASSUME NEW p \in Procs, ReadShutdown(p) PROVE Boot'
  BY <1>16 DEF ReadShutdown
<1>17. ASSUME NEW p \in Procs, Forward(p) PROVE Boot'
  BY <1>17 DEF Forward
<1>18. ASSUME NEW p \in Procs, ForwardBlocks(p) PROVE Boot'
  BY <1>18 DEF ForwardBlocks
<1>19. ASSUME NEW p \in Procs, ForwardResumes(p) PROVE Boot'
  BY <1>19 DEF ForwardResumes
<1>20. ASSUME NEW p \in Procs, ForwardFails(p) PROVE Boot'
  BY <1>20 DEF ForwardFails
<1>21. ASSUME NEW p \in Procs, CloseUnverified(p) PROVE Boot'
  BY <1>21 DEF CloseUnverified
<1>22. ASSUME NEW p \in Procs, CloseVerified(p) PROVE Boot'
  BY <1>22 DEF CloseVerified
<1>23. ASSUME NEW p \in Procs, Process(p) PROVE Boot'
  <2>1. UNCHANGED <<status, owner, registered, survivors, attempts, restartCount, cur, timer>>
    BY <1>23 DEF Process, Connect, Report, Stop, Crash
  <2>2. \A q \in Procs : handler'[q] = handler[q] \/ handler'[q] = "open"
    BY <1>23 DEF Process, Connect, Report, Stop, Crash
  <2>3. QED
    BY <2>1, <2>2
<1>24. CASE UNCHANGED vars
  BY <1>24 DEF vars
<1>25. QED
  BY <1>1, <1>2, <1>3, <1>4, <1>5, <1>6, <1>7, <1>8, <1>9, <1>10, <1>11, <1>12, <1>13, <1>14, <1>15, <1>16, <1>17, <1>18, <1>19, <1>20, <1>21, <1>22, <1>23, <1>24 DEF Next, Orchestrator, Handler

\* Whoever sets Starting or Restarting is there to end it.
LEMMA TransientStep == Inv /\ [Next]_vars => TransientOwned'
<1> SUFFICES ASSUME Inv, [Next]_vars PROVE TransientOwned'
  OBVIOUS
<1> USE BridgeAssumption DEF stateVars, orchVars, procVars, historyVars, MarkRunning, MarkFailed, Inv, TypeOK, LaunchControl, Spawned,
           TransientOwned
<1>1. CASE ScanPending
  BY <1>1 DEF ScanPending
<1>2. CASE ScanFailed
  BY <1>2 DEF ScanFailed
<1>3. ASSUME NEW d \in Daemons, LaunchPending(d) PROVE TransientOwned'
  BY <1>3 DEF LaunchPending, SetStarting
<1>4. ASSUME NEW d \in Daemons, MarkRestarting(d) PROVE TransientOwned'
  BY <1>4 DEF MarkRestarting
<1>5. CASE BackoffElapsed
  BY <1>5 DEF BackoffElapsed, SetStarting
<1>6. ASSUME NEW p \in Procs, SpawnOk(p) PROVE TransientOwned'
  BY <1>6 DEF SpawnOk
<1>7. CASE SpawnError
  BY <1>7 DEF SpawnError
<1>8. CASE RecordChild
  BY <1>8 DEF RecordChild
<1>9. CASE RecordFailure
  BY <1>9 DEF RecordFailure
<1>10. ASSUME NEW p \in Procs, RegistrationTimeout(p) PROVE TransientOwned'
  BY <1>10 DEF RegistrationTimeout
<1>11. ASSUME NEW p \in Procs, Handler(p) PROVE TransientOwned'
  BY <1>11 DEF Handler, AcceptRegister, RejectRegister, StoreLogdWriter, ReadStatusUpdate, ReadAlert, ReadShutdown, Forward, ForwardBlocks, ForwardResumes, ForwardFails, CloseUnverified, CloseVerified
<1>12. ASSUME NEW p \in Procs, Process(p) PROVE TransientOwned'
  BY <1>12 DEF Process, Connect, Report, Stop, Crash
<1>13. CASE UNCHANGED vars
  BY <1>13 DEF vars
<1>14. QED
  BY <1>1, <1>2, <1>3, <1>4, <1>5, <1>6, <1>7, <1>8, <1>9, <1>10, <1>11, <1>12, <1>13 DEF Next, Orchestrator

\* A connection that closes takes Running with it.
LEMMA SessionStep == Inv /\ RunningHasSession /\ [Next]_vars => RunningHasSession'
<1> SUFFICES ASSUME Inv /\ RunningHasSession, [Next]_vars PROVE RunningHasSession'
  OBVIOUS
<1> USE BridgeAssumption DEF stateVars, orchVars, procVars, historyVars, MarkRunning, MarkFailed, Goto, Inv, TypeOK, LaunchControl, Spawned,
           RunningHasSession
<1>1. CASE ScanPending
  BY <1>1 DEF ScanPending
<1>2. CASE ScanFailed
  BY <1>2 DEF ScanFailed
<1>3. ASSUME NEW d \in Daemons, LaunchPending(d) PROVE RunningHasSession'
  BY <1>3 DEF LaunchPending, SetStarting
<1>4. ASSUME NEW d \in Daemons, MarkRestarting(d) PROVE RunningHasSession'
  BY <1>4 DEF MarkRestarting
<1>5. CASE BackoffElapsed
  BY <1>5 DEF BackoffElapsed, SetStarting
<1>6. ASSUME NEW p \in Procs, SpawnOk(p) PROVE RunningHasSession'
  BY <1>6 DEF SpawnOk
<1>7. CASE SpawnError
  BY <1>7 DEF SpawnError
<1>8. CASE RecordChild
  BY <1>8 DEF RecordChild
<1>9. CASE RecordFailure
  BY <1>9 DEF RecordFailure
<1>10. ASSUME NEW p \in Procs, RegistrationTimeout(p) PROVE RunningHasSession'
  <2>1. \A d \in Daemons : status'[d] = "Running" => status[d] = "Running"
    BY <1>10 DEF RegistrationTimeout
  <2>2. UNCHANGED <<owner, handler>>
    BY <1>10 DEF RegistrationTimeout
  <2>3. QED
    BY <2>1, <2>2
<1>11. ASSUME NEW p \in Procs, AcceptRegister(p) PROVE RunningHasSession'
  BY <1>11 DEF AcceptRegister
<1>12. ASSUME NEW p \in Procs, RejectRegister(p) PROVE RunningHasSession'
  <2>1. UNCHANGED <<status, owner>>
    BY <1>12 DEF RejectRegister
  <2>2. \A q \in Procs : handler[q] \in {"verified", "forwarding", "writing"} => handler'[q] = handler[q]
    BY <1>12 DEF RejectRegister
  <2>3. QED
    BY <2>1, <2>2
<1>13. ASSUME NEW p \in Procs, StoreLogdWriter(p) PROVE RunningHasSession'
  <2>1. UNCHANGED <<status, owner>>
    BY <1>13 DEF StoreLogdWriter
  <2>2. \A q \in Procs : handler[q] \in {"verified", "forwarding", "writing"} => handler'[q] = handler[q]
    BY <1>13 DEF StoreLogdWriter
  <2>3. QED
    BY <2>1, <2>2
<1>14. ASSUME NEW p \in Procs, ReadStatusUpdate(p) PROVE RunningHasSession'
  BY <1>14 DEF ReadStatusUpdate
<1>15. ASSUME NEW p \in Procs, ReadAlert(p) PROVE RunningHasSession'
  BY <1>15 DEF ReadAlert
<1>16. ASSUME NEW p \in Procs, ReadShutdown(p) PROVE RunningHasSession'
  BY <1>16 DEF ReadShutdown
<1>17. ASSUME NEW p \in Procs, Forward(p) PROVE RunningHasSession'
  BY <1>17 DEF Forward
<1>18. ASSUME NEW p \in Procs, ForwardBlocks(p) PROVE RunningHasSession'
  BY <1>18 DEF ForwardBlocks
<1>19. ASSUME NEW p \in Procs, ForwardResumes(p) PROVE RunningHasSession'
  BY <1>19 DEF ForwardResumes
<1>20. ASSUME NEW p \in Procs, ForwardFails(p) PROVE RunningHasSession'
  BY <1>20 DEF ForwardFails
<1>21. ASSUME NEW p \in Procs, CloseUnverified(p) PROVE RunningHasSession'
  <2>1. UNCHANGED <<status, owner>>
    BY <1>21 DEF CloseUnverified
  <2>2. \A q \in Procs : handler[q] \in {"verified", "forwarding", "writing"} => handler'[q] = handler[q]
    BY <1>21 DEF CloseUnverified
  <2>3. QED
    BY <2>1, <2>2
<1>22. ASSUME NEW p \in Procs, CloseVerified(p) PROVE RunningHasSession'
  BY <1>22 DEF CloseVerified
<1>23. ASSUME NEW p \in Procs, Process(p) PROVE RunningHasSession'
  <2>1. UNCHANGED <<status, owner>>
    BY <1>23 DEF Process, Connect, Report, Stop, Crash
  <2>2. \A q \in Procs : handler[q] \in {"verified", "forwarding", "writing"} => handler'[q] = handler[q]
    BY <1>23 DEF Process, Connect, Report, Stop, Crash
  <2>3. QED
    BY <2>1, <2>2
<1>24. CASE UNCHANGED vars
  BY <1>24 DEF vars
<1>25. QED
  BY <1>1, <1>2, <1>3, <1>4, <1>5, <1>6, <1>7, <1>8, <1>9, <1>10, <1>11, <1>12, <1>13, <1>14, <1>15, <1>16, <1>17, <1>18, <1>19, <1>20, <1>21, <1>22, <1>23, <1>24 DEF Next, Orchestrator, Handler

\* Whatever closes a connection, or refuses it, takes the pid off the record.
LEMMA ListedStep == Inv /\ ListedPid /\ [Next]_vars => ListedPid'
<1> SUFFICES ASSUME Inv /\ ListedPid, [Next]_vars PROVE ListedPid'
  OBVIOUS
<1> USE BridgeAssumption DEF stateVars, orchVars, procVars, historyVars, ListDaemons, ListedPid
<1> DEFINE Served == {"verified", "forwarding", "writing"}
<1>1. pid \in [Daemons -> Procs \cup {None}] /\ owner \in [Procs -> Daemons \cup {None}]
      /\ handler \in [Procs -> {"none", "open", "acking", "verified", "forwarding", "writing", "closed"}]
  BY DEF Inv, TypeOK
<1>2. \A d \in Daemons \ {Logd} : pid[d] # None => owner[pid[d]] = d /\ handler[pid[d]] \in Served
  OBVIOUS
<1>3. \A p \in Procs : proc[p] = "unborn" => owner[p] = None
  BY DEF Inv, Spawned
<1>4. ASSUME UNCHANGED pid,
             \A p \in Procs : owner[p] # None => owner'[p] = owner[p],
             \A p \in Procs : handler[p] \in Served => handler'[p] \in Served
      PROVE  ListedPid'
  BY <1>1, <1>2, <1>4
<1>5. CASE Orchestrator
  <2>1. ASSUME NEW p \in Procs, SpawnOk(p) PROVE ListedPid'
    BY <2>1, <1>1, <1>3, <1>4 DEF SpawnOk
  <2>2. UNCHANGED <<pid, handler>>
    BY <1>5 DEF Orchestrator, ScanPending, ScanFailed, BackoffElapsed, SpawnError, RecordChild, RecordFailure,
                LaunchPending, MarkRestarting, SpawnOk, SetStarting
  <2>3. ASSUME \A p \in Procs : ~SpawnOk(p) PROVE UNCHANGED owner
    BY <1>5, <2>3 DEF Orchestrator, ScanPending, ScanFailed, BackoffElapsed, SpawnError, RecordChild, RecordFailure,
                LaunchPending, MarkRestarting, SetStarting
  <2>4. QED
    BY <2>1, <2>2, <2>3, <1>4
<1>6. ASSUME NEW p \in Procs, RegistrationTimeout(p) PROVE ListedPid'
  BY <1>6, <1>4 DEF RegistrationTimeout
<1>7. ASSUME NEW p \in Procs, AcceptRegister(p) PROVE ListedPid'
  <2>1. owner[p] \in Daemons
    BY <1>7 DEF Inv, Spawned, AcceptRegister
  <2>2. pid' = [pid EXCEPT ![owner[p]] = p] /\ UNCHANGED owner
    BY <1>7 DEF AcceptRegister, MarkRunning
  <2>3. handler' = [handler EXCEPT ![p] = IF owner[p] = Logd THEN "acking" ELSE "verified"]
    BY <1>7 DEF AcceptRegister, Goto
  <2>4. handler[p] = "open"
    BY <1>7 DEF AcceptRegister
  <2>5. QED
    BY <1>1, <1>2, <2>1, <2>2, <2>3, <2>4
<1>8. ASSUME NEW p \in Procs, handler[p] \notin Served, UNCHANGED <<pid, owner>>,
             \A q \in Procs \ {p} : handler'[q] = handler[q]
      PROVE  ListedPid'
  BY <1>4, <1>8
<1>9. ASSUME NEW p \in Procs, RejectRegister(p) \/ StoreLogdWriter(p) \/ CloseUnverified(p) PROVE ListedPid'
  <2>1. handler[p] \notin Served /\ UNCHANGED <<pid, owner>>
    BY <1>9 DEF RejectRegister, StoreLogdWriter, CloseUnverified
  <2>2. handler' = [handler EXCEPT ![p] = "closed"]
    BY <1>9 DEF RejectRegister, StoreLogdWriter, CloseUnverified, Goto
  <2>3. QED
    BY <1>1, <1>8, <2>1, <2>2
<1>10. ASSUME NEW p \in Procs, ReadStatusUpdate(p) \/ ReadAlert(p) \/ Forward(p) \/ ForwardBlocks(p)
                               \/ ForwardResumes(p) \/ ForwardFails(p)
       PROVE  ListedPid'
  <2>1. UNCHANGED <<pid, owner>>
    BY <1>10 DEF ReadStatusUpdate, ReadAlert, Forward, ForwardBlocks, ForwardResumes, ForwardFails
  <2>2. \E h \in Served : handler' = [handler EXCEPT ![p] = h]
    BY <1>10 DEF ReadStatusUpdate, ReadAlert, Forward, ForwardBlocks, ForwardResumes, ForwardFails, Goto
  <2>3. QED
    BY <1>1, <1>4, <2>1, <2>2
<1>11. ASSUME NEW p \in Procs, ReadShutdown(p) \/ CloseVerified(p) PROVE ListedPid'
  <2>1. pid' = [pid EXCEPT ![owner[p]] = None] /\ UNCHANGED owner
    BY <1>11 DEF ReadShutdown, CloseVerified, MarkFailed
  <2>2. \A q \in Procs \ {p} : handler'[q] = handler[q]
    BY <1>1, <1>11 DEF ReadShutdown, CloseVerified, Goto
  <2>3. QED
    BY <1>1, <1>2, <2>1, <2>2
<1>12. ASSUME NEW p \in Procs, Process(p) PROVE ListedPid'
  <2>1. UNCHANGED <<pid, owner>>
    BY <1>12 DEF Process, Connect, Report, Stop, Crash
  <2>2. handler' = handler \/ (proc[p] = "booting" /\ handler' = [handler EXCEPT ![p] = "open"])
    BY <1>12 DEF Process, Connect, Report, Stop, Crash, Goto
  <2>3. proc[p] = "booting" => handler[p] = "none"
    BY DEF Inv, Spawned
  <2>4. QED
    BY <1>1, <1>4, <1>8, <2>1, <2>2, <2>3
<1>13. CASE UNCHANGED vars
  BY <1>13, <1>4 DEF vars
<1>14. QED
  BY <1>5, <1>6, <1>7, <1>9, <1>10, <1>11, <1>12, <1>13 DEF Next, Handler

-----------------------------------------------------------------------------
(* Theorems.                                                               *)

\* The strengthened invariant holds in every reachable state.
LEMMA Invariance == Spec => []Inv
<1>1. Init => Inv
  BY BridgeAssumption
     DEF Init, Inv, TypeOK, LaunchControl, Spawned, BatchFresh, Accounting, Boot, TransientOwned, Statuses, Messages
<1>2. Inv /\ [Next]_vars => Inv'
  BY TypeStep, ControlStep, SpawnedStep, BatchStep, AccountingStep, BootStep, TransientStep DEF Inv
<1>3. QED
  BY <1>1, <1>2, PTL DEF Spec

\* Every variable of the Bridge keeps its type.
THEOREM TypeCorrect == Spec => []TypeOK
<1>1. Inv => TypeOK
  BY DEF Inv
<1>2. QED
  BY <1>1, Invariance, PTL

\* main.rs:40 MAX_DAEMON_RESTARTS bounds the launches of a daemon that does not
\* register, although ready_to_restart is read long before it is acted on.
THEOREM RestartCeilingHolds == Spec => []RestartCeiling
<1>1. Inv => RestartCeiling
  BY BridgeAssumption DEF Inv, TypeOK, Accounting, RestartCeiling
<1>2. QED
  BY <1>1, Invariance, PTL

\* main.rs:336 "spawns daemons in dependency order".
THEOREM DependencyOrderHolds == Spec => []DependencyOrder
<1>1. Inv => DependencyOrder
  BY DEF Inv, Boot, DependencyOrder
<1>2. QED
  BY <1>1, Invariance, PTL

\* No daemon is left Starting or Restarting with nobody to end it.
THEOREM TransientOwnedHolds == Spec => []TransientOwned
<1>1. Inv => TransientOwned
  BY DEF Inv
<1>2. QED
  BY <1>1, Invariance, PTL

\* Running is attested by a live handler, for every daemon but logd.
THEOREM RunningHasSessionHolds == Spec => []RunningHasSession
<1>1. Init => RunningHasSession
  BY DEF Init, RunningHasSession
<1>2. Inv /\ RunningHasSession /\ [Next]_vars => RunningHasSession'
  BY SessionStep
<1>3. QED
  BY <1>1, <1>2, Invariance, PTL DEF Spec

\* A pid that /daemons lists is a process whose connection the Bridge serves.
THEOREM ListedPidHolds == Spec => []ListedPid
<1>1. Init => ListedPid
  BY DEF Init, ListedPid, ListDaemons
<1>2. Inv /\ ListedPid /\ [Next]_vars => ListedPid'
  BY ListedStep
<1>3. QED
  BY <1>1, <1>2, Invariance, PTL DEF Spec

\* Giving up is final: neither a timer of an earlier launch, nor a handler,
\* nor a batch read before the ceiling was reached revives the daemon.
THEOREM GiveUpIsFinalHolds == Spec => GiveUpIsFinal
<1>1. Inv /\ [Next]_vars => \A d \in Daemons : GivenUp(d) => status'[d] = status[d]
  <2> SUFFICES ASSUME Inv, [Next]_vars, NEW d \in Daemons, GivenUp(d)
               PROVE  status'[d] = status[d]
    OBVIOUS
  <2> USE DEF stateVars, Inv, TypeOK, GivenUp, Silent
  <2>1. ASSUME NEW e \in Daemons, LaunchPending(e) PROVE status'[d] = status[d]
    BY <2>1 DEF LaunchPending, SetStarting, BatchFresh
  <2>2. ASSUME NEW e \in Daemons, MarkRestarting(e) PROVE status'[d] = status[d]
    BY <2>2, BridgeAssumption DEF MarkRestarting, BatchFresh
  <2>3. CASE BackoffElapsed \/ RecordFailure
    BY <2>3 DEF BackoffElapsed, SetStarting, RecordFailure
  <2>4. CASE ScanPending \/ ScanFailed \/ SpawnError \/ RecordChild \/ \E p \in Procs : SpawnOk(p)
    BY <2>4 DEF ScanPending, ScanFailed, SpawnError, RecordChild, SpawnOk
  <2>5. ASSUME NEW p \in Procs, RegistrationTimeout(p) PROVE status'[d] = status[d]
    BY <2>5 DEF RegistrationTimeout
  <2>6. ASSUME NEW p \in Procs, Handler(p) PROVE status'[d] = status[d]
    <3>1. CASE AcceptRegister(p)
      BY <3>1 DEF AcceptRegister, MarkRunning, Received
    <3>2. CASE ReadStatusUpdate(p)
      BY <3>2 DEF ReadStatusUpdate, Received
    <3>3. CASE ReadShutdown(p) \/ CloseVerified(p)
      BY <3>3 DEF ReadShutdown, CloseVerified, MarkFailed
    <3>4. CASE RejectRegister(p) \/ StoreLogdWriter(p) \/ ReadAlert(p) \/ Forward(p) \/ ForwardBlocks(p)
                 \/ ForwardResumes(p) \/ ForwardFails(p) \/ CloseUnverified(p)
      BY <3>4 DEF RejectRegister, StoreLogdWriter, ReadAlert, Forward, ForwardBlocks, ForwardResumes,
                  ForwardFails, CloseUnverified
    <3>5. QED
      BY <2>6, <3>1, <3>2, <3>3, <3>4 DEF Handler
  <2>7. ASSUME NEW p \in Procs, Process(p) PROVE status'[d] = status[d]
    BY <2>7 DEF Process, Connect, Report, Stop, Crash
  <2>8. CASE UNCHANGED vars
    BY <2>8 DEF vars
  <2>9. QED
    BY <2>1, <2>2, <2>3, <2>4, <2>5, <2>6, <2>7, <2>8 DEF Next, Orchestrator
<1>2. QED
  BY <1>1, Invariance, PTL DEF Spec, GiveUpIsFinal

\* The Bridge implements Supervisor: setting Starting from Pending is Start, a
\* spawn or a failed spawn is Launch, an accepted Register is Register, and
\* every other step is a stutter of the promise.
THEOREM Implementation == Spec => KeepsPromise
<1>1. Init => Promise!Init
  BY DEF Init, Promise!Init
<1>2. Inv /\ [Next]_vars => [Promise!Next]_(Promise!vars)
  <2> DEFINE Started == {d \in Daemons : status[d] # "Pending"}
  <2> SUFFICES ASSUME Inv, [Next]_vars PROVE [Promise!Next]_(Promise!vars)
    OBVIOUS
  <2> USE BridgeAssumption DEF stateVars, Inv, TypeOK, Promise!vars
  <2>1. ASSUME NEW d \in Daemons, LaunchPending(d) PROVE [Promise!Start(d)]_(Promise!vars)
    <3>1. DependsOn[d] \subseteq registered
      BY <2>1 DEF LaunchPending, BatchFresh
    <3>2. Started' = Started \cup {d}
      BY <2>1 DEF LaunchPending, SetStarting
    <3>3. UNCHANGED <<attempts, registered, survivors>>
      BY <2>1 DEF LaunchPending, SetStarting, historyVars
    <3>4. CASE d \notin Started
      BY <3>1, <3>2, <3>3, <3>4 DEF Promise!Start
    <3>5. CASE d \in Started
      <4>1. Started' = Started
        BY <3>2, <3>5
      <4>2. QED
        BY <4>1, <3>3
    <3>6. QED
      BY <3>4, <3>5
  <2>2. ASSUME SpawnError \/ \E p \in Procs : SpawnOk(p) PROVE Promise!Launch(cur)
    <3>1. cur \in Daemons /\ status[cur] # "Pending" /\ attempts[cur] < MaxDaemonRestarts + 1
      BY <2>2 DEF SpawnError, SpawnOk, LaunchControl, Accounting, Boot
    <3>2. UNCHANGED <<status, registered, survivors>> /\ attempts' = [attempts EXCEPT ![cur] = @ + 1]
      BY <2>2 DEF SpawnError, SpawnOk
    <3>3. QED
      BY <3>1, <3>2 DEF Promise!Launch
  <2>3. ASSUME NEW p \in Procs, AcceptRegister(p), NEW d \in Daemons, d = owner[p] PROVE Promise!Register(d)
    <3>1. d \in Started \cup survivors
      BY <2>3 DEF AcceptRegister, Spawned, Boot
    <3>2. Started' = Started \cup {d}
      BY <2>3, <3>1 DEF AcceptRegister, MarkRunning
    <3>3. QED
      BY <2>3, <3>1, <3>2 DEF AcceptRegister, Promise!Register
  <2>4. CASE UNCHANGED <<attempts, registered, survivors>> /\ \A d \in Daemons : status'[d] = "Pending" <=> status[d] = "Pending"
    BY <2>4
  <2>5. ASSUME NEW d \in Daemons, MarkRestarting(d) PROVE UNCHANGED Promise!vars
    <3>1. status[d] # "Pending"
      BY <2>5 DEF MarkRestarting, BatchFresh
    <3>2. QED
      BY <2>4, <2>5, <3>1 DEF MarkRestarting, historyVars
  <2>6. CASE BackoffElapsed \/ RecordFailure
    <3>1. cur \in Daemons /\ status[cur] # "Pending"
      BY <2>6 DEF BackoffElapsed, RecordFailure, LaunchControl, Boot
    <3>2. QED
      BY <2>4, <2>6, <3>1 DEF BackoffElapsed, RecordFailure, SetStarting, historyVars
  <2>7. CASE ScanPending \/ ScanFailed \/ RecordChild
    BY <2>4, <2>7 DEF ScanPending, ScanFailed, RecordChild, historyVars
  <2>8. ASSUME NEW p \in Procs, RegistrationTimeout(p) PROVE UNCHANGED Promise!vars
    BY <2>4, <2>8 DEF RegistrationTimeout, historyVars
  <2>9. ASSUME NEW p \in Procs, Handler(p), ~AcceptRegister(p) PROVE UNCHANGED Promise!vars
    <3>1. status[owner[p]] # "Pending" \/ UNCHANGED status
      <4>1. CASE ReadStatusUpdate(p) \/ ReadShutdown(p) \/ CloseVerified(p)
        BY <4>1 DEF ReadStatusUpdate, ReadShutdown, CloseVerified, Spawned, Boot
      <4>2. CASE ~(ReadStatusUpdate(p) \/ ReadShutdown(p) \/ CloseVerified(p))
        BY <2>9, <4>2 DEF Handler, RejectRegister, StoreLogdWriter, ReadAlert, Forward, ForwardBlocks,
                          ForwardResumes, ForwardFails, CloseUnverified
      <4>3. QED
        BY <4>1, <4>2
    <3>2. UNCHANGED historyVars /\ (status' = status \/ \E s \in {"Running", "Failed"} : status' = [status EXCEPT ![owner[p]] = s])
      BY <2>9 DEF Handler, RejectRegister, StoreLogdWriter, ReadStatusUpdate, ReadAlert, ReadShutdown, Forward,
                  ForwardBlocks, ForwardResumes, ForwardFails, CloseUnverified, CloseVerified, MarkFailed
    <3>3. QED
      BY <2>4, <3>1, <3>2 DEF historyVars
  <2>10. ASSUME NEW p \in Procs, Process(p) PROVE UNCHANGED Promise!vars
    BY <2>4, <2>10 DEF Process, Connect, Report, Stop, Crash, historyVars
  <2>11. CASE UNCHANGED vars
    BY <2>4, <2>11 DEF vars, historyVars
  <2>12. cur \in Daemons \/ ~(SpawnError \/ \E p \in Procs : SpawnOk(p))
    BY DEF LaunchControl, SpawnError, SpawnOk
  <2>13. \A p \in Procs : AcceptRegister(p) => owner[p] \in Daemons
    BY DEF AcceptRegister, Spawned
  <2>14. CASE Orchestrator
    <3>1. ASSUME NEW d \in Daemons, LaunchPending(d) PROVE [Promise!Next]_(Promise!vars)
      BY <2>1, <3>1 DEF Promise!Next
    <3>2. QED
      BY <3>1, <2>2, <2>5, <2>6, <2>7, <2>12, <2>14 DEF Orchestrator, Promise!Next
  <2>15. ASSUME NEW p \in Procs, RegistrationTimeout(p) \/ Handler(p) \/ Process(p) PROVE [Promise!Next]_(Promise!vars)
    <3>1. CASE AcceptRegister(p)
      <4>1. PICK d \in Daemons : d = owner[p]
        BY <2>13, <3>1
      <4>2. Promise!Register(d)
        BY <2>3, <3>1, <4>1
      <4>3. QED
        BY <4>2 DEF Promise!Next
    <3>2. CASE ~AcceptRegister(p)
      BY <2>8, <2>9, <2>10, <2>15, <3>2
    <3>3. QED
      BY <3>1, <3>2
  <2>16. QED
    BY <2>11, <2>14, <2>15 DEF Next
<1>3. QED
  BY <1>1, <1>2, Invariance, PTL DEF Spec, KeepsPromise, Promise!Spec

-----------------------------------------------------------------------------
(* logd, whose handler returns when it has stored the write half.          *)

Unserved == \A p \in Procs : handler[p] \in {"verified", "forwarding", "writing"} => owner[p] # Logd

\* logd is Running, and the orchestrator holds it in no batch and no launch.
Abandoned == status[Logd] = "Running" /\ Logd \notin batch /\ cur # Logd

LEMMA UnservedStep == Inv /\ Unserved /\ [Next]_vars => Unserved'
<1> SUFFICES ASSUME Inv, Unserved, [Next]_vars, NEW p \in Procs,
                    handler'[p] \in {"verified", "forwarding", "writing"}
    PROVE  owner'[p] # Logd
  BY DEF Unserved
<1> USE DEF Inv, TypeOK, Goto, orchVars, procVars
<1>1. CASE Orchestrator
  <2>1. handler' = handler
    BY <1>1 DEF Orchestrator, ScanPending, ScanFailed, BackoffElapsed, SpawnError, RecordChild, RecordFailure,
                LaunchPending, MarkRestarting, SpawnOk, SetStarting
  <2>2. owner[p] # Logd /\ owner[p] \in Daemons /\ proc[p] # "unborn"
    BY <2>1, BridgeAssumption DEF Unserved, Spawned
  <2>3. owner'[p] = owner[p]
    BY <1>1, <2>2 DEF Orchestrator, ScanPending, ScanFailed, BackoffElapsed, SpawnError, RecordChild, RecordFailure,
                      LaunchPending, MarkRestarting, SpawnOk, SetStarting
  <2>4. QED
    BY <2>2, <2>3
<1>2. ASSUME NEW q \in Procs, RegistrationTimeout(q) \/ Handler(q) \/ Process(q) PROVE owner'[p] # Logd
  <2>1. owner' = owner
    BY <1>2, OutsideOrchestrator
  <2>2. CASE handler[p] \in {"verified", "forwarding", "writing"}
    BY <2>1, <2>2 DEF Unserved
  <2>3. CASE handler[p] \notin {"verified", "forwarding", "writing"}
    <3>1. AcceptRegister(q) /\ q = p
      BY <1>2, <2>3 DEF RegistrationTimeout, Handler, Process, AcceptRegister, RejectRegister, StoreLogdWriter, ReadStatusUpdate,
           ReadAlert, ReadShutdown, Forward, ForwardBlocks, ForwardResumes, ForwardFails, CloseUnverified, CloseVerified,
           Connect, Report, Stop, Crash
    <3>2. QED
      BY <2>1, <3>1 DEF AcceptRegister
  <2>4. QED
    BY <2>2, <2>3
<1>3. CASE UNCHANGED vars
  BY <1>3 DEF vars, Unserved
<1>4. QED
  BY <1>1, <1>2, <1>3 DEF Next

\* No step takes an abandoned logd's status away, its death included.
LEMMA AbandonedStep ==
  ASSUME Logd \in Daemons, Inv, Unserved, Abandoned, [Next]_vars
  PROVE  Abandoned'
<1> USE DEF Inv, TypeOK, orchVars, stateVars, Abandoned
<1>1. CASE Orchestrator
  <2>1. CASE ScanPending \/ ScanFailed
    BY <2>1 DEF ScanPending, ScanFailed, ReadyToSpawn, ReadyToRestart
  <2>2. ASSUME NEW d \in Daemons, LaunchPending(d) \/ MarkRestarting(d) PROVE Abandoned'
    BY <2>2 DEF LaunchPending, MarkRestarting, SetStarting
  <2>3. CASE BackoffElapsed
    <3>1. cur' = cur /\ batch' = batch /\ status' = [status EXCEPT ![cur] = "Starting"]
      BY <2>3 DEF BackoffElapsed, SetStarting
    <3>2. QED
      BY <3>1
  <2>4. CASE SpawnError \/ \E p \in Procs : SpawnOk(p)
    BY <2>4 DEF SpawnError, SpawnOk
  <2>5. CASE RecordChild \/ RecordFailure
    BY <2>5, BridgeAssumption DEF RecordChild, RecordFailure
  <2>6. QED
    BY <1>1, <2>1, <2>2, <2>3, <2>4, <2>5 DEF Orchestrator
<1>2. ASSUME NEW p \in Procs, RegistrationTimeout(p) \/ Handler(p) \/ Process(p) PROVE Abandoned'
  <2>1. batch' = batch /\ cur' = cur
    BY <1>2, OutsideOrchestrator
  <2>2. \/ status' = status
        \/ status' = [status EXCEPT ![owner[p]] = "Running"]
        \/ handler[p] = "verified" /\ status' = [status EXCEPT ![owner[p]] = "Failed"]
        \/ status[owner[p]] = "Starting" /\ status' = [status EXCEPT ![owner[p]] = "Failed"]
    BY <1>2 DEF RegistrationTimeout, Handler, Process, AcceptRegister, RejectRegister, StoreLogdWriter, ReadStatusUpdate,
         ReadAlert, ReadShutdown, Forward, ForwardBlocks, ForwardResumes, ForwardFails, CloseUnverified, CloseVerified,
         Connect, Report, Stop, Crash, MarkRunning, MarkFailed
  <2>3. handler[p] = "verified" => owner[p] # Logd
    BY DEF Unserved
  <2>4. status'[Logd] = "Running"
    BY <2>2, <2>3
  <2>5. QED
    BY <2>1, <2>4
<1>3. CASE UNCHANGED vars
  BY <1>3 DEF vars
<1>4. QED
  BY <1>1, <1>2, <1>3 DEF Next

\* Once logd is Running, and in no batch or launch of the orchestrator, it is
\* Running for ever, whatever becomes of its processes: nothing supervises it,
\* against "Supervise all 42" (main.rs:8).
THEOREM LogdAbandoned ==
  ASSUME Logd \in Daemons
  PROVE  Spec => [](Abandoned => []Abandoned)
<1>1. Init => Unserved
  BY DEF Init, Unserved
<1>2. Inv /\ Unserved /\ [Next]_vars => Unserved'
  BY UnservedStep
<1>3. Inv /\ Unserved /\ Abandoned /\ [Next]_vars => Abandoned'
  BY AbandonedStep
<1>4. QED
  BY <1>1, <1>2, <1>3, Invariance, PTL DEF Spec
=============================================================================
