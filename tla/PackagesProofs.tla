--------------------------- MODULE PackagesProofs ---------------------------
(***************************************************************************)
(* Proofs about Packages, for any packages and files, and for any number   *)
(* of jobs under way at once: what is proved here needs no lock.           *)
(***************************************************************************)
EXTENDS Packages, TLAPS

JobStates == [op : Ops, pkg : Packages \cup {None}, force : BOOLEAN, purge : BOOLEAN,
              make : Makes \cup {None}, todo : SUBSET Paths]

\* What a job goes by: its package, and, for an extraction, an archive that is
\* there.
Control ==
  \A i \in Jobs :
    /\ job[i].op # "none" => job[i].pkg \in Packages
    /\ job[i].op = "extract" => cache[job[i].pkg] # "none" /\ job[i].pkg \in viaOpium

Inv == TypeOK /\ Control

-----------------------------------------------------------------------------
(* Jobs.                                                                   *)

LEMMA PathsOfPackage == ASSUME NEW p \in Packages PROVE Entries(p) \subseteq Paths
  BY DEF Paths

LEMMA JobTypes == TypeOK => job \in [Jobs -> JobStates]
  BY DEF TypeOK, JobStates

LEMMA IdleType == Idle \in JobStates
  BY DEF Idle, JobStates, Ops

\* Every archive has files of some make.
LEMMA FileMakeType ==
  ASSUME NEW p, NEW make \in Makes, NEW f PROVE FileMake(p, make, f) \in Makes
  BY DEF FileMake, Makes

\* A step of the job i to a state that keeps the control.
LEMMA JobStep ==
  ASSUME Inv, NEW i \in Jobs, NEW state \in JobStates, job' = [job EXCEPT ![i] = state],
         cache' = cache, viaOpium \subseteq viaOpium',
         state.op # "none" => state.pkg \in Packages,
         state.op = "extract" => cache[state.pkg] # "none" /\ state.pkg \in viaOpium'
  PROVE  job' \in [Jobs -> JobStates] /\ Control'
<1>1. job \in [Jobs -> JobStates]
  BY JobTypes DEF Inv
<1>2. job'[i] = state /\ \A j \in Jobs \ {i} : job'[j] = job[j]
  BY <1>1
<1>3. \A j \in Jobs :
        /\ job'[j].op # "none" => job'[j].pkg \in Packages
        /\ job'[j].op = "extract" => cache'[job'[j].pkg] # "none" /\ job'[j].pkg \in viaOpium'
  BY <1>2 DEF Inv, Control
<1>4. QED
  BY <1>1, <1>3 DEF Control

\* The start of a job.
LEMMA StartStep ==
  ASSUME Inv, NEW i \in Jobs, NEW p \in Packages, NEW force \in BOOLEAN, NEW purge \in BOOLEAN,
         \/ StartInstall(i, p, force) \/ RefuseUnreadable(i, p) \/ StartRemove(i, p, force, purge)
         \/ OpiumInstall(i, p)
  PROVE  job' \in [Jobs -> JobStates] /\ Control'
<1> USE DEF disk, history
<1>1. cache' = cache /\ viaOpium \subseteq viaOpium'
  BY DEF StartInstall, RefuseUnreadable, StartRemove, OpiumInstall
<1>2. PICK state \in JobStates :
        /\ job' = [job EXCEPT ![i] = state]
        /\ state.pkg = p
        /\ state.op \in {"check", "unreadable", "dependents", "extract"}
        /\ state.op = "extract" => cache[p] # "none" /\ p \in viaOpium'
  <2>1. CASE StartInstall(i, p, force)
    <3> DEFINE state == [Idle EXCEPT !.op = "check", !.pkg = p, !.force = force, !.make = Described(cache[p])]
    <3>1. Described(cache[p]) = "authored"
      BY <2>1 DEF StartInstall, Described
    <3>2. state \in JobStates /\ state.pkg = p /\ state.op = "check"
      BY <3>1 DEF Idle, JobStates, Ops, Makes
    <3>3. job' = [job EXCEPT ![i] = state]
      BY <2>1 DEF StartInstall
    <3>4. QED
      BY <3>2, <3>3
  <2>2. CASE RefuseUnreadable(i, p)
    <3> DEFINE state == [Idle EXCEPT !.op = "unreadable", !.pkg = p, !.make = IF cache[p] = "partial" THEN None ELSE cache[p]]
    <3>1. (IF cache[p] = "partial" THEN None ELSE cache[p]) \in Makes \cup {None}
      BY <2>2 DEF RefuseUnreadable, Makes
    <3>2. state \in JobStates /\ state.pkg = p /\ state.op = "unreadable"
      BY <3>1 DEF Idle, JobStates, Ops
    <3>3. job' = [job EXCEPT ![i] = state]
      BY <2>2 DEF RefuseUnreadable
    <3>4. QED
      BY <3>2, <3>3
  <2>3. CASE StartRemove(i, p, force, purge)
    <3> DEFINE state == [Idle EXCEPT !.op = "dependents", !.pkg = p, !.force = force, !.purge = purge]
    <3>1. state \in JobStates /\ state.pkg = p /\ state.op = "dependents"
      BY DEF Idle, JobStates, Ops
    <3>2. job' = [job EXCEPT ![i] = state]
      BY <2>3 DEF StartRemove
    <3>3. QED
      BY <3>1, <3>2
  <2>4. CASE OpiumInstall(i, p)
    <3> DEFINE state == [Idle EXCEPT !.op = "extract", !.pkg = p, !.todo = Entries(p)]
    <3>1. state \in JobStates /\ state.pkg = p /\ state.op = "extract"
      BY PathsOfPackage DEF Idle, JobStates, Ops
    <3>2. job' = [job EXCEPT ![i] = state] /\ cache[p] # "none" /\ p \in viaOpium'
      BY <2>4 DEF OpiumInstall
    <3>3. QED
      BY <3>1, <3>2
  <2>5. QED
    BY <2>1, <2>2, <2>3, <2>4
<1>3. QED
  BY <1>1, <1>2, JobStep

\* The next step of a job: it goes on with its package, or ends.
LEMMA GoOnStep ==
  ASSUME Inv, NEW i \in Jobs, NEW op \in Ops, NEW todo \in SUBSET Paths, job[i].op # "none",
         \/ job' = [job EXCEPT ![i].op = op, ![i].todo = todo]
         \/ job' = [job EXCEPT ![i].op = op]
         \/ job[i].op = op /\ job' = [job EXCEPT ![i].todo = todo]
         \/ End(i),
         cache' = cache, viaOpium' = viaOpium,
         op = "extract" => job[i].op = "extract"
  PROVE  job' \in [Jobs -> JobStates] /\ Control'
<1>1. job[i] \in JobStates /\ job[i].pkg \in Packages
  BY JobTypes DEF Inv, Control
<1>2. CASE End(i)
  <2>1. job' = [job EXCEPT ![i] = Idle] /\ Idle.op = "none"
    BY <1>2 DEF End, Idle
  <2>2. QED
    BY <2>1, IdleType, JobStep
<1>3. CASE ~End(i)
  <2>1. PICK state \in JobStates :
          job' = [job EXCEPT ![i] = state] /\ state.pkg = job[i].pkg /\ state.make = job[i].make /\ state.op = op
    <3> DEFINE goto == [job[i] EXCEPT !.op = op]
               rest == [job[i] EXCEPT !.todo = todo]
               both == [job[i] EXCEPT !.op = op, !.todo = todo]
    <3>1. goto \in JobStates /\ goto.pkg = job[i].pkg /\ goto.make = job[i].make /\ goto.op = op
      BY <1>1 DEF JobStates
    <3>2. rest \in JobStates /\ rest.pkg = job[i].pkg /\ rest.make = job[i].make /\ rest.op = job[i].op
      BY <1>1 DEF JobStates
    <3>3. both \in JobStates /\ both.pkg = job[i].pkg /\ both.make = job[i].make /\ both.op = op
      BY <1>1 DEF JobStates
    <3>4. \/ job' = [job EXCEPT ![i] = both]
          \/ job' = [job EXCEPT ![i] = goto]
          \/ job[i].op = op /\ job' = [job EXCEPT ![i] = rest]
      BY <1>3
    <3>5. QED
      BY <3>1, <3>2, <3>3, <3>4
  <2>2. op = "extract" => cache[job[i].pkg] # "none" /\ job[i].pkg \in viaOpium'
    BY DEF Inv, Control
  <2>3. QED
    BY <1>1, <2>1, <2>2, JobStep
<1>4. QED
  BY <1>2, <1>3

\* What is under way at the side of the jobs, and what OPIUM does at once.
LEMMA AsideStep ==
  ASSUME Inv,
         \/ \E p \in Packages : StartHarvest(p) \/ EndHarvest(p)
         \/ \E i \in Jobs : OpiumUpdate(i)
         \/ \E i \in Jobs, p \in Packages : OpiumRemove(i, p)
         \/ UNCHANGED vars
  PROVE  job' \in [Jobs -> JobStates] /\ Control'
<1>1. job' = job /\ viaOpium \subseteq viaOpium'
  BY DEF StartHarvest, EndHarvest, OpiumUpdate, OpiumRemove, vars, disk, history
<1>2. \A q \in Packages : cache'[q] = cache[q] \/ cache'[q] \in {"partial", "harvested"}
  <2>1. ASSUME NEW p \in Packages, StartHarvest(p) \/ EndHarvest(p)
        PROVE  \A q \in Packages : cache'[q] = cache[q] \/ cache'[q] \in {"partial", "harvested"}
    BY <2>1 DEF StartHarvest, EndHarvest, Inv, TypeOK
  <2>2. CASE \E i \in Jobs : OpiumUpdate(i) \/ \E p \in Packages : OpiumRemove(i, p)
    BY <2>2 DEF OpiumUpdate, OpiumRemove
  <2>3. CASE UNCHANGED vars
    BY <2>3 DEF vars, disk
  <2>4. QED
    BY <2>1, <2>2, <2>3
<1>3. Control'
  <2> SUFFICES ASSUME NEW i \in Jobs
      PROVE  /\ job[i].op # "none" => job[i].pkg \in Packages
             /\ job[i].op = "extract" => cache'[job[i].pkg] # "none" /\ job[i].pkg \in viaOpium'
    BY <1>1 DEF Control
  <2>1. /\ job[i].op # "none" => job[i].pkg \in Packages
        /\ job[i].op = "extract" => cache[job[i].pkg] # "none" /\ job[i].pkg \in viaOpium
    BY DEF Inv, Control
  <2>2. QED
    BY <1>1, <1>2, <2>1
<1>4. QED
  BY <1>1, <1>3, JobTypes DEF Inv

\* Every step keeps the control.
LEMMA ControlStep == Inv /\ [Next]_vars => job' \in [Jobs -> JobStates] /\ Control'
<1> SUFFICES ASSUME Inv, [Next]_vars PROVE job' \in [Jobs -> JobStates] /\ Control'
  OBVIOUS
<1> DEFINE Goal == job' \in [Jobs -> JobStates] /\ Control'
<1> USE DEF disk, history, At, Goto, Done, GiveUp, Unstage
<1>1. ASSUME NEW i \in Jobs, Install(i) \/ Remove(i) \/ Opium(i) \/ Crash(i) PROVE Goal
  <2>1. job[i].op \in Ops /\ job[i].todo \in SUBSET Paths
    <3>1. job[i] \in JobStates
      BY JobTypes DEF Inv
    <3>2. QED
      BY <3>1 DEF JobStates
  <2>2. ASSUME \/ Report(i) \/ MoveFails(i) \/ WriteRecordFails(i) \/ RetainManifest(i)
               \/ PurgeConfig(i) \/ PurgeFails(i) \/ Crash(i) \/ ExtractFails(i) \/ OpiumRecord(i)
               \/ \E f \in Paths : CopyFails(i, f) \/ ExtractCut(i, f)
        PROVE  Goal
    <3>1. job[i].op # "none" /\ End(i) /\ UNCHANGED <<cache, viaOpium>>
      BY <2>2 DEF Report, MoveFails, WriteRecordFails, RetainManifest, PurgeConfig, PurgeFails, Wipe, Crash,
                  ExtractFails, OpiumRecord, CopyFails, ExtractCut
    <3>2. QED
      BY <2>1, <3>1, GoOnStep
  <2>3. CASE \/ CheckConflicts(i) \/ Stage(i) \/ Verify(i) \/ Moved(i) \/ WriteRecord(i)
             \/ CheckDependents(i) \/ Unrecord(i) \/ Unretain(i) \/ UnretainFails(i)
    <3> DEFINE Later == {"stage", "verify", "pre_install", "record", "retain", "pre_remove", "unretain", "purge"}
    <3>1. /\ job[i].op # "none" /\ UNCHANGED <<cache, viaOpium>>
          /\ End(i) \/ \E op \in Later : Goto(i, op)
      BY <2>3 DEF CheckConflicts, Stage, Verify, Moved, WriteRecord, CheckDependents, Unrecord, Unretain, UnretainFails
    <3>2. CASE End(i)
      BY <2>1, <3>1, <3>2, GoOnStep
    <3>3. ASSUME NEW op \in Later, Goto(i, op) PROVE Goal
      BY <2>1, <3>1, <3>3, GoOnStep DEF Ops
    <3>4. QED
      BY <3>1, <3>2, <3>3
  <2>4. CASE \E f \in Paths : Move(i, f) \/ Delete(i, f) \/ DeleteFails(i, f) \/ Extract(i, f)
    <3>1. PICK f \in Paths : job[i].op # "none" /\ Done(i, f) /\ UNCHANGED <<cache, viaOpium>>
      BY <2>4 DEF Move, Delete, DeleteFails, Extract
    <3>2. job' = [job EXCEPT ![i].todo = job[i].todo \ {f}]
      BY <3>1, JobTypes DEF Inv
    <3>3. job[i].todo \ {f} \in SUBSET Paths
      BY <2>1
    <3>4. QED
      BY <2>1, <3>1, <3>2, <3>3, GoOnStep
  <2>5. CASE PreInstall(i) \/ PreRemove(i)
    <3>1. job[i].pkg \in Packages
      BY <2>5 DEF PreInstall, PreRemove, Inv, Control
    <3>2. Entries(job[i].pkg) \in SUBSET Paths /\ RecordedFiles(job[i].pkg) \in SUBSET Paths
      BY <3>1, PathsOfPackage DEF RecordedFiles
    <3>3. /\ job[i].op # "none" /\ cache' = cache /\ viaOpium' = viaOpium
          /\ \/ End(i)
             \/ job' = [job EXCEPT ![i].op = "move", ![i].todo = Entries(job[i].pkg)]
             \/ job' = [job EXCEPT ![i].op = "delete", ![i].todo = RecordedFiles(job[i].pkg)]
      BY <2>5 DEF PreInstall, PreRemove
    <3>4. CASE End(i)
      BY <2>1, <3>3, <3>4, GoOnStep
    <3>5. CASE job' = [job EXCEPT ![i].op = "move", ![i].todo = Entries(job[i].pkg)]
      BY <3>2, <3>3, <3>5, GoOnStep DEF Ops
    <3>6. CASE job' = [job EXCEPT ![i].op = "delete", ![i].todo = RecordedFiles(job[i].pkg)]
      BY <3>2, <3>3, <3>6, GoOnStep DEF Ops
    <3>7. QED
      BY <3>3, <3>4, <3>5, <3>6
  <2>6. CASE \/ \E p \in Packages, force \in BOOLEAN : StartInstall(i, p, force)
             \/ \E p \in Packages : RefuseUnreadable(i, p) \/ OpiumInstall(i, p)
             \/ \E p \in Packages, force, purge \in BOOLEAN : StartRemove(i, p, force, purge)
    BY <2>6, StartStep
  <2>7. CASE OpiumUpdate(i) \/ \E p \in Packages : OpiumRemove(i, p)
    BY <2>7, AsideStep
  <2>8. QED
    BY <1>1, <2>2, <2>3, <2>4, <2>5, <2>6, <2>7 DEF Install, Remove, Opium
<1>2. CASE (\E p \in Packages : StartHarvest(p) \/ EndHarvest(p)) \/ UNCHANGED vars
  BY <1>2, AsideStep
<1>3. QED
  BY <1>1, <1>2 DEF Next

-----------------------------------------------------------------------------
(* The disk.                                                               *)

\* Every step keeps the types.
LEMMA TypeStep == Inv /\ [Next]_vars => TypeOK'
<1> SUFFICES ASSUME Inv, [Next]_vars PROVE TypeOK'
  OBVIOUS
<1> DEFINE Disk ==
      /\ cache' \in [Packages -> Archives]
      /\ root' \in [Paths -> Contents \cup {None}]
      /\ record' \in [Packages -> {"none", "bare", "listed"}]
      /\ manifest' \in [Packages -> Makes \cup {None}]
      /\ staged' \in [Packages -> Makes \cup {None}]
      /\ index' \subseteq Packages \X {"record", "manifest"}
      /\ runs' \in 0..MaxRuns
      /\ broken' \subseteq Packages /\ disputed' \subseteq Packages /\ viaOpium' \subseteq Packages
<1> USE PackagesAssumption DEF disk, history, Begin, GiveUp, Unstage, Inv, TypeOK
<1>1. ASSUME NEW i \in Jobs, Install(i) \/ Remove(i) \/ Opium(i) \/ Crash(i) PROVE Disk
  <2>1. job[i] \in JobStates /\ (job[i].op # "none" => job[i].pkg \in Packages)
    BY JobTypes DEF Control
  <2>2. job[i].make \in Makes \cup {None} /\ job[i].todo \subseteq Paths
    BY <2>1 DEF JobStates
  <2>3. ASSUME NEW p \in Packages,
               \/ \E force \in BOOLEAN : StartInstall(i, p, force)
               \/ RefuseUnreadable(i, p) \/ OpiumInstall(i, p) \/ OpiumRemove(i, p)
               \/ \E force, purge \in BOOLEAN : StartRemove(i, p, force, purge)
        PROVE  Disk
    <3>1. Begin(i) => runs' \in 0..MaxRuns
      OBVIOUS
    <3>2. CASE \E force \in BOOLEAN : StartInstall(i, p, force)
      BY <3>1, <3>2 DEF StartInstall
    <3>3. CASE RefuseUnreadable(i, p)
      BY <3>1, <3>3 DEF RefuseUnreadable
    <3>4. CASE OpiumInstall(i, p)
      BY <3>1, <3>4 DEF OpiumInstall
    <3>5. CASE OpiumRemove(i, p)
      BY <3>1, <3>5 DEF OpiumRemove
    <3>6. CASE \E force, purge \in BOOLEAN : StartRemove(i, p, force, purge)
      BY <3>1, <3>6 DEF StartRemove
    <3>7. QED
      BY <2>3, <3>2, <3>3, <3>4, <3>5, <3>6
  <2>4. CASE Report(i) \/ CheckConflicts(i) \/ CheckDependents(i) \/ PreRemove(i)
    BY <2>4 DEF Report, CheckConflicts, CheckDependents, PreRemove
  <2>5. CASE Stage(i) \/ Verify(i) \/ PreInstall(i) \/ Moved(i)
    BY <2>5 DEF Stage, Verify, PreInstall, Moved
  <2>6. CASE MoveFails(i) \/ WriteRecordFails(i) \/ UnretainFails(i) \/ ExtractFails(i) \/ Crash(i)
    BY <2>1, <2>6 DEF MoveFails, WriteRecordFails, UnretainFails, ExtractFails, Crash, At, Touched
  <2>7. CASE WriteRecord(i) \/ Unrecord(i) \/ OpiumRecord(i)
    BY <2>7 DEF WriteRecord, Unrecord, OpiumRecord
  <2>8. CASE RetainManifest(i) \/ Unretain(i)
    BY <2>2, <2>8 DEF RetainManifest, Unretain
  <2>9. CASE PurgeConfig(i) \/ PurgeFails(i)
    <3>1. job[i].pkg \in Packages
      BY <2>1, <2>9 DEF PurgeConfig, PurgeFails, At
    <3>2. PICK S : Wipe(i, S)
      BY <2>9 DEF PurgeConfig, PurgeFails
    <3>3. /\ root' \in [Paths -> Contents \cup {None}] /\ disputed' \subseteq Packages
          /\ UNCHANGED <<cache, record, manifest, staged, index, runs, viaOpium>>
      BY <3>1, <3>2 DEF Wipe
    <3>4. broken' \subseteq Packages
      BY <2>9, <3>1 DEF PurgeConfig, PurgeFails
    <3>5. QED
      BY <3>3, <3>4
  <2>10. ASSUME NEW f \in Paths, Delete(i, f) \/ DeleteFails(i, f) PROVE Disk
    BY <2>1, <2>10 DEF Delete, DeleteFails, At
  <2>14. ASSUME NEW f \in Paths, Move(i, f) \/ CopyFails(i, f) \/ ExtractCut(i, f) PROVE Disk
    <3> DEFINE p == job[i].pkg
    <3>1. p \in Packages
      BY <2>1, <2>14 DEF Move, CopyFails, ExtractCut, At
    <3>2. Over(i, f) \subseteq Packages /\ [package |-> p, make |-> "cut"] \in Contents
      BY <3>1 DEF Over, Contents
    <3>3. CASE Move(i, f)
      <4>1. staged[p] \in Makes
        BY <3>1, <3>3 DEF Move
      <4>2. [package |-> p, make |-> FileMake(p, staged[p], f)] \in Contents
        BY <3>1, <4>1, FileMakeType DEF Contents
      <4>3. QED
        BY <3>2, <3>3, <4>2 DEF Move
    <3>4. CASE CopyFails(i, f)
      BY <3>1, <3>2, <3>4 DEF CopyFails
    <3>5. CASE ExtractCut(i, f)
      BY <3>1, <3>2, <3>5 DEF ExtractCut, At
    <3>6. QED
      BY <2>14, <3>3, <3>4, <3>5
  <2>11. ASSUME NEW f \in Paths, Extract(i, f) PROVE Disk
    <3>1. job[i].pkg \in Packages /\ cache[job[i].pkg] # "none"
      BY <2>1, <2>11 DEF Extract, At, Control
    <3>2. (IF cache[job[i].pkg] = "partial" THEN "harvested" ELSE FileMake(job[i].pkg, cache[job[i].pkg], f)) \in Makes
      <4>1. cache[job[i].pkg] # "partial" => cache[job[i].pkg] \in Makes
        BY <3>1 DEF Archives
      <4>2. QED
        BY <4>1, FileMakeType DEF Makes
    <3>3. QED
      BY <2>11, <3>1, <3>2 DEF Extract, Contents
  <2>12. CASE OpiumUpdate(i)
    BY <2>12 DEF OpiumUpdate, Listing
  <2>13. QED
    BY <1>1, <2>3, <2>4, <2>5, <2>6, <2>7, <2>8, <2>9, <2>10, <2>11, <2>12, <2>14 DEF Install, Remove, Opium
<1>2. CASE (\E p \in Packages : StartHarvest(p) \/ EndHarvest(p)) \/ UNCHANGED vars
  BY <1>2 DEF StartHarvest, EndHarvest, vars, Archives, Makes
<1>3. Disk
  BY <1>1, <1>2 DEF Next
<1>4. job' \in [Jobs -> JobStates]
  BY ControlStep
<1>5. QED
  BY <1>3, <1>4 DEF JobStates

-----------------------------------------------------------------------------
LEMMA InitInv == Init => Inv
<1> SUFFICES ASSUME Init PROVE Inv
  OBVIOUS
<1>1. TypeOK
  BY PackagesAssumption, IdleType DEF Init, TypeOK, JobStates
<1>2. Control
  BY DEF Init, Control, Idle
<1>3. QED
  BY <1>1, <1>2 DEF Inv

LEMMA Invariance == Spec => []Inv
<1>1. Inv /\ [Next]_vars => Inv'
  BY TypeStep, ControlStep DEF Inv
<1>2. QED
  BY InitInv, <1>1, PTL DEF Spec

\* The disk and the jobs keep their types, for any number of packages and of
\* runs of Harvester and OPIUM side by side, which empty and fill one staging
\* directory under each other.
THEOREM TypeCorrect == Spec => []TypeOK
<1>1. Inv => TypeOK
  BY DEF Inv
<1>2. QED
  BY <1>1, Invariance, PTL
=============================================================================
