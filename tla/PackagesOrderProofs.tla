------------------------ MODULE PackagesOrderProofs ------------------------
(***************************************************************************)
(* Proofs about Packages when jobs run one at a time, for any packages and *)
(* files and any number of runs.                                           *)
(***************************************************************************)
EXTENDS PackagesProofs

OneJob == \A i, j \in Jobs : i = j

Unrecorded == {"check", "stage", "verify", "pre_install", "move", "record", "extract", "unretain", "purge"}
Installing == {"check", "stage", "verify", "pre_install", "move", "record", "retain"}
Removing == {"dependents", "pre_remove", "delete"}

InRoot(f, p) == root[f] # None /\ root[f].package = p
Own(f, p, make) == InRoot(f, p) /\ (f \in Checked[p] => root[f].make = make)
AsVerified(f, p) == Own(f, p, "authored")
Peaceful(f, p) == p \notin disputed \cup viaOpium /\ Undisputed(f, p)

-----------------------------------------------------------------------------
(* What a job rests on.                                                    *)

\* Whether its package is on record.
RecordedBy(i) ==
  LET p == job[i].pkg IN
    /\ job[i].op \in Unrecorded => record[p] = "none"
    /\ job[i].op = "retain" => record[p] = "listed"
    /\ job[i].op \in Removing => record[p] # "none"
    /\ job[i].op \in Installing => job[i].make = "authored"
    /\ job[i].op \in {"move", "extract", "delete"} => job[i].todo \subseteq Entries(p)

\* An installation finds its paths free unless it is forced, and leaves each of
\* them as it has verified it.
PlacedBy(i) ==
  LET p == job[i].pkg IN
    /\ job[i].op \in {"pre_install", "move"} => \A f \in Checked[p] : FileMake(p, staged[p], f) = "authored"
    /\ job[i].op \in {"stage", "verify", "pre_install"} /\ ~job[i].force => \A f \in Entries(p) : root[f] = None
    /\ job[i].op = "move" /\ ~job[i].force => \A f \in job[i].todo : root[f] = None
    /\ job[i].op = "move" => \A f \in Entries(p) \ job[i].todo : AsVerified(f, p)
    /\ job[i].op \in {"record", "retain"} => \A f \in Entries(p) : AsVerified(f, p)

\* A removal leaves no file that it has come to.
ClearedBy(i) ==
  LET p == job[i].pkg IN
    p \notin broken \cup viaOpium =>
      /\ job[i].op = "delete" => \A f \in Paths : InRoot(f, p) => f \in job[i].todo
      /\ job[i].op \in {"unretain", "purge"} => \A f \in Paths : ~InRoot(f, p)
      /\ job[i].op = "purge" => manifest[p] = None

\* What it has not come to yet is the package's own.
PendingBy(i) ==
  LET p == job[i].pkg IN
    job[i].op = "delete" => \A f \in job[i].todo \cap Files[p] : Peaceful(f, p) => InRoot(f, p)

\* Nothing settled depends on what it removes.
NeedlessBy(i) ==
  job[i].op \in {"pre_remove", "delete", "unretain", "purge"} /\ ~job[i].force =>
    \A q \in Packages \ {job[i].pkg} : Settled(q) => job[i].pkg \notin Depends[q]

Fit(i) == RecordedBy(i) /\ PlacedBy(i) /\ ClearedBy(i) /\ PendingBy(i) /\ NeedlessBy(i)

-----------------------------------------------------------------------------
(* What holds of a package whatever goes on.                               *)

\* The files in the root are on the list of their package, and a record without
\* a list is OPIUM's or was cut off.
Sane ==
  /\ \A f \in Paths : root[f] # None => f \in Entries(root[f].package)
  /\ \A p \in Packages : record[p] = "bare" => p \in broken \cup viaOpium

\* RecordIntact and NoStray of one package, and what they rest on: a settled
\* package has its manifest, which find_dependents goes by, and what a record
\* lists is the package's own also when a job stopped half way.
Calm(p) ==
  /\ Settled(p) => manifest[p] # None
  /\ Settled(p) =>
       \A f \in Files[p] : Undisputed(f, p) => Own(f, p, manifest[p])
  /\ p \notin broken \cup viaOpium /\ record[p] = "none" /\ ~Active(p) =>
       manifest[p] = None /\ \A f \in Paths : root[f] # None => root[f].package # p
  /\ record[p] = "listed" /\ ~Active(p) => \A f \in Files[p] : Peaceful(f, p) => InRoot(f, p)

Orderly == OneJob /\ Inv /\ Verified /\ (\A i \in Jobs : Fit(i)) /\ Sane /\ \A p \in Packages : Calm(p)

-----------------------------------------------------------------------------
(* One job.                                                                *)

\* Only its package is active.
LEMMA ActiveOnly ==
  ASSUME OneJob, NEW i \in Jobs, NEW p
  PROVE  /\ Active(p) <=> job[i].pkg = p /\ job[i].op \in Touched
         /\ Active(p)' <=> job'[i].pkg = p /\ job'[i].op \in Touched
BY DEF OneJob, Active

\* How the steps leave it.
LEMMA WentTo ==
  ASSUME Inv, NEW i \in Jobs, NEW op, Goto(i, op)
  PROVE  /\ job'[i].op = op /\ job'[i].pkg = job[i].pkg /\ job'[i].force = job[i].force
         /\ job'[i].purge = job[i].purge /\ job'[i].make = job[i].make /\ job'[i].todo = job[i].todo
<1>1. job[i] \in JobStates /\ job'[i] = [job[i] EXCEPT !.op = op]
  BY JobTypes DEF Inv, Goto
<1>2. QED
  BY <1>1 DEF JobStates

LEMMA Ended ==
  ASSUME Inv, NEW i \in Jobs, End(i)
  PROVE  job'[i].op = "none" /\ job'[i].pkg = None
BY JobTypes DEF Inv, End, Idle

LEMMA DidOne ==
  ASSUME Inv, NEW i \in Jobs, NEW f, Done(i, f)
  PROVE  /\ job'[i].op = job[i].op /\ job'[i].pkg = job[i].pkg /\ job'[i].force = job[i].force
         /\ job'[i].purge = job[i].purge /\ job'[i].make = job[i].make /\ job'[i].todo = job[i].todo \ {f}
<1>1. job[i] \in JobStates /\ job'[i] = [job[i] EXCEPT !.todo = @ \ {f}]
  BY JobTypes DEF Inv, Done
<1>2. QED
  BY <1>1 DEF JobStates

LEMMA SetOut ==
  ASSUME Inv, NEW i \in Jobs, NEW op \in Ops, NEW todo \in SUBSET Paths,
         job' = [job EXCEPT ![i].op = op, ![i].todo = todo]
  PROVE  /\ job'[i].op = op /\ job'[i].pkg = job[i].pkg /\ job'[i].force = job[i].force
         /\ job'[i].purge = job[i].purge /\ job'[i].make = job[i].make /\ job'[i].todo = todo
<1>1. job \in [Jobs -> JobStates] /\ job[i] \in JobStates
  BY JobTypes DEF Inv
<1> DEFINE state == [job[i] EXCEPT !.op = op, !.todo = todo]
<1>2. job' = [job EXCEPT ![i] = state]
  BY <1>1
<1>3. job'[i] = state
  BY <1>1, <1>2
<1>4. QED
  BY <1>1, <1>3 DEF JobStates

\* Where there is no job nothing is asked of it.
LEMMA NoJobFit ==
  ASSUME NEW i \in Jobs, job'[i].op \in {"none", "unreadable"} PROVE Fit(i)'
BY DEF Fit, RecordedBy, PlacedBy, ClearedBy, PendingBy, NeedlessBy, Unrecorded, Installing, Removing

\* Other packages are settled after a step only if they were before.
LEMMA SettledBefore ==
  ASSUME OneJob, NEW i \in Jobs, NEW q, q # job[i].pkg, q # job'[i].pkg,
         record'[q] = record[q], q \in broken => q \in broken', Settled(q)'
  PROVE  Settled(q)
BY ActiveOnly DEF Settled

-----------------------------------------------------------------------------
(* Installation.                                                           *)

\* Until the files are moved the root and the database stay as they are.
LEMMA StartFit ==
  ASSUME Orderly, NEW i \in Jobs, NEW p \in Packages, NEW force \in BOOLEAN, NEW purge \in BOOLEAN,
         \/ StartInstall(i, p, force) \/ RefuseUnreadable(i, p) \/ StartRemove(i, p, force, purge)
         \/ OpiumInstall(i, p)
  PROVE  Fit(i)' /\ job[i].op = "none" /\ job'[i].op \notin Touched \ {"extract"} /\ job'[i].pkg = p
<1> USE DEF Begin, At, disk, IsInstalled, Touched
<1>1. job \in [Jobs -> JobStates]
  BY JobTypes DEF Orderly, Inv
<1>2. CASE StartInstall(i, p, force)
  <2> DEFINE state == [Idle EXCEPT !.op = "check", !.pkg = p, !.force = force, !.make = Described(cache[p])]
  <2>1. job'[i] = state /\ record'[p] = record[p] /\ record[p] = "none" /\ job[i].op = "none"
    BY <1>1, <1>2 DEF StartInstall
  <2>2. Described(cache[p]) = "authored"
    BY <1>2 DEF StartInstall, Described
  <2>3. job'[i].op = "check" /\ job'[i].pkg = p /\ job'[i].make = "authored"
    BY <2>1, <2>2 DEF Idle
  <2>4. Fit(i)'
    BY <2>1, <2>3
    DEF Fit, RecordedBy, PlacedBy, ClearedBy, PendingBy, NeedlessBy, Unrecorded, Installing, Removing
  <2>5. QED
    BY <2>1, <2>3, <2>4
<1>3. CASE RefuseUnreadable(i, p)
  <2> DEFINE state == [Idle EXCEPT !.op = "unreadable", !.pkg = p, !.make = IF cache[p] = "partial" THEN None ELSE cache[p]]
  <2>1. job'[i] = state /\ job[i].op = "none"
    BY <1>1, <1>3 DEF RefuseUnreadable
  <2>2. job'[i].op = "unreadable" /\ job'[i].pkg = p
    BY <2>1 DEF Idle
  <2>3. QED
    BY <2>1, <2>2, NoJobFit
<1>4. CASE StartRemove(i, p, force, purge)
  <2> DEFINE state == [Idle EXCEPT !.op = "dependents", !.pkg = p, !.force = force, !.purge = purge]
  <2>1. job'[i] = state /\ record'[p] = record[p] /\ record[p] # "none" /\ job[i].op = "none"
    BY <1>1, <1>4 DEF StartRemove
  <2>2. job'[i].op = "dependents" /\ job'[i].pkg = p
    BY <2>1 DEF Idle
  <2>3. Fit(i)'
    BY <2>1, <2>2
    DEF Fit, RecordedBy, PlacedBy, ClearedBy, PendingBy, NeedlessBy, Unrecorded, Installing, Removing
  <2>4. QED
    BY <2>1, <2>2, <2>3
<1>5. CASE OpiumInstall(i, p)
  <2> DEFINE state == [Idle EXCEPT !.op = "extract", !.pkg = p, !.todo = Entries(p)]
  <2>1. job'[i] = state /\ record'[p] = record[p] /\ record[p] = "none" /\ job[i].op = "none"
    BY <1>1, <1>5 DEF OpiumInstall
  <2>2. job'[i].op = "extract" /\ job'[i].pkg = p /\ job'[i].todo = Entries(p)
    BY <2>1 DEF Idle
  <2>3. Fit(i)'
    BY <2>1, <2>2
    DEF Fit, RecordedBy, PlacedBy, ClearedBy, PendingBy, NeedlessBy, Unrecorded, Installing, Removing
  <2>4. QED
    BY <2>1, <2>2, <2>3
<1>6. QED
  BY <1>2, <1>3, <1>4, <1>5

\* The steps up to the move, if they go on.
LEMMA PrepareFit ==
  ASSUME Orderly, NEW i \in Jobs, CheckConflicts(i) \/ Stage(i) \/ Verify(i) \/ PreInstall(i)
  PROVE  Fit(i)'
<1> DEFINE p == job[i].pkg
<1> USE DEF Orderly, At, disk, Unstage
<1>1. CASE End(i)
  BY <1>1, Ended, NoJobFit
<1>2. job[i].op # "none" /\ p \in Packages /\ UNCHANGED <<root, record>>
  BY DEF CheckConflicts, Stage, Verify, PreInstall, Inv, Control
<1>3. RecordedBy(i) /\ PlacedBy(i)
  BY DEF Fit
<1>4. CASE CheckConflicts(i) /\ ~End(i)
  <2>1. job[i].op = "check" /\ Goto(i, "stage") /\ (job[i].force \/ \A f \in Entries(p) : root[f] = None)
    BY <1>4 DEF CheckConflicts
  <2>2. /\ job'[i].op = "stage" /\ job'[i].pkg = p /\ job'[i].force = job[i].force /\ job'[i].make = job[i].make
    BY <2>1, WentTo
  <2>3. RecordedBy(i)'
    BY <1>2, <1>3, <2>1, <2>2 DEF RecordedBy, Unrecorded, Installing, Removing
  <2>4. PlacedBy(i)'
    BY <1>2, <2>1, <2>2 DEF PlacedBy
  <2>5. QED
    BY <2>2, <2>3, <2>4 DEF Fit, ClearedBy, PendingBy, NeedlessBy
<1>5. CASE Stage(i) /\ ~End(i)
  <2>1. job[i].op = "stage" /\ Goto(i, "verify")
    BY <1>5 DEF Stage
  <2>2. /\ job'[i].op = "verify" /\ job'[i].pkg = p /\ job'[i].force = job[i].force /\ job'[i].make = job[i].make
    BY <2>1, WentTo
  <2>3. RecordedBy(i)'
    BY <1>2, <1>3, <2>1, <2>2 DEF RecordedBy, Unrecorded, Installing, Removing
  <2>4. PlacedBy(i)'
    BY <1>2, <1>3, <2>1, <2>2 DEF PlacedBy
  <2>5. QED
    BY <2>2, <2>3, <2>4 DEF Fit, ClearedBy, PendingBy, NeedlessBy
<1>6. CASE Verify(i) /\ ~End(i)
  <2>1. /\ job[i].op = "verify" /\ Goto(i, "pre_install") /\ staged' = staged
        /\ \A f \in Checked[p] : FileMake(p, staged[p], f) = job[i].make
    BY <1>6 DEF Verify
  <2>2. /\ job'[i].op = "pre_install" /\ job'[i].pkg = p /\ job'[i].force = job[i].force /\ job'[i].make = job[i].make
    BY <2>1, WentTo
  <2>3. RecordedBy(i)' /\ job[i].make = "authored"
    BY <1>2, <1>3, <2>1, <2>2 DEF RecordedBy, Unrecorded, Installing, Removing
  <2>4. PlacedBy(i)'
    BY <1>2, <1>3, <2>1, <2>2, <2>3 DEF PlacedBy
  <2>5. QED
    BY <2>2, <2>3, <2>4 DEF Fit, ClearedBy, PendingBy, NeedlessBy
<1>7. CASE PreInstall(i) /\ ~End(i)
  <2>1. job[i].op = "pre_install" /\ staged' = staged
    BY <1>7 DEF PreInstall
  <2>6. job' = [job EXCEPT ![i].op = "move", ![i].todo = Entries(job[i].pkg)]
    BY <1>7, Zenon DEF PreInstall
  <2>2. /\ job'[i].op = "move" /\ job'[i].pkg = p /\ job'[i].force = job[i].force /\ job'[i].make = job[i].make
        /\ job'[i].todo = Entries(p)
    <3>1. Entries(job[i].pkg) \in SUBSET Paths /\ "move" \in Ops
      BY <1>2, PathsOfPackage DEF Ops
    <3>2. Inv
      OBVIOUS
    <3> HIDE DEF Orderly, p
    <3>3. QED
      BY <2>6, <3>1, <3>2, SetOut DEF p
  <2>3. RecordedBy(i)'
    BY <1>2, <1>3, <2>1, <2>2 DEF RecordedBy, Unrecorded, Installing, Removing
  <2>4. PlacedBy(i)'
    BY <1>2, <1>3, <2>1, <2>2 DEF PlacedBy
  <2>5. QED
    BY <2>2, <2>3, <2>4 DEF Fit, ClearedBy, PendingBy, NeedlessBy
<1>8. QED
  BY <1>1, <1>4, <1>5, <1>6, <1>7

\* The move, and the record of it.
LEMMA MoveFit ==
  ASSUME Orderly, NEW i \in Jobs, Moved(i) \/ WriteRecord(i) \/ \E f \in Paths : Move(i, f)
  PROVE  Fit(i)'
<1> DEFINE p == job[i].pkg
<1> USE DEF Orderly, At
<1>1. job[i].op # "none" /\ p \in Packages
  BY DEF Move, Moved, WriteRecord, Inv, Control
<1>2. RecordedBy(i) /\ PlacedBy(i)
  BY DEF Fit
<1>3. ASSUME NEW f \in Paths, Move(i, f) PROVE Fit(i)'
  <2>1. /\ job[i].op = "move" /\ Done(i, f) /\ f \in job[i].todo
        /\ root' = [root EXCEPT ![f] = [package |-> p, make |-> FileMake(p, staged[p], f)]]
        /\ staged[p] # None /\ UNCHANGED <<record, staged>>
    BY <1>3 DEF Move
  <2>2. /\ job'[i].op = "move" /\ job'[i].pkg = p /\ job'[i].force = job[i].force /\ job'[i].make = job[i].make
        /\ job'[i].todo = job[i].todo \ {f}
    BY <2>1, DidOne
  <2>3. /\ \A g \in Checked[p] : FileMake(p, staged[p], g) = "authored"
        /\ job[i].todo \subseteq Entries(p)
    BY <1>2, <2>1 DEF PlacedBy, RecordedBy
  <2>4. RecordedBy(i)'
    BY <1>2, <2>1, <2>2, <2>3 DEF RecordedBy, Unrecorded, Installing, Removing
  <2>5. /\ AsVerified(f, p)'
        /\ \A g \in Paths \ {f} : root'[g] = root[g]
    <3> DEFINE contents == [package |-> p, make |-> FileMake(p, staged[p], f)]
    <3>1. staged[p] \in Makes
      BY <1>1, <2>1 DEF Inv, TypeOK
    <3>2. contents \in Contents
      BY <1>1, <3>1, FileMakeType DEF Contents
    <3>3. contents # None
      BY <3>2, PackagesAssumption
    <3>4. root'[f] = contents /\ \A g \in Paths \ {f} : root'[g] = root[g]
      BY <2>1 DEF Inv, TypeOK
    <3>5. QED
      BY <2>2, <2>3, <3>3, <3>4 DEF AsVerified, Own, InRoot
  <2>6. Entries(p) \subseteq Paths
    BY <1>1, PathsOfPackage
  <2>7. PlacedBy(i)'
    <3>1. \A g \in Paths \ {f} : AsVerified(g, p) => AsVerified(g, p)'
      BY <2>2, <2>5 DEF AsVerified, Own, InRoot
    <3>2. QED
      BY <1>2, <2>1, <2>2, <2>3, <2>5, <2>6, <3>1 DEF PlacedBy
  <2>8. QED
    BY <2>2, <2>4, <2>7 DEF Fit, ClearedBy, PendingBy, NeedlessBy
<1>4. CASE Moved(i)
  <2>1. job[i].op = "move" /\ Goto(i, "record") /\ job[i].todo = {} /\ UNCHANGED <<root, record>>
    BY <1>4 DEF Moved
  <2>2. /\ job'[i].op = "record" /\ job'[i].pkg = p /\ job'[i].force = job[i].force /\ job'[i].make = job[i].make
    BY <2>1, WentTo
  <2>3. RecordedBy(i)'
    BY <1>2, <2>1, <2>2 DEF RecordedBy, Unrecorded, Installing, Removing
  <2>4. PlacedBy(i)'
    BY <1>2, <2>1, <2>2 DEF PlacedBy, AsVerified, Own, InRoot
  <2>5. QED
    BY <2>2, <2>3, <2>4 DEF Fit, ClearedBy, PendingBy, NeedlessBy
<1>5. CASE WriteRecord(i)
  <2>1. job[i].op = "record" /\ Goto(i, "retain") /\ root' = root /\ record' = [record EXCEPT ![p] = "listed"]
    BY <1>5 DEF WriteRecord
  <2>2. /\ job'[i].op = "retain" /\ job'[i].pkg = p /\ job'[i].force = job[i].force /\ job'[i].make = job[i].make
    BY <2>1, WentTo
  <2>3. record'[p] = "listed"
    BY <1>1, <2>1 DEF Inv, TypeOK
  <2>4. RecordedBy(i)'
    BY <1>2, <2>1, <2>2, <2>3 DEF RecordedBy, Unrecorded, Installing, Removing
  <2>5. PlacedBy(i)'
    BY <1>2, <2>1, <2>2 DEF PlacedBy, AsVerified, Own, InRoot
  <2>6. QED
    BY <2>2, <2>4, <2>5 DEF Fit, ClearedBy, PendingBy, NeedlessBy
<1>6. QED
  BY <1>3, <1>4, <1>5

-----------------------------------------------------------------------------
(* Removal, and OPIUM.                                                     *)

\* A step that leaves other packages alone leaves a removal needless.
LEMMA StillNeedless ==
  ASSUME OneJob, NEW i \in Jobs, NeedlessBy(i),
         job[i].op \in {"pre_remove", "delete", "unretain", "purge"},
         job'[i].pkg = job[i].pkg, job'[i].force = job[i].force, broken \subseteq broken',
         \A q \in Packages \ {job[i].pkg} : record'[q] = record[q]
  PROVE  NeedlessBy(i)'
BY SettledBefore DEF NeedlessBy

\* The steps up to the first deletion.
LEMMA PreRemoveFit ==
  ASSUME Orderly, NEW i \in Jobs, CheckDependents(i) \/ PreRemove(i)
  PROVE  Fit(i)'
<1> DEFINE p == job[i].pkg
<1> USE DEF At, disk, history
<1>1. /\ job[i].op # "none" /\ UNCHANGED <<root, record, manifest, broken, disputed, viaOpium>>
      /\ Inv /\ OneJob /\ Sane /\ RecordedBy(i) /\ NeedlessBy(i) /\ \A q \in Packages : Calm(q)
  BY DEF CheckDependents, PreRemove, Orderly, Fit
<1>2. p \in Packages
  BY <1>1 DEF Inv, Control
<1>3. CASE End(i)
  BY <1>1, <1>3, Ended, NoJobFit
<1>4. CASE CheckDependents(i) /\ ~End(i)
  <2>1. job[i].op = "dependents" /\ Goto(i, "pre_remove") /\ (job[i].force \/ Dependents(p) = {})
    BY <1>4 DEF CheckDependents
  <2>2. /\ job'[i].op = "pre_remove" /\ job'[i].pkg = p /\ job'[i].force = job[i].force
    BY <1>1, <2>1, WentTo
  <2>3. RecordedBy(i)'
    BY <1>1, <2>1, <2>2 DEF RecordedBy, Unrecorded, Installing, Removing
  <2>4. ASSUME ~job[i].force, NEW q \in Packages \ {p}, Settled(q)' PROVE p \notin Depends[q]
    <3>1. Settled(q)
      BY <1>1, <2>2, <2>4, SettledBefore
    <3>2. manifest[q] # None
      BY <1>1, <3>1 DEF Calm
    <3>3. QED
      BY <2>1, <2>4, <3>2 DEF Dependents
  <2>5. NeedlessBy(i)'
    BY <2>2, <2>4 DEF NeedlessBy
  <2>6. QED
    BY <2>2, <2>3, <2>5 DEF Fit, PlacedBy, ClearedBy, PendingBy
<1>5. CASE PreRemove(i) /\ ~End(i)
  <2>1. job[i].op = "pre_remove" /\ job' = [job EXCEPT ![i].op = "delete", ![i].todo = RecordedFiles(job[i].pkg)]
    BY <1>5, Zenon DEF PreRemove
  <2>2. RecordedFiles(job[i].pkg) \subseteq Entries(p) /\ RecordedFiles(job[i].pkg) \in SUBSET Paths /\ "delete" \in Ops
    BY <1>2, PathsOfPackage DEF RecordedFiles, Ops
  <2>3. /\ job'[i].op = "delete" /\ job'[i].pkg = p /\ job'[i].force = job[i].force
        /\ job'[i].todo = RecordedFiles(p)
    BY <1>1, <2>1, <2>2, SetOut
  <2>4. RecordedBy(i)'
    BY <1>1, <2>1, <2>2, <2>3 DEF RecordedBy, Unrecorded, Installing, Removing
  <2>5. ASSUME p \notin broken \cup viaOpium, NEW f \in Paths, InRoot(f, p) PROVE f \in RecordedFiles(p)
    <3>1. record[p] # "none" /\ record[p] # "bare" /\ f \in Entries(p)
      BY <1>1, <1>2, <2>1, <2>5 DEF RecordedBy, Removing, Sane, InRoot
    <3>2. QED
      BY <1>1, <1>2, <3>1 DEF RecordedFiles, Inv, TypeOK
  <2>6. ClearedBy(i)'
    BY <1>1, <2>3, <2>5 DEF ClearedBy, InRoot
  <2>7. ASSUME NEW f \in RecordedFiles(p) \cap Files[p], Peaceful(f, p) PROVE InRoot(f, p)
    <3>1. record[p] = "listed" /\ ~Active(p)
      BY <1>1, <2>1, <2>7, ActiveOnly DEF RecordedFiles, Touched
    <3>2. QED
      BY <1>1, <1>2, <2>7, <3>1 DEF Calm
  <2>8. PendingBy(i)'
    BY <1>1, <2>3, <2>7 DEF PendingBy, InRoot, Peaceful, Undisputed
  <2>9. NeedlessBy(i)'
    BY <1>1, <2>1, <2>3, StillNeedless
  <2>10. QED
    BY <2>3, <2>4, <2>6, <2>8, <2>9 DEF Fit, PlacedBy
<1>6. QED
  BY <1>3, <1>4, <1>5

\* The deletions.
LEMMA DeleteFit ==
  ASSUME Orderly, NEW i \in Jobs, NEW f \in Paths, Delete(i, f) \/ DeleteFails(i, f)
  PROVE  Fit(i)'
<1> DEFINE p == job[i].pkg
<1> USE DEF At, disk
<1>1. Inv /\ OneJob /\ RecordedBy(i) /\ ClearedBy(i) /\ PendingBy(i) /\ NeedlessBy(i)
  BY DEF Orderly, Fit
<1>2. /\ job[i].op = "delete" /\ Done(i, f) /\ UNCHANGED <<record, disputed, viaOpium>>
      /\ broken \subseteq broken' /\ (root' = [root EXCEPT ![f] = None] \/ (root' = root /\ p \in broken'))
  BY DEF Delete, DeleteFails, history
<1>3. /\ job'[i].op = "delete" /\ job'[i].pkg = p /\ job'[i].force = job[i].force
      /\ job'[i].todo = job[i].todo \ {f}
  BY <1>1, <1>2, DidOne
<1>4. root'[f] = None \/ (root' = root /\ p \in broken')
  BY <1>1, <1>2 DEF Inv, TypeOK
<1>5. \A g \in Paths \ {f} : root'[g] = root[g]
  BY <1>1, <1>2 DEF Inv, TypeOK
<1>6. RecordedBy(i)'
  BY <1>1, <1>2, <1>3 DEF RecordedBy, Unrecorded, Installing, Removing
<1>7. ClearedBy(i)'
  BY <1>1, <1>2, <1>3, <1>4, <1>5 DEF ClearedBy, InRoot
<1>8. PendingBy(i)'
  <2>1. job[i].todo \subseteq Paths
    BY <1>1, JobTypes DEF Inv, JobStates
  <2>2. QED
    BY <1>1, <1>2, <1>3, <1>5, <2>1 DEF PendingBy, InRoot, Peaceful, Undisputed
<1>9. NeedlessBy(i)'
  BY <1>1, <1>2, <1>3, StillNeedless
<1>10. QED
  BY <1>3, <1>6, <1>7, <1>8, <1>9 DEF Fit, PlacedBy

\* The end of a removal.
LEMMA UnrecordFit ==
  ASSUME Orderly, NEW i \in Jobs, Unrecord(i) \/ Unretain(i) \/ UnretainFails(i)
  PROVE  Fit(i)'
<1> DEFINE p == job[i].pkg
<1> USE DEF At, disk, history
<1>1. Inv /\ OneJob /\ RecordedBy(i) /\ ClearedBy(i) /\ NeedlessBy(i)
  BY DEF Orderly, Fit
<1>2. job[i].op # "none" /\ root' = root /\ viaOpium' = viaOpium /\ broken \subseteq broken'
  BY DEF Unrecord, Unretain, UnretainFails
<1>3. p \in Packages
  BY <1>1, <1>2 DEF Inv, Control
<1>4. CASE End(i)
  BY <1>1, <1>4, Ended, NoJobFit
<1>5. CASE Unrecord(i) /\ ~End(i)
  <2>1. job[i].op = "delete" /\ Goto(i, "unretain") /\ job[i].todo = {} /\ record' = [record EXCEPT ![p] = "none"]
    BY <1>5 DEF Unrecord
  <2>2. job'[i].op = "unretain" /\ job'[i].pkg = p /\ job'[i].force = job[i].force
    BY <1>1, <2>1, WentTo
  <2>3. record'[p] = "none" /\ \A q \in Packages \ {p} : record'[q] = record[q]
    BY <1>1, <1>3, <2>1 DEF Inv, TypeOK
  <2>4. RecordedBy(i)'
    BY <2>2, <2>3 DEF RecordedBy, Unrecorded, Installing, Removing
  <2>5. ClearedBy(i)'
    BY <1>1, <1>2, <2>1, <2>2 DEF ClearedBy, InRoot
  <2>6. NeedlessBy(i)'
    BY <1>1, <1>2, <2>1, <2>2, <2>3, StillNeedless
  <2>7. QED
    BY <2>2, <2>4, <2>5, <2>6 DEF Fit, PlacedBy, PendingBy
<1>6. CASE (Unretain(i) \/ UnretainFails(i)) /\ ~End(i)
  <2>1. /\ job[i].op = "unretain" /\ Goto(i, "purge") /\ record' = record
        /\ manifest' = [manifest EXCEPT ![p] = None] \/ p \in broken'
    BY <1>6 DEF Unretain, UnretainFails
  <2>2. job'[i].op = "purge" /\ job'[i].pkg = p /\ job'[i].force = job[i].force
    BY <1>1, <2>1, WentTo
  <2>3. manifest'[p] = None \/ p \in broken'
    BY <1>1, <1>3, <2>1 DEF Inv, TypeOK
  <2>4. RecordedBy(i)'
    BY <1>1, <2>1, <2>2 DEF RecordedBy, Unrecorded, Installing, Removing
  <2>5. ClearedBy(i)'
    BY <1>1, <1>2, <2>1, <2>2, <2>3 DEF ClearedBy, InRoot
  <2>6. NeedlessBy(i)'
    BY <1>1, <1>2, <2>1, <2>2, StillNeedless
  <2>7. QED
    BY <2>2, <2>4, <2>5, <2>6 DEF Fit, PlacedBy, PendingBy
<1>7. QED
  BY <1>4, <1>5, <1>6

LEMMA ExtractFit ==
  ASSUME Orderly, NEW i \in Jobs, NEW f \in Paths, Extract(i, f)
  PROVE  Fit(i)'
<1>1. job[i].op = "extract" /\ Done(i, f) /\ record' = record
  BY DEF Extract, At
<1>2. job'[i].op = "extract" /\ job'[i].pkg = job[i].pkg /\ job'[i].todo = job[i].todo \ {f}
  BY <1>1, DidOne DEF Orderly
<1>3. RecordedBy(i)'
  BY <1>1, <1>2 DEF Orderly, Fit, RecordedBy, Unrecorded, Installing, Removing
<1>4. QED
  BY <1>2, <1>3 DEF Fit, PlacedBy, ClearedBy, PendingBy, NeedlessBy

\* A harvest, an update and a removal by OPIUM at the side of no job.
LEMMA AsideFit ==
  ASSUME Orderly, NEW i \in Jobs,
         \/ \E p \in Packages : StartHarvest(p) \/ EndHarvest(p)
         \/ OpiumUpdate(i)
         \/ \E p \in Packages : OpiumRemove(i, p)
         \/ UNCHANGED vars
  PROVE  Fit(i)'
<1> USE DEF disk, history
<1>1. job' = job
  BY DEF StartHarvest, EndHarvest, OpiumUpdate, OpiumRemove, vars
<1>2. CASE \E p \in Packages : OpiumRemove(i, p)
  BY <1>1, <1>2, NoJobFit DEF OpiumRemove, Begin, At
<1>3. CASE UNCHANGED <<root, record, manifest, staged, broken, disputed, viaOpium>>
  <2>1. Fit(i)
    BY DEF Orderly
  <2>2. QED
    BY <1>1, <1>3, <2>1
    DEF Fit, RecordedBy, PlacedBy, ClearedBy, PendingBy, NeedlessBy, InRoot, AsVerified, Own, Peaceful, Undisputed, Settled, Active
<1>4. QED
  BY <1>2, <1>3 DEF StartHarvest, EndHarvest, OpiumUpdate, vars

-----------------------------------------------------------------------------
(* Packages at a step.                                                     *)

\* While the root and the database stay as they are.
LEMMA FrameCalm ==
  ASSUME Orderly, UNCHANGED <<root, record, manifest>>,
         broken \subseteq broken', disputed \subseteq disputed', viaOpium \subseteq viaOpium',
         NEW q \in Packages, Active(q) => Active(q)'
  PROVE  Calm(q)'
<1>1. Calm(q)
  BY DEF Orderly
<1>2. QED
  BY <1>1 DEF Calm, Settled, Undisputed, Peaceful, Own, InRoot

\* While a job is at work on it.
LEMMA BusyCalm ==
  ASSUME NEW q, Active(q)' PROVE Calm(q)'
BY DEF Calm, Settled

\* When a job has stopped half way, or OPIUM has been at it.
LEMMA HalfCalm ==
  ASSUME NEW q, q \in (broken \cup viaOpium)',
         record'[q] = "listed" => q \in broken' /\ q \in (disputed \cup viaOpium)'
  PROVE  Calm(q)'
BY DEF Calm, Settled, Peaceful

\* When the step is one of another package, which touches no file that is
\* undisputed and is there.
LEMMA OtherCalm ==
  ASSUME Orderly, NEW i \in Jobs, NEW p, NEW q \in Packages, q # p,
         job[i].op \in Touched => job[i].pkg = p,
         job'[i].op \in Touched => job'[i].pkg = p,
         record'[q] = record[q], manifest'[q] = manifest[q], q \in broken' <=> q \in broken,
         disputed \subseteq disputed', viaOpium \subseteq viaOpium',
         \A f \in Paths :
           \/ root'[f] = root[f]
           \/ /\ root'[f] = None \/ root'[f].package = p
              /\ f \in Files[q] /\ Undisputed(f, q)' => ~InRoot(f, q)
  PROVE  Calm(q)'
<1>1. ~Active(q) /\ ~Active(q)'
  BY ActiveOnly DEF Orderly
<1>2. Calm(q)
  BY DEF Orderly
<1>3. Settled(q)' <=> Settled(q)
  BY <1>1 DEF Settled
<1>4. Files[q] \subseteq Paths
  BY PathsOfPackage DEF Entries
<1>5. \A f \in Files[q] : Undisputed(f, q)' => Undisputed(f, q)
  BY DEF Undisputed
<1>6. \A f \in Files[q] : Peaceful(f, q)' => Peaceful(f, q) /\ Undisputed(f, q)'
  BY <1>5 DEF Peaceful
<1>7. ASSUME NEW f \in Files[q], Settled(q), Undisputed(f, q)' PROVE Own(f, q, manifest[q])'
  <2>1. Own(f, q, manifest[q])
    BY <1>2, <1>5, <1>7 DEF Calm
  <2>2. root'[f] = root[f]
    BY <1>4, <1>7, <2>1 DEF Own
  <2>3. QED
    BY <2>1, <2>2 DEF Own, InRoot
<1>8. ASSUME NEW f \in Files[q], record[q] = "listed", Peaceful(f, q)' PROVE InRoot(f, q)'
  <2>1. InRoot(f, q) /\ Undisputed(f, q)'
    BY <1>1, <1>2, <1>6, <1>8 DEF Calm
  <2>2. QED
    BY <1>4, <1>8, <2>1 DEF InRoot
<1>9. ASSUME NEW f \in Paths, root[f] # None => root[f].package # q, root'[f] # None PROVE root'[f].package # q
  BY <1>9
<1>10. QED
  BY <1>1, <1>2, <1>3, <1>7, <1>8, <1>9 DEF Calm

AllCalm == \A q \in Packages : Calm(q)

\* The steps that change neither the root nor the database.
LEMMA QuietCalm ==
  ASSUME Orderly, NEW i \in Jobs, UNCHANGED <<root, record, manifest>>,
         broken \subseteq broken', disputed \subseteq disputed', viaOpium \subseteq viaOpium',
         job[i].op \in Touched => job'[i].op \in Touched /\ job'[i].pkg = job[i].pkg
  PROVE  Sane' /\ AllCalm'
<1>1. \A q : Active(q) => Active(q)'
  BY ActiveOnly DEF Orderly
<1>2. AllCalm'
  BY <1>1, FrameCalm DEF AllCalm
<1>3. Sane'
  BY DEF Orderly, Sane
<1>4. QED
  BY <1>2, <1>3

LEMMA QuietSteps ==
  ASSUME Orderly, NEW i \in Jobs,
         \/ \E p \in Packages, force, purge \in BOOLEAN :
              StartInstall(i, p, force) \/ RefuseUnreadable(i, p) \/ StartRemove(i, p, force, purge)
                \/ OpiumInstall(i, p)
         \/ Report(i) \/ CheckConflicts(i) \/ Stage(i) \/ Verify(i) \/ PreInstall(i) \/ Moved(i)
         \/ CheckDependents(i) \/ PreRemove(i)
         \/ \E f \in Paths : DeleteFails(i, f)
         \/ Crash(i) /\ job[i].op \notin Touched
         \/ OpiumUpdate(i)
         \/ \E p \in Packages : StartHarvest(p) \/ EndHarvest(p)
         \/ UNCHANGED vars
  PROVE  Sane' /\ AllCalm'
<1> USE DEF disk, history, At, Unstage
<1>1. UNCHANGED <<root, record, manifest>>
  BY DEF StartInstall, RefuseUnreadable, StartRemove, OpiumInstall, Report, CheckConflicts, Stage, Verify, PreInstall,
         Moved, CheckDependents, PreRemove, DeleteFails, Crash, OpiumUpdate, StartHarvest, EndHarvest, vars
<1>2. broken \subseteq broken' /\ disputed \subseteq disputed' /\ viaOpium \subseteq viaOpium'
  BY DEF StartInstall, RefuseUnreadable, StartRemove, OpiumInstall, Report, CheckConflicts, Stage, Verify, PreInstall,
         Moved, CheckDependents, PreRemove, DeleteFails, Crash, OpiumUpdate, StartHarvest, EndHarvest, vars
<1>3. CASE Moved(i)
  <2>1. Goto(i, "record")
    BY <1>3 DEF Moved
  <2>2. job'[i].op \in Touched /\ job'[i].pkg = job[i].pkg
    BY <2>1, WentTo DEF Orderly, Touched
  <2>3. QED
    BY <1>1, <1>2, <2>2, QuietCalm
<1>4. ASSUME NEW f \in Paths, DeleteFails(i, f) PROVE Sane' /\ AllCalm'
  <2>1. Done(i, f)
    BY <1>4 DEF DeleteFails
  <2>2. job'[i].op = job[i].op /\ job'[i].pkg = job[i].pkg
    BY <2>1, DidOne DEF Orderly
  <2>3. QED
    BY <1>1, <1>2, <2>2, QuietCalm
<1>5. CASE job' = job
  BY <1>1, <1>2, <1>5, QuietCalm
<1>6. CASE job[i].op \notin Touched
  BY <1>1, <1>2, <1>6, QuietCalm
<1>7. job[i].op \notin Touched \/ job' = job \/ Moved(i) \/ \E f \in Paths : DeleteFails(i, f)
  BY DEF StartInstall, RefuseUnreadable, StartRemove, OpiumInstall, Report, CheckConflicts, Stage, Verify, PreInstall,
         CheckDependents, PreRemove, Crash, OpiumUpdate, StartHarvest, EndHarvest, vars, Begin, Touched
<1>8. QED
  BY <1>3, <1>4, <1>5, <1>6, <1>7

-----------------------------------------------------------------------------
(* The steps that change the root or the database.                         *)

\* Its package and the others.
LEMMA StepCalm ==
  ASSUME Orderly, NEW i \in Jobs, NEW p \in Packages, Calm(p)',
         job[i].op \in Touched => job[i].pkg = p,
         job'[i].op \in Touched => job'[i].pkg = p,
         disputed \subseteq disputed', viaOpium \subseteq viaOpium',
         \A q \in Packages \ {p} :
           record'[q] = record[q] /\ manifest'[q] = manifest[q] /\ (q \in broken' <=> q \in broken),
         \A f \in Paths :
           \/ root'[f] = root[f]
           \/ /\ root'[f] = None \/ root'[f].package = p
              /\ \A q \in Packages \ {p} : f \in Files[q] /\ Undisputed(f, q)' => ~InRoot(f, q)
  PROVE  AllCalm'
<1>1. ASSUME NEW q \in Packages, q # p PROVE Calm(q)'
  BY <1>1, OtherCalm
<1>2. QED
  BY <1>1 DEF AllCalm

\* A file is moved, or its copy fails half way.
LEMMA MoveCalm ==
  ASSUME Orderly, NEW i \in Jobs, NEW f \in Paths, Move(i, f) \/ CopyFails(i, f)
  PROVE  Sane' /\ AllCalm'
<1>0. PICK p \in Packages : p = job[i].pkg
  BY DEF Move, CopyFails, At, Orderly, Inv, Control
<1>1. Inv /\ Sane /\ RecordedBy(i) /\ PlacedBy(i)
  BY DEF Orderly, Fit
<1>2. /\ job[i].op = "move" /\ f \in job[i].todo
      /\ UNCHANGED <<record, manifest, viaOpium>>
      /\ disputed' = disputed \cup Over(i, f)
      /\ \/ Done(i, f) /\ broken' = broken
         \/ End(i) /\ broken' = broken \cup {p}
  BY <1>0 DEF Move, CopyFails, At
<1>3. f \in Entries(p) /\ record[p] = "none"
  BY <1>0, <1>1, <1>2 DEF RecordedBy, Unrecorded
<1>4. job'[i].op \in Touched => job'[i].pkg = p
  BY <1>0, <1>1, <1>2, DidOne, Ended DEF Touched
<1>5. root'[f].package = p /\ \A g \in Paths \ {f} : root'[g] = root[g]
  <2>1. PICK make : root' = [root EXCEPT ![f] = [package |-> p, make |-> make]]
    BY <1>0 DEF Move, CopyFails
  <2>2. QED
    BY <1>1, <2>1 DEF Inv, TypeOK
<1>6. Calm(p)'
  <2>1. CASE Done(i, f)
    <3>1. job'[i].op = "move" /\ job'[i].pkg = p
      BY <1>0, <1>1, <1>2, <2>1, DidOne
    <3>2. QED
      BY <3>1, ActiveOnly, BusyCalm DEF Orderly, Touched
  <2>2. CASE p \in broken'
    BY <1>2, <1>3, <2>2, HalfCalm
  <2>3. QED
    BY <1>2, <2>1, <2>2
<1>7. ASSUME NEW q \in Packages \ {p}, f \in Files[q], Undisputed(f, q)', InRoot(f, q) PROVE FALSE
  <2>1. f \in Files[p]
    BY <1>3, <1>7, PackagesAssumption DEF Entries
  <2>2. p \notin disputed'
    BY <1>3, <1>7 DEF Undisputed
  <2>3. job[i].force
    BY <1>0, <1>1, <1>2, <1>7 DEF PlacedBy, InRoot
  <2>4. QED
    BY <1>0, <1>2, <1>7, <2>1, <2>2, <2>3 DEF InRoot, Over
<1>8. disputed \subseteq disputed' /\ \A q \in Packages \ {p} : q \in broken' <=> q \in broken
  BY <1>2
<1>9. AllCalm'
  BY <1>0, <1>2, <1>3, <1>4, <1>5, <1>6, <1>7, <1>8, StepCalm
<1>10. Sane'
  BY <1>1, <1>2, <1>3, <1>5 DEF Sane
<1>11. QED
  BY <1>9, <1>10

LEMMA DeleteCalm ==
  ASSUME Orderly, NEW i \in Jobs, NEW f \in Paths, Delete(i, f)
  PROVE  Sane' /\ AllCalm'
<1> DEFINE p == job[i].pkg
<1>1. Inv /\ Sane /\ RecordedBy(i) /\ PendingBy(i)
  BY DEF Orderly, Fit
<1>2. /\ job[i].op = "delete" /\ f \in job[i].todo /\ Done(i, f) /\ root' = [root EXCEPT ![f] = None]
      /\ UNCHANGED <<record, manifest, broken, disputed, viaOpium>>
  BY DEF Delete, At, history
<1>3. p \in Packages /\ f \in Entries(p)
  BY <1>1, <1>2 DEF Inv, Control, RecordedBy
<1>4. job'[i].op = "delete" /\ job'[i].pkg = p
  BY <1>1, <1>2, DidOne
<1>5. root'[f] = None /\ \A g \in Paths \ {f} : root'[g] = root[g]
  BY <1>1, <1>2 DEF Inv, TypeOK
<1>6. Calm(p)'
  BY <1>4, ActiveOnly, BusyCalm DEF Orderly, Touched
<1>7. ASSUME NEW q \in Packages \ {p}, f \in Files[q], Undisputed(f, q)', InRoot(f, q) PROVE FALSE
  <2>1. f \in Files[p]
    BY <1>3, <1>7, PackagesAssumption DEF Entries
  <2>2. \A r \in Packages : f \in Entries(r) \cup Config[r] => r \notin disputed \cup viaOpium
    BY <1>2, <1>3, <1>7 DEF Undisputed
  <2>3. Peaceful(f, p)
    BY <1>3, <2>2 DEF Peaceful, Undisputed
  <2>4. InRoot(f, p)
    BY <1>1, <1>2, <2>1, <2>3 DEF PendingBy
  <2>5. QED
    BY <1>7, <2>4 DEF InRoot
<1>8. AllCalm'
  BY <1>2, <1>3, <1>4, <1>5, <1>6, <1>7, StepCalm
<1>9. Sane'
  BY <1>1, <1>2, <1>5 DEF Sane
<1>10. QED
  BY <1>8, <1>9

\* A file is extracted, or tar stops within it.
LEMMA ExtractCalm ==
  ASSUME Orderly, NEW i \in Jobs, NEW f \in Paths, Extract(i, f) \/ ExtractCut(i, f)
  PROVE  Sane' /\ AllCalm'
<1>0. PICK p \in Packages : p = job[i].pkg
  BY DEF Extract, ExtractCut, At, Orderly, Inv, Control
<1>1. Inv /\ Sane /\ RecordedBy(i)
  BY DEF Orderly, Fit
<1>2. /\ job[i].op = "extract" /\ f \in job[i].todo
      /\ UNCHANGED <<record, manifest, disputed, viaOpium>>
      /\ \/ Done(i, f) /\ broken' = broken
         \/ End(i) /\ broken' = broken \cup {p}
  BY <1>0 DEF Extract, ExtractCut, GiveUp, At, history
<1>3. f \in Entries(p) /\ p \in viaOpium /\ record[p] = "none"
  BY <1>0, <1>1, <1>2 DEF Inv, Control, RecordedBy, Unrecorded
<1>4. job'[i].op \in Touched => job'[i].pkg = p
  BY <1>0, <1>1, <1>2, DidOne, Ended DEF Touched
<1>5. root'[f].package = p /\ \A g \in Paths \ {f} : root'[g] = root[g]
  <2>1. PICK make : root' = [root EXCEPT ![f] = [package |-> p, make |-> make]]
    BY <1>0 DEF Extract, ExtractCut
  <2>2. QED
    BY <1>1, <2>1 DEF Inv, TypeOK
<1>6. Calm(p)'
  BY <1>2, <1>3, HalfCalm
<1>7. \A q \in Packages \ {p} : ~Undisputed(f, q)'
  BY <1>2, <1>3 DEF Undisputed
<1>8. \A q \in Packages \ {p} : q \in broken' <=> q \in broken
  BY <1>2
<1>9. AllCalm'
  BY <1>0, <1>2, <1>3, <1>4, <1>5, <1>6, <1>7, <1>8, StepCalm
<1>10. Sane'
  BY <1>1, <1>2, <1>3, <1>5 DEF Sane
<1>11. QED
  BY <1>9, <1>10

\* A purge, or part of one, that takes a file of another package is disputed.
LEMMA PurgeCalm ==
  ASSUME Orderly, NEW i \in Jobs, NEW p \in Packages, p = job[i].pkg, PurgeConfig(i) \/ PurgeFails(i)
  PROVE  Sane' /\ AllCalm'
<1>1. Inv /\ Sane /\ RecordedBy(i) /\ ClearedBy(i)
  BY DEF Orderly, Fit
<1>2. PICK S \in SUBSET Config[p] : Wipe(i, S)
  BY DEF PurgeConfig, PurgeFails
<1>3. /\ End(i) /\ root' = [f \in Paths |-> IF f \in S THEN None ELSE root[f]]
      /\ disputed' = IF \E f \in S \cap Paths : root[f] # None /\ root[f].package # p
                      THEN disputed \cup {p} ELSE disputed
      /\ UNCHANGED <<record, manifest, viaOpium>>
  BY <1>2 DEF Wipe
<1>4. job[i].op = "purge" /\ (broken' = broken \/ broken' = broken \cup {p})
  BY DEF PurgeConfig, PurgeFails, At
<1>5. record[p] = "none"
  BY <1>1, <1>4 DEF RecordedBy, Unrecorded
<1>6. job'[i].op \notin Touched
  BY <1>1, <1>3, Ended DEF Touched
<1>7. \A f \in Paths : root'[f] = root[f] \/ (root'[f] = None /\ f \in S)
  BY <1>3
<1>8. Calm(p)'
  <2>1. ASSUME p \notin broken \cup viaOpium PROVE manifest[p] = None /\ \A f \in Paths : ~InRoot(f, p)
    BY <1>1, <1>4, <2>1 DEF ClearedBy
  <2>2. ASSUME p \notin (broken \cup viaOpium)'
        PROVE  manifest'[p] = None /\ \A f \in Paths : root'[f] # None => root'[f].package # p
    BY <1>3, <1>4, <1>7, <2>1, <2>2 DEF InRoot
  <2>3. QED
    BY <1>3, <1>5, <2>2 DEF Calm, Settled
<1>9. ASSUME NEW q \in Packages \ {p}, NEW f \in S \cap Paths, Undisputed(f, q)', InRoot(f, q) PROVE FALSE
  <2>1. p \notin disputed'
    BY <1>2, <1>9 DEF Undisputed
  <2>2. QED
    BY <1>3, <1>9, <2>1 DEF InRoot
<1>10. disputed \subseteq disputed' /\ \A q \in Packages \ {p} : q \in broken' <=> q \in broken
  BY <1>3, <1>4
<1>11. AllCalm'
  BY <1>3, <1>4, <1>6, <1>7, <1>8, <1>9, <1>10, StepCalm
<1>12. Sane'
  BY <1>1, <1>3, <1>4, <1>7 DEF Sane
<1>13. QED
  BY <1>11, <1>12

LEMMA UnrecordCalm ==
  ASSUME Orderly, NEW i \in Jobs, NEW p \in Packages, p = job[i].pkg, Unrecord(i)
  PROVE  Sane' /\ AllCalm'
<1>1. Inv /\ Sane /\ RecordedBy(i)
  BY DEF Orderly, Fit
<1>2. /\ job[i].op = "delete" /\ record' = [record EXCEPT ![p] = "none"]
      /\ IF IsInstalled(p) THEN Goto(i, "unretain") ELSE End(i)
      /\ UNCHANGED <<root, manifest, broken, disputed, viaOpium>>
  BY DEF Unrecord, At, history
<1>3. Goto(i, "unretain")
  BY <1>1, <1>2 DEF RecordedBy, Removing, IsInstalled
<1>4. job'[i].op = "unretain" /\ job'[i].pkg = p
  BY <1>1, <1>3, WentTo
<1>5. Calm(p)'
  BY <1>4, ActiveOnly, BusyCalm DEF Orderly, Touched
<1>6. record'[p] = "none" /\ \A q \in Packages \ {p} : record'[q] = record[q]
  BY <1>1, <1>2 DEF Inv, TypeOK
<1>7. AllCalm'
  BY <1>2, <1>4, <1>5, <1>6, StepCalm
<1>8. Sane'
  BY <1>1, <1>2, <1>6 DEF Sane
<1>9. QED
  BY <1>7, <1>8

LEMMA UnretainCalm ==
  ASSUME Orderly, NEW i \in Jobs, NEW p \in Packages, p = job[i].pkg, Unretain(i) \/ UnretainFails(i)
  PROVE  Sane' /\ AllCalm'
<1>1. Inv /\ Sane /\ RecordedBy(i) /\ ClearedBy(i)
  BY DEF Orderly, Fit
<1>2. /\ job[i].op = "unretain" /\ (Goto(i, "purge") \/ End(i))
      /\ UNCHANGED <<root, record, disputed, viaOpium>>
      /\ \/ manifest' = [manifest EXCEPT ![p] = None] /\ broken' = broken
         \/ manifest' = manifest /\ broken' = broken \cup {p}
  BY DEF Unretain, UnretainFails, At, disk, history
<1>3. record'[p] = "none"
  BY <1>1, <1>2 DEF RecordedBy, Unrecorded
<1>4. /\ manifest'[p] = None \/ p \in broken'
      /\ \A q \in Packages \ {p} : manifest'[q] = manifest[q] /\ (q \in broken' <=> q \in broken)
  BY <1>1, <1>2 DEF Inv, TypeOK
<1>5. Calm(p)'
  <2>1. CASE Goto(i, "purge")
    <3>1. job'[i].op = "purge" /\ job'[i].pkg = p
      BY <1>1, <2>1, WentTo
    <3>2. QED
      BY <3>1, ActiveOnly, BusyCalm DEF Orderly, Touched
  <2>2. CASE p \in (broken \cup viaOpium)'
    BY <1>3, <2>2, HalfCalm
  <2>3. CASE p \notin (broken \cup viaOpium)'
    <3>1. \A f \in Paths : ~InRoot(f, p)
      BY <1>1, <1>2, <2>3 DEF ClearedBy
    <3>2. manifest'[p] = None /\ \A f \in Paths : root'[f] # None => root'[f].package # p
      BY <1>2, <1>4, <2>3, <3>1 DEF InRoot
    <3>3. QED
      BY <1>3, <3>2 DEF Calm, Settled
  <2>4. QED
    BY <2>2, <2>3
<1>6. job'[i].op \in Touched => job'[i].pkg = p
  BY <1>1, <1>2, WentTo, Ended DEF Touched
<1>7. AllCalm'
  BY <1>2, <1>4, <1>5, <1>6, StepCalm
<1>8. Sane'
  BY <1>1, <1>2, <1>4 DEF Sane
<1>9. QED
  BY <1>7, <1>8

LEMMA WriteRecordCalm ==
  ASSUME Orderly, NEW i \in Jobs, NEW p \in Packages, p = job[i].pkg, WriteRecord(i)
  PROVE  Sane' /\ AllCalm'
<1>1. Inv /\ Sane
  BY DEF Orderly
<1>2. /\ job[i].op = "record" /\ record' = [record EXCEPT ![p] = "listed"] /\ Goto(i, "retain")
      /\ UNCHANGED <<root, manifest, broken, disputed, viaOpium>>
  BY DEF WriteRecord, At, history
<1>3. job'[i].op = "retain" /\ job'[i].pkg = p
  BY <1>1, <1>2, WentTo
<1>4. Calm(p)'
  BY <1>3, ActiveOnly, BusyCalm DEF Orderly, Touched
<1>5. record'[p] = "listed" /\ \A q \in Packages \ {p} : record'[q] = record[q]
  BY <1>1, <1>2 DEF Inv, TypeOK
<1>6. AllCalm'
  BY <1>2, <1>3, <1>4, <1>5, StepCalm
<1>7. Sane'
  BY <1>1, <1>2, <1>5 DEF Sane
<1>8. QED
  BY <1>6, <1>7

\* An installation that comes to its end has repaired its package.
LEMMA RetainCalm ==
  ASSUME Orderly, NEW i \in Jobs, NEW p \in Packages, p = job[i].pkg, RetainManifest(i)
  PROVE  Sane' /\ AllCalm'
<1>1. Inv /\ Sane /\ RecordedBy(i) /\ PlacedBy(i)
  BY DEF Orderly, Fit
<1>2. /\ job[i].op = "retain" /\ manifest' = [manifest EXCEPT ![p] = job[i].make] /\ End(i)
      /\ broken' = broken \ {p} /\ UNCHANGED <<root, record, disputed, viaOpium>>
  BY DEF RetainManifest, At
<1>3. record[p] = "listed" /\ job[i].make = "authored"
  BY <1>1, <1>2 DEF RecordedBy, Installing
<1>4. manifest'[p] = "authored" /\ \A q \in Packages \ {p} : manifest'[q] = manifest[q]
  BY <1>1, <1>2, <1>3 DEF Inv, TypeOK
<1>5. "authored" # None
  BY PackagesAssumption DEF Makes
<1>6. \A f \in Files[p] : AsVerified(f, p) /\ InRoot(f, p)
  BY <1>1, <1>2 DEF PlacedBy, Entries, AsVerified, Own
<1>7. Calm(p)'
  <2>1. record'[p] = "listed" /\ manifest'[p] # None
    BY <1>2, <1>3, <1>4, <1>5
  <2>2. \A f \in Files[p] : Own(f, p, manifest[p])'
    BY <1>2, <1>4, <1>6 DEF AsVerified, Own, InRoot
  <2>3. \A f \in Files[p] : InRoot(f, p)'
    BY <1>2, <1>6 DEF InRoot
  <2>4. QED
    BY <2>1, <2>2, <2>3 DEF Calm
<1>8. job'[i].op \notin Touched
  BY <1>1, <1>2, Ended DEF Touched
<1>9. AllCalm'
  BY <1>2, <1>4, <1>7, <1>8, StepCalm
<1>10. Sane'
  BY <1>1, <1>2, <1>3 DEF Sane
<1>11. QED
  BY <1>9, <1>10

\* A job that stops half way.
LEMMA GiveUpCalm ==
  ASSUME Orderly, NEW i \in Jobs, NEW p \in Packages, p = job[i].pkg, GiveUp(i), job[i].op \in Touched,
         UNCHANGED <<root, manifest>>,
         record' = record \/ record' = [record EXCEPT ![p] = "bare"]
  PROVE  Sane' /\ AllCalm'
<1>1. Inv /\ Sane /\ RecordedBy(i) /\ PlacedBy(i)
  BY DEF Orderly, Fit
<1>2. /\ broken' = broken \cup {p} /\ disputed \subseteq disputed' /\ viaOpium' = viaOpium
      /\ job[i].op = "delete" => p \in disputed'
  BY DEF GiveUp, At
<1>3. job'[i].op \notin Touched
  BY <1>1, Ended DEF GiveUp, Touched
<1>4. /\ record'[p] = record[p] \/ record'[p] = "bare"
      /\ \A q \in Packages \ {p} : record'[q] = record[q]
  BY <1>1 DEF Inv, TypeOK
<1>5. Calm(p)'
  <2>1. CASE job[i].op = "retain"
    <3>1. \A f \in Files[p] : InRoot(f, p)
      BY <1>1, <2>1 DEF PlacedBy, Entries, AsVerified, Own
    <3>2. \A f \in Files[p] : InRoot(f, p)'
      BY <3>1 DEF InRoot
    <3>3. p \in broken'
      BY <1>2
    <3>4. QED
      BY <3>2, <3>3 DEF Calm, Settled
  <2>2. CASE job[i].op # "retain"
    <3>1. record'[p] = "listed" => p \in disputed'
      BY <1>1, <1>2, <1>4, <2>2 DEF RecordedBy, Unrecorded, Touched
    <3>2. QED
      BY <1>2, <3>1, HalfCalm
  <2>3. QED
    BY <2>1, <2>2
<1>6. AllCalm'
  BY <1>2, <1>3, <1>4, <1>5, StepCalm
<1>7. Sane'
  BY <1>1, <1>2, <1>4 DEF Sane
<1>8. QED
  BY <1>6, <1>7

LEMMA OpiumCalm ==
  ASSUME Orderly, NEW i \in Jobs, NEW p \in Packages, (OpiumRecord(i) /\ p = job[i].pkg) \/ OpiumRemove(i, p)
  PROVE  Sane' /\ AllCalm'
<1>1. Inv /\ Sane
  BY DEF Orderly
<1>2. UNCHANGED <<root, manifest, broken, disputed>> /\ viaOpium \subseteq viaOpium'
  BY DEF OpiumRecord, OpiumRemove, history
<1>3. p \in viaOpium'
  BY <1>1 DEF OpiumRecord, OpiumRemove, At, history, Inv, Control
<1>4. record'[p] # "listed" /\ \A q \in Packages \ {p} : record'[q] = record[q]
  BY <1>1 DEF OpiumRecord, OpiumRemove, Inv, TypeOK
<1>5. (job[i].op \in Touched => job[i].pkg = p) /\ job'[i].op \notin Touched
  BY <1>1, Ended DEF OpiumRecord, OpiumRemove, Begin, At, Touched
<1>6. Calm(p)'
  BY <1>3, <1>4, HalfCalm
<1>7. AllCalm'
  BY <1>2, <1>4, <1>5, <1>6, StepCalm
<1>8. Sane'
  BY <1>1, <1>2, <1>3, <1>4 DEF Sane
<1>9. QED
  BY <1>7, <1>8

-----------------------------------------------------------------------------
(* Every step.                                                             *)

\* The steps that end a job.
LEMMA EndFit ==
  ASSUME Orderly, NEW i \in Jobs,
         \/ Report(i) \/ MoveFails(i) \/ WriteRecordFails(i) \/ RetainManifest(i) \/ PurgeConfig(i) \/ PurgeFails(i)
         \/ Crash(i) \/ ExtractFails(i) \/ OpiumRecord(i) \/ \E f \in Paths : CopyFails(i, f) \/ ExtractCut(i, f)
  PROVE  Fit(i)'
<1>1. End(i)
  BY DEF Report, MoveFails, WriteRecordFails, RetainManifest, PurgeConfig, PurgeFails, Wipe, Crash, ExtractFails,
         OpiumRecord, CopyFails, ExtractCut, GiveUp
<1>2. job'[i].op = "none"
  BY <1>1, Ended DEF Orderly
<1>3. QED
  BY <1>2, NoJobFit

LEMMA InstallStep ==
  ASSUME Orderly, NEW i \in Jobs, Install(i)
  PROVE  Fit(i)' /\ Sane' /\ AllCalm'
<1>1. ASSUME NEW p \in Packages, NEW force \in BOOLEAN, StartInstall(i, p, force) \/ RefuseUnreadable(i, p)
      PROVE  Fit(i)' /\ Sane' /\ AllCalm'
  BY <1>1, StartFit, QuietSteps
<1>2. CASE CheckConflicts(i) \/ Stage(i) \/ Verify(i) \/ PreInstall(i)
  BY <1>2, PrepareFit, QuietSteps
<1>3. ASSUME NEW f \in Paths, Move(i, f) PROVE Fit(i)' /\ Sane' /\ AllCalm'
  BY <1>3, MoveFit, MoveCalm
<1>8. ASSUME NEW f \in Paths, CopyFails(i, f) PROVE Fit(i)' /\ Sane' /\ AllCalm'
  BY <1>8, EndFit, MoveCalm
<1>4. CASE Moved(i)
  BY <1>4, MoveFit, QuietSteps
<1>5. CASE Report(i)
  BY <1>5, EndFit, QuietSteps
<1>6. CASE WriteRecord(i) \/ MoveFails(i) \/ WriteRecordFails(i) \/ RetainManifest(i)
  <2>1. job[i].op \in {"record", "move", "retain"}
    BY <1>6 DEF WriteRecord, MoveFails, WriteRecordFails, RetainManifest, At
  <2>2. PICK p \in Packages : p = job[i].pkg
    BY <2>1 DEF Orderly, Inv, Control
  <2>3. CASE WriteRecord(i)
    BY <2>2, <2>3, MoveFit, WriteRecordCalm
  <2>4. CASE RetainManifest(i)
    BY <2>2, <2>4, EndFit, RetainCalm
  <2>5. CASE MoveFails(i) \/ WriteRecordFails(i)
    <3>1. /\ GiveUp(i) /\ job[i].op \in Touched /\ UNCHANGED <<root, manifest>>
          /\ record' = record \/ record' = [record EXCEPT ![p] = "bare"]
      BY <2>1, <2>2, <2>5 DEF MoveFails, WriteRecordFails, Touched, disk
    <3>2. QED
      BY <2>2, <2>5, <3>1, EndFit, GiveUpCalm
  <2>6. QED
    BY <1>6, <2>3, <2>4, <2>5
<1>7. QED
  BY <1>1, <1>2, <1>3, <1>4, <1>5, <1>6, <1>8 DEF Install

LEMMA RemoveStep ==
  ASSUME Orderly, NEW i \in Jobs, Remove(i)
  PROVE  Fit(i)' /\ Sane' /\ AllCalm'
<1>1. ASSUME NEW p \in Packages, NEW force \in BOOLEAN, NEW purge \in BOOLEAN, StartRemove(i, p, force, purge)
      PROVE  Fit(i)' /\ Sane' /\ AllCalm'
  BY <1>1, StartFit, QuietSteps
<1>2. CASE CheckDependents(i) \/ PreRemove(i)
  BY <1>2, PreRemoveFit, QuietSteps
<1>3. ASSUME NEW f \in Paths, Delete(i, f) PROVE Fit(i)' /\ Sane' /\ AllCalm'
  BY <1>3, DeleteFit, DeleteCalm
<1>4. ASSUME NEW f \in Paths, DeleteFails(i, f) PROVE Fit(i)' /\ Sane' /\ AllCalm'
  BY <1>4, DeleteFit, QuietSteps
<1>5. CASE Unrecord(i) \/ Unretain(i) \/ UnretainFails(i) \/ PurgeConfig(i) \/ PurgeFails(i)
  <2>1. job[i].op \in {"delete", "unretain", "purge"}
    BY <1>5 DEF Unrecord, Unretain, UnretainFails, PurgeConfig, PurgeFails, At
  <2>2. PICK p \in Packages : p = job[i].pkg
    BY <2>1 DEF Orderly, Inv, Control
  <2>3. CASE Unrecord(i)
    BY <2>2, <2>3, UnrecordFit, UnrecordCalm
  <2>4. CASE Unretain(i) \/ UnretainFails(i)
    BY <2>2, <2>4, UnrecordFit, UnretainCalm
  <2>5. CASE PurgeConfig(i) \/ PurgeFails(i)
    BY <2>2, <2>5, EndFit, PurgeCalm
  <2>6. QED
    BY <1>5, <2>3, <2>4, <2>5
<1>6. QED
  BY <1>1, <1>2, <1>3, <1>4, <1>5 DEF Remove

LEMMA OpiumStep ==
  ASSUME Orderly, NEW i \in Jobs, Opium(i)
  PROVE  Fit(i)' /\ Sane' /\ AllCalm'
<1>1. ASSUME NEW p \in Packages, OpiumInstall(i, p) PROVE Fit(i)' /\ Sane' /\ AllCalm'
  <2>1. FALSE \in BOOLEAN
    OBVIOUS
  <2>2. QED
    BY <1>1, <2>1, StartFit, QuietSteps
<1>2. ASSUME NEW p \in Packages, OpiumRemove(i, p) PROVE Fit(i)' /\ Sane' /\ AllCalm'
  BY <1>2, AsideFit, OpiumCalm
<1>3. ASSUME NEW f \in Paths, Extract(i, f) PROVE Fit(i)' /\ Sane' /\ AllCalm'
  BY <1>3, ExtractFit, ExtractCalm
<1>7. ASSUME NEW f \in Paths, ExtractCut(i, f) PROVE Fit(i)' /\ Sane' /\ AllCalm'
  BY <1>7, EndFit, ExtractCalm
<1>4. CASE OpiumUpdate(i)
  BY <1>4, AsideFit, QuietSteps
<1>5. CASE ExtractFails(i) \/ OpiumRecord(i)
  <2>1. job[i].op = "extract"
    BY <1>5 DEF ExtractFails, OpiumRecord, At
  <2>2. PICK p \in Packages : p = job[i].pkg
    BY <2>1 DEF Orderly, Inv, Control
  <2>3. CASE ExtractFails(i)
    <3>1. GiveUp(i) /\ job[i].op \in Touched /\ UNCHANGED <<root, manifest, record>>
      BY <2>1, <2>3 DEF ExtractFails, Touched, disk
    <3>2. QED
      BY <2>2, <2>3, <3>1, EndFit, GiveUpCalm
  <2>4. CASE OpiumRecord(i)
    BY <2>2, <2>4, EndFit, OpiumCalm
  <2>5. QED
    BY <1>5, <2>3, <2>4
<1>6. QED
  BY <1>1, <1>2, <1>3, <1>4, <1>5, <1>7 DEF Opium

LEMMA CrashStep ==
  ASSUME Orderly, NEW i \in Jobs, Crash(i)
  PROVE  Fit(i)' /\ Sane' /\ AllCalm'
<1>1. Fit(i)'
  BY EndFit
<1>2. CASE job[i].op \notin Touched
  BY <1>1, <1>2, QuietSteps
<1>3. CASE job[i].op \in Touched
  <2>1. PICK p \in Packages : p = job[i].pkg
    BY <1>3 DEF Orderly, Inv, Control, Touched
  <2>2. GiveUp(i) /\ UNCHANGED <<root, manifest, record>>
    BY <1>3 DEF Crash, disk
  <2>3. QED
    BY <1>1, <1>3, <2>1, <2>2, GiveUpCalm
<1>4. QED
  BY <1>2, <1>3

\* A harvest, also where there is no job at all.
LEMMA HarvestStep ==
  ASSUME Orderly, (\E p \in Packages : StartHarvest(p) \/ EndHarvest(p)) \/ UNCHANGED vars
  PROVE  (\A i \in Jobs : Fit(i)') /\ Sane' /\ AllCalm'
<1>1. \A i \in Jobs : Fit(i)'
  BY AsideFit
<1>2. UNCHANGED <<root, record, manifest, job, broken, disputed, viaOpium>>
  BY DEF StartHarvest, EndHarvest, vars, disk, history
<1>3. \A q : Active(q) => Active(q)'
  BY <1>2 DEF Active
<1>4. AllCalm'
  BY <1>2, <1>3, FrameCalm DEF AllCalm
<1>5. Sane'
  BY <1>2 DEF Orderly, Sane
<1>6. QED
  BY <1>1, <1>4, <1>5

\* What is in the root is as it was verified.
LEMMA VerifiedStep == Orderly /\ [Next]_vars => Verified'
<1> SUFFICES ASSUME Orderly, [Next]_vars PROVE Verified'
  OBVIOUS
<1> USE DEF disk, history
<1>1. Inv /\ Verified /\ (\A i \in Jobs : RecordedBy(i) /\ PlacedBy(i)) /\ \A p \in Packages : Checked[p] \subseteq Files[p]
  BY PackagesAssumption DEF Orderly, Fit
<1> DEFINE Right(f, p, make, b) == f \in Checked[p] => make = "authored" \/ p \in viaOpium' \/ (make = "cut" /\ p \in b)
<1>2. ASSUME NEW f \in Paths, NEW p, NEW make,
             root' = [root EXCEPT ![f] = [package |-> p, make |-> make]],
             viaOpium \subseteq viaOpium', broken \subseteq broken', Right(f, p, make, broken')
      PROVE  Verified'
  BY <1>1, <1>2 DEF Verified, Inv, TypeOK
<1>3. ASSUME viaOpium \subseteq viaOpium', broken \subseteq broken', \A f \in Paths : root'[f] \in {None, root[f]}
      PROVE  Verified'
  BY <1>1, <1>3 DEF Verified
<1>4. ASSUME NEW i \in Jobs, NEW f \in Paths, Move(i, f) PROVE Verified'
  <2> DEFINE p == job[i].pkg
             make == FileMake(p, staged[p], f)
  <2>1. f \in Checked[p] => make = "authored"
    BY <1>1, <1>4 DEF Move, At, PlacedBy
  <2>2. UNCHANGED <<broken, viaOpium>> /\ root' = [root EXCEPT ![f] = [package |-> p, make |-> make]]
    BY <1>4 DEF Move
  <2> HIDE DEF p, make
  <2>3. QED
    BY <1>2, <2>1, <2>2
<1>5. ASSUME NEW i \in Jobs, NEW f \in Paths, CopyFails(i, f) PROVE Verified'
  <2> DEFINE p == job[i].pkg
  <2>1. /\ UNCHANGED viaOpium /\ broken' = broken \cup {p}
        /\ root' = [root EXCEPT ![f] = [package |-> p, make |-> "cut"]]
    BY <1>5 DEF CopyFails
  <2> HIDE DEF p
  <2>2. QED
    BY <1>2, <2>1
<1>6. ASSUME NEW i \in Jobs, NEW f \in Paths, Extract(i, f) \/ ExtractCut(i, f) PROVE Verified'
  <2> DEFINE p == job[i].pkg
  <2>1. p \in viaOpium
    BY <1>1, <1>6 DEF Extract, ExtractCut, At, Inv, Control
  <2>2. viaOpium' = viaOpium /\ broken \subseteq broken'
    BY <1>6 DEF Extract, ExtractCut, GiveUp
  <2>3. PICK make : root' = [root EXCEPT ![f] = [package |-> p, make |-> make]]
    BY <1>6 DEF Extract, ExtractCut
  <2> HIDE DEF p
  <2>4. QED
    BY <1>2, <2>1, <2>2, <2>3
<1>7. ASSUME NEW i \in Jobs, RetainManifest(i) PROVE Verified'
  <2> DEFINE p == job[i].pkg
  <2>1. root' = root /\ viaOpium' = viaOpium /\ broken' = broken \ {p} /\ job[i].op = "retain"
    BY <1>7 DEF RetainManifest, At
  <2>2. p \in Packages
    BY <1>1, <2>1 DEF Inv, Control
  <2>3. \A f \in Checked[p] : root[f].make = "authored"
    BY <1>1, <2>1, <2>2 DEF PlacedBy, AsVerified, Own, Entries
  <2>4. QED
    BY <1>1, <2>1, <2>3 DEF Verified
<1>8. ASSUME NEW i \in Jobs, (\E f \in Paths : Delete(i, f)) \/ PurgeConfig(i) \/ PurgeFails(i) PROVE Verified'
  <2>1. viaOpium' = viaOpium /\ broken \subseteq broken'
    BY <1>8 DEF Delete, PurgeConfig, PurgeFails, Wipe
  <2>2. \A f \in Paths : root'[f] \in {None, root[f]}
    BY <1>1, <1>8 DEF Delete, PurgeConfig, PurgeFails, Wipe, Inv, TypeOK
  <2>3. QED
    BY <1>3, <2>1, <2>2
<1>9. ASSUME root' = root, viaOpium \subseteq viaOpium', broken \subseteq broken' PROVE Verified'
  BY <1>3, <1>9
<1>10. ASSUME NEW i \in Jobs, Install(i),
              \A f \in Paths : ~Move(i, f) /\ ~CopyFails(i, f), ~RetainManifest(i)
       PROVE  Verified'
  <2>1. root' = root /\ viaOpium' = viaOpium /\ broken \subseteq broken'
    BY <1>10
    DEF Install, StartInstall, RefuseUnreadable, Report, CheckConflicts, Stage, Verify, PreInstall, MoveFails,
        Moved, WriteRecord, WriteRecordFails, GiveUp
  <2>2. QED
    BY <1>9, <2>1
<1>11. ASSUME NEW i \in Jobs, Remove(i), \A f \in Paths : ~Delete(i, f), ~PurgeConfig(i), ~PurgeFails(i) PROVE Verified'
  <2>1. root' = root /\ viaOpium' = viaOpium /\ broken \subseteq broken'
    BY <1>11 DEF Remove, StartRemove, CheckDependents, PreRemove, DeleteFails, Unrecord, Unretain, UnretainFails
  <2>2. QED
    BY <1>9, <2>1
<1>12. ASSUME NEW i \in Jobs, Opium(i), \A f \in Paths : ~Extract(i, f) /\ ~ExtractCut(i, f) PROVE Verified'
  <2>1. root' = root /\ viaOpium \subseteq viaOpium' /\ broken \subseteq broken'
    BY <1>12 DEF Opium, OpiumInstall, OpiumRemove, ExtractFails, OpiumRecord, OpiumUpdate, GiveUp
  <2>2. QED
    BY <1>9, <2>1
<1>13. ASSUME NEW i \in Jobs, Crash(i) PROVE Verified'
  BY <1>9, <1>13 DEF Crash, GiveUp
<1>14. CASE (\E p \in Packages : StartHarvest(p) \/ EndHarvest(p)) \/ UNCHANGED vars
  BY <1>9, <1>14 DEF StartHarvest, EndHarvest, vars
<1>15. QED
  BY <1>4, <1>5, <1>6, <1>7, <1>8, <1>10, <1>11, <1>12, <1>13, <1>14 DEF Next

LEMMA OrderlyStep == Orderly /\ [Next]_vars => Orderly'
<1> SUFFICES ASSUME Orderly, [Next]_vars PROVE Orderly'
  OBVIOUS
<1>1. OneJob' /\ Inv' /\ Verified'
  BY TypeStep, ControlStep, VerifiedStep DEF Orderly, OneJob, Inv
<1>2. (\A i \in Jobs : Fit(i)') /\ Sane' /\ AllCalm'
  <2>1. ASSUME NEW i \in Jobs, Install(i) \/ Remove(i) \/ Opium(i) \/ Crash(i)
        PROVE  (\A j \in Jobs : Fit(j)') /\ Sane' /\ AllCalm'
    <3>1. Fit(i)' /\ Sane' /\ AllCalm'
      BY <2>1, InstallStep, RemoveStep, OpiumStep, CrashStep
    <3>2. \A j \in Jobs : j = i
      BY DEF Orderly, OneJob
    <3>3. QED
      BY <3>1, <3>2
  <2>2. QED
    BY <2>1, HarvestStep DEF Next
<1>3. QED
  BY <1>1, <1>2 DEF Orderly, AllCalm

LEMMA OrderlyInit == OneJob /\ Init => Orderly
<1> SUFFICES ASSUME OneJob, Init PROVE Orderly
  OBVIOUS
<1>1. Inv /\ Verified
  BY InitInv DEF Init, Verified
<1>2. \A i \in Jobs : job[i].op = "none" /\ Fit(i)
  BY DEF Init, Idle, Fit, RecordedBy, PlacedBy, ClearedBy, PendingBy, NeedlessBy, Unrecorded, Installing, Removing
<1>3. Sane
  BY DEF Init, Sane
<1>4. \A p \in Packages : Calm(p)
  BY DEF Init, Calm, Settled
<1>5. QED
  BY <1>1, <1>2, <1>3, <1>4 DEF Orderly

LEMMA OrderlyAlways == OneJob /\ Spec => []Orderly
BY OrderlyInit, OrderlyStep, PTL DEF Spec

\* A file with a checksum is in the root only as it was authored, for any
\* packages, checksums and archives, and however often an archive is replaced:
\* what an install moves is what it has compared, though no checksum covers the
\* rest, and a copy that fails half way is made up for by the install that ends.
THEOREM VerifiedHolds == OneJob /\ Spec => []Verified
<1>1. Orderly => Verified
  BY DEF Orderly
<1>2. QED
  BY <1>1, OrderlyAlways, PTL

\* The files on the record of a settled package are in the root, its own and,
\* where they have a checksum, as its retained manifest says, for any packages
\* and any sequence of installs, removals, purges, failed copies, crashes and
\* harvests, one job at a time, whatever packages have under each other's etc:
\* but for the files that a forced install, a purge of another package's
\* directory or OPIUM may have taken.
THEOREM RecordIntactHolds == OneJob /\ Spec => []RecordIntact
<1>1. Orderly => RecordIntact
  BY DEF Orderly, Calm, Own, InRoot, RecordIntact
<1>2. QED
  BY <1>1, OrderlyAlways, PTL

\* What no record lists is not there: a removal leaves nothing behind and a
\* refused install brings nothing, for any packages, one job at a time.
THEOREM NoStrayHolds == OneJob /\ Spec => []NoStray
<1>1. Orderly => NoStray
  BY DEF Orderly, Calm, NoStray
<1>2. QED
  BY <1>1, OrderlyAlways, PTL

\* Nothing settled depends on what an unforced removal takes away, for any
\* dependencies between any packages, one job at a time: find_dependents goes by
\* the retained manifests, and whatever is settled has one.
THEOREM DependentsKeptHolds == OneJob /\ Spec => []DependentsKept
<1>1. Orderly => DependentsKept
  BY DEF Orderly, Fit, NeedlessBy, DependentsKept
<1>2. QED
  BY <1>1, OrderlyAlways, PTL
=============================================================================
