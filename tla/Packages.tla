------------------------------ MODULE Packages ------------------------------
(***************************************************************************)
(* Harvester (harvester/src) and OPIUM (opium/src): programs that are run  *)
(* one after the other, or side by side, over one Osiris root, one package *)
(* database and one archive cache, with no lock.  A job is one run of one  *)
(* of them; each of its steps changes the disk once, and between any two   *)
(* of them it may fail or be killed.                                       *)
(*                                                                         *)
(* The contents of a file is the package it came from and the make of the  *)
(* archive: "authored" by hand, "harvested" by Harvester, "corrupt", whose *)
(* files are not what its manifest says, or "altered", of which that holds *)
(* only for the files whose checksum the manifest does not record.  A file *)
(* whose copy stopped half way is "cut".  Paths are those that the check   *)
(* of the archive lets through.                                            *)
(***************************************************************************)
EXTENDS Naturals

CONSTANTS
  Jobs,          \* the runs that may be under way at once
  Packages,
  Files,         \* Files[p]: the entries of the archive of p, but for its manifest
  Checked,       \* Checked[p]: those whose checksum the manifest records
  Config,        \* Config[p]: what is under etc/p, the directory that --purge removes
  Depends,       \* Depends[p]: its [package] depends
  ManifestFile,  \* manifest.toml, an entry of every archive
  Initial,       \* Initial[p]: what the cache may hold of p at first
  MaxRuns,       \* bound on the jobs
  None

Entries(p) == Files[p] \cup {ManifestFile}
Paths == UNION {Entries(p) : p \in Packages}

Makes == {"authored", "harvested", "corrupt", "altered"}
Archives == Makes \cup {"none", "partial"}
Contents == [package : Packages, make : Makes \cup {"cut"}]

ASSUME PackagesAssumption ==
  /\ \A p \in Packages : Checked[p] \subseteq Files[p] /\ ManifestFile \notin Files[p] \cup Config[p]
  /\ Depends \in [Packages -> SUBSET Packages]
  /\ Initial \in [Packages -> SUBSET Archives] /\ MaxRuns \in Nat
  /\ None \notin Packages \cup Makes \cup Contents /\ ManifestFile # None

VARIABLES
  cache,      \* cache[p]: p.osr
  root,       \* root[f]: the contents of a file of the Osiris root
  record,     \* record[p]: <p>.toml, with its list of files or without
  manifest,   \* manifest[p]: <p>.manifest.toml, the make it is for
  index,      \* the lines of OPIUM's package index, a package and the kind of its file
  staged,     \* staged[p]: the make of what the staging directory of p holds
  job,        \* job[i]: what run i is doing
  runs,       \* jobs so far
  \* history, read by no action
  broken,     \* packages on which a job stopped half way
  disputed,   \* packages installed over a file of another, whose removal was cut off,
              \* or whose purge took a file of another
  viaOpium    \* packages that OPIUM handled

disk == <<cache, root, record, manifest, staged, index>>
history == <<broken, disputed, viaOpium>>
vars == <<disk, job, runs, history>>

Idle == [op |-> "none", pkg |-> None, force |-> FALSE, purge |-> FALSE, make |-> None, todo |-> {}]
Ops == {"none", "unreadable", "check", "stage", "verify", "pre_install", "move", "record", "retain",
        "dependents", "pre_remove", "delete", "unretain", "purge", "extract"}

TypeOK ==
  /\ cache \in [Packages -> Archives]
  /\ root \in [Paths -> Contents \cup {None}]
  /\ record \in [Packages -> {"none", "bare", "listed"}]
  /\ manifest \in [Packages -> Makes \cup {None}]
  /\ staged \in [Packages -> Makes \cup {None}]
  /\ index \subseteq Packages \X {"record", "manifest"}
  /\ job \in [Jobs -> [op : Ops, pkg : Packages \cup {None}, force : BOOLEAN, purge : BOOLEAN,
                       make : Makes \cup {None}, todo : SUBSET Paths]]
  /\ runs \in 0..MaxRuns
  /\ broken \subseteq Packages /\ disputed \subseteq Packages /\ viaOpium \subseteq Packages

Init ==
  /\ cache \in {held \in [Packages -> Archives] : \A p \in Packages : held[p] \in Initial[p]}
  /\ root = [f \in Paths |-> None]
  /\ record = [p \in Packages |-> "none"] /\ manifest = [p \in Packages |-> None]
  /\ staged = [p \in Packages |-> None] /\ index = {}
  /\ job = [i \in Jobs |-> Idle] /\ runs = 0
  /\ broken = {} /\ disputed = {} /\ viaOpium = {}

-----------------------------------------------------------------------------
(* Steps of a job.                                                         *)

IsInstalled(p) == record[p] # "none"

\* The files that read_installed_files finds: a record of OPIUM's, or one that
\* was cut off, lists none.
RecordedFiles(p) == IF record[p] = "listed" THEN Entries(p) ELSE {}

\* The make that the manifest of an archive describes.
Described(make) == IF make \in {"corrupt", "altered"} THEN "authored" ELSE make

\* The make of a file of such an archive.
FileMake(p, make, f) == IF make = "altered" /\ f \in Checked[p] THEN "authored" ELSE make

At(i, op) == job[i].op = op
Goto(i, op) == job' = [job EXCEPT ![i].op = op]
End(i) == job' = [job EXCEPT ![i] = Idle]
Done(i, f) == job' = [job EXCEPT ![i].todo = @ \ {f}]

Begin(i) == At(i, "none") /\ runs < MaxRuns /\ runs' = runs + 1

\* The job of i stops half way.
GiveUp(i) ==
  /\ End(i)
  /\ broken' = broken \cup {job[i].pkg}
  /\ disputed' = IF At(i, "delete") THEN disputed \cup {job[i].pkg} ELSE disputed
  /\ UNCHANGED viaOpium

Unstage(p) == staged' = [staged EXCEPT ![p] = None]

-----------------------------------------------------------------------------
(* harvester install.                                                      *)

\* install, and install_archive up to the list of entries.
StartInstall(i, p, force) ==
  /\ Begin(i) /\ ~IsInstalled(p) /\ cache[p] \in {"authored", "corrupt", "altered"}
  /\ job' = [job EXCEPT ![i] =
       [Idle EXCEPT !.op = "check", !.pkg = p, !.force = force, !.make = Described(cache[p])]]
  /\ UNCHANGED <<disk, history>>

\* The archive's manifest cannot be read: the archive is not whole, or tar does
\* not find "manifest.toml" in one that harvest made of ".", where the entry is
\* called "./manifest.toml".
RefuseUnreadable(i, p) ==
  /\ Begin(i) /\ ~IsInstalled(p) /\ cache[p] \in {"partial", "harvested"}
  /\ job' = [job EXCEPT ![i] =
       [Idle EXCEPT !.op = "unreadable", !.pkg = p, !.make = IF cache[p] = "partial" THEN None ELSE cache[p]]]
  /\ UNCHANGED <<disk, history>>

Report(i) ==
  /\ At(i, "unreadable")
  /\ End(i)
  /\ UNCHANGED <<disk, runs, history>>

\* Mutant: the root is not looked at.
CheckConflictsNever(i) ==
  /\ At(i, "check")
  /\ Goto(i, "stage")
  /\ UNCHANGED <<disk, runs, history>>

CheckConflicts(i) ==
  /\ At(i, "check")
  /\ IF ~job[i].force /\ \E f \in Entries(job[i].pkg) : root[f] # None
     THEN End(i)
     ELSE Goto(i, "stage")
  /\ UNCHANGED <<disk, runs, history>>

\* Mutant: tar's exit status is not looked at.
StageUnchecked(i) ==
  /\ At(i, "stage")
  /\ staged' = [staged EXCEPT ![job[i].pkg] = cache[job[i].pkg]]
  /\ Goto(i, "verify")
  /\ UNCHANGED <<cache, root, record, manifest, index, runs, history>>

\* The staging directory is emptied and the archive, which may be another by
\* now, extracted into it.
Stage(i) ==
  LET p == job[i].pkg IN
  /\ At(i, "stage")
  /\ IF cache[p] \in Makes
     THEN /\ staged' = [staged EXCEPT ![p] = cache[p]]
          /\ Goto(i, "verify")
     ELSE Unstage(p) /\ End(i)
  /\ UNCHANGED <<cache, root, record, manifest, index, runs, history>>

\* Mutant: nothing is compared.
VerifyNever(i) ==
  /\ At(i, "verify")
  /\ Goto(i, "pre_install")
  /\ UNCHANGED <<disk, runs, history>>

\* The checksums, where the manifest records one; a file that it does not list,
\* or without a checksum, passes.
Verify(i) ==
  LET p == job[i].pkg IN
  /\ At(i, "verify")
  /\ IF \A f \in Checked[p] : staged[p] # None /\ FileMake(p, staged[p], f) = job[i].make
     THEN Goto(i, "pre_install") /\ UNCHANGED staged
     ELSE Unstage(p) /\ End(i)
  /\ UNCHANGED <<cache, root, record, manifest, index, runs, history>>

\* pre_install, if there is one, succeeds or fails.
PreInstall(i) ==
  /\ At(i, "pre_install")
  /\ \/ job' = [job EXCEPT ![i].op = "move", ![i].todo = Entries(job[i].pkg)] /\ UNCHANGED staged
     \/ Unstage(job[i].pkg) /\ End(i)
  /\ UNCHANGED <<cache, root, record, manifest, index, runs, history>>

\* What a forced install puts in place of a file of another package.
Over(i, f) ==
  LET p == job[i].pkg IN
  IF job[i].force /\ f \in Files[p] /\ root[f] # None /\ root[f].package # p THEN {p} ELSE {}

\* One file of the move phase: a rename, or a copy to another file system.
Move(i, f) ==
  LET p == job[i].pkg IN
  /\ At(i, "move") /\ f \in job[i].todo /\ staged[p] # None
  /\ root' = [root EXCEPT ![f] = [package |-> p, make |-> FileMake(p, staged[p], f)]]
  /\ Done(i, f)
  /\ disputed' = disputed \cup Over(i, f)
  /\ UNCHANGED <<cache, record, manifest, staged, index, runs, broken, viaOpium>>

\* A file cannot be moved: the error returns, the staging directory stays.
MoveFails(i) ==
  /\ At(i, "move") /\ job[i].todo # {}
  /\ GiveUp(i)
  /\ UNCHANGED <<disk, runs>>

\* The copy has emptied the target and then fails, or the process is killed.
CopyFails(i, f) ==
  LET p == job[i].pkg IN
  /\ At(i, "move") /\ f \in job[i].todo /\ staged[p] # None
  /\ root' = [root EXCEPT ![f] = [package |-> p, make |-> "cut"]]
  /\ End(i)
  /\ broken' = broken \cup {p} /\ disputed' = disputed \cup Over(i, f)
  /\ UNCHANGED <<cache, record, manifest, staged, index, runs, viaOpium>>

\* The staging directory is removed; post_install may fail and is only reported.
Moved(i) ==
  /\ At(i, "move") /\ job[i].todo = {}
  /\ Unstage(job[i].pkg)
  /\ Goto(i, "record")
  /\ UNCHANGED <<cache, root, record, manifest, index, runs, history>>

WriteRecord(i) ==
  /\ At(i, "record")
  /\ record' = [record EXCEPT ![job[i].pkg] = "listed"]
  /\ Goto(i, "retain")
  /\ UNCHANGED <<cache, root, manifest, staged, index, runs, history>>

\* fs::write makes the file before it fills it.
WriteRecordFails(i) ==
  /\ At(i, "record")
  /\ record' = [record EXCEPT ![job[i].pkg] = "bare"]
  /\ GiveUp(i)
  /\ UNCHANGED <<cache, root, manifest, staged, index, runs>>

\* Mutant: the manifest is not retained.
RetainManifestNever(i) ==
  /\ At(i, "retain")
  /\ End(i)
  /\ broken' = broken \ {job[i].pkg}
  /\ UNCHANGED <<disk, runs, disputed, viaOpium>>

RetainManifest(i) ==
  LET p == job[i].pkg IN
  /\ At(i, "retain")
  /\ manifest' = [manifest EXCEPT ![p] = job[i].make]
  /\ End(i)
  /\ broken' = broken \ {p}
  /\ UNCHANGED <<cache, root, record, staged, index, runs, disputed, viaOpium>>

-----------------------------------------------------------------------------
(* harvester remove.                                                       *)

StartRemove(i, p, force, purge) ==
  /\ Begin(i) /\ IsInstalled(p)
  /\ job' = [job EXCEPT ![i] =
       [Idle EXCEPT !.op = "dependents", !.pkg = p, !.force = force, !.purge = purge]]
  /\ UNCHANGED <<disk, history>>

\* find_dependents reads the retained manifests.
Dependents(p) == {q \in Packages \ {p} : manifest[q] # None /\ p \in Depends[q]}

CheckDependents(i) ==
  /\ At(i, "dependents")
  /\ IF ~job[i].force /\ Dependents(job[i].pkg) # {}
     THEN End(i)
     ELSE Goto(i, "pre_remove")
  /\ UNCHANGED <<disk, runs, history>>

\* pre_remove, which the retained manifest holds, may fail; then the record is
\* read for the list of files.
PreRemove(i) ==
  LET p == job[i].pkg IN
  /\ At(i, "pre_remove")
  /\ \/ job' = [job EXCEPT ![i].op = "delete", ![i].todo = RecordedFiles(p)]
     \/ manifest[p] # None /\ ~job[i].force /\ End(i)
  /\ UNCHANGED <<disk, runs, history>>

\* remove_file, also of a file that is missing.
Delete(i, f) ==
  /\ At(i, "delete") /\ f \in job[i].todo
  /\ root' = [root EXCEPT ![f] = None]
  /\ Done(i, f)
  /\ UNCHANGED <<cache, record, manifest, staged, index, runs, history>>

\* A file that cannot be deleted stays and is reported.
DeleteFails(i, f) ==
  /\ At(i, "delete") /\ f \in job[i].todo /\ root[f] # None
  /\ Done(i, f)
  /\ broken' = broken \cup {job[i].pkg}
  /\ UNCHANGED <<disk, runs, disputed, viaOpium>>

Unrecord(i) ==
  LET p == job[i].pkg IN
  /\ At(i, "delete") /\ job[i].todo = {}
  /\ IF IsInstalled(p) THEN Goto(i, "unretain") ELSE End(i)
  /\ record' = [record EXCEPT ![p] = "none"]
  /\ UNCHANGED <<cache, root, manifest, staged, index, runs, history>>

\* Mutant: the retained manifest stays.
UnretainNever(i) ==
  /\ At(i, "unretain")
  /\ IF job[i].purge THEN Goto(i, "purge") ELSE End(i)
  /\ UNCHANGED <<disk, runs, history>>

\* The manifest goes, if there is one, and post_remove is run and may fail.
Unretain(i) ==
  /\ At(i, "unretain")
  /\ manifest' = [manifest EXCEPT ![job[i].pkg] = None]
  /\ IF job[i].purge THEN Goto(i, "purge") ELSE End(i)
  /\ UNCHANGED <<cache, root, record, staged, index, runs, history>>

\* The error is ignored.
UnretainFails(i) ==
  /\ At(i, "unretain") /\ manifest[job[i].pkg] # None
  /\ IF job[i].purge THEN Goto(i, "purge") ELSE End(i)
  /\ broken' = broken \cup {job[i].pkg}
  /\ UNCHANGED <<disk, runs, disputed, viaOpium>>

\* What is under etc/p, whichever package it is of.
Wipe(i, S) ==
  LET p == job[i].pkg IN
  /\ root' = [f \in Paths |-> IF f \in S THEN None ELSE root[f]]
  /\ disputed' = IF \E f \in S \cap Paths : root[f] # None /\ root[f].package # p
                  THEN disputed \cup {p} ELSE disputed
  /\ End(i)
  /\ UNCHANGED <<cache, record, manifest, staged, index, runs, viaOpium>>

PurgeConfig(i) ==
  /\ At(i, "purge")
  /\ Wipe(i, Config[job[i].pkg])
  /\ UNCHANGED broken

\* remove_dir_all stops at an error or with the process.
PurgeFails(i) ==
  /\ At(i, "purge")
  /\ \E S \in SUBSET Config[job[i].pkg] : Wipe(i, S)
  /\ broken' = broken \cup {job[i].pkg}

\* An error on the database, or the end of the process, at any step past the
\* first change to the root.
Touched == {"move", "record", "retain", "delete", "unretain", "purge", "extract"}

Crash(i) ==
  /\ ~At(i, "none")
  /\ IF job[i].op \in Touched THEN GiveUp(i) ELSE End(i) /\ UNCHANGED history
  /\ UNCHANGED <<disk, runs>>

-----------------------------------------------------------------------------
(* opium install and remove; purge is remove.                              *)

OpiumInstall(i, p) ==
  /\ Begin(i) /\ ~IsInstalled(p) /\ cache[p] # "none"
  /\ job' = [job EXCEPT ![i] = [Idle EXCEPT !.op = "extract", !.pkg = p, !.todo = Entries(p)]]
  /\ viaOpium' = viaOpium \cup {p}
  /\ UNCHANGED <<disk, broken, disputed>>

\* tar replaces what is there.  The part of an archive that a harvest has
\* written so far is extracted too.
Extract(i, f) ==
  LET p == job[i].pkg IN
  /\ At(i, "extract") /\ f \in job[i].todo
  /\ root' = [root EXCEPT ![f] =
       [package |-> p, make |-> IF cache[p] = "partial" THEN "harvested" ELSE FileMake(p, cache[p], f)]]
  /\ Done(i, f)
  /\ UNCHANGED <<cache, record, manifest, staged, index, runs, history>>

\* tar fails: on a file, or at the end of an archive that is not whole.
ExtractFails(i) ==
  /\ At(i, "extract") /\ (job[i].todo # {} \/ cache[job[i].pkg] = "partial")
  /\ GiveUp(i)
  /\ UNCHANGED <<disk, runs>>

\* tar stops within a file.
ExtractCut(i, f) ==
  /\ At(i, "extract") /\ f \in job[i].todo
  /\ root' = [root EXCEPT ![f] = [package |-> job[i].pkg, make |-> "cut"]]
  /\ GiveUp(i)
  /\ UNCHANGED <<cache, record, manifest, staged, index, runs>>

OpiumRecord(i) ==
  /\ At(i, "extract") /\ job[i].todo = {} /\ cache[job[i].pkg] # "partial"
  /\ record' = [record EXCEPT ![job[i].pkg] = "bare"]
  /\ End(i)
  /\ UNCHANGED <<cache, root, manifest, staged, index, runs, history>>

OpiumRemove(i, p) ==
  /\ Begin(i) /\ IsInstalled(p)
  /\ record' = [record EXCEPT ![p] = "none"]
  /\ viaOpium' = viaOpium \cup {p}
  /\ UNCHANGED <<cache, root, manifest, staged, index, job, broken, disputed>>

-----------------------------------------------------------------------------
(* opium update.                                                           *)

\* The name of every file of the database without .toml, of a retained manifest
\* too; fs::write makes the index before it fills it.
Listing ==
  {<<p, "record">> : p \in {q \in Packages : IsInstalled(q)}}
    \cup {<<p, "manifest">> : p \in {q \in Packages : manifest[q] # None}}

OpiumUpdate(i) ==
  /\ Begin(i)
  /\ index' \in {{}, Listing}
  /\ UNCHANGED <<cache, root, record, manifest, staged, job, history>>

-----------------------------------------------------------------------------
(* harvester harvest, at the side of the jobs.                             *)

\* tar opens the archive in the cache and writes it there; a harvest that fails
\* or is killed leaves it as it is.
StartHarvest(p) ==
  /\ cache' = [cache EXCEPT ![p] = "partial"]
  /\ UNCHANGED <<root, record, manifest, staged, index, job, runs, history>>

EndHarvest(p) ==
  /\ cache[p] = "partial"
  /\ cache' = [cache EXCEPT ![p] = "harvested"]
  /\ UNCHANGED <<root, record, manifest, staged, index, job, runs, history>>

-----------------------------------------------------------------------------
Install(i) ==
  \/ \E p \in Packages, force \in BOOLEAN : StartInstall(i, p, force)
  \/ \E p \in Packages : RefuseUnreadable(i, p)
  \/ Report(i)
  \/ CheckConflicts(i) \/ Stage(i) \/ Verify(i) \/ PreInstall(i)
  \/ \E f \in Paths : Move(i, f) \/ CopyFails(i, f)
  \/ MoveFails(i) \/ Moved(i) \/ WriteRecord(i) \/ WriteRecordFails(i) \/ RetainManifest(i)

Remove(i) ==
  \/ \E p \in Packages, force, purge \in BOOLEAN : StartRemove(i, p, force, purge)
  \/ CheckDependents(i) \/ PreRemove(i)
  \/ \E f \in Paths : Delete(i, f) \/ DeleteFails(i, f)
  \/ Unrecord(i) \/ Unretain(i) \/ UnretainFails(i) \/ PurgeConfig(i) \/ PurgeFails(i)

Opium(i) ==
  \/ \E p \in Packages : OpiumInstall(i, p) \/ OpiumRemove(i, p)
  \/ \E f \in Paths : Extract(i, f) \/ ExtractCut(i, f)
  \/ ExtractFails(i) \/ OpiumRecord(i) \/ OpiumUpdate(i)

Next ==
  \/ \E i \in Jobs : Install(i) \/ Remove(i) \/ Opium(i) \/ Crash(i)
  \/ \E p \in Packages : StartHarvest(p) \/ EndHarvest(p)

Spec == Init /\ [][Next]_vars

-----------------------------------------------------------------------------
(* Properties, for jobs that run one at a time and a harvest at their side: *)
(* with no lock, two installs may both find a path free.                    *)

Active(p) == \E i \in Jobs : job[i].pkg = p /\ job[i].op \in Touched

\* p is recorded by Harvester, and no job is at work on it or stopped half way.
Settled(p) == record[p] = "listed" /\ p \notin broken /\ ~Active(p)

\* f can be no other package's: none that has it, or has it under its directory
\* of etc, went past the checks, none will delete it again because a removal was
\* cut off when it was gone, and none took it with a purge.
Undisputed(f, p) ==
  \A q \in Packages \ {p} : f \in Entries(q) \cup Config[q] => {p, q} \cap (disputed \cup viaOpium) = {}

\* The files on the record of a package are in the root, its own, and those with
\* a checksum as its manifest says, whatever was installed, removed, purged,
\* harvested or cut off since; a forced install repairs what a crash or a copy
\* that failed half way left.
RecordIntact ==
  \A p \in Packages : Settled(p) =>
    \A f \in Files[p] : Undisputed(f, p) =>
      /\ root[f] # None /\ root[f].package = p
      /\ f \in Checked[p] => root[f].make = manifest[p]

\* Files of a package, and its retained manifest, are there only if it is
\* recorded: a removal leaves nothing, a refused install has brought nothing.
NoStray ==
  \A p \in Packages \ (broken \cup viaOpium) :
    record[p] = "none" /\ ~Active(p) =>
      manifest[p] = None /\ \A f \in Paths : root[f] # None => root[f].package # p

\* Past its checks an unforced removal is of a package that no settled package
\* depends on.
DependentsKept ==
  \A i \in Jobs : job[i].op \in {"delete", "unretain", "purge"} /\ ~job[i].force =>
    \A q \in Packages \ {job[i].pkg} :
      Settled(q) => job[i].pkg \notin Depends[q]

\* A file with a checksum is in the root only as it was authored, though the
\* archive is replaced between the reading of its manifest and its extraction;
\* OPIUM, which does not compare, and a copy that failed half way are the
\* exceptions.
Verified ==
  \A f \in Paths : root[f] # None /\ f \in Checked[root[f].package] =>
    \/ root[f].make = "authored"
    \/ root[f].package \in viaOpium
    \/ root[f].make = "cut" /\ root[f].package \in broken

\* "not found in cache. Run: harvester harvest" (install.rs:40-45): what
\* harvest has packed, install can read.
HarvestedInstalls == \A i \in Jobs : At(i, "unreadable") => job[i].make # "harvested"
=============================================================================
