------------------------------- MODULE Mounts -------------------------------
(***************************************************************************)
(* What mountd makes of fstab, of the kernel's mount table, of zpool and   *)
(* of btrfs, for one mount point and one pool.  No variables: Monitor       *)
(* follows mountd from poll to poll with these definitions.                *)
(*                                                                         *)
(* An option is a pair of a key and a value, a line a record of its        *)
(* fields.  mountd makes its alert keys of a mount point in which each /   *)
(* is an _, so that two mount points may share a key; here is one.         *)
(***************************************************************************)
EXTENDS Readings, SequencesExt

\* Two of the types that parse_fstab skips and check_mounts expects anywhere;
\* the second list has more, such as overlay.
PseudoTypes == {"proc", "tmpfs"}
NeverUnexpected == PseudoTypes \cup {"overlay"}

Absent == [type |-> "none", options |-> <<>>, propagation |-> <<>>]

-----------------------------------------------------------------------------
(* fstab.                                                                  *)

Number(value) == CASE value = "50" -> 50 [] value = "60" -> 60 [] OTHER -> -1

\* What a map that is filled in this order holds at the end.
Latest(indices) == CHOOSE i \in indices : \A j \in indices : j <= i

\* The last option of this key that satisfies Ok, or the default.
LastOption(options, key, Ok(_), default) ==
  LET chosen == {i \in DOMAIN options : options[i][1] = key /\ Ok(options[i][2])}
  IN IF chosen = {} THEN default ELSE options[Latest(chosen)][2]

\* A threshold whose last value is no number is that of the configuration.
Threshold(options, key, default) ==
  LET value == LastOption(options, key, LAMBDA v : TRUE, "")
  IN IF Number(value) < 0 THEN default ELSE Number(value)

\* alert_on_missing is parsed and never read: what is missing is always told.
FstabEntry(line) == [
  type       |-> line.type,
  options    |-> line.options,
  severity   |-> LastOption(line.options, "x-osiris-alert", LAMBDA v : v \in {"critical", "warning", "info"}, "critical"),
  onMismatch |-> <<"x-osiris-alert", "fsmismatch">> \in ToSet(line.options),
  onChange   |-> <<"x-osiris-alert", "optionschange">> \in ToSet(line.options),
  readonly   |-> <<"ro", "">> \in ToSet(line.options),
  warning    |-> Threshold(line.options, "x-osiris-disk-warning", 85),
  critical   |-> Threshold(line.options, "x-osiris-disk-critical", 95) ]

\* What fstab expects at the mount point: its last line that has six fields
\* and a real type.  A comment has no fields.
Unlisted == [severity |-> "none"]
ParseFstab(lines) ==
  LET listed == {i \in DOMAIN lines : lines[i].fields >= 6 /\ lines[i].type \notin PseudoTypes}
  IN IF listed = {} THEN Unlisted ELSE FstabEntry(lines[Latest(listed)])

-----------------------------------------------------------------------------
(* The mount table.                                                        *)

\* parse_mountinfo.  The options are the last field before the - that is not
\* one of the tags it knows, which the kernel's propagate_from is not; the
\* options of the file system, after the -, are not read.
KnownTags == {"shared", "master", "propagate", "unbindable"}
ParseMountinfo(line) ==
  LET other == SelectSeq(line.tags, LAMBDA tag : tag[1] \notin KnownTags)
  IN [type |-> line.type,
      options |-> IF other = <<>> THEN line.options ELSE <<Last(other)>>,
      propagation |-> SelectSeq(line.tags, LAMBDA tag : tag[1] \in KnownTags)]

\* parse_mounts and parse_mount_cmd: no propagation, and the options of both
\* the mount and the file system.
ParseMounts(line) ==
  [type |-> line.type,
   options |-> IF line.fsReadonly THEN <<<<"ro", "">>>> ELSE line.options,
   propagation |-> <<>>]

\* get_current_mounts: the first source that is not empty; the check
\* ends when the last of them fails.
Sources == {"mountinfo", "mounts", "mount"}
CurrentMount(source, lines) ==
  IF lines = <<>> THEN Absent
  ELSE IF source = "mountinfo" THEN ParseMountinfo(Last(lines)) ELSE ParseMounts(Last(lines))

-----------------------------------------------------------------------------
(* check_mounts.                                                           *)

IsReadonly(entry) == <<"ro", "">> \in ToSet(entry.options)

\* known: whether the mount point was in the last table, its propagation
\* flags there, and whether it was read-only when last seen.
Unknown == [mounted |-> FALSE, propagation |-> <<>>, readonly |-> FALSE]

\* An optionschange entry always differs from the kernel's options: it holds
\* the x-osiris-alert option itself.
ExpectedReports(expected, entry, known, usage) ==
  IF entry = Absent THEN {<<"mount_missing", expected.severity>>}
  ELSE Alert(expected.onMismatch /\ entry.type # expected.type, "mount_fs_mismatch", "warning")
         \cup Alert(expected.onChange /\ entry.options # expected.options, "mount_options_changed", "warning")
         \cup Alert(known.propagation # <<>> /\ entry.propagation \notin {<<>>, known.propagation},
                    "mount_prop_changed", "info")
         \cup Alert(usage >= expected.critical, "disk_critical", "critical")
         \cup Alert(usage \in expected.warning..(expected.critical - 1), "disk_warning", "warning")
         \cup Alert(IsReadonly(entry) /\ ~known.readonly /\ ~expected.readonly, "fs_readonly", "critical")

MountReports(expected, entry, known, usage) ==
  IF expected = Unlisted
  THEN Alert(entry # Absent /\ entry.type \notin NeverUnexpected, "mount_unexpected", "info")
  ELSE ExpectedReports(expected, entry, known, usage)
         \cup Alert(entry = Absent /\ known.mounted, "mount_disappeared", "warning")

\* The read-only flag is noted for what is expected and there, and stays.
MountKnown(expected, entry, known) == [
  mounted     |-> entry # Absent,
  propagation |-> entry.propagation,
  readonly    |-> IF expected = Unlisted \/ entry = Absent THEN known.readonly ELSE IsReadonly(entry) ]

-----------------------------------------------------------------------------
(* Pools and scrubs.                                                       *)

\* A count that is a whole number and nothing else.
Whole(text) == CASE text = "0" -> 0 [] text = "3" -> 3 [] OTHER -> -1

\* check_zfs_pools, the lines of one pool: later lines override, and a count
\* of errors that is not a number changes nothing.
ParsePool(lines) ==
  LET value(key, default) == LastOption(lines, key, LAMBDA v : TRUE, default)
  IN [state |-> value("state", "UNKNOWN"),
      scrubbing |-> value("scan", "") = "scrub in progress",
      errors |-> Whole(LastOption(lines, "errors", LAMBDA v : Whole(v) >= 0, "0"))]

PoolReports(pool) ==
  Alert(pool.state \notin {"ONLINE", "UNKNOWN"}, "zfs_pool_degraded", "critical")
    \cup Alert(pool.scrubbing, "zfs_scrub_running", "info")
    \cup Alert(pool.errors > 0, "zfs_scrub_errors", "critical")

\* check_btrfs_scrub: the last line with errors: counts.
ParseScrub(lines) == [
  running |-> <<"status", "running">> \in ToSet(lines),
  errors  |-> Whole(LastOption(lines, "errors", LAMBDA v : TRUE, "0")) ]

ScrubReports(scrub) ==
  Alert(scrub.running, "btrfs_scrub_running", "info")
    \cup Alert(scrub.errors > 0, "btrfs_scrub_errors", "critical")
=============================================================================
