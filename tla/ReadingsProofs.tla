--------------------------- MODULE ReadingsProofs ---------------------------
(***************************************************************************)
(* What the alerts of Readings and Mounts have in common, whatever is      *)
(* read: a key has one severity, that of the table below.                  *)
(***************************************************************************)
EXTENDS Mounts, WellFoundedInduction, TLAPS

\* Two severities depend on more than the key: that of a change of wifid's
\* connection, and that which fstab gives to a missing mount point.
Gravity(name, connected, missing) ==
  CASE name \in {"time_drift_critical", "ntp_sync_stale", "cpu_critical", "memory_critical", "disk_critical",
                 "temp_critical", "entropy_critical", "kha_dead", "kha_state_abnormal", "fs_readonly",
                 "zfs_pool_degraded", "zfs_scrub_errors", "btrfs_scrub_errors"} -> "critical"
    [] name \in {"interface_new", "ip_change", "roam", "mount_prop_changed", "mount_unexpected",
                 "zfs_scrub_running", "btrfs_scrub_running"} -> "info"
    [] name = "connection_change" -> IF connected THEN "info" ELSE "warning"
    [] name = "mount_missing" -> missing
    [] OTHER -> "warning"

-----------------------------------------------------------------------------
\* A set of natural numbers that is not empty has a least.
LEMMA LeastOf ==
  ASSUME NEW S, S \subseteq Nat, S # {}
  PROVE  \E x \in S : \A y \in S : ~(y < x)
<1>1. PICK x \in S : \A y \in S : <<y, x>> \notin OpToRel(<, Nat)
  BY WFMin, NatLessThanWellFounded, Zenon
<1>2. QED
  BY <1>1 DEF OpToRel

\* A set of indices of a sequence that is not empty has a greatest.
LEMMA LatestIs ==
  ASSUME NEW n \in Nat, NEW indices \in SUBSET (1..n), indices # {}
  PROVE  Latest(indices) \in indices
<1> DEFINE rests == {n - i : i \in indices}
<1>1. rests \subseteq Nat /\ rests # {}
  <2>1. ASSUME NEW i \in indices PROVE n - i \in Nat
    BY i \in 1..n
  <2>2. QED
    BY <2>1
<1>2. PICK x \in rests : \A y \in rests : ~(y < x)
  BY <1>1, LeastOf
<1>3. PICK i \in indices : x = n - i
  BY <1>2
<1>4. ASSUME NEW j \in indices PROVE j <= i
  <2>1. ~(n - j < n - i)
    BY <1>2, <1>3
  <2>2. i \in 1..n /\ j \in 1..n
    OBVIOUS
  <2>3. QED
    BY <2>1, <2>2
<1>5. QED
  BY <1>4 DEF Latest

\* An option that is read has a value that passed the test, or the default.
LEMMA SeverityRead ==
  ASSUME NEW options, NEW n \in Nat, DOMAIN options = 1..n
  PROVE  LastOption(options, "x-osiris-alert", LAMBDA v : v \in {"critical", "warning", "info"}, "critical")
           \in {"critical", "warning", "info"}
<1> DEFINE chosen == {i \in DOMAIN options : options[i][1] = "x-osiris-alert" /\ options[i][2] \in {"critical", "warning", "info"}}
<1>1. chosen # {} => Latest(chosen) \in chosen
  BY LatestIs
<1>2. QED
  BY <1>1 DEF LastOption

\* A missing mount point is told as gravely as fstab says, if fstab lists it:
\* parse_fstab gives each entry one of the three severities.
LEMMA FstabSeverity ==
  ASSUME NEW lines, NEW n \in Nat, DOMAIN lines = 1..n,
         \A i \in 1..n : \E m \in Nat : DOMAIN lines[i].options = 1..m
  PROVE  ParseFstab(lines) # Unlisted =>
           ParseFstab(lines).severity \in {"critical", "warning", "info"}
<1> DEFINE listed == {i \in DOMAIN lines : lines[i].fields >= 6 /\ lines[i].type \notin PseudoTypes}
<1>1. CASE listed = {}
  BY <1>1 DEF ParseFstab
<1>2. CASE listed # {}
  <2>1. Latest(listed) \in listed
    BY <1>2, LatestIs
  <2>2. PICK m \in Nat : DOMAIN lines[Latest(listed)].options = 1..m
    BY <2>1
  <2>3. FstabEntry(lines[Latest(listed)]).severity \in {"critical", "warning", "info"}
    BY <2>2, SeverityRead DEF FstabEntry
  <2>4. QED
    BY <1>2, <2>3 DEF ParseFstab
<1>3. QED
  BY <1>1, <1>2

-----------------------------------------------------------------------------
(* The counters of netd.                                                   *)

LEMMA SpanPositive == CounterSpan \in Nat \ {0}
  BY SMT DEF CounterSpan

\* While the counters only rise, which is as long as the interface is not
\* created anew, the rate is that of the whole numbers: nothing wraps.
THEOREM CountersExact ==
  ASSUME NEW old \in [packets : 0..(CounterSpan - 1), errors : 0..(CounterSpan - 1)],
         NEW new \in [packets : 0..(CounterSpan - 1), errors : 0..(CounterSpan - 1)],
         old.errors <= new.errors
  PROVE  TooManyErrors(old, new) <=>
           /\ new.packets > old.packets
           /\ 100 * (new.errors - old.errors) > new.packets - old.packets
<1>1. CounterSpan \in Nat \ {0}
  BY SpanPositive
<1>2. new.errors - old.errors \in 0..(CounterSpan - 1)
  BY <1>1
<1>3. (new.errors - old.errors) % CounterSpan = new.errors - old.errors
  BY <1>1, <1>2
<1>4. QED
  BY <1>3 DEF TooManyErrors

\* An interface that was created anew, with fewer errors than it had, is told
\* for its errors as soon as it has more packets than before, even if there were
\* none: unless the old one had errors in all but a hundredth of the span.
THEOREM FewerErrorsTold ==
  ASSUME NEW old \in [packets : 0..(CounterSpan - 1), errors : 0..(CounterSpan - 1)],
         NEW new \in [packets : 0..(CounterSpan - 1), errors : 0..(CounterSpan - 1)],
         new.errors < old.errors, new.packets > old.packets,
         100 * (old.errors - new.errors) <= 99 * CounterSpan
  PROVE  TooManyErrors(old, new)
<1>1. CounterSpan \in Nat \ {0}
  BY SpanPositive
<1>2. (new.errors - old.errors) % CounterSpan = new.errors - old.errors + CounterSpan
  <2>1. new.errors - old.errors \in (1 - CounterSpan)..(-1)
    BY <1>1
  <2>2. \A d \in (1 - CounterSpan)..(-1) : d % CounterSpan = d + CounterSpan
    BY <1>1
  <2>3. QED
    BY <2>1, <2>2
<1>3. 100 * (new.errors - old.errors + CounterSpan) > new.packets - old.packets
  BY <1>1
<1>4. QED
  BY <1>2, <1>3 DEF TooManyErrors

-----------------------------------------------------------------------------
\* The alerts of each check, one lemma for each daemon.
LEMMA HealthdGravity ==
  ASSUME NEW raw, NEW c, NEW m, NEW r \in HealthdReports(raw)
  PROVE  r[2] = Gravity(r[1], c, m) /\ r[1] # "mount_missing"
  BY DEF HealthdReports, Above, Alert, Gravity

LEMMA EntropydGravity ==
  ASSUME NEW text, NEW c, NEW m, NEW r \in EntropydReports(text)
  PROVE  r[2] = Gravity(r[1], c, m) /\ r[1] # "mount_missing"
  BY DEF EntropydReports, Alert, Gravity

LEMMA TimedGravity ==
  ASSUME NEW last, NEW answer, NEW at, NEW threshold, NEW none, NEW c, NEW m,
         NEW r \in TimedReports(last, answer, at, threshold, none)
  PROVE  r[2] = Gravity(r[1], c, m) /\ r[1] # "mount_missing"
  BY DEF TimedReports, Above, Alert, Gravity

LEMMA KhaWatchdGravity ==
  ASSUME NEW old, NEW new, NEW c, NEW m, NEW r \in KhaWatchdReports(old, new)
  PROVE  r[2] = Gravity(r[1], c, m) /\ r[1] # "mount_missing"
  BY DEF KhaWatchdReports, Alert, Gravity

LEMMA NetdGravity ==
  ASSUME NEW old, NEW new, NEW c, NEW m, NEW r \in NetdReports(old, new)
  PROVE  r[2] = Gravity(r[1], c, m) /\ r[1] # "mount_missing"
  BY DEF NetdReports, Alert, Gravity

LEMMA WifidGravity ==
  ASSUME NEW old, NEW new, NEW c, c = new.connected, NEW m, NEW r \in WifidReports(old, new)
  PROVE  r[2] = Gravity(r[1], c, m) /\ r[1] # "mount_missing"
  BY DEF WifidReports, Alert, Gravity

LEMMA MountGravity ==
  ASSUME NEW expected, NEW entry, NEW known, NEW usage, NEW c,
         NEW r \in MountReports(expected, entry, known, usage)
  PROVE  r[2] = Gravity(r[1], c, expected.severity) /\ (r[1] = "mount_missing" => expected # Unlisted)
  BY DEF MountReports, ExpectedReports, Alert, Gravity

LEMMA PoolGravity ==
  ASSUME NEW pool, NEW scrub, NEW c, NEW m, NEW r \in PoolReports(pool) \cup ScrubReports(scrub)
  PROVE  r[2] = Gravity(r[1], c, m) /\ r[1] # "mount_missing"
  BY DEF PoolReports, ScrubReports, Alert, Gravity
=============================================================================
