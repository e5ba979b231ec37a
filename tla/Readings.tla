------------------------------ MODULE Readings ------------------------------
(***************************************************************************)
(* What the daemons other than mountd make of the raw values they read:    *)
(* /proc, sysinfo, the thermal zones, the NTP servers' answers.  No        *)
(* variables: Monitor follows the daemons from poll to poll with these     *)
(* definitions.  A percentage, a temperature, an offset is a whole number. *)
(***************************************************************************)
EXTENDS Integers, Sequences, FiniteSets

Alert(condition, name, severity) == IF condition THEN {<<name, severity>>} ELSE {}

\* Two keys of one measure; the graver leaves the other out.
Above(value, warning, critical, names) ==
  Alert(value >= critical, names[2], "critical") \cup Alert(value \in warning..(critical - 1), names[1], "warning")

-----------------------------------------------------------------------------
(* healthd.                                                                *)

Percent(part, whole) == IF whole > 0 THEN (part * 100) \div whole ELSE 0
SaturatingSub(a, b) == IF a > b THEN a - b ELSE 0

\* proot_fallback_cpu_mem: when sysinfo saw no CPU or no memory, the memory is
\* that of /proc/meminfo, if it can be read, and the CPU counts as idle.
FallsBack(raw) == (raw.cpus = 0 \/ raw.total = 0) /\ raw.meminfo.readable
Cpu(raw) == IF FallsBack(raw) \/ raw.cpus = 0 THEN 0 ELSE raw.cpu
Memory(raw) ==
  IF FallsBack(raw) THEN Percent(SaturatingSub(raw.meminfo.total, raw.meminfo.available), raw.meminfo.total)
  ELSE Percent(raw.used, raw.total)

\* The key of the root directory would be empty, and it is skipped.
HealthdReports(raw) ==
  Above(Cpu(raw), 80, 95, <<"cpu_warning", "cpu_critical">>)
    \cup Above(Memory(raw), 80, 95, <<"memory_warning", "memory_critical">>)
    \cup (IF raw.mount = "/" THEN {} ELSE Above(raw.disk, 85, 95, <<"disk_warning", "disk_critical">>))
    \cup Above(raw.temperature, 80, 95, <<"temp_warning", "temp_critical">>)

-----------------------------------------------------------------------------
(* entropyd and timed.                                                     *)

\* What is read but is not a number counts as no entropy at all.
Bits(text) == IF text.number THEN text.bits ELSE 0
EntropydReports(text) ==
  IF ~text.readable THEN {}
  ELSE Alert(Bits(text) <= 192, "entropy_critical", "critical")
         \cup Alert(Bits(text) \in 193..1024, "entropy_warning", "warning")

\* query_ntp_server, in order until one answers; an answer is how far its time
\* is ahead of the system's, in milliseconds, as the code works it out: it takes
\* the server's seconds, which count from 1900, for seconds since 1970.
NoAnswer == [answered |-> FALSE]
Offset(ms) == [answered |-> TRUE, ms |-> ms]
FirstAnswer(answers) ==
  LET given == SelectSeq(answers, LAMBDA a : a.answered) IN IF given = <<>> THEN NoAnswer ELSE given[1]

\* A system clock that is ahead has no drift: duration_since fails.
Drift(answer) == IF answer.ms > 0 THEN answer.ms ELSE 0

\* last is when the last answer came.  Stale is also what lies in the future.
TimedReports(last, answer, at, threshold, none) ==
  IF answer.answered
  THEN Above(Drift(answer), 1000, 5000, <<"time_drift_warning", "time_drift_critical">>)
  ELSE Alert(TRUE, "ntp_failed", "warning")
         \cup Alert(last # none /\ (at < last \/ at - last > threshold), "ntp_sync_stale", "critical")

-----------------------------------------------------------------------------
(* kha-watchd.                                                             *)

\* A state that cannot be read is Other('?'), and no concern.
Concerning == {"Z", "D", "T", "t"}
ZombieChildren(processes) == Cardinality({p \in processes : p.state = "Z" /\ p.ppid = 1})

\* A check that finds Kha dead returns before it counts zombies.
Persist == 3
Streak(old, new) ==
  CASE ~new.alive -> old
    [] new.alive /\ ZombieChildren(new.processes) = 0 -> 0
    [] OTHER -> IF old = Persist THEN old ELSE old + 1

\* The metrics, and so kha_signals_forwarded, never arrive (see Kha).
KhaWatchdReports(old, new) ==
  Alert(~new.alive, "kha_dead", "critical")
    \cup Alert(new.alive /\ new.state \in Concerning, "kha_state_abnormal", "critical")
    \cup Alert(new.alive /\ Streak(old, new) = Persist, "kha_zombies_persisting", "warning")

-----------------------------------------------------------------------------
(* netd.                                                                   *)

\* Counters are unsigned, of CounterSpan values: one that went down has risen
\* by nearly all of them.
CounterSpan == 1048576  \* 2^20, for the 2^64 of the code
TooManyErrors(old, new) ==
  /\ new.packets > old.packets
  /\ 100 * ((new.errors - old.errors) % CounterSpan) > new.packets - old.packets

\* read_carrier_state is never called, so that the carrier does not change.
NetdReports(old, new) ==
  LET both == old.present /\ new.present IN
  Alert(new.present /\ ~old.present, "interface_new", "info")
    \cup Alert(both /\ new.addr # old.addr, "ip_change", "info")
    \cup Alert(both /\ (TooManyErrors(old.rx, new.rx) \/ TooManyErrors(old.tx, new.tx)), "high_errors", "warning")
    \cup Alert(~new.present /\ old.present, "interface_gone", "warning")

-----------------------------------------------------------------------------
(* wifid.                                                                  *)

\* A line of /proc/net/wireless.  The kernel puts a dot after a level that was
\* updated since the last read, and then it does not parse; a level above zero
\* is taken for its negative; bit 0 of the status is taken for the connection.
Dbm(level) == IF level.dot THEN 0 ELSE IF level.value < 0 THEN level.value ELSE -level.value
ReadWireless(line) ==
  [present |-> TRUE, connected |-> line.status % 2 = 1, signal |-> Dbm(line.level), bssid |-> line.bssid]

WifidReports(old, new) ==
  LET both == old.present /\ new.present IN
  Alert(new.present /\ ~old.present, "interface_new", "info")
    \cup Alert(both /\ old.connected # new.connected, "connection_change",
               IF new.connected THEN "info" ELSE "warning")
    \cup Alert(both /\ old.signal - new.signal > 10, "signal_drop", "warning")
    \cup Alert(both /\ new.connected /\ "none" \notin {old.bssid, new.bssid} /\ old.bssid # new.bssid,
               "roam", "info")
    \cup Alert(both /\ old.connected /\ ~new.connected /\ old.bssid = new.bssid, "auth_fail", "warning")
    \cup Alert(~new.present /\ old.present, "interface_gone", "warning")
=============================================================================
