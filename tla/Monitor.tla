------------------------------- MODULE Monitor ------------------------------
(***************************************************************************)
(* The daemons that poll the system and report to the Bridge: one life of  *)
(* one of them.  A daemon connects and registers, waits for the            *)
(* acknowledgement, and then polls, compares what it samples with what it  *)
(* remembers, and emits alerts; emit_alert suppresses repetitions within   *)
(* Window.  mountd is the same but for its socket, which has no reader of  *)
(* its own and is taken out of its Option to be read.                      *)
(*                                                                         *)
(* A sample is what a poll reads, for one interface, mount point or pool;  *)
(* what the daemon makes of it is in Readings and Mounts.  emit_alert      *)
(* treats its keys apart from each other, so that one key of the daemon is *)
(* followed, any of them.  A check is one step at its end, in which its    *)
(* writes reach the Bridge or fail at the first; the system clock may be   *)
(* set between two.  StatusRequest and Forward, and a Reload but for       *)
(* mountd, change no state and are left out, and Restart is Stop.          *)
(***************************************************************************)
EXTENDS Mounts

CONSTANTS
  Daemons,     \* the daemons to look at; vpnd stands for the four without checks
  Window,      \* the 60 s of emit_alert
  StaleAfter,  \* SYNC_STALE_THRESHOLD_SECS of timed
  SeedAfter,   \* SEED_SAVE_INTERVAL_SECS of entropyd
  Raw,         \* what each daemon may find when it looks, see Found
  Fstabs,      \* the tables that mountd may load
  Elapsed,     \* what the clock may advance by between two polls
  MaxNow,      \* bound on the clock
  MaxInbox,    \* bound on the frames that wait
  None

\* What there is to look at, and the grades of an alert.
Names == {"vpnd", "netd", "wifid", "timed", "healthd", "entropyd", "kha_watchd", "mountd"}
Grades == {"info", "warning", "critical"}

ASSUME MonitorAssumption ==
  /\ Daemons \subseteq Names
  /\ Window \in Nat \ {0} /\ StaleAfter \in Nat /\ SeedAfter \in Nat
  /\ Elapsed \subseteq Int /\ MaxNow \in Nat /\ MaxInbox \in Nat \ {0}
  /\ None \notin Int \cup [severity : Grades, at : 0..MaxNow]

VARIABLES
  daemon,   \* which daemon this is
  key,      \* the key of emit_alert that is followed
  fstab,    \* expected_mounts of mountd, at the mount point that is followed
  mode,     \* where its main is
  link,     \* the Bridge's end of the connection
  socket,   \* mountd's Option<UnixStream>; "held" for the others
  inbox,    \* what the Bridge sent and main did not take yet, "Eof" the last
  now,      \* the system clock
  known,    \* what the daemon remembers from its polls
  window,   \* last_alerts[key], or None
  \* history, read by no action
  seen,     \* the samples of the last polls, the latest first
  due,      \* the severities at which the last poll had to report key
  heard     \* the last alert of key that was written to the Bridge, or None

connection == <<link, socket, inbox>>
memory == <<now, known, window>>
history == <<seen, due, heard>>
vars == <<daemon, key, fstab, mode, connection, memory, history>>

-----------------------------------------------------------------------------
(* What the daemons sample, remember and report.                           *)

\* What a daemon may find when it looks: a line of /proc/net/dev with the
\* addresses, one of /proc/net/wireless, the answers of the servers asked, ...
Words == Seq(STRING \X STRING)
Counters == [packets : 0..(CounterSpan - 1), errors : 0..(CounterSpan - 1)]
Interface == [present : BOOLEAN, addr : STRING, rx : Counters, tx : Counters]
WirelessLine == [status : Nat, level : [value : Int, dot : BOOLEAN], bssid : STRING]
Answers == Seq({NoAnswer} \cup [answered : {TRUE}, ms : Int])
Temperature == Int  \* of the one thermal zone, in degrees; without one, as if it were cold
Measures == [
  cpus : Nat, cpu : Nat, total : Nat, used : Nat, mount : STRING, disk : Nat, temperature : Temperature,
  meminfo : [readable : BOOLEAN, total : Nat, available : Nat]]
Entropy == [readable : BOOLEAN, number : BOOLEAN, bits : Nat]
PidOne == [alive : BOOLEAN, state : STRING, processes : SUBSET [state : STRING, ppid : Nat]]
MountLine == [type : STRING, options : Words, tags : Seq(STRING \X Nat), fsReadonly : BOOLEAN]
Usage == Nat        \* percent of the file system
MountPoint == [
  readable : BOOLEAN, source : Sources, lines : Seq(MountLine), usage : Usage, pool : Words, scrub : Words]
Found == [
  vpnd |-> {"nothing"}, netd |-> Interface, wifid |-> WirelessLine \cup {None}, timed |-> Answers,
  healthd |-> Measures, entropyd |-> Entropy, kha_watchd |-> PidOne, mountd |-> MountPoint ]
FstabLine == [fields : Nat, type : STRING, options : Words]

ASSUME RawAssumption ==
  /\ \A d \in Names : Raw[d] \subseteq Found[d]
  /\ Fstabs \subseteq Seq(FstabLine)

NoInterface == [present |-> FALSE, addr |-> "none", rx |-> [packets |-> 0, errors |-> 0], tx |-> [packets |-> 0, errors |-> 0]]
NoWireless == [present |-> FALSE, connected |-> FALSE, signal |-> 0, bssid |-> "none"]

\* What it makes of that before it looks for anything to report.
Sampled(d, raw) ==
  CASE d = "wifid" -> IF raw = None THEN NoWireless ELSE ReadWireless(raw)
    [] d = "timed" -> FirstAnswer(raw)
    [] d = "mountd" -> [readable |-> raw.readable, entry |-> CurrentMount(raw.source, raw.lines),
                        usage |-> raw.usage, pool |-> ParsePool(raw.pool), scrub |-> ParseScrub(raw.scrub)]
    [] OTHER -> raw
Samples == [d \in Names |-> {Sampled(d, raw) : raw \in Raw[d]}]
Expectations == {ParseFstab(lines) : lines \in Fstabs}

Blank == [
  vpnd |-> None, netd |-> NoInterface, wifid |-> NoWireless, timed |-> None, healthd |-> None,
  entropyd |-> None, kha_watchd |-> 0, mountd |-> Unknown ]

\* A mount table that no source gives ends mountd's check at once.
MountdReports(old, new) ==
  IF ~new.readable THEN {}
  ELSE MountReports(fstab, new.entry, old, new.usage) \cup PoolReports(new.pool) \cup ScrubReports(new.scrub)

Reports(d, old, new) ==
  CASE d = "netd" -> NetdReports(old, new)
    [] d = "wifid" -> WifidReports(old, new)
    [] d = "timed" -> TimedReports(old, new, now', StaleAfter, None)
    [] d = "kha_watchd" -> KhaWatchdReports(old, new)
    [] d = "mountd" -> MountdReports(old, new)
    [] d = "healthd" -> HealthdReports(new)
    [] d = "entropyd" -> EntropydReports(new)
    [] d = "vpnd" -> {}

\* Mutant: what has disappeared is never taken out of known_interfaces.
RememberedForever(d, old, new) ==
  CASE d \in {"netd", "wifid"} -> {IF new.present THEN new ELSE old}
    [] d = "timed" -> {IF new.answered THEN now' ELSE old}
    [] d = "kha_watchd" -> {Streak(old, new)}
    [] OTHER -> {old}

\* The memory after a poll.  netd keeps what /proc/net/dev says, without the
\* addresses; mountd the read-only flag of a mount that is away; entropyd the
\* time of its last seed, if it was time to save one and that went well.
Remembered(d, old, new) ==
  CASE d = "netd" -> {[new EXCEPT !.addr = "none"]}
    [] d = "wifid" -> {new}
    [] d = "timed" -> {IF new.answered THEN now' ELSE old}
    [] d = "kha_watchd" -> {Streak(old, new)}
    [] d = "mountd" -> {IF new.readable THEN MountKnown(fstab, new.entry, old) ELSE old}
    [] d = "entropyd" -> {old} \cup IF new.readable
                                       /\ (old = None \/ now' - old > SeedAfter \/ now' < old)
                                    THEN {now'} ELSE {}
    [] OTHER -> {old}

\* The memory that would be right: that of what the last polls have seen.
Looked == [netd |-> 1, wifid |-> 1, mountd |-> 1, kha_watchd |-> Persist - 1]
LooksBack == DOMAIN Looked
Seen(sample) ==
  CASE daemon = "kha_watchd" -> sample.alive /\ ZombieChildren(sample.processes) > 0
    [] daemon = "mountd" -> MountKnown(fstab, sample.entry, Unknown)
    [] OTHER -> sample
Looks(sample) == daemon \in LooksBack /\ (daemon = "mountd" => sample.readable)
Ideal ==
  CASE daemon = "kha_watchd" -> Cardinality({i \in DOMAIN seen : \A j \in 1..i : seen[j]})
    [] daemon \in LooksBack \ {"kha_watchd"} /\ seen = <<>> -> Blank[daemon]
    [] daemon \in {"netd", "wifid"} /\ seen # <<>> -> seen[1]
    [] daemon = "mountd" /\ seen # <<>> ->
         IF seen[1].mounted THEN seen[1] ELSE [seen[1] EXCEPT !.readonly = known.readonly]
    [] OTHER -> known

Keys == [
  vpnd       |-> {"none"},
  netd       |-> {"interface_new", "ip_change", "high_errors", "interface_gone"},
  wifid      |-> {"interface_new", "connection_change", "signal_drop", "roam", "auth_fail", "interface_gone"},
  timed      |-> {"ntp_failed", "ntp_sync_stale", "time_drift_critical", "time_drift_warning"},
  healthd    |-> {"cpu_warning", "cpu_critical", "memory_warning", "memory_critical", "disk_warning",
                  "disk_critical", "temp_warning", "temp_critical"},
  entropyd   |-> {"entropy_warning", "entropy_critical"},
  kha_watchd |-> {"kha_dead", "kha_state_abnormal", "kha_zombies_persisting"},
  mountd     |-> {"mount_missing", "mount_fs_mismatch", "mount_options_changed", "mount_prop_changed",
                  "disk_warning", "disk_critical", "fs_readonly", "mount_unexpected", "mount_disappeared",
                  "zfs_pool_degraded", "zfs_scrub_running", "zfs_scrub_errors", "btrfs_scrub_running",
                  "btrfs_scrub_errors"} ]
Severities(old, new) == {report[2] : report \in {found \in Reports(daemon, old, new) : found[1] = key}}

-----------------------------------------------------------------------------
Init ==
  /\ daemon \in Daemons /\ key \in Keys[daemon] /\ mode = "waiting" /\ link = "up"
  /\ fstab \in IF daemon = "mountd" THEN Expectations ELSE {Unlisted}
  /\ socket = IF daemon = "mountd" THEN "taken" ELSE "held"
  /\ inbox = <<>> /\ now = 0 /\ known = Blank[daemon] /\ window = None
  /\ seen = <<>> /\ due = {} /\ heard = None

(* The Bridge, and the thread that reads from it.                          *)

Frames == {"Acknowledged", "Rejected", "Stop", "Reload"}

\* The Bridge answers the registration, and may stop the daemon at any time, or
\* tell it to reload: the daemons handle both, though this Bridge sends neither.
Send(frame) ==
  /\ mode # "exited" /\ (frame = "Stop" \/ mode = "waiting") /\ (frame = "Reload" => daemon = "mountd")
  /\ link = "up" /\ socket # "gone" /\ Len(inbox) < MaxInbox
  /\ inbox' = Append(inbox, frame)
  /\ UNCHANGED <<daemon, key, fstab, mode, link, socket, memory, history>>

Close ==
  /\ mode # "exited" /\ link = "up"
  /\ link' = "closed"
  /\ inbox' = IF socket = "gone" THEN inbox ELSE Append(inbox, "Eof")
  /\ UNCHANGED <<daemon, key, fstab, mode, socket, memory, history>>

(* Main.                                                                   *)

\* What there is of the process goes with it.
Leave(left) ==
  /\ mode' = left
  /\ IF left = "exited"
     THEN inbox' = <<>> /\ known' = Blank[daemon] /\ window' = None /\ seen' = <<>> /\ due' = {}
     ELSE inbox' = Tail(inbox) /\ UNCHANGED <<known, window, seen, due>>

CanWrite == socket # "held" \/ link = "up"

\* shutdown saves the seed of entropyd and tells the Bridge; an error of
\* either returns before the exit, and the Stop is lost.
ShutDown ==
  CASE ~CanWrite -> {mode}
    [] CanWrite /\ daemon = "entropyd" -> {mode, "exited"}
    [] OTHER -> {"exited"}

\* handle_bridge_message: where it leaves the process.
Handled(frame) ==
  CASE frame = "Rejected" -> {"exited"}
    [] frame = "Stop" -> ShutDown
    [] OTHER -> {mode}

Reads == daemon # "mountd" \/ socket = "taken"

\* The wait for the registration, which any Acknowledged ends, but mountd's.
WaitReceive ==
  /\ mode = "waiting" /\ Reads /\ inbox # <<>> /\ Head(inbox) # "Eof"
  /\ \E left \in Handled(Head(inbox)) :
       Leave(IF left = "waiting" /\ Head(inbox) = "Acknowledged" /\ daemon # "mountd"
             THEN "running" ELSE left)
  /\ fstab' \in IF Head(inbox) = "Reload" THEN Expectations ELSE {fstab}
  /\ UNCHANGED <<daemon, key, link, socket, now, heard>>

\* The end of the connection is taken out of the channel.
WaitClosed ==
  /\ mode = "waiting" /\ daemon # "mountd" /\ inbox = <<"Eof">>
  /\ mode' = "running" /\ inbox' = <<>>
  /\ UNCHANGED <<daemon, key, fstab, link, socket, memory, history>>

\* Mutant: the socket is dropped with the future of every daemon.
WaitTimeoutDropsAll ==
  /\ mode = "waiting"
  /\ mode' = "running" /\ socket' = "gone" /\ inbox' = <<>>
  /\ UNCHANGED <<daemon, key, fstab, link, memory, history>>

\* Mutant: the main loop starts with a channel of its own.
WaitTimeoutForgets ==
  /\ mode = "waiting"
  /\ mode' = "running" /\ inbox' = <<>>
  /\ socket' = IF socket = "taken" THEN "gone" ELSE socket
  /\ UNCHANGED <<daemon, key, fstab, link, memory, history>>

\* The five seconds are over.  mountd's future is dropped, and the stream with
\* it when it is being read.
WaitTimeout ==
  /\ mode = "waiting"
  /\ mode' = "running"
  /\ IF socket = "taken" THEN socket' = "gone" /\ inbox' = <<>> ELSE UNCHANGED <<socket, inbox>>
  /\ UNCHANGED <<daemon, key, fstab, link, memory, history>>

\* mountd reads the end of its stream, puts it back, and takes it again.
MountdEof ==
  /\ mode = "waiting" /\ socket = "taken" /\ inbox = <<"Eof">>
  /\ socket' = "held"
  /\ UNCHANGED <<daemon, key, fstab, mode, link, inbox, memory, history>>
MountdTake ==
  /\ mode = "waiting" /\ daemon = "mountd" /\ socket = "held"
  /\ socket' = "taken"
  /\ UNCHANGED <<daemon, key, fstab, mode, link, inbox, memory, history>>

Receive ==
  /\ mode = "running" /\ daemon # "mountd" /\ inbox # <<>> /\ Head(inbox) # "Eof"
  /\ \E left \in Handled(Head(inbox)) : Leave(left)
  /\ UNCHANGED <<daemon, key, fstab, link, socket, now, heard>>

\* Mutant: the main loop waits for the event and ignores the end of the channel.
SeeClosedOnce ==
  /\ mode = "running" /\ daemon # "mountd" /\ inbox = <<"Eof">>
  /\ Leave("exited")
  /\ UNCHANGED <<daemon, key, fstab, link, socket, now, heard>>

\* Some(Closed), or None of a channel whose reader has ended.
SeeClosed ==
  /\ mode = "running" /\ daemon # "mountd" /\ link = "closed" /\ inbox \in {<<>>, <<"Eof">>}
  /\ Leave("exited")
  /\ UNCHANGED <<daemon, key, fstab, link, socket, now, heard>>

Poll ==
  /\ mode = "running" /\ mode' = "checking"
  /\ UNCHANGED <<daemon, key, fstab, connection, memory, history>>

-----------------------------------------------------------------------------
(* A check.                                                                *)

Order == [info |-> 1, warning |-> 2, critical |-> 3]

\* Mutants: a graver alert is a repetition too; the window is a second short.
PassesByTime(severity) == window = None \/ now' - window.at \notin 0..(Window - 1)
PassesEarly(severity) ==
  \/ window = None
  \/ now' - window.at \notin 0..(Window - 2)
  \/ Order[severity] > Order[window.severity]

\* emit_alert's test.  A difference below zero wraps and is no less than 60.
Passes(severity) ==
  \/ window = None
  \/ now' - window.at \notin 0..(Window - 1)
  \/ Order[severity] > Order[window.severity]

Emitted(sample) == {severity \in Severities(known, sample) : Passes(severity)}
Noted(alert, sent) == IF sent = {} THEN {alert} ELSE {[severity |-> severity, at |-> now'] : severity \in sent}

Elapses(e) == now + e \in 0..MaxNow /\ now' = now + e

\* The differences that a build with overflow checks panics at.
Underflows(sample) ==
  \/ Severities(known, sample) # {} /\ window # None /\ now' < window.at
  \/ /\ daemon = "netd" /\ sample.present /\ known.present
     /\ \E way \in {"rx", "tx"} :
          sample[way].packets > known[way].packets /\ sample[way].errors < known[way].errors

\* send_frame of mountd without its stream does nothing and returns Ok.
Check(e, sample) ==
  /\ mode = "checking" /\ CanWrite /\ Elapses(e)
  /\ mode' = "running"
  /\ window' \in Noted(window, Emitted(sample))
  /\ known' \in Remembered(daemon, known, sample)
  /\ seen' = IF Looks(sample)
             THEN SubSeq(<<Seen(sample)>> \o seen, 1, IF Len(seen) < Looked[daemon] THEN Len(seen) + 1 ELSE Looked[daemon])
             ELSE seen
  /\ due' = Severities(Ideal, sample)
  /\ heard' = IF socket = "held" /\ Emitted(sample) # {} THEN window' ELSE heard
  /\ UNCHANGED <<daemon, key, fstab, connection>>

\* The first write fails: that of this alert, which is noted all the same, of
\* an earlier one, or of the status.
CheckFails(e, sample) ==
  /\ mode = "checking" /\ ~CanWrite /\ Elapses(e)
  /\ mode' = "running"
  /\ window' \in {window} \cup Noted(window, Emitted(sample))
  /\ known' \in {known} \cup Remembered(daemon, known, sample)
  /\ seen' = <<>> /\ due' = {}
  /\ UNCHANGED <<daemon, key, fstab, connection, heard>>

Panic(e, sample) ==
  /\ mode = "checking" /\ Elapses(e) /\ Underflows(sample)
  /\ Leave("exited")
  /\ UNCHANGED <<daemon, key, fstab, link, socket, heard>>

Checks == \E e \in Elapsed, sample \in Samples[daemon] : Check(e, sample) \/ CheckFails(e, sample) \/ Panic(e, sample)

Exited == mode = "exited" /\ UNCHANGED vars

Next ==
  \/ \E frame \in Frames : Send(frame)
  \/ Close
  \/ WaitReceive \/ WaitClosed \/ WaitTimeout \/ MountdEof \/ MountdTake
  \/ Receive \/ SeeClosed \/ Poll
  \/ Checks
  \/ Exited

\* Timers fire and checks end.  select! picks a ready branch at random, so
\* that one that is ready again and again is taken.
Fairness ==
  /\ WF_vars(WaitTimeout) /\ WF_vars(Checks)
  /\ SF_vars(Receive) /\ SF_vars(SeeClosed)

Spec == Init /\ [][Next]_vars
FairSpec == Spec /\ Fairness

-----------------------------------------------------------------------------
Alerts == [severity : Grades, at : 0..MaxNow] \cup {None}

\* The variables have the types that the code declares; only mountd's socket
\* is ever taken or gone, and the end of the connection is the last event.
TypeOK ==
  /\ daemon \in Daemons /\ key \in Keys[daemon] /\ fstab \in Expectations \cup {Unlisted}
  /\ mode \in {"waiting", "running", "checking", "exited"}
  /\ link \in {"up", "closed"} /\ socket \in {"held", "taken", "gone"}
  /\ socket # "held" => daemon = "mountd"
  /\ Len(inbox) <= MaxInbox + 1
  /\ \A i \in DOMAIN inbox : inbox[i] \in Frames \/ (i = Len(inbox) /\ inbox[i] = "Eof" /\ link = "closed")
  /\ now \in 0..MaxNow
  /\ window \in Alerts /\ heard \in Alerts
  /\ daemon = "kha_watchd" => known \in 0..Persist

\* What the daemon has told the Bridge.  mountd only takes it for told: see
\* AlertsHeard, which holds of the others.
Told == IF daemon = "mountd" THEN window ELSE heard

\* netd stores its interfaces without their addresses: an address that went is
\* not reported, and one that stays is a change at every poll.
\* Whatever else the last poll had to report, the Bridge was told within
\* Window, as gravely or more so: emit_alert suppresses repetitions, and loses
\* nothing, whatever the daemon remembers and however the clock is set.
Covered ==
  link = "up" /\ key # "ip_change" =>
    \A severity \in due :
      Told # None /\ Order[Told.severity] >= Order[severity] /\ now - Told.at \in 0..(Window - 1)

\* An alert goes out only for what the samples of the last polls show, so that
\* a change is not told again when nothing has changed since; but for netd's
\* addresses, and for the zombies that kha-watchd has counted before a poll
\* that found Kha dead.
Grounded ==
  [][link = "up" /\ Told' \notin {Told, None} =>
       key \in {"ip_change", "kha_zombies_persisting"} \/ Told'.severity \in due']_vars

\* The Bridge does not hear of one key twice within Window, unless it has
\* become graver or the clock was set back in between.
NotFlooded ==
  [][link = "up" /\ Told' \notin {Told, None} /\ Told # None =>
       \/ now' - Told.at \notin 0..(Window - 1)
       \/ Order[Told'.severity] > Order[Told.severity]]_vars

\* A Stop ends the daemon, whatever it is doing when it arrives; not entropyd,
\* which gives up its shutdown if it cannot save the seed, and not mountd.
Stops ==
  (daemon \notin {"entropyd", "mountd"} /\ \E i \in DOMAIN inbox : inbox[i] = "Stop") ~> mode = "exited"

\* A daemon ends when its Bridge has closed the connection, also when the end
\* was taken by the wait for the registration, or in the midst of a check.
ExitsWithBridge == (link = "closed" /\ daemon # "mountd") ~> mode = "exited"

\* While the Bridge keeps the connection, an alert that the daemon counts as
\* emitted (mountd logs it and suppresses repetitions) was written to it.
AlertsHeard == link = "up" /\ mode # "exited" => window = heard
=============================================================================
