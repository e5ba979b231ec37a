---------------------------- MODULE MonitorProofs ----------------------------
(***************************************************************************)
(* Proofs about Monitor, for any daemons, window, clock and readings.      *)
(***************************************************************************)
EXTENDS Monitor, ReadingsProofs, SequenceTheorems, FiniteSetTheorems

\* Only mountd's socket is ever out of its Option, and only in the wait for the
\* registration.  While the socket is there and the Bridge keeps the connection,
\* a daemon that runs has told the Bridge what it counts as emitted.
Inv ==
  /\ socket \in {"held", "taken", "gone"}
  /\ daemon # "mountd" => socket = "held"
  /\ socket = "taken" => mode \in {"waiting", "exited"}
  /\ socket # "gone" => AlertsHeard

-----------------------------------------------------------------------------
\* The frames, the wait and the end of the connection leave what was emitted as
\* it is, or end the daemon.
LEMMA OutsideChecks ==
  ASSUME Inv,
         \/ \E frame \in Frames : Send(frame)
         \/ Close \/ WaitReceive \/ WaitClosed \/ WaitTimeout \/ MountdEof \/ MountdTake
         \/ Receive \/ SeeClosed \/ Poll \/ Exited
  PROVE  Inv' /\ heard' = heard /\ window' \in {window, None} /\ daemon' = daemon
<1> USE DEF Inv, AlertsHeard, connection, memory, history, vars
<1>1. ASSUME NEW frame \in Frames, Send(frame)
      PROVE  Inv' /\ heard' = heard /\ window' \in {window, None} /\ daemon' = daemon
  BY <1>1 DEF Send
<1>2. CASE Close
  BY <1>2 DEF Close
<1>3. CASE WaitReceive \/ Receive \/ SeeClosed
  <2>1. \E left : Leave(left)
    BY <1>3 DEF WaitReceive, Receive, SeeClosed
  <2>2. window' = window \/ (window' = None /\ mode' = "exited")
    BY <2>1 DEF Leave
  <2>3. mode # "exited" /\ UNCHANGED <<daemon, link, socket, heard>>
    BY <1>3 DEF WaitReceive, Receive, SeeClosed
  <2>4. socket = "taken" => mode' \in {"waiting", "exited"}
    <3>1. CASE Receive \/ SeeClosed
      BY <3>1 DEF Receive, SeeClosed
    <3>2. CASE WaitReceive /\ socket = "taken"
      <4>1. daemon = "mountd" /\ mode = "waiting"
        BY <3>2 DEF WaitReceive
      <4>2. PICK left \in Handled(Head(inbox)) : Leave(left)
        BY <3>2, <4>1 DEF WaitReceive
      <4>3. left \in {"waiting", "exited"} /\ mode' = left
        BY <4>1, <4>2 DEF Handled, ShutDown, Leave
      <4>4. QED
        BY <4>3
    <3>3. QED
      BY <1>3, <3>1, <3>2
  <2>5. QED
    BY <2>2, <2>3, <2>4
<1>4. CASE WaitClosed \/ WaitTimeout \/ MountdEof \/ MountdTake
  BY <1>4 DEF WaitClosed, WaitTimeout, MountdEof, MountdTake
<1>5. CASE Poll \/ Exited
  BY <1>5 DEF Poll, Exited
<1>6. QED
  BY <1>1, <1>2, <1>3, <1>4, <1>5

\* What a check notes is what it had already, or an alert that passed the test.
LEMMA NotedPassed ==
  ASSUME NEW sample, window' \in Noted(window, Emitted(sample))
  PROVE  \/ window' = window /\ Emitted(sample) = {}
         \/ \E severity : Passes(severity) /\ window' = [severity |-> severity, at |-> now']
  BY DEF Noted, Emitted

\* A check keeps the invariant, and what it tells the Bridge has passed.
LEMMA InChecks ==
  ASSUME Inv, Checks
  PROVE  /\ Inv' /\ daemon' = daemon
         /\ link = "up" =>
              \/ Told' \in {Told, None}
              \/ \E severity : Passes(severity) /\ Told' = [severity |-> severity, at |-> now']
         /\ daemon # "mountd" /\ link = "up" => window = heard
<1> USE DEF Inv, AlertsHeard, Told, connection, memory, history
<1>1. PICK e \in Elapsed, sample \in Samples[daemon] : Check(e, sample) \/ CheckFails(e, sample) \/ Panic(e, sample)
  BY DEF Checks
<1>2. CASE Check(e, sample)
  <2>1. /\ mode = "checking" /\ UNCHANGED <<daemon, link, socket>>
        /\ socket # "taken"
        /\ window' \in Noted(window, Emitted(sample))
        /\ heard' = IF socket = "held" /\ Emitted(sample) # {} THEN window' ELSE heard
    BY <1>2 DEF Check
  <2>2. \/ window' = window /\ Emitted(sample) = {}
        \/ \E severity : Passes(severity) /\ window' = [severity |-> severity, at |-> now']
    BY <2>1, NotedPassed
  <2>3. Emitted(sample) = {} => window' = window
    BY <2>1 DEF Noted
  <2>4. Inv'
    BY <2>1, <2>3
  <2>5. daemon # "mountd" /\ link = "up" => window = heard /\ window' = heard'
    BY <2>1, <2>3
  <2>6. QED
    BY <2>1, <2>2, <2>4, <2>5
<1>3. CASE CheckFails(e, sample)
  <2>1. mode = "checking" /\ UNCHANGED <<daemon, link, socket, heard>> /\ socket = "held" /\ link # "up"
    BY <1>3 DEF CheckFails, CanWrite
  <2>2. QED
    BY <2>1
<1>4. CASE Panic(e, sample)
  <2>1. mode = "checking" /\ UNCHANGED <<daemon, link, socket, heard>>
    BY <1>4 DEF Panic
  <2>2. window' = None /\ mode' = "exited"
    BY <1>4 DEF Panic, Leave
  <2>3. QED
    BY <2>1, <2>2
<1>5. QED
  BY <1>1, <1>2, <1>3, <1>4

-----------------------------------------------------------------------------
LEMMA Invariance == Spec => []Inv
<1>1. Init => Inv
  BY DEF Init, Inv, AlertsHeard
<1>2. Inv /\ [Next]_vars => Inv'
  <2> SUFFICES ASSUME Inv, [Next]_vars PROVE Inv'
    OBVIOUS
  <2>1. CASE Checks
    BY <2>1, InChecks
  <2>2. CASE UNCHANGED vars
    BY <2>2 DEF vars, connection, memory, history, Inv, AlertsHeard
  <2>3. CASE Next /\ ~Checks
    BY <2>3, OutsideChecks DEF Next
  <2>4. QED
    BY <2>1, <2>2, <2>3
<1>3. QED
  BY <1>1, <1>2, PTL DEF Spec

\* What AlertsHeard promises, and mountd breaks, holds of every other daemon, and
\* of mountd until the registration timeout has dropped its socket: an alert that
\* is counted as emitted was written to a Bridge that is there.
THEOREM HeardWithSocket ==
  Spec => []((daemon = "mountd" => socket # "gone") => AlertsHeard)
<1>1. Inv => ((daemon = "mountd" => socket # "gone") => AlertsHeard)
  BY DEF Inv
<1>2. QED
  BY <1>1, Invariance, PTL

\* emit_alert tells the Bridge of one key twice within the window only if it has
\* become graver or the clock was set back, whatever is sampled and remembered.
THEOREM NotFloodedHolds == Spec => NotFlooded
<1> DEFINE Spaced ==
      link = "up" /\ Told' \notin {Told, None} /\ Told # None =>
        \/ now' - Told.at \notin 0..(Window - 1)
        \/ Order[Told'.severity] > Order[Told.severity]
<1>1. Inv /\ [Next]_vars => [Spaced]_vars
  <2> SUFFICES ASSUME Inv, Next PROVE Spaced
    OBVIOUS
  <2>1. CASE Checks
    <3>1. CASE link = "up" /\ Told' \notin {Told, None}
      <4>1. PICK severity : Passes(severity) /\ Told' = [severity |-> severity, at |-> now']
        BY <2>1, <3>1, InChecks
      <4>2. Told = window
        BY <2>1, <3>1, InChecks DEF Told
      <4>3. Told'.severity = severity
        BY <4>1
      <4>4. QED
        BY <4>1, <4>2, <4>3 DEF Passes
    <3>2. QED
      BY <3>1
  <2>2. CASE ~Checks
    <3>1. heard' = heard /\ window' \in {window, None} /\ daemon' = daemon
      BY <2>2, OutsideChecks DEF Next
    <3>2. Told' \in {Told, None}
      BY <3>1 DEF Told
    <3>3. QED
      BY <3>2
  <2>3. QED
    BY <2>1, <2>2
<1>2. QED
  BY <1>1, Invariance, PTL DEF Spec, NotFlooded
-----------------------------------------------------------------------------
(* The types: the inbox, in which the end of the connection is the last.   *)

\* While the Bridge keeps the connection, only frames wait, within the bound.
Waiting(queue, end) ==
  /\ queue \in Seq(Frames \cup {"Eof"})
  /\ Len(queue) <= MaxInbox + 1
  /\ \A i \in DOMAIN queue : queue[i] \in Frames \/ (i = Len(queue) /\ queue[i] = "Eof" /\ end = "closed")
  /\ end = "up" => Len(queue) <= MaxInbox

\* The types of what is not in the inbox, in two parts.
Chosen ==
  /\ daemon \in Daemons /\ key \in Keys[daemon] /\ fstab \in Expectations \cup {Unlisted}
  /\ mode \in {"waiting", "running", "checking", "exited"}
  /\ link \in {"up", "closed"} /\ socket \in {"held", "taken", "gone"}
  /\ socket # "held" => daemon = "mountd"
Noticed ==
  /\ now \in 0..MaxNow /\ window \in Alerts /\ heard \in Alerts
  /\ daemon = "kha_watchd" => known \in 0..Persist

Typed == Chosen /\ Noticed /\ Waiting(inbox, link)

LEMMA KindsFollowed ==
  ASSUME daemon \in Daemons
  PROVE  daemon \in Names
  BY MonitorAssumption

\* fstab gives every mount point that it lists one of the three severities.
LEMMA FstabGraded ==
  ASSUME fstab \in Expectations \cup {Unlisted}, fstab # Unlisted
  PROVE  fstab.severity \in Grades
<1>1. PICK lines \in Fstabs : fstab = ParseFstab(lines)
  BY DEF Expectations
<1>2. lines \in Seq(FstabLine)
  BY <1>1, RawAssumption
<1>3. Len(lines) \in Nat /\ DOMAIN lines = 1..Len(lines)
  BY <1>2
<1>4. ASSUME NEW i \in 1..Len(lines) PROVE \E m \in Nat : DOMAIN lines[i].options = 1..m
  <2>1. lines[i] \in FstabLine
    BY <1>2, <1>3
  <2>2. lines[i].options \in Seq(STRING \X STRING)
    BY <2>1 DEF FstabLine, Words
  <2>3. QED
    BY <2>2
<1>5. QED
  BY <1>1, <1>3, <1>4, FstabSeverity DEF Grades

\* A poll reports a key with one severity, and that is one of the three.
LEMMA Graded ==
  ASSUME Typed, NEW old, NEW sample, NEW severity \in Severities(old, sample)
  PROVE  severity = Gravity(key, sample.connected, fstab.severity) /\ severity \in Grades
<1>1. PICK r \in Reports(daemon, old, sample) : r[1] = key /\ severity = r[2]
  BY DEF Severities
<1>2. daemon \in Names /\ fstab \in Expectations \cup {Unlisted}
  BY KindsFollowed DEF Typed, Chosen
<1>3. /\ r[2] = Gravity(r[1], sample.connected, fstab.severity)
      /\ r[1] = "mount_missing" => fstab # Unlisted
  <2>1. CASE daemon = "vpnd"
    BY <1>1, <2>1 DEF Reports
  <2>2. CASE daemon = "netd"
    BY <1>1, <2>2, NetdGravity DEF Reports
  <2>3. CASE daemon = "wifid"
    <3>1. r \in WifidReports(old, sample)
      BY <1>1, <2>3 DEF Reports
    <3>2. QED
      BY <3>1, WifidGravity
  <2>4. CASE daemon = "timed"
    BY <1>1, <2>4, TimedGravity DEF Reports
  <2>5. CASE daemon = "healthd"
    BY <1>1, <2>5, HealthdGravity DEF Reports
  <2>6. CASE daemon = "entropyd"
    BY <1>1, <2>6, EntropydGravity DEF Reports
  <2>7. CASE daemon = "kha_watchd"
    BY <1>1, <2>7, KhaWatchdGravity DEF Reports
  <2>8. CASE daemon = "mountd"
    <3>1. r \in MountdReports(old, sample)
      BY <1>1, <2>8 DEF Reports
    <3>2. \/ r \in MountReports(fstab, sample.entry, old, sample.usage)
          \/ r \in PoolReports(sample.pool) \cup ScrubReports(sample.scrub)
      BY <3>1 DEF MountdReports
    <3>3. CASE r \in MountReports(fstab, sample.entry, old, sample.usage)
      BY <3>3, MountGravity
    <3>4. CASE r \in PoolReports(sample.pool) \cup ScrubReports(sample.scrub)
      BY <3>4, PoolGravity
    <3>5. QED
      BY <3>2, <3>3, <3>4
  <2>9. QED
    BY <1>2, <2>1, <2>2, <2>3, <2>4, <2>5, <2>6, <2>7, <2>8 DEF Names
<1>4. r[1] = "mount_missing" => fstab.severity \in Grades
  BY <1>2, <1>3, FstabGraded
<1>5. r[2] \in Grades
  BY <1>3, <1>4 DEF Gravity, Grades
<1>6. QED
  BY <1>1, <1>3, <1>5

-----------------------------------------------------------------------------
\* What the inbox may become: shorter, longer while there is room, or the last
\* it holds is the end of the connection.
LEMMA WaitingShrinks ==
  ASSUME NEW queue, NEW end, Waiting(queue, end)
  PROVE  Waiting(<<>>, end) /\ (queue # <<>> => Waiting(Tail(queue), end))
<1> USE DEF Waiting
<1>1. Waiting(<<>>, end)
  BY MonitorAssumption
<1>2. ASSUME queue # <<>> PROVE Waiting(Tail(queue), end)
  <2>1. /\ Tail(queue) \in Seq(Frames \cup {"Eof"})
        /\ Len(Tail(queue)) = Len(queue) - 1 /\ Len(queue) \in Nat
        /\ \A i \in 1..Len(Tail(queue)) : Tail(queue)[i] = queue[i + 1]
    BY <1>2, HeadTailProperties
  <2>2. \A i \in DOMAIN Tail(queue) : i + 1 \in DOMAIN queue /\ (i + 1 = Len(queue) => i = Len(Tail(queue)))
    BY <2>1
  <2>3. QED
    BY <2>1, <2>2, MonitorAssumption
<1>3. QED
  BY <1>1, <1>2

LEMMA WaitingGrows ==
  ASSUME NEW queue, Waiting(queue, "up"), NEW frame \in Frames
  PROVE  /\ Len(queue) < MaxInbox => Waiting(Append(queue, frame), "up")
         /\ Waiting(queue, "closed") /\ Waiting(Append(queue, "Eof"), "closed")
<1> USE DEF Waiting
<1>1. Waiting(queue, "closed")
  OBVIOUS
<1>2. Len(queue) \in Nat /\ DOMAIN queue = 1..Len(queue) /\ \A i \in 1..Len(queue) : queue[i] \in Frames
  OBVIOUS
<1>3. ASSUME NEW x \in Frames \cup {"Eof"}
      PROVE  /\ Append(queue, x) \in Seq(Frames \cup {"Eof"})
             /\ Len(Append(queue, x)) = Len(queue) + 1
             /\ \A i \in DOMAIN Append(queue, x) : IF i = Len(queue) + 1 THEN Append(queue, x)[i] = x ELSE Append(queue, x)[i] \in Frames
  BY <1>2, AppendProperties
<1>4. ASSUME Len(queue) < MaxInbox PROVE Waiting(Append(queue, frame), "up")
  BY <1>2, <1>3, <1>4, MonitorAssumption
<1>5. Waiting(Append(queue, "Eof"), "closed")
  BY <1>2, <1>3, MonitorAssumption
<1>6. QED
  BY <1>1, <1>4, <1>5

LEMMA InboxKept ==
  ASSUME Waiting(inbox, link), link \in {"up", "closed"}, [Next]_vars
  PROVE  Waiting(inbox, link)'
<1>1. ASSUME NEW frame \in Frames, Send(frame) PROVE Waiting(inbox, link)'
  <2>1. link = "up" /\ link' = link /\ Len(inbox) < MaxInbox /\ inbox' = Append(inbox, frame)
    BY <1>1 DEF Send
  <2>2. QED
    BY <2>1, WaitingGrows
<1>2. CASE Close
  <2>1. link = "up" /\ link' = "closed" /\ inbox' \in {inbox, Append(inbox, "Eof")}
    BY <1>2 DEF Close
  <2>2. "Stop" \in Frames
    BY DEF Frames
  <2>3. QED
    BY <2>1, <2>2, WaitingGrows
<1>3. ASSUME NEW left, Leave(left), link' = link, left = "exited" \/ inbox # <<>>
      PROVE  Waiting(inbox, link)'
  <2>1. inbox' = <<>> \/ (inbox' = Tail(inbox) /\ inbox # <<>>)
    BY <1>3 DEF Leave
  <2>2. QED
    BY <1>3, <2>1, WaitingShrinks
<1>4. CASE WaitReceive \/ Receive \/ SeeClosed
  <2>1. \E left : Leave(left) /\ link' = link /\ (left = "exited" \/ inbox # <<>>)
    BY <1>4 DEF WaitReceive, Receive, SeeClosed
  <2>2. QED
    BY <1>3, <2>1
<1>5. CASE WaitClosed \/ WaitTimeout \/ MountdEof \/ MountdTake \/ Poll \/ Exited \/ UNCHANGED vars
  <2>1. link' = link /\ inbox' \in {inbox, <<>>}
    BY <1>5 DEF WaitClosed, WaitTimeout, MountdEof, MountdTake, Poll, Exited, vars, connection
  <2>2. QED
    BY <2>1, WaitingShrinks
<1>6. CASE Checks
  <2>1. PICK e \in Elapsed, sample \in Samples[daemon] : Check(e, sample) \/ CheckFails(e, sample) \/ Panic(e, sample)
    BY <1>6 DEF Checks
  <2>2. CASE Check(e, sample) \/ CheckFails(e, sample)
    BY <2>2 DEF Check, CheckFails, connection
  <2>3. CASE Panic(e, sample)
    BY <1>3, <2>3 DEF Panic
  <2>4. QED
    BY <2>1, <2>2, <2>3
<1>7. QED
  BY <1>1, <1>2, <1>4, <1>5, <1>6 DEF Next

\* Where the process is, and what it was started with.
LEMMA ChosenKept ==
  ASSUME Chosen, [Next]_vars
  PROVE  Chosen' /\ daemon' = daemon
<1> USE DEF Chosen
<1>1. ASSUME NEW frame \in Frames, Send(frame) PROVE Chosen' /\ daemon' = daemon
  BY <1>1 DEF Send
<1>2. CASE Close \/ WaitClosed \/ WaitTimeout \/ MountdEof \/ MountdTake
  BY <1>2 DEF Close, WaitClosed, WaitTimeout, MountdEof, MountdTake
<1>3. CASE Poll \/ Exited \/ UNCHANGED vars
  BY <1>3 DEF Poll, Exited, vars, connection
<1>4. CASE WaitReceive \/ Receive \/ SeeClosed
  <2>1. UNCHANGED <<daemon, key, link, socket>> /\ fstab' \in Expectations \cup {fstab}
    BY <1>4 DEF WaitReceive, Receive, SeeClosed
  <2>2. \A frame : Handled(frame) \subseteq {mode, "exited"}
    BY DEF Handled, ShutDown
  <2>3. mode' \in {mode, "running", "exited"}
    BY <1>4, <2>2 DEF WaitReceive, Receive, SeeClosed, Leave
  <2>4. QED
    BY <2>1, <2>3
<1>5. CASE Checks
  BY <1>5 DEF Checks, Check, CheckFails, Panic, Leave, connection
<1>6. QED
  BY <1>1, <1>2, <1>3, <1>4, <1>5 DEF Next

\* What a check notes is an alert of one of the three grades, of that moment.
LEMMA NotedTyped ==
  ASSUME Typed, NEW sample, now' \in 0..MaxNow, NEW alert \in Noted(window, Emitted(sample))
  PROVE  alert \in Alerts
<1>1. window \in Alerts
  BY DEF Typed, Noticed
<1>2. ASSUME NEW severity \in Emitted(sample) PROVE [severity |-> severity, at |-> now'] \in Alerts
  <2>1. severity \in Grades
    BY <1>2, Graded DEF Emitted
  <2>2. QED
    BY <2>1 DEF Alerts
<1>3. QED
  BY <1>1, <1>2 DEF Noted

LEMMA NoticedKept ==
  ASSUME Typed, [Next]_vars
  PROVE  Noticed'
<1> USE DEF Noticed, memory, history
<1>1. Noticed /\ daemon' = daemon /\ None \in Alerts
  BY ChosenKept DEF Typed, Alerts
<1>2. ASSUME NEW left, Leave(left), now' = now \/ now' \in 0..MaxNow, heard' = heard
      PROVE  Noticed'
  <2>1. window' \in {window, None} /\ (daemon = "kha_watchd" => known' \in {known, 0})
    BY <1>2 DEF Leave, Blank
  <2>2. QED
    BY <1>1, <1>2, <2>1 DEF Persist
<1>3. CASE WaitReceive \/ Receive \/ SeeClosed
  <2>1. \E left : Leave(left) /\ now' = now /\ heard' = heard
    BY <1>3 DEF WaitReceive, Receive, SeeClosed
  <2>2. QED
    BY <1>2, <2>1
<1>4. CASE Checks
  <2>1. PICK e \in Elapsed, sample \in Samples[daemon] : Check(e, sample) \/ CheckFails(e, sample) \/ Panic(e, sample)
    BY <1>4 DEF Checks
  <2>2. now' \in 0..MaxNow
    BY <2>1 DEF Check, CheckFails, Panic, Elapses
  <2>3. CASE Check(e, sample) \/ CheckFails(e, sample)
    <3>1. window' \in Alerts /\ heard' \in Alerts
      <4>1. window' \in {window} \cup Noted(window, Emitted(sample)) /\ heard' \in {window', heard}
        BY <2>3 DEF Check, CheckFails
      <4>2. QED
        BY <1>1, <2>2, <4>1, NotedTyped
    <3>2. ASSUME daemon = "kha_watchd" PROVE known' \in 0..Persist
      <4>1. known' \in {known, Streak(known, sample)}
        BY <2>3, <3>2 DEF Check, CheckFails, Remembered
      <4>2. QED
        BY <1>1, <3>2, <4>1 DEF Streak, Persist
    <3>3. QED
      BY <1>1, <2>2, <3>1, <3>2
  <2>4. CASE Panic(e, sample)
    BY <1>2, <2>2, <2>4 DEF Panic
  <2>5. QED
    BY <2>1, <2>3, <2>4
<1>5. CASE UNCHANGED <<now, window, heard, known>>
  BY <1>1, <1>5
<1>6. ASSUME NEW frame \in Frames, Send(frame) PROVE Noticed'
  BY <1>5, <1>6 DEF Send
<1>7. CASE Close \/ WaitClosed \/ WaitTimeout \/ MountdEof \/ MountdTake
  BY <1>5, <1>7 DEF Close, WaitClosed, WaitTimeout, MountdEof, MountdTake
<1>8. CASE Poll \/ Exited \/ UNCHANGED vars
  BY <1>5, <1>8 DEF Poll, Exited, vars
<1>9. QED
  BY <1>3, <1>4, <1>6, <1>7, <1>8 DEF Next

LEMMA TypedInvariant == Spec => []Typed
<1>1. Init => Typed
  <2> SUFFICES ASSUME Init PROVE Typed
    OBVIOUS
  <2>1. Chosen
    BY DEF Init, Chosen
  <2>2. Noticed
    BY MonitorAssumption DEF Init, Noticed, Alerts, Blank, Persist
  <2>3. Waiting(inbox, link)
    BY MonitorAssumption DEF Init, Waiting
  <2>4. QED
    BY <2>1, <2>2, <2>3 DEF Typed
<1>2. Typed /\ [Next]_vars => Typed'
  BY ChosenKept, NoticedKept, InboxKept DEF Typed, Chosen
<1>3. QED
  BY <1>1, <1>2, PTL DEF Spec

\* The variables have the types that the code declares; of what the Bridge sent,
\* the end of the connection is the last, and only mountd's socket is ever away.
THEOREM TypeCorrect == Spec => []TypeOK
<1>1. Typed => TypeOK
  BY DEF Typed, Chosen, Noticed, Waiting, TypeOK
<1>2. QED
  BY <1>1, TypedInvariant, PTL

-----------------------------------------------------------------------------
(* The memory: while the Bridge keeps the connection, what the daemon knows *)
(* is what its last polls have seen, but for what it never stored and for   *)
(* zombies that were counted before a poll that found Kha dead.             *)

Sights ==
  CASE daemon = "kha_watchd" -> BOOLEAN
    [] daemon \in {"netd", "wifid"} -> Samples[daemon]
    [] daemon = "mountd" ->
         {MountKnown(expected, sample.entry, Unknown) : expected \in Expectations \cup {Unlisted}, sample \in Samples.mountd}
    [] OTHER -> {}

NetdRight == known = IF seen = <<>> THEN NoInterface ELSE [seen[1] EXCEPT !.addr = "none"]
WifidRight == known = IF seen = <<>> THEN NoWireless ELSE seen[1]
MountdRight ==
  /\ seen = <<>> => known = Unknown
  /\ seen # <<>> =>
       /\ known.mounted = seen[1].mounted /\ known.propagation = seen[1].propagation
       /\ seen[1].mounted => known.readonly = seen[1].readonly
  /\ fstab = Unlisted => known.readonly = FALSE
KhaWatchdRight == \A i \in DOMAIN seen : (\A j \in 1..i : seen[j]) => known >= i

Right ==
  /\ daemon = "netd" => NetdRight
  /\ daemon = "wifid" => WifidRight
  /\ daemon = "mountd" => MountdRight
  /\ daemon = "kha_watchd" => KhaWatchdRight
  /\ daemon \in LooksBack => seen \in Seq(Sights) /\ Len(seen) <= Looked[daemon]

Recalls ==
  link = "up" => Right /\ (mode = "waiting" => seen = <<>> /\ known = Blank[daemon])

\* The latest sample comes first, and the oldest is forgotten.
LEMMA Pushed ==
  ASSUME NEW S, NEW s \in Seq(S), NEW x \in S, NEW n \in Nat \ {0}, Len(s) <= n,
         NEW t, t = SubSeq(<<x>> \o s, 1, IF Len(s) < n THEN Len(s) + 1 ELSE n)
  PROVE  /\ t \in Seq(S) /\ Len(t) <= n /\ t # <<>> /\ t[1] = x
         /\ \A i \in DOMAIN t : i = 1 \/ (i - 1 \in DOMAIN s /\ t[i] = s[i - 1])
<1> DEFINE last == IF Len(s) < n THEN Len(s) + 1 ELSE n
<1>1. /\ <<x>> \o s \in Seq(S) /\ Len(<<x>> \o s) = Len(s) + 1 /\ Len(s) \in Nat /\ DOMAIN s = 1..Len(s)
      /\ \A i \in 1..(Len(s) + 1) : (<<x>> \o s)[i] = IF i = 1 THEN x ELSE s[i - 1]
  <2>1. <<x>> \in Seq(S) /\ Len(<<x>>) = 1 /\ <<x>>[1] = x
    OBVIOUS
  <2>2. QED
    BY <2>1, ConcatProperties
<1>2. last \in 1..(Len(s) + 1) /\ last <= n
  BY <1>1
<1>3. t \in Seq(S) /\ Len(t) = last /\ \A i \in 1..last : t[i] = (<<x>> \o s)[i]
  <2> HIDE DEF last
  <2>1. t = SubSeq(<<x>> \o s, 1, last)
    BY DEF last
  <2>2. QED
    BY <1>1, <1>2, <2>1, SubSeqProperties
<1>4. DOMAIN t = 1..last
  BY <1>2, <1>3
<1>5. QED
  BY <1>1, <1>2, <1>3, <1>4

\* A process that starts, or is gone, remembers nothing.
LEMMA BlankRight ==
  daemon \in Names /\ known = Blank[daemon] /\ seen = <<>> => Right
<1> SUFFICES ASSUME daemon \in Names, known = Blank[daemon], seen = <<>>
             PROVE  Right
  OBVIOUS
<1>1. daemon \in LooksBack => seen \in Seq(Sights) /\ Len(seen) <= Looked[daemon]
  BY DEF LooksBack, Looked, Persist
<1>2. KhaWatchdRight
  <2>1. DOMAIN seen = {}
    OBVIOUS
  <2>2. QED
    BY <2>1 DEF KhaWatchdRight
<1>3. (daemon = "netd" => NetdRight) /\ (daemon = "wifid" => WifidRight)
  BY DEF NetdRight, WifidRight, Blank
<1>4. daemon = "mountd" => MountdRight
  BY DEF MountdRight, Blank, Unknown
<1>5. QED
  BY <1>1, <1>2, <1>3, <1>4 DEF Right

\* What a check puts in front of the samples.
LEMMA SeenPushed ==
  ASSUME Right, daemon \in LooksBack, NEW sample \in Samples[daemon], Looks(sample),
         seen' = SubSeq(<<Seen(sample)>> \o seen, 1, IF Len(seen) < Looked[daemon] THEN Len(seen) + 1 ELSE Looked[daemon]),
         fstab \in Expectations \cup {Unlisted}
  PROVE  /\ seen' \in Seq(Sights) /\ Len(seen') <= Looked[daemon] /\ seen' # <<>> /\ seen'[1] = Seen(sample)
         /\ \A i \in DOMAIN seen' : i = 1 \/ (i - 1 \in DOMAIN seen /\ seen'[i] = seen[i - 1])
<1>1. Looked[daemon] \in Nat \ {0} /\ daemon \in {"netd", "wifid", "mountd", "kha_watchd"}
  BY DEF LooksBack, Looked, Persist
<1>2. Seen(sample) \in Sights
  <2>1. CASE daemon \in {"netd", "wifid"}
    BY <2>1 DEF Seen, Sights
  <2>2. CASE daemon = "mountd"
    <3> DEFINE Mounted == Samples.mountd
    <3>1. sample \in Mounted
      BY <2>2
    <3>2. Seen(sample) = MountKnown(fstab, sample.entry, Unknown)
      BY <2>2 DEF Seen
    <3>3. Sights = {MountKnown(expected, other.entry, Unknown) :
                      expected \in Expectations \cup {Unlisted}, other \in Mounted}
      BY <2>2 DEF Sights
    <3> HIDE DEF Mounted
    <3>4. QED
      BY <3>1, <3>2, <3>3
  <2>3. CASE daemon = "kha_watchd"
    <3>1. Seen(sample) = (sample.alive /\ ZombieChildren(sample.processes) > 0)
      BY <2>3 DEF Seen
    <3>2. Sights = BOOLEAN
      BY <2>3 DEF Sights
    <3>3. QED
      BY <3>1, <3>2
  <2>4. QED
    BY <1>1, <2>1, <2>2, <2>3
<1>3. seen \in Seq(Sights) /\ Len(seen) <= Looked[daemon]
  BY DEF Right
<1>4. QED
  BY <1>1, <1>2, <1>3, Pushed

LEMMA RightAfterCheck ==
  ASSUME Typed, Right, NEW e \in Elapsed, NEW sample \in Samples[daemon], Check(e, sample)
  PROVE  Right'
<1>1. /\ daemon' = daemon /\ fstab' = fstab /\ known' \in Remembered(daemon, known, sample)
      /\ Looks(sample) => seen' = SubSeq(<<Seen(sample)>> \o seen, 1,
                                         IF Len(seen) < Looked[daemon] THEN Len(seen) + 1 ELSE Looked[daemon])
      /\ ~Looks(sample) => seen' = seen
  BY DEF Check
<1>2. Sights' = Sights
  BY <1>1 DEF Sights
<1>3. daemon \in Names /\ fstab \in Expectations \cup {Unlisted}
  BY KindsFollowed DEF Typed, Chosen
<1>4. ASSUME daemon \in LooksBack, Looks(sample)
      PROVE  /\ seen' \in Seq(Sights) /\ Len(seen') <= Looked[daemon] /\ seen' # <<>> /\ seen'[1] = Seen(sample)
             /\ \A i \in DOMAIN seen' : i = 1 \/ (i - 1 \in DOMAIN seen /\ seen'[i] = seen[i - 1])
  BY <1>1, <1>3, <1>4, SeenPushed
<1>5. (daemon \in LooksBack => seen \in Seq(Sights) /\ Len(seen) <= Looked[daemon])'
  BY <1>1, <1>2, <1>4 DEF Right
<1>6. ASSUME daemon = "netd" PROVE NetdRight'
  <2>1. Looks(sample) /\ Seen(sample) = sample /\ known' = [sample EXCEPT !.addr = "none"] /\ daemon \in LooksBack
    BY <1>1, <1>6 DEF Looks, LooksBack, Looked, Seen, Remembered
  <2>2. QED
    BY <1>4, <2>1 DEF NetdRight
<1>7. ASSUME daemon = "wifid" PROVE WifidRight'
  <2>1. Looks(sample) /\ Seen(sample) = sample /\ known' = sample /\ daemon \in LooksBack
    BY <1>1, <1>7 DEF Looks, LooksBack, Looked, Seen, Remembered
  <2>2. QED
    BY <1>4, <2>1 DEF WifidRight
<1>8. ASSUME daemon = "mountd" PROVE MountdRight'
  <2>1. CASE ~sample.readable
    <3>1. known' = known /\ seen' = seen
      BY <1>1, <1>8, <2>1 DEF Looks, Remembered
    <3>2. QED
      BY <1>1, <1>8, <3>1 DEF Right, MountdRight
  <2>2. CASE sample.readable
    <3>1. Looks(sample) /\ daemon \in LooksBack /\ Seen(sample) = MountKnown(fstab, sample.entry, Unknown)
      BY <1>8, <2>2 DEF Looks, LooksBack, Looked, Seen
    <3>2. known' = MountKnown(fstab, sample.entry, known)
      BY <1>1, <1>8, <2>2 DEF Remembered
    <3>3. fstab = Unlisted => known.readonly = FALSE
      BY <1>8 DEF Right, MountdRight
    <3>4. seen' # <<>> /\ seen'[1] = MountKnown(fstab, sample.entry, Unknown)
      BY <1>4, <3>1
    <3>5. /\ known'.mounted = (sample.entry # Absent) /\ known'.propagation = sample.entry.propagation
          /\ known'.readonly = IF fstab = Unlisted \/ sample.entry = Absent THEN known.readonly ELSE IsReadonly(sample.entry)
      BY <3>2 DEF MountKnown
    <3>6. /\ seen'[1].mounted = (sample.entry # Absent) /\ seen'[1].propagation = sample.entry.propagation
          /\ seen'[1].readonly = IF fstab = Unlisted \/ sample.entry = Absent THEN FALSE ELSE IsReadonly(sample.entry)
      BY <3>4 DEF MountKnown, Unknown
    <3>7. QED
      BY <1>1, <3>3, <3>4, <3>5, <3>6 DEF MountdRight
  <2>3. QED
    BY <2>1, <2>2
<1>9. ASSUME daemon = "kha_watchd" PROVE KhaWatchdRight'
  <2>1. /\ Looks(sample) /\ daemon \in LooksBack /\ known' = Streak(known, sample)
        /\ Seen(sample) = (sample.alive /\ ZombieChildren(sample.processes) > 0) /\ Looked[daemon] = 2
    BY <1>1, <1>9 DEF Looks, LooksBack, Looked, Persist, Seen, Remembered
  <2>2. known \in 0..3 /\ known' \in 0..3
    BY <1>9, <2>1 DEF Typed, Noticed, Streak, Persist
  <2>3. /\ seen' \in Seq(Sights) /\ Len(seen') <= 2
        /\ seen'[1] = Seen(sample)
        /\ \A i \in DOMAIN seen' : i = 1 \/ (i - 1 \in DOMAIN seen /\ seen'[i] = seen[i - 1])
    BY <1>4, <2>1
  <2>4. ASSUME seen'[1] PROVE known' = IF known = 3 THEN 3 ELSE known + 1
    <3>1. sample.alive /\ ZombieChildren(sample.processes) > 0
      BY <2>1, <2>3, <2>4
    <3>2. ZombieChildren(sample.processes) # 0
      BY <3>1
    <3>3. QED
      BY <2>1, <3>1, <3>2 DEF Streak, Persist
  <2>5. ASSUME NEW i \in DOMAIN seen', \A j \in 1..i : seen'[j]
        PROVE  known' >= i
    <3>1. i \in 1..2
      BY <2>3
    <3>2. seen'[1]
      BY <2>5, <3>1
    <3>3. CASE i = 1
      BY <2>2, <2>4, <3>2, <3>3
    <3>4. CASE i = 2
      <4>1. 1 \in DOMAIN seen /\ seen[1]
        BY <2>3, <2>5, <3>4
      <4>2. known >= 1
        BY <1>9, <4>1 DEF Right, KhaWatchdRight
      <4>3. QED
        BY <2>2, <2>4, <3>2, <3>4, <4>2
    <3>5. QED
      BY <3>1, <3>3, <3>4
  <2>6. QED
    BY <2>5 DEF KhaWatchdRight
<1>10. QED
  BY <1>1, <1>5, <1>6, <1>7, <1>8, <1>9 DEF Right

\* A process that leaves by an exit remembers nothing; one that stays keeps all.
LEMMA RecallsOnLeave ==
  ASSUME Typed, Recalls, NEW left, Leave(left), left \in {mode, "running", "exited"},
         UNCHANGED <<daemon, link>>, fstab' = fstab \/ mode = "waiting", mode # "exited"
  PROVE  Recalls'
<1>1. daemon \in Names
  BY KindsFollowed DEF Typed, Chosen
<1>2. CASE known' = Blank[daemon] /\ seen' = <<>>
  <2>1. (daemon \in Names /\ known = Blank[daemon] /\ seen = <<>>)'
    BY <1>1, <1>2
  <2>2. Right'
    BY <2>1, BlankRight, PTL
  <2>3. QED
    BY <1>2, <2>2 DEF Recalls
<1>3. CASE UNCHANGED <<known, seen>> /\ left # "exited"
  <2>1. mode' = left /\ (mode' = "waiting" => mode = "waiting")
    BY <1>3 DEF Leave
  <2>2. CASE mode = "waiting" /\ link = "up"
    <3>1. known' = Blank[daemon] /\ seen' = <<>>
      BY <1>3, <2>2 DEF Recalls
    <3>2. QED
      BY <1>2, <3>1
  <2>3. CASE mode # "waiting"
    BY <1>3, <2>1, <2>3 DEF Recalls, Right, NetdRight, WifidRight, MountdRight, KhaWatchdRight, Sights
  <2>4. QED
    BY <2>2, <2>3 DEF Recalls
<1>4. QED
  BY <1>2, <1>3 DEF Leave

LEMMA RecallsKept ==
  ASSUME Typed, Recalls, [Next]_vars
  PROVE  Recalls'
<1>1. ASSUME UNCHANGED <<daemon, fstab, known, seen>>, link' \in {link, "closed"}, mode' = "waiting" => mode = "waiting"
      PROVE  Recalls'
  BY <1>1 DEF Recalls, Right, NetdRight, WifidRight, MountdRight, KhaWatchdRight, Sights
<1>2. ASSUME NEW frame \in Frames, Send(frame) PROVE Recalls'
  BY <1>1, <1>2 DEF Send, memory, history
<1>3. CASE Close \/ WaitClosed \/ WaitTimeout \/ MountdEof \/ MountdTake
  BY <1>1, <1>3 DEF Close, WaitClosed, WaitTimeout, MountdEof, MountdTake, memory, history
<1>4. CASE Poll \/ Exited \/ UNCHANGED vars
  BY <1>1, <1>4 DEF Poll, Exited, vars, connection, memory, history
<1>5. CASE WaitReceive \/ Receive \/ SeeClosed
  <2>1. \A frame : Handled(frame) \subseteq {mode, "exited"}
    BY DEF Handled, ShutDown
  <2>2. \E left : Leave(left) /\ left \in {mode, "running", "exited"}
    BY <1>5, <2>1 DEF WaitReceive, Receive, SeeClosed
  <2>3. UNCHANGED <<daemon, link>> /\ (fstab' = fstab \/ mode = "waiting") /\ mode # "exited"
    BY <1>5 DEF WaitReceive, Receive, SeeClosed
  <2>4. QED
    BY <2>2, <2>3, RecallsOnLeave
<1>6. CASE Checks
  <2>1. PICK e \in Elapsed, sample \in Samples[daemon] : Check(e, sample) \/ CheckFails(e, sample) \/ Panic(e, sample)
    BY <1>6 DEF Checks
  <2>2. CASE Check(e, sample)
    <3>1. link' = link /\ mode' = "running"
      BY <2>2 DEF Check, connection
    <3>2. link = "up" => Right'
      BY <2>2, RightAfterCheck DEF Recalls
    <3>3. QED
      BY <3>1, <3>2 DEF Recalls
  <2>3. CASE CheckFails(e, sample)
    <3>1. link' = link /\ link # "up"
      BY <2>3 DEF CheckFails, CanWrite, connection
    <3>2. QED
      BY <3>1 DEF Recalls
  <2>4. CASE Panic(e, sample)
    BY <2>4, RecallsOnLeave DEF Panic
  <2>5. QED
    BY <2>1, <2>2, <2>3, <2>4
<1>7. QED
  BY <1>2, <1>3, <1>4, <1>5, <1>6 DEF Next

LEMMA RecallsInvariant == Spec => []Recalls
<1>1. Init => Recalls
  <2> SUFFICES ASSUME Init PROVE Recalls
    OBVIOUS
  <2>1. daemon \in Names /\ known = Blank[daemon] /\ seen = <<>>
    BY KindsFollowed DEF Init
  <2>2. QED
    BY <2>1, BlankRight DEF Recalls
<1>2. Typed /\ Recalls /\ [Next]_vars => Recalls'
  BY RecallsKept
<1>3. QED
  BY <1>1, <1>2, TypedInvariant, PTL DEF Spec

-----------------------------------------------------------------------------
(* What the daemon reports, next to what it should have reported.          *)

\* The alerts of netd need of the old interface all but its address; those of
\* mountd need three fields of the old mount point.
LEMMA NetdReportsAlike ==
  ASSUME NEW old \in Samples.netd, NEW new, NEW r, r[1] # "ip_change"
  PROVE  r \in NetdReports([old EXCEPT !.addr = "none"], new) <=> r \in NetdReports(old, new)
<1> DEFINE bare == [old EXCEPT !.addr = "none"]
<1>1. DOMAIN old = {"present", "addr", "rx", "tx"}
  <2>1. old \in Raw.netd
    BY DEF Samples, Sampled, Names
  <2>2. old \in Found.netd
    BY <2>1, RawAssumption DEF Names
  <2>3. QED
    BY <2>2 DEF Found, Interface
<1>2. bare.present = old.present /\ bare.rx = old.rx /\ bare.tx = old.tx
  BY <1>1
<1> HIDE DEF bare
<1>3. r \in NetdReports(bare, new) <=> r \in NetdReports(old, new)
  BY <1>2 DEF NetdReports, Alert
<1>4. QED
  BY <1>3 DEF bare

LEMMA MountReportsAlike ==
  ASSUME NEW old, NEW other, old.mounted = other.mounted, old.propagation = other.propagation,
         old.readonly = other.readonly, NEW entry, NEW usage
  PROVE  MountReports(fstab, entry, old, usage) = MountReports(fstab, entry, other, usage)
  BY DEF MountReports, ExpectedReports

\* kha-watchd has counted at least the zombies that its last polls have seen,
\* and two of them are one short of what is told.
LEMMA StreakCovers ==
  ASSUME Typed, Right, daemon = "kha_watchd"
  PROVE  known \in 0..3 /\ Ideal \in 0..2 /\ Ideal <= known
<1> DEFINE Run == {i \in DOMAIN seen : \A j \in 1..i : seen[j]}
<1>1. Ideal = Cardinality(Run)
  BY DEF Ideal
<1>2. known \in 0..3
  BY DEF Typed, Noticed, Persist
<1>3. Len(seen) \in 0..2 /\ DOMAIN seen = 1..Len(seen)
  <2>1. seen \in Seq(Sights) /\ Len(seen) <= 2
    BY DEF Right, LooksBack, Looked, Persist
  <2>2. Len(seen) \in Nat /\ DOMAIN seen = 1..Len(seen)
    BY <2>1, LenProperties
  <2>3. QED
    BY <2>1, <2>2
<1>4. \A i \in Run : i \in 1..2 /\ known >= i
  BY <1>3 DEF Right, KhaWatchdRight
<1>5. 2 \in Run => 1 \in Run
  BY <1>3
<1>6. Run \in {{}, {1}, {1, 2}}
  <2> HIDE DEF Run
  <2>1. QED
    BY <1>4, <1>5
<1>7. Cardinality({}) = 0 /\ Cardinality({1}) = 1 /\ Cardinality({1, 2}) = 2
  <2>1. Cardinality({}) = 0
    BY FS_EmptySet
  <2>2. IsFiniteSet({1}) /\ Cardinality({1}) = 1
    BY FS_Singleton
  <2>3. Cardinality({1} \cup {2}) = Cardinality({1}) + 1
    BY <2>2, FS_AddElement
  <2>4. {1} \cup {2} = {1, 2}
    OBVIOUS
  <2>5. QED
    BY <2>1, <2>2, <2>3, <2>4
<1> HIDE DEF Run
<1>8. QED
  BY <1>1, <1>2, <1>4, <1>6, <1>7

LEMMA KhaWatchdReportsAlike ==
  ASSUME NEW old \in 0..2, NEW more \in 0..3, old <= more, NEW new, NEW r
  PROVE  /\ r \in KhaWatchdReports(old, new) => r \in KhaWatchdReports(more, new)
         /\ r[1] # "kha_zombies_persisting" /\ r \in KhaWatchdReports(more, new) => r \in KhaWatchdReports(old, new)
  BY DEF KhaWatchdReports, Alert, Streak, Persist

\* What the last polls have seen is reported from the memory, and nothing else;
\* but for netd's addresses, and the zombies.
LEMMA ReportsAlike ==
  ASSUME Typed, Right, NEW sample, NEW r, r[1] # "ip_change"
  PROVE  /\ r \in Reports(daemon, Ideal, sample) => r \in Reports(daemon, known, sample)
         /\ r[1] # "kha_zombies_persisting" /\ r \in Reports(daemon, known, sample) => r \in Reports(daemon, Ideal, sample)
<1>1. daemon \in Names
  BY KindsFollowed DEF Typed, Chosen
<1>2. LooksBack = {"netd", "wifid", "mountd", "kha_watchd"}
  BY DEF LooksBack, Looked
<1>3. CASE daemon \in {"vpnd", "timed", "healthd", "entropyd"}
  BY <1>2, <1>3 DEF Ideal
<1>4. CASE daemon = "wifid"
  BY <1>2, <1>4 DEF Ideal, Right, WifidRight, Blank
<1>5. CASE daemon = "netd"
  <2>1. CASE seen = <<>>
    BY <1>2, <1>5, <2>1 DEF Ideal, Right, NetdRight, Blank
  <2>2. CASE seen # <<>>
    <3>1. Ideal = seen[1] /\ known = [seen[1] EXCEPT !.addr = "none"]
      BY <1>2, <1>5, <2>2 DEF Ideal, Right, NetdRight
    <3>2. seen \in Seq(Samples.netd)
      BY <1>2, <1>5 DEF Right, Sights
    <3>3. seen[1] \in Samples.netd
      BY <2>2, <3>2
    <3>4. r \in NetdReports(known, sample) <=> r \in NetdReports(Ideal, sample)
      BY <3>1, <3>3, NetdReportsAlike
    <3>5. QED
      BY <1>5, <3>4 DEF Reports
  <2>3. QED
    BY <2>1, <2>2
<1>6. CASE daemon = "mountd"
  <2>1. CASE seen = <<>>
    BY <1>2, <1>6, <2>1 DEF Ideal, Right, MountdRight, Blank
  <2>2. CASE seen # <<>>
    <3>1. Ideal = IF seen[1].mounted THEN seen[1] ELSE [seen[1] EXCEPT !.readonly = known.readonly]
      BY <1>2, <1>6, <2>2 DEF Ideal
    <3>2. /\ known.mounted = seen[1].mounted /\ known.propagation = seen[1].propagation
          /\ seen[1].mounted => known.readonly = seen[1].readonly
      BY <1>6, <2>2 DEF Right, MountdRight
    <3>3. DOMAIN seen[1] = {"mounted", "propagation", "readonly"}
      <4>1. seen \in Seq(Sights)
        BY <1>2, <1>6 DEF Right
      <4>2. seen[1] \in Sights
        BY <2>2, <4>1
      <4>3. QED
        BY <1>6, <4>2 DEF Sights, MountKnown
    <3>4. Ideal.mounted = known.mounted /\ Ideal.propagation = known.propagation /\ Ideal.readonly = known.readonly
      BY <3>1, <3>2, <3>3
    <3>5. MountdReports(Ideal, sample) = MountdReports(known, sample)
      BY <3>4, MountReportsAlike DEF MountdReports
    <3>6. QED
      BY <1>6, <3>5 DEF Reports
  <2>3. QED
    BY <2>1, <2>2
<1>7. CASE daemon = "kha_watchd"
  <2>1. known \in 0..3 /\ Ideal \in 0..2 /\ Ideal <= known
    BY <1>7, StreakCovers
  <2>2. QED
    BY <1>7, <2>1, KhaWatchdReportsAlike DEF Reports
<1>8. QED
  BY <1>1, <1>3, <1>4, <1>5, <1>6, <1>7 DEF Names

-----------------------------------------------------------------------------
(* Nothing is lost, and nothing is invented.                               *)

LEMMA SeveritiesAlike ==
  ASSUME Typed, Right, NEW sample, NEW severity
  PROVE  /\ key # "ip_change" /\ severity \in Severities(Ideal, sample) => severity \in Severities(known, sample)
         /\ key \notin {"ip_change", "kha_zombies_persisting"} /\ severity \in Severities(known, sample) =>
              severity \in Severities(Ideal, sample)
  BY ReportsAlike DEF Severities

\* After a check, what is told to a Bridge that is there is what is noted; and
\* that is new only when this poll reports it.
LEMMA ToldByCheck ==
  ASSUME Typed, Inv, NEW e \in Elapsed, NEW sample \in Samples[daemon], Check(e, sample), link = "up"
  PROVE  /\ Told = window /\ Told' = window' /\ now' \in 0..MaxNow
         /\ Emitted(sample) = {} => window' = window
         /\ Emitted(sample) # {} => \E severity \in Emitted(sample) : window' = [severity |-> severity, at |-> now']
<1>1. /\ link' = link /\ daemon' = daemon /\ mode = "checking" /\ mode' = "running"
      /\ window' \in Noted(window, Emitted(sample)) /\ now' \in 0..MaxNow
  BY DEF Check, connection, Elapses
<1>2. Inv'
  BY InChecks DEF Checks
<1>3. Told = window /\ Told' = window'
  BY <1>1, <1>2 DEF Inv, AlertsHeard, Told
<1>4. QED
  BY <1>1, <1>3 DEF Noted

LEMMA CoveredByCheck ==
  ASSUME Typed, Inv, Right, NEW e \in Elapsed, NEW sample \in Samples[daemon], Check(e, sample), link = "up",
         key # "ip_change", NEW severity \in Severities(Ideal, sample)
  PROVE  Told' # None /\ Order[Told'.severity] >= Order[severity] /\ now' - Told'.at \in 0..(Window - 1)
<1>1. /\ Told = window /\ Told' = window' /\ now' \in 0..MaxNow
      /\ Emitted(sample) = {} => window' = window
      /\ Emitted(sample) # {} => \E sent \in Emitted(sample) : window' = [severity |-> sent, at |-> now']
  BY ToldByCheck
<1>2. severity \in Severities(known, sample) /\ severity \in Grades
  BY SeveritiesAlike, Graded
<1>3. \A sent \in Emitted(sample) : sent = severity
  BY <1>2, Graded DEF Emitted
<1>4. \A grade \in Grades : Order[grade] \in 1..3
  BY DEF Grades, Order
<1>5. CASE Passes(severity)
  <2>1. window' = [severity |-> severity, at |-> now']
    BY <1>1, <1>2, <1>3, <1>5 DEF Emitted
  <2>2. window' # None
    BY <1>1, <1>2, <2>1, MonitorAssumption
  <2>3. now' - now' \in 0..(Window - 1)
    BY <1>1, MonitorAssumption
  <2>4. QED
    BY <1>1, <1>2, <1>4, <2>1, <2>2, <2>3
<1>6. CASE ~Passes(severity)
  <2>1. window' = window
    BY <1>1, <1>3, <1>6 DEF Emitted
  <2>2. window # None /\ now' - window.at \in 0..(Window - 1) /\ ~(Order[severity] > Order[window.severity])
    BY <1>6 DEF Passes
  <2>3. window.severity \in Grades
    BY <2>2 DEF Typed, Noticed, Alerts
  <2>4. QED
    BY <1>1, <1>2, <1>4, <2>1, <2>2, <2>3
<1>7. QED
  BY <1>5, <1>6

\* What a poll had to report stays told until the next poll.
LEMMA CoveredKept ==
  ASSUME Typed, Inv, Recalls, Covered, [Next]_vars
  PROVE  Covered'
<1>1. ASSUME due' = {} PROVE Covered'
  BY <1>1 DEF Covered
<1>2. ASSUME UNCHANGED <<daemon, key, due, window, heard, now>>, link' \in {link, "closed"} PROVE Covered'
  BY <1>2 DEF Covered, Told
<1>3. ASSUME NEW frame \in Frames, Send(frame) PROVE Covered'
  BY <1>2, <1>3 DEF Send, memory, history
<1>4. CASE Close \/ WaitClosed \/ WaitTimeout \/ MountdEof \/ MountdTake
  BY <1>2, <1>4 DEF Close, WaitClosed, WaitTimeout, MountdEof, MountdTake, memory, history
<1>5. CASE Poll \/ Exited \/ UNCHANGED vars
  BY <1>2, <1>5 DEF Poll, Exited, vars, connection, memory, history
<1>6. CASE WaitReceive \/ Receive \/ SeeClosed
  <2>1. \E left : Leave(left)
    BY <1>6 DEF WaitReceive, Receive, SeeClosed
  <2>2. due' = {} \/ UNCHANGED <<due, window>>
    BY <2>1 DEF Leave
  <2>3. UNCHANGED <<daemon, key, link, now, heard>>
    BY <1>6 DEF WaitReceive, Receive, SeeClosed
  <2>4. QED
    BY <1>1, <1>2, <2>2, <2>3
<1>7. CASE Checks
  <2>1. PICK e \in Elapsed, sample \in Samples[daemon] : Check(e, sample) \/ CheckFails(e, sample) \/ Panic(e, sample)
    BY <1>7 DEF Checks
  <2>2. CASE Check(e, sample)
    <3>1. link' = link /\ key' = key /\ due' = Severities(Ideal, sample)
      BY <2>2 DEF Check, connection
    <3>2. ASSUME link = "up", key # "ip_change", NEW severity \in Severities(Ideal, sample)
          PROVE  Told' # None /\ Order[Told'.severity] >= Order[severity] /\ now' - Told'.at \in 0..(Window - 1)
      BY <2>2, <3>2, CoveredByCheck DEF Recalls
    <3>3. QED
      BY <3>1, <3>2 DEF Covered
  <2>3. CASE CheckFails(e, sample)
    BY <1>1, <2>3 DEF CheckFails
  <2>4. CASE Panic(e, sample)
    BY <1>1, <2>4 DEF Panic, Leave
  <2>5. QED
    BY <2>1, <2>2, <2>3, <2>4
<1>8. QED
  BY <1>3, <1>4, <1>5, <1>6, <1>7 DEF Next

\* emit_alert suppresses only repetitions: whatever the last poll had to report,
\* netd's addresses apart, the Bridge was told within the window, as gravely or
\* more so.
THEOREM CoveredHolds == Spec => []Covered
<1>1. Init => Covered
  BY DEF Init, Covered
<1>2. Typed /\ Inv /\ Recalls /\ Covered /\ [Next]_vars => Covered'
  BY CoveredKept
<1>3. QED
  BY <1>1, <1>2, TypedInvariant, Invariance, RecallsInvariant, PTL DEF Spec

\* An alert goes out only for what the last polls have seen, netd's addresses
\* and the zombies apart: nothing is told again because it was forgotten.
THEOREM GroundedHolds == Spec => Grounded
<1> DEFINE Founded ==
      link = "up" /\ Told' \notin {Told, None} =>
        key \in {"ip_change", "kha_zombies_persisting"} \/ Told'.severity \in due'
<1>1. Typed /\ Inv /\ Recalls /\ [Next]_vars => [Founded]_vars
  <2> SUFFICES ASSUME Typed, Inv, Recalls, Next PROVE Founded
    OBVIOUS
  <2>1. CASE Checks
    <3>1. PICK e \in Elapsed, sample \in Samples[daemon] : Check(e, sample) \/ CheckFails(e, sample) \/ Panic(e, sample)
      BY <2>1 DEF Checks
    <3>2. CASE Check(e, sample) /\ link = "up" /\ Told' \notin {Told, None}
      <4>1. PICK severity \in Emitted(sample) : Told' = [severity |-> severity, at |-> now']
        BY <3>2, ToldByCheck
      <4>2. severity \in Severities(known, sample) /\ due' = Severities(Ideal, sample)
        BY <3>2 DEF Emitted, Check
      <4>3. key \in {"ip_change", "kha_zombies_persisting"} \/ severity \in due'
        BY <3>2, <4>2, SeveritiesAlike DEF Recalls
      <4>4. Told'.severity = severity
        BY <4>1
      <4>5. QED
        BY <4>3, <4>4
    <3>3. CASE CheckFails(e, sample)
      <4>1. link # "up" \/ Told' = Told
        BY <3>3 DEF CheckFails, CanWrite, Inv
      <4>2. QED
        BY <4>1
    <3>4. CASE Panic(e, sample)
      <4>1. Told' \in {Told, None}
        BY <3>4 DEF Panic, Leave, Told
      <4>2. QED
        BY <4>1
    <3>5. QED
      BY <3>1, <3>2, <3>3, <3>4
  <2>2. CASE ~Checks
    <3>1. heard' = heard /\ window' \in {window, None} /\ daemon' = daemon
      BY <2>2, OutsideChecks DEF Next
    <3>2. Told' \in {Told, None}
      BY <3>1 DEF Told
    <3>3. QED
      BY <3>2
  <2>3. QED
    BY <2>1, <2>2
<1>2. QED
  BY <1>1, TypedInvariant, Invariance, RecallsInvariant, PTL DEF Spec, Grounded

\* No poll reports the key with two severities, whatever was read and remembered:
\* emit_alert never weighs an alert against one of the same poll.
THEOREM OneSeverity ==
  Spec => [][\A sample \in Samples[daemon] : \A s, t \in Severities(known, sample) : s = t]_vars
<1>1. Typed => \A sample \in Samples[daemon] : \A s, t \in Severities(known, sample) : s = t
  BY Graded
<1>2. QED
  BY <1>1, TypedInvariant, PTL
=============================================================================
