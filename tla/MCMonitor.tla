------------------------------ MODULE MCMonitor -----------------------------
(***************************************************************************)
(* What the daemons find in the runs: on either side of every threshold,   *)
(* and each way a value may be missing or not parse.                       *)
(***************************************************************************)
EXTENDS Monitor
MCElapsed == {-1, 1}
MCDaemons == Names
MCMountd == {"mountd"}

Counted(packets, errors) == [packets |-> packets, errors |-> errors]
Still == Counted(0, 0)
MCInterfaces ==
  [present : {TRUE}, addr : {"none"}, rx : {Still, Counted(99, 1), Counted(100, 0), Counted(100, 1)}, tx : {Still}]
    \cup [present : {TRUE}, addr : {"none"}, rx : {Still}, tx : {Counted(99, 1)}]
    \cup [present : {TRUE}, addr : {"a"}, rx : {Still}, tx : {Still}]
    \cup {NoInterface}

Level(value, dot) == [value |-> value, dot |-> dot]
MCWireless ==
  [status : {1}, level : {Level(40, FALSE), Level(-50, FALSE), Level(-51, FALSE), Level(-40, TRUE)}, bssid : {"b1"}]
    \cup [status : 0..1, level : {Level(40, FALSE)}, bssid : {"b2"}]
    \cup [status : {1}, level : {Level(40, FALSE)}, bssid : {"none"}]
    \cup {None}

\* The servers are asked one after the other until one answers.
Refusals(n) == [i \in 1..n |-> NoAnswer]
MCAnswers ==
  {Refusals(n) \o answer :
    n \in 0..2, answer \in {<<Offset(ms)>> : ms \in {-5000, 0, 999, 1000, 4999, 5000}} \cup {<<NoAnswer>>}}

\* One measure at a time is above what is usual; or sysinfo saw less than
\* there is.
Usual == [
  cpus |-> 1, cpu |-> 0, total |-> 100, used |-> 0, mount |-> "/srv", disk |-> 0, temperature |-> 0,
  meminfo |-> [readable |-> TRUE, total |-> 100, available |-> 100] ]
MCMeasures ==
  LET Levels == {79, 80, 94, 95} IN
  {[Usual EXCEPT !.cpu = v] : v \in Levels} \cup {[Usual EXCEPT !.used = v] : v \in Levels}
    \cup {[Usual EXCEPT !.temperature = v] : v \in Levels}
    \cup {[Usual EXCEPT !.mount = m, !.disk = v] : m \in {"/", "/srv"}, v \in {84, 85, 94, 95}}
    \cup {[Usual EXCEPT !.cpus = c, !.cpu = 95, !.total = 0, !.meminfo.readable = r, !.meminfo.available = v] :
            c \in 0..1, r \in BOOLEAN, v \in {5, 6, 120}}

MCEntropy ==
  [readable : {TRUE}, number : {TRUE}, bits : {192, 193, 1024, 1025}]
    \cup [readable : BOOLEAN, number : {FALSE}, bits : {0}]

MCProcesses ==
  [alive : {TRUE}, state : {"S", "Z", "D", "t", "?"},
   processes : {{}, {[state |-> "Z", ppid |-> 1]}, {[state |-> "Z", ppid |-> 7], [state |-> "S", ppid |-> 1]}}]
    \cup {[alive |-> FALSE, state |-> "?", processes |-> {}]}

Rw == <<"rw", "">>
Ro == <<"ro", "">>
Expect(fields, type, options) == [fields |-> fields, type |-> type, options |-> options]
MCFstabs == {
  <<Expect(0, "none", <<>>), Expect(6, "ext4", <<Rw>>)>>,
  <<Expect(6, "ext4", <<Rw, <<"x-osiris-alert", "warning">>, <<"x-osiris-alert", "fsmismatch">>,
                        <<"x-osiris-alert", "optionschange">>, <<"x-osiris-disk-warning", "50">>>>)>>,
  <<Expect(6, "xfs", <<Rw>>), Expect(6, "ext4", <<Ro, <<"x-osiris-alert", "info">>,
                        <<"x-osiris-disk-critical", "60">>, <<"x-osiris-disk-critical", "much">>>>)>>,
  <<Expect(5, "ext4", <<Rw>>), Expect(6, "tmpfs", <<Rw>>)>> }

Entry(type, option, tags, fsReadonly) ==
  [type |-> type, options |-> <<option>>, tags |-> tags, fsReadonly |-> fsReadonly]
Shared(group) == <<"shared", group>>
Plain == Entry("ext4", Rw, <<Shared(1)>>, FALSE)
Entries == {
  Plain, Entry("ext4", Rw, <<Shared(2)>>, FALSE), Entry("ext4", Ro, <<Shared(1)>>, FALSE),
  Entry("ext4", Rw, <<>>, TRUE), Entry("ext4", Ro, <<<<"master", 1>>, <<"propagate_from", 2>>>>, FALSE),
  Entry("xfs", Rw, <<>>, FALSE), Entry("overlay", Rw, <<>>, FALSE) }
Pools == {
  <<>>, <<<<"state", "DEGRADED">>, <<"errors", "3 data errors">>>>, <<<<"errors", "3">>, <<"errors", "none">>>>,
  <<<<"state", "ONLINE">>, <<"scan", "scrub in progress">>>>}
Scrubs == {<<>>, <<<<"status", "running">>>>, <<<<"errors", "0">>, <<"errors", "3">>>>}

\* A mount table with the plain mount and one more for the same mount point,
\* or an empty one; or else its usage, its pool or its scrub.
Table(source, lines) ==
  [readable |-> TRUE, source |-> source, lines |-> lines, usage |-> 0, pool |-> <<>>, scrub |-> <<>>]
MCTables ==
  LET plain == Table("mountinfo", <<Plain>>) IN
  {Table(source, lines) : source \in Sources, lines \in {<<>>} \cup {<<Plain, entry>> : entry \in Entries}}
    \cup {[plain EXCEPT !.usage = v] : v \in {49, 50, 84, 85, 94, 95}}
    \cup {[plain EXCEPT !.pool = p] : p \in Pools} \cup {[plain EXCEPT !.scrub = s] : s \in Scrubs}
    \cup {[plain EXCEPT !.readable = FALSE]}

MCRaw == [
  vpnd |-> {"nothing"}, netd |-> MCInterfaces, wifid |-> MCWireless, timed |-> MCAnswers,
  healthd |-> MCMeasures, entropyd |-> MCEntropy, kha_watchd |-> MCProcesses, mountd |-> MCTables ]
=============================================================================
