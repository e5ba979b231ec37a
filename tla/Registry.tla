------------------------------ MODULE Registry ------------------------------
(***************************************************************************)
(* The roster of the 42 daemons (maat/src/registry.rs, DaemonRegistry::    *)
(* load): who waits for whom.  Each table gives the daemons of one domain  *)
(* with what they wait for besides logd.                                   *)
(***************************************************************************)
EXTENDS Naturals, FiniteSets, TLC

Alone(S) == [d \in S |-> {}]

SystemCore == Alone({"healthd", "timed", "entropyd", "mountd"})

Hardware ==
  Alone({"modemd", "camerad", "sensorsd", "vibrd", "gpiod"})
    @@ [d \in {"batteryd", "thermald", "fwatchd"} |-> {"healthd"}]

Input == Alone({"inputd", "btd", "usbd"})

DisplayGraphics ==
  "displayd" :> {"inputd"} @@ "compositord" :> {"displayd", "sessiond"}
    @@ [d \in {"brightd", "rotationd"} |-> {"displayd", "sensorsd"}]

NetworkAkernet ==
  "netd" :> {"mountd"}
    @@ [d \in {"wifid", "dnsd", "firewalld"} |-> {"netd"}]
    @@ [d \in {"vpnd", "proxyd"} |-> {"netd", "dnsd"}]

Audio == "audiod" :> {"sessiond"} @@ "voiced" :> {"audiod", "modemd"} @@ "meliad" :> {"audiod"}

UserSession ==
  "sessiond" :> {"cryptd"} @@ "appd" :> {"sessiond", "permd"} @@ "clipboardd" :> {"sessiond"}
    @@ "convergenced" :> {"displayd", "inputd", "sessiond"}

Security == "cryptd" :> {"mountd"} @@ "permd" :> {"auditd"} @@ "auditd" :> {} @@ "biod" :> {"sessiond"}

Services ==
  "notifyd" :> {"sessiond"} @@ "syncd" :> {"netd", "sessiond"}
    @@ "locationd" :> {"netd", "permd"} @@ "updated" :> {"netd"}

BesidesLogd ==
  SystemCore @@ Hardware @@ Input @@ DisplayGraphics @@ NetworkAkernet
    @@ Audio @@ UserSession @@ Security @@ Services

\* kha-watchd and logd wait for nobody.
RegistryDependsOn ==
  Alone({"kha-watchd", "logd"}) @@ [d \in DOMAIN BesidesLogd |-> BesidesLogd[d] \cup {"logd"}]

Assessors == DOMAIN RegistryDependsOn

\* The daemons this repository has a program for (daemons/).
Shipped ==
  {"kha-watchd", "logd", "healthd", "timed", "entropyd", "mountd",
   "netd", "wifid", "dnsd", "vpnd", "firewalld", "proxyd"}

\* The daemons the Bridge has launched after n scans in which every daemon of S,
\* and no other, registers at once.
LaunchedAfter(S, N) ==
  LET launched[n \in 0..N] ==
        IF n = 0 THEN {}
        ELSE LET running == launched[n - 1] \cap S
             IN {d \in Assessors : RegistryDependsOn[d] \subseteq running}
  IN launched[N]

-----------------------------------------------------------------------------
\* The roster has its 42 names, and names nobody else: a name that is not a
\* daemon, as "opium" was once, keeps its dependents Pending for ever.
ASSUME RosterClosed ==
  /\ Cardinality(Assessors) = 42
  /\ \A d \in Assessors : RegistryDependsOn[d] \in SUBSET Assessors

\* No daemon waits for itself, directly or not: the Bridge reaches the last one
\* in its sixth scan, and no sooner.
ASSUME RosterBoots ==
  /\ LaunchedAfter(Assessors, 6) = Assessors
  /\ LaunchedAfter(Assessors, 5) # Assessors

\* Every program of this repository is launched although the other 30 never
\* register.
ASSUME ShippedBoot == Shipped \subseteq LaunchedAfter(Shipped, 5)
=============================================================================
