----------------------------- MODULE MCPackages -----------------------------
(* An instance of Packages: p2 depends on p1 and shares the file c with it,  *)
(* which has a checksum in p2 only and is under etc/p1; the file a of p1 is  *)
(* under etc/p2.                                                             *)
EXTENDS Packages, TLC
CONSTANTS p1, p2, a, c
MCFiles == p1 :> {a, c} @@ p2 :> {c}
MCChecked == p1 :> {a} @@ p2 :> {c}
MCConfig == p1 :> {c} @@ p2 :> {a}
MCInitial == p1 :> {"altered"} @@ p2 :> {"authored", "corrupt"}
MCDepends == p1 :> {} @@ p2 :> {p1}

\* Of the two archives a harvest replaces one at most.
OneHarvested == \E p \in Packages : cache[p] \notin {"partial", "harvested"}
=============================================================================
