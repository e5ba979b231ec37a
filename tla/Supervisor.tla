----------------------------- MODULE Supervisor -----------------------------
(***************************************************************************)
(* What the Bridge promises of its daemons, without saying how: a daemon   *)
(* is started only after everything it depends on has registered, and a    *)
(* daemon that does not register is launched at most MaxLaunches times.    *)
(* One that the last supervisor left running may join unasked.             *)
(***************************************************************************)
EXTENDS Naturals

CONSTANTS Daemons, DependsOn, MaxLaunches

VARIABLES
  started,    \* the daemons whose turn has come
  registered, \* the daemons that have registered at least once
  launches,   \* launches[d]: launches of d since it last registered
  survivors   \* the daemons that may join

vars == <<started, registered, launches, survivors>>

Init ==
  /\ started = {}
  /\ registered = {}
  /\ launches = [d \in Daemons |-> 0]
  /\ survivors \subseteq Daemons

Start(d) ==
  /\ d \notin started /\ DependsOn[d] \subseteq registered
  /\ started' = started \cup {d}
  /\ UNCHANGED <<registered, launches, survivors>>

Launch(d) ==
  /\ d \in started /\ launches[d] < MaxLaunches
  /\ launches' = [launches EXCEPT ![d] = @ + 1]
  /\ UNCHANGED <<started, registered, survivors>>

Register(d) ==
  /\ d \in started \cup survivors
  /\ started' = started \cup {d}
  /\ registered' = registered \cup {d}
  /\ launches' = [launches EXCEPT ![d] = 0]
  /\ UNCHANGED survivors

Next == \E d \in Daemons : Start(d) \/ Launch(d) \/ Register(d)

Spec == Init /\ [][Next]_vars
=============================================================================
