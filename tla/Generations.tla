----------------------------- MODULE Generations -----------------------------
(***************************************************************************)
(* Kha, the Bridges it starts one after the other, and the daemons that    *)
(* each of them leaves to the next.                                        *)
(*                                                                         *)
(* A Bridge takes the socket's path over from the last one, whose file is  *)
(* still there (run_socket_listener).  A daemon connects to the path once  *)
(* when it starts; it ends when the connection ends, and ends at once when *)
(* nobody listens.  One that had not connected when its Bridge died is     *)
(* accepted by the next Bridge, which did not start it: module Bridge has  *)
(* such processes in its initial states (survivors).                       *)
(*                                                                         *)
(* The processes, their parents and Kha itself are those of module Kha,    *)
(* whose steps leave the socket alone.                                     *)
(***************************************************************************)
EXTENDS Kha

VARIABLES
  path,   \* the Bridge whose listener the socket's path names
  tried,  \* the Bridges whose listener task has had its turn
  link    \* link[p]: the Bridge that daemon p is connected to

linkVars == <<path, tried, link>>
allVars  == <<vars, linkVars>>

GenerationsInit ==
  /\ Init
  /\ path = None
  /\ tried = {}
  /\ link = [p \in Procs |-> None]

\* remove_file, then bind; if bind fails the task returns, and the Bridge goes
\* on without a socket.
Listen(b) ==
  /\ Up /\ proc[b] = "running" /\ role[b] = "bridge" /\ b \notin tried
  /\ tried' = tried \cup {b}
  /\ path' \in {b, None}
  /\ UNCHANGED <<vars, link>>

Booting(p) == Up /\ proc[p] = "running" /\ role[p] = "daemon" /\ link[p] = None
Listening == path # None /\ proc[path] = "running"

Connect(p) ==
  /\ Booting(p) /\ Listening
  /\ link' = [link EXCEPT ![p] = path]
  /\ UNCHANGED <<vars, path, tried>>

\* Mutant: the daemon would try again.
ConnectRefusedRetries(p) ==
  /\ Booting(p) /\ ~Listening
  /\ UNCHANGED allVars

\* Nobody listens at the path, or it is not there: main returns the error.
ConnectRefused(p) ==
  /\ Booting(p) /\ ~Listening
  /\ Die(p)
  /\ UNCHANGED linkVars

\* The end of the connection ends the daemon's loop.
SeeBridgeClosed(p) ==
  /\ link[p] # None /\ proc[link[p]] # "running"
  /\ Die(p)
  /\ UNCHANGED linkVars

GenerationsNext ==
  \/ Next /\ UNCHANGED linkVars
  \/ \E p \in Procs : Listen(p) \/ Connect(p) \/ ConnectRefused(p) \/ SeeBridgeClosed(p)

GenerationsSpec == GenerationsInit /\ [][GenerationsNext]_allVars

\* Fairness.  That of Kha's loop; and a daemon's own task runs: it connects or is
\* refused, and it reads the end of its connection.  mountd may not read it
\* (Monitor, AlertsHeard) and is not meant here.
FairGenerations ==
  /\ GenerationsSpec
  /\ LoopFairness
  /\ \A p \in Procs : WF_allVars(Connect(p) \/ ConnectRefused(p)) /\ WF_allVars(SeeBridgeClosed(p))

-----------------------------------------------------------------------------
(* Properties.                                                             *)

\* The socket that a Bridge removes when it starts is never that of a live one:
\* nothing but Kha's order of wait and spawn keeps two Bridges apart.
SocketKept == [][\A b \in Procs : path = b /\ path' # b => proc[b] # "running"]_allVars

\* A daemon whose Bridge has died ends, or is one that a live Bridge serves:
\* none is left that nobody supervises, whatever was between its start and its
\* connection, and although no Bridge looks for the children of the last one.
\* It rests on each daemon reading the end of its connection, as FairGenerations
\* grants: a mountd whose wait for the registration timed out has dropped its
\* stream, and reads no end (module Monitor).
Served(p) == link[p] # None /\ proc[link[p]] = "running"
OrphansSettle ==
  \A p \in Procs :
    (role[p] = "daemon" /\ proc[p] = "running" /\ parent[p] = Pid1) ~> (proc[p] # "running" \/ Served(p) \/ ~Up)
=============================================================================
