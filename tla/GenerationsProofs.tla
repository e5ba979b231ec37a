------------------------- MODULE GenerationsProofs -------------------------
(***************************************************************************)
(* Proofs about Generations, for any number of processes and any ceiling.  *)
(***************************************************************************)
EXTENDS Generations, KhaProofs

\* The path is that of a Bridge that has had its turn.
Listened == {None} \cup {b \in tried : b \in Procs /\ role[b] = "bridge" /\ proc[b] # "unborn"}
Sockets == path \in Listened

GenerationsInv == Inv /\ Sockets

-----------------------------------------------------------------------------
\* Kha's part of a step is a step of Kha, or none.
LEMMA KhaPart == [GenerationsNext]_allVars => [Next]_vars
<1> SUFFICES ASSUME GenerationsNext \/ UNCHANGED allVars PROVE [Next]_vars
  OBVIOUS
<1>1. ASSUME NEW p \in Procs, ConnectRefused(p) \/ SeeBridgeClosed(p) PROVE Next
  BY <1>1 DEF ConnectRefused, SeeBridgeClosed, Next
<1>2. QED
  BY <1>1 DEF GenerationsNext, Listen, Connect, allVars

\* A process that was born runs what it ran.
LEMMA RolesStay ==
  ASSUME Inv, [Next]_vars, NEW b \in Procs, proc[b] # "unborn"
  PROVE  role'[b] = role[b] /\ proc'[b] # "unborn"
<1> USE DEF Inv, TypeOK, loopVars, countVars, procVars, metricVars
<1>1. ASSUME NEW p \in Procs, Boot(p) \/ Respawn(p) PROVE role'[b] = role[b] /\ proc'[b] # "unborn"
  BY <1>1 DEF Boot, Respawn, SpawnBridge, Fork
<1>2. ASSUME NEW c \in Procs, NEW p \in Procs, StartDaemon(c, p) PROVE role'[b] = role[b] /\ proc'[b] # "unborn"
  BY <1>2 DEF StartDaemon, Fork
<1>3. CASE ReapZombies \/ BridgeExited \/ ShutDown
  BY <1>3 DEF ReapZombies, BridgeExited, ShutDown, WaitBridge
<1>4. ASSUME NEW p \in Procs, Die(p) \/ ReapedByBridge(p) PROVE role'[b] = role[b] /\ proc'[b] # "unborn"
  BY <1>4 DEF Die, ReapedByBridge
<1>5. CASE UNCHANGED procVars
  BY <1>5
<1>6. \/ UNCHANGED procVars \/ ReapZombies \/ BridgeExited \/ ShutDown
      \/ \E p \in Procs : Boot(p) \/ Respawn(p) \/ Die(p) \/ ReapedByBridge(p)
      \/ \E c, p \in Procs : StartDaemon(c, p)
  BY DEF Next, vars, BootFails, Arm, ArmFails, RespawnFails, Forward, Signal, BindMetrics, EmitMetrics, ConnectMetrics, ReadMetrics
<1>7. QED
  BY <1>1, <1>2, <1>3, <1>4, <1>5, <1>6

LEMMA SocketsStep == GenerationsInv /\ [GenerationsNext]_allVars => Sockets'
<1> SUFFICES ASSUME GenerationsInv, [GenerationsNext]_allVars PROVE Sockets'
  OBVIOUS
<1>1. [Next]_vars /\ Inv /\ Sockets
  BY KhaPart DEF GenerationsInv
<1>2. tried \subseteq tried'
  BY DEF GenerationsNext, Listen, Connect, ConnectRefused, SeeBridgeClosed, linkVars, allVars
<1>3. Listened \subseteq Listened'
  BY <1>1, <1>2, RolesStay DEF Listened
<1>4. ASSUME NEW b \in Procs, Listen(b) PROVE Sockets'
  BY <1>4 DEF Listen, Sockets, Listened, vars, procVars
<1>5. CASE path' = path
  BY <1>1, <1>3, <1>5 DEF Sockets
<1>6. QED
  BY <1>4, <1>5 DEF GenerationsNext, Connect, ConnectRefused, SeeBridgeClosed, linkVars, allVars

LEMMA GenerationsInvariance == GenerationsSpec => []GenerationsInv
<1>1. GenerationsInit => GenerationsInv
  BY InitInv DEF GenerationsInit, GenerationsInv, Sockets, Listened
<1>2. GenerationsInv /\ [GenerationsNext]_allVars => GenerationsInv'
  BY KhaPart, InvStep, SocketsStep DEF GenerationsInv
<1>3. QED
  BY <1>1, <1>2, PTL DEF GenerationsSpec

\* Kha with its Bridges, their socket and their daemons is Kha: what is proved of
\* PID 1 alone (KhaProofs) holds of it, whatever daemons connect and end.
THEOREM ImplementsKha == GenerationsSpec => Spec
<1>1. GenerationsInit => Init
  BY DEF GenerationsInit
<1>2. QED
  BY <1>1, KhaPart, PTL DEF GenerationsSpec, Spec

\* A Bridge that takes the socket's path over never takes it from a live one,
\* for any number of Bridges that die, are restarted or fail to bind: the Bridge
\* that listens has not done so before, and OneBridge makes it the only one alive.
THEOREM SocketKeptHolds == GenerationsSpec => SocketKept
<1> DEFINE Keeps == \A b \in Procs : path = b /\ path' # b => proc[b] # "running"
<1>1. GenerationsInv /\ [GenerationsNext]_allVars => [Keeps]_allVars
  <2> SUFFICES ASSUME GenerationsInv, GenerationsNext, NEW b \in Procs, path = b, path' # b
               PROVE  proc[b] # "running"
    BY DEF allVars, linkVars
  <2>1. PICK c \in Procs : Listen(c)
    BY DEF GenerationsNext, Connect, ConnectRefused, SeeBridgeClosed, linkVars
  <2>2. b \in tried /\ role[b] = "bridge"
    BY KhaAssumption DEF GenerationsInv, Sockets, Listened
  <2>3. c \notin tried /\ proc[c] = "running" /\ role[c] = "bridge"
    BY <2>1 DEF Listen
  <2>4. QED
    BY <2>2, <2>3 DEF GenerationsInv, Inv, OneBridge
<1>2. QED
  BY <1>1, GenerationsInvariance, PTL DEF GenerationsSpec, SocketKept
=============================================================================
