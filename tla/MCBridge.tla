------------------------------ MODULE MCBridge ------------------------------
(* logd and one daemon that waits for it: the shape of every entry of the  *)
(* registry, kha-watchd and logd itself apart.                             *)
EXTENDS Bridge, Registry

MCDaemons == {"logd", "netd"}
MCDependsOn == [d \in MCDaemons |-> RegistryDependsOn[d] \cap MCDaemons]
ProcSymmetry == Permutations(Procs)
=============================================================================
