---------------------------- MODULE MCGenerations ----------------------------
(* Kha, its Bridges and their daemons with a handful of pids: a Bridge, the  *)
(* one that replaces it and a daemon, or a Bridge with two daemons, after    *)
(* which the respawn fails for want of a pid.                                *)
EXTENDS Generations
=============================================================================
