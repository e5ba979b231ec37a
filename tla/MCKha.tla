------------------------------- MODULE MCKha -------------------------------
(* Kha with a handful of pids: a Bridge and a daemon, or a Bridge and the   *)
(* one that replaces it.                                                    *)
EXTENDS Kha
=============================================================================
