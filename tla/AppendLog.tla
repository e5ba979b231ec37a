------------------------------ MODULE AppendLog ------------------------------
(***************************************************************************)
(* What a process of logd promises of its file: it only appends to it,     *)
(* each of its entries at most once and in their order, behind a tail that *)
(* is not safe yet.  The tail goes to the file whole, or is lost whole;    *)
(* nothing that is in the file is lost, rewritten or repeated, whatever    *)
(* the number of processes that came and went, and although others append  *)
(* to the same file.                                                       *)
(***************************************************************************)
EXTENDS Naturals, Sequences

VARIABLES
  stored,  \* the entries in the file
  tail,    \* the entries accepted and not yet in the file
  last,    \* the last entry that was accepted or passed over
  since    \* the first entry of the present writer

vars == <<stored, tail, last, since>>

Init == stored = <<>> /\ tail = <<>> /\ last = 0 /\ since = 1

\* An entry is accepted; those between it and the last one are passed over.
Accept == last' > last /\ tail' = Append(tail, last') /\ UNCHANGED <<stored, since>>

\* The tail becomes safe, as far as the log has it.
Sync == stored' = stored \o tail /\ tail' = <<>> /\ UNCHANGED <<last, since>>

\* The tail becomes safe to make room for the next entry.
Spill == last' > last /\ stored' = stored \o tail /\ tail' = <<last'>> /\ UNCHANGED since

\* A crash, an exit or an error.
Lose == tail' = <<>> /\ UNCHANGED <<stored, last, since>>

\* Entries that are not written at all.
PassOver == last' > last /\ UNCHANGED <<stored, tail, since>>

\* Another writer, with a tail of its own, comes in place of this one, which may
\* not have ended.
Begin == tail' = <<>> /\ last' >= last /\ since' = last' + 1 /\ UNCHANGED stored

\* A writer that is not the present one appends an entry, never one of the
\* present writer's.
Other == \E n \in 0..since - 1 : stored' = Append(stored, n) /\ UNCHANGED <<tail, last, since>>

Next == Accept \/ Sync \/ Spill \/ Lose \/ PassOver \/ Begin \/ Other

Spec == Init /\ [][Next]_vars
=============================================================================
