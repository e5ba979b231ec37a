------------------------------- MODULE MCLogd -------------------------------
(* Entries of 2, 2, 5 and 1 bytes for a ring of 4: the second fills it, the  *)
(* third, larger than the ring, evicts both and is evicted by the fourth.    *)
EXTENDS Logd

MCTotal == [n \in 0..MaxEntries |-> <<0, 2, 4, 9, 10>>[n + 1]]
=============================================================================
