------------------------------- MODULE MCDedup -------------------------------
(* Instances of Dedup for TLC: which pages the walks find unmapped.         *)
EXTENDS Dedup

NoFault == {}
SecondPageFaults == {1}
=============================================================================
