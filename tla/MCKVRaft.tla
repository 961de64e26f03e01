------------------------------ MODULE MCKVRaft ------------------------------
(***************************************************************************)
(* Small instances of KVRaft for TLC.                                      *)
(***************************************************************************)
EXTENDS KVRaft, TLC

\* Clerks, and the goroutines that share one, are interchangeable.
Symmetry == Permutations(Clerk) \cup Permutations(Goroutine)
=============================================================================
