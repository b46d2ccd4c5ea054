---------------------------- MODULE MCWorkDeque ----------------------------
(* WorkDeque for TLC: interchangeable fibers and interchangeable thieves.  *)
EXTENDS WorkDeque, TLC

Symmetry == Permutations(Items) \cup Permutations(Threads \ {Owner})
=============================================================================
