---------------------------- MODULE MCSemaphore ----------------------------
(* Semaphore for TLC.                                                      *)
EXTENDS Semaphore, TLC

Symmetry == Permutations(Fibers) \cup Permutations(OsThreads)
=============================================================================
