------------------------------ MODULE MCMutex ------------------------------
(* Mutex for TLC.  No symmetry: a temporal property is checked, and one of *)
(* the fibers alone may be cancelled.                                      *)
EXTENDS Mutex, TLC
=============================================================================
