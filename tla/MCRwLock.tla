------------------------------ MODULE MCRwLock ------------------------------
(* RwLock for TLC.  No symmetry: a temporal property is checked.           *)
EXTENDS RwLock, TLC
=============================================================================
