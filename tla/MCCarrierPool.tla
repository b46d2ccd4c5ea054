--------------------------- MODULE MCCarrierPool ---------------------------
(* CarrierPool for TLC: the tree of tasks that the run spawns.             *)
EXTENDS CarrierPool, TLC

CONSTANTS f1, f2, f3

\* The program thread spawns f1, which spawns f2, which spawns f3.
Tree == (f1 :> Main) @@ (f2 :> f1) @@ (f3 :> f2)
=============================================================================
