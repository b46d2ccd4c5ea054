---------------------------- MODULE MCScopeTasks ----------------------------
\* A task that spawns two others.
EXTENDS ScopeTasks, TLC

CONSTANTS r, a, b

Family == (a :> r) @@ (b :> r)
Ops == (r :> 2) @@ (a :> 0) @@ (b :> 1)
=============================================================================
