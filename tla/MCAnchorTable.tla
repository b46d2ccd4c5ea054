---------------------------- MODULE MCAnchorTable ----------------------------
\* A method that anchors a scope, and two tasks that it spawns.
EXTENDS AnchorTable

CONSTANTS f1, f2

Ops == (Main :> 2) @@ (f1 :> 2) @@ (f2 :> 1)
=============================================================================
