---------------------------- MODULE MCReadySet ----------------------------
\* Two sets that wait for either direction of one descriptor.
EXTENDS ReadySet, TLC

CONSTANTS s1, s2, fd1, r, w

Shared == (s1 :> {<<fd1, {r}>>}) @@ (s2 :> {<<fd1, {w}>>})
Most == (s1 :> 2) @@ (s2 :> 1)
=============================================================================
