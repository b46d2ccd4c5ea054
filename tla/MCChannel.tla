----------------------------- MODULE MCChannel -----------------------------
(* Channel for TLC.                                                        *)
EXTENDS Channel, TLC

\* The fibers use all that may change the channel, the thread what it may wait in.
Methods ==
    [p \in Callers |-> IF p \in Fibers THEN ChanOps \ {"isClosed"} ELSE {"send", "receive", "isClosed"}]

Symmetry == Permutations(Fibers) \cup Permutations(OsThreads) \cup Permutations(Values)
=============================================================================
