---------------------------- MODULE Subsequences ----------------------------
(***************************************************************************)
(* What a loop leaves of an array that it compacts in place.               *)
(***************************************************************************)
EXTENDS Integers, FiniteSets, Sequences, Functions

\* The k-th of the numbers of I: where the k-th of those that are kept is read from.
Place(I, k) == CHOOSE i \in I : Cardinality({j \in I : j <= i}) = k

\* The elements of s at the places in I, moved down to the front.
Subsequence(s, I) == [k \in 1..Cardinality(I) |-> s[Place(I, k)]]
=============================================================================
