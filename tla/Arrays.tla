------------------------------- MODULE Arrays -------------------------------
(***************************************************************************)
(* The client keeps its lists in NSMutableArrays and thins them out with   *)
(* removeObjectsInArray: and removeObject:.  What is left is the           *)
(* subsequence at the indices that survive, in the old order.  It is       *)
(* defined by rank and not by recursion, so that ArraysTheorems can prove  *)
(* what it preserves.                                                      *)
(***************************************************************************)
EXTENDS Integers, Sequences, FiniteSets

\* How many of the indices in K are at or before i.
Rank(K, i) == Cardinality({j \in K : j <= i})

\* The k-th smallest index of K.
Pick(K, k) == CHOOSE i \in K : Rank(K, i) = k

\* The elements of s at the indices in K, in order.
Subsequence(s, K) == [k \in 1 .. Cardinality(K) |-> s[Pick(K, k)]]
=============================================================================
