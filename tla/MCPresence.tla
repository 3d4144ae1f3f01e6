----------------------------- MODULE MCPresence -----------------------------
(* Presence on a small instance: resources are interchangeable, and so are *)
(* the threads of processQueue, and the contact is at two places at most.  *)
EXTENDS Presence, TLC

Interchangeable == Permutations(Resources) \cup Permutations(Threads)

AtTwoPlaces == Cardinality(available) <= 2
=============================================================================
