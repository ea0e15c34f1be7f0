--------------------------- MODULE MCLocalPipeline ---------------------------
(* Instances of LocalPipeline for TLC: the constants are given in the cfg files. *)
EXTENDS LocalPipeline, TLC

CONSTANTS p1, p2, c1, c2, s1, s2, w1, w2, w3

AllOps == {"create", "stop", "terminate", "resume", "edit", "resources", "delete"}
StopOps == {"create", "stop", "terminate", "resume"}
StopResume == {"create", "stop", "resume"}
EditOps == {"create", "stop", "resume", "resources"}

\* Goroutines of one kind are interchangeable.
Symmetry == Permutations(Clients) \cup Permutations(Watchers) \cup Permutations(Cleaners)
=============================================================================
