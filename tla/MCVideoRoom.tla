---------------------------- MODULE MCVideoRoom ----------------------------
(* VideoRoom for TLC: the feeds are interchangeable. *)
EXTENDS VideoRoom, TLC

Symmetry == Permutations(Feeds)
=============================================================================
