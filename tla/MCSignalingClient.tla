-------------------------- MODULE MCSignalingClient --------------------------
(* Small instance of SignalingClient: clients are interchangeable.          *)
EXTENDS SignalingClient, TLC

Symmetry == Permutations(Clients)
=============================================================================
