------------------------- MODULE MCMessageTransport -------------------------
(* Small instance of MessageTransport: calls are interchangeable.          *)
EXTENDS MessageTransport, TLC

Symmetry == Permutations(Calls)
=============================================================================
