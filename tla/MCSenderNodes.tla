---------------------------- MODULE MCSenderNodes ----------------------------
(* Instances of SenderNodes small enough for TLC. *)
EXTENDS SenderNodes, TLC

CONSTANTS n1, n2, h1, h2

Symmetric == Permutations(Nodes) \cup Permutations(Handlers)
=============================================================================
