--------------------------- MODULE MCSendPipeline ---------------------------
(* Instances of SendPipeline small enough for TLC. *)
EXTENDS SendPipeline, TLC

CONSTANTS w1, w2, n1, n2, f1, f2, ana, bob

OneRecipient == [j \in Jobs |-> ana]
OneEach == [n \in Nodes |-> 1]
Complaints == [f \in Feeds |-> IF f = f1 THEN ana ELSE bob]

Symmetric == Permutations(Workers) \cup Permutations(Nodes)
=============================================================================
