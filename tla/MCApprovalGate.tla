--------------------------- MODULE MCApprovalGate ---------------------------
(* Instances of ApprovalGate small enough for TLC. *)
EXTENDS ApprovalGate

CONSTANTS p1, p2, s1, s2

\* Both proposals are about the same target, so they are duplicates.
SameHash == [p \in Proposals |-> "h"]
=============================================================================
