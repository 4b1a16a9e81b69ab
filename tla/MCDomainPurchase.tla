-------------------------- MODULE MCDomainPurchase --------------------------
(* Instances of DomainPurchase small enough for TLC. *)
EXTENDS DomainPurchase, TLC

CONSTANTS d1, d2, r1, r2

Symmetric == Permutations(Domains) \cup Permutations(Requests)
=============================================================================
