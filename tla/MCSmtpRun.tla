------------------------------ MODULE MCSmtpRun ------------------------------
(* Instances of SmtpRun small enough for TLC. *)
EXTENDS SmtpRun, TLC

CONSTANTS a1, a2

Symmetric == Permutations(Accounts)
=============================================================================
