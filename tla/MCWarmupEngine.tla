--------------------------- MODULE MCWarmupEngine ---------------------------
(* An instance of WarmupEngine small enough for TLC. *)
EXTENDS WarmupEngine

\* The first node may reach two mails a day, and then a seed; the second one mail.
Limits == [n \in Nodes |-> IF n = 1 THEN 2 ELSE 1]
=============================================================================
