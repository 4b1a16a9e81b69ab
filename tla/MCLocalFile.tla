---------------------------- MODULE MCLocalFile -----------------------------
(* Instances of LocalFile small enough for TLC. *)
EXTENDS LocalFile

CONSTANTS g1, g2, k1, gateway, worker

\* Two callers in the gateway and one in a worker.
InProcess == [c \in Clients |-> IF c = k1 THEN worker ELSE gateway]
=============================================================================
