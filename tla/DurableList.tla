---------------------------- MODULE DurableList -----------------------------
(***************************************************************************)
(* What a file of the local store promises to its users: operations are    *)
(* added to its end one at a time, each once, none is ever removed, and an *)
(* operation is acknowledged only when it is there.                        *)
(***************************************************************************)
EXTENDS Naturals, Sequences

CONSTANT Ops

VARIABLES entries, acked

Held(s) == {s[i] : i \in DOMAIN s}

Init == entries = <<>> /\ acked = {}

Add(o) ==
  /\ o \notin Held(entries)
  /\ entries' = Append(entries, o)
  /\ UNCHANGED acked

Acknowledge(o) ==
  /\ o \in Held(entries)
  /\ acked' = acked \cup {o}
  /\ UNCHANGED entries

Next == \E o \in Ops : Add(o) \/ Acknowledge(o)

Spec == Init /\ [][Next]_<<entries, acked>>
=============================================================================
