------------------------------ MODULE DurableLog ------------------------------
(***************************************************************************)
(* What event capture promises Bazel: events are appended to the evidence  *)
(* once each, in some order that never changes, and only an event that is  *)
(* in the evidence is acknowledged.                                        *)
(***************************************************************************)
EXTENDS Sequences

CONSTANT Event

VARIABLES log, acked

Entries == {log[n] : n \in DOMAIN log}

Init == log = << >> /\ acked = {}

Accept(e) ==
    /\ e \notin Entries
    /\ log' = Append(log, e)
    /\ UNCHANGED acked

Acknowledge(e) ==
    /\ e \in Entries
    /\ acked' = acked \cup {e}
    /\ UNCHANGED log

Next == \E e \in Event : Accept(e) \/ Acknowledge(e)

Spec == Init /\ [][Next]_<<log, acked>>
=============================================================================
