------------------------ MODULE MCInvocationService ------------------------
(***************************************************************************)
(* Small instances of InvocationService for TLC.                           *)
(***************************************************************************)
EXTENDS InvocationService, TLC

CONSTANTS i1, i2, i3, k1, k2

One == {i1}
Two == {i1, i2}
Three == {i1, i2, i3}

\* One output base for every invocation.
SharedKey == [i \in Inv |-> k1]
\* An output base of its own for i2.
OwnKeys == [i \in Inv |-> IF i = i2 THEN k2 ELSE k1]
=============================================================================
