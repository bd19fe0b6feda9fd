-------------------------- MODULE MCTelemetryIndex --------------------------
(***************************************************************************)
(* Small instances of TelemetryIndex for TLC.                              *)
(***************************************************************************)
EXTENDS TelemetryIndex

CONSTANTS p1, p2
=============================================================================
