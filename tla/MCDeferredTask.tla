--------------------------- MODULE MCDeferredTask ---------------------------
(***************************************************************************)
(* Small instances of DeferredTask for TLC.                                *)
(***************************************************************************)
EXTENDS DeferredTask

CONSTANTS c1, r1
=============================================================================
