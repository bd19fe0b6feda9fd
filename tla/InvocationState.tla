-------------------------- MODULE InvocationState --------------------------
(***************************************************************************)
(* The durable invocation state machine of bazel-mcp-types (invocation.rs) *)
(* shared by the runner and the store.                                     *)
(***************************************************************************)

\* The record of an invocation that has not been created yet.
Absent == "absent"

States == {"queued", "starting", "running", "succeeded", "failed",
           "cancelled", "timed_out", "interrupted"}

TerminalStates == {"succeeded", "failed", "cancelled", "timed_out", "interrupted"}

IsTerminal(s) == s \in TerminalStates

\* InvocationState::validate_transition: the edges a store operation accepts.
ValidateTransition(current, next) ==
    \/ current = "queued"   /\ next \in {"starting", "cancelled", "interrupted"}
    \/ current = "starting" /\ next \in {"running", "failed", "cancelled",
                                         "timed_out", "interrupted"}
    \/ current = "running"  /\ next \in TerminalStates
=============================================================================
