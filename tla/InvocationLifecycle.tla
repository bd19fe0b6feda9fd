------------------------ MODULE InvocationLifecycle ------------------------
(***************************************************************************)
(* What the runner promises its clients about one invocation, without      *)
(* saying how: the durable record only follows the edges of the state      *)
(* machine, Bazel is spawned at most once per invocation, never twice at   *)
(* the same time on one output base, and a result is recorded only when    *)
(* the process it describes no longer runs.  InvocationService is shown to *)
(* implement it.                                                           *)
(*                                                                         *)
(* "cancelled" is the exception on both sides: bazel.cancel may record it  *)
(* while the child is still running, or just before the child is spawned   *)
(* (the cancel race, see CancelledRunHasItsToken in InvocationService).    *)
(***************************************************************************)
EXTENDS InvocationState

CONSTANTS Inv, KeyOf

VARIABLES
    state,   \* state[i]: the durable record of invocation i
    child    \* child[i]: the Bazel client process of invocation i

lifecycleVars == <<state, child>>

Init ==
    /\ state = [i \in Inv |-> Absent]
    /\ child = [i \in Inv |-> "none"]

Accept(i) ==
    /\ state[i] = Absent
    /\ state' = [state EXCEPT ![i] = "queued"]
    /\ UNCHANGED child

Advance(i) ==
    \E next \in States :
        /\ ValidateTransition(state[i], next)
        /\ next = "running" => child[i] # "none"
        /\ next \in {"succeeded", "timed_out"} => child[i] = "exited"
        /\ next = "failed" => child[i] # "alive"
        /\ state' = [state EXCEPT ![i] = next]
        /\ UNCHANGED child

Spawn(i) ==
    /\ child[i] = "none"
    /\ state[i] \in {"starting", "cancelled"}
    /\ \A j \in Inv : KeyOf[j] = KeyOf[i] => child[j] # "alive"
    /\ child' = [child EXCEPT ![i] = "alive"]
    /\ UNCHANGED state

\* "killed": SIGKILL was sent and the process is not yet known to be gone.
Leave(i) ==
    /\ \/ child[i] = "alive"  /\ child' = [child EXCEPT ![i] = "killed"]
       \/ child[i] \in {"alive", "killed"} /\ child' = [child EXCEPT ![i] = "exited"]
    /\ UNCHANGED state

Next == \E i \in Inv : Accept(i) \/ Advance(i) \/ Spawn(i) \/ Leave(i)

Spec == Init /\ [][Next]_lifecycleVars
=============================================================================
