------------------------- MODULE InvocationService -------------------------
(***************************************************************************)
(* The runner: admission, serialization, execution and cancellation of     *)
(* Bazel invocations inside one server process (service.rs, scheduler.rs,  *)
(* execution.rs, cancel.rs and the acquire loop of output_base_lock.rs).   *)
(*                                                                         *)
(* Actors: per invocation one worker (run_with_cancellation, or the task   *)
(* and supervisor started by submit), one bazel.cancel call, one waiter,   *)
(* and its Bazel child; other server processes that take the same          *)
(* output-base file locks; the shutdown path.  Every await point of the    *)
(* code that reads or writes shared state is a step of its own.  A store   *)
(* operation is atomic (it runs under the store's per-invocation locks);   *)
(* publishing its result to the lifecycle watch is a separate step.        *)
(***************************************************************************)
EXTENDS InvocationState, Naturals, FiniteSets

CONSTANTS
    Inv,                \* invocations submitted to this server
    Keys,               \* lock keys: output bases, or workspaces without one
    KeyOf,              \* KeyOf[i]: the lock key of invocation i
    GlobalConcurrency,  \* RunnerConfig.global_concurrency
    MaximumPending,     \* RunnerConfig.maximum_pending_invocations
    Cancellable,        \* invocations some client may cancel with bazel.cancel
    Awaited,            \* invocations some client may wait for
    MaxFaults,          \* bound: store errors, lock errors and worker panics
    MaxOtherHolds,      \* bound: acquisitions by other server processes
    ShutdownAllowed     \* whether the server may receive a shutdown signal

ASSUME ServiceAssumption ==
    /\ KeyOf \in [Inv -> Keys]
    /\ GlobalConcurrency \in Nat \ {0}
    /\ MaximumPending \in Nat /\ MaximumPending >= GlobalConcurrency
    /\ Cancellable \subseteq Inv /\ Awaited \subseteq Inv
    /\ MaxFaults \in Nat /\ MaxOtherHolds \in Nat
    /\ ShutdownAllowed \in BOOLEAN
    /\ "free" \notin Inv /\ "other" \notin Inv

VARIABLES
    rec,        \* rec[i]: durable record in the store
    token,      \* token[i]: the CancellationToken has been cancelled
    live,       \* live[i]: i is in the scheduler's registry
    lifecycle,  \* lifecycle[i]: value last sent on the lifecycle watch
    mode,       \* mode[i]: "attached" (bazel.run) or "submitted" (task)
    pc,         \* pc[i]: where the worker (then the supervisor) of i stands
    todo,       \* todo[i]: state stored by the worker and not yet published
    child,      \* child[i]: the Bazel client process
    signal,     \* signal[i]: the strongest signal terminate_child sent it, while it runs
    outcome,    \* outcome[i]: the terminal state the worker will commit
    result,     \* result[i]: what run_prepared returns
    wsHolder,   \* wsHolder[k]: owner of the in-process workspace mutex
    obHolder,   \* obHolder[k]: owner of the output-base file lock
    permits,    \* holders of the global execution semaphore
    pending,    \* holders of the pending semaphore
    cpc,        \* cpc[i]: where the bazel.cancel call on i stands
    requested,  \* requested[i]: the cancellation_requested it answers
    wpc,        \* wpc[i]: where the waiter on i stands
    faults,     \* faults so far
    otherHolds, \* acquisitions by other processes so far
    shutdown    \* cancel_all_active has run

storeVars  == rec
registry   == <<token, live, lifecycle>>
worker     == <<todo, child, outcome, result>>
locks      == <<wsHolder, obHolder>>
admission  == <<permits, pending>>
canceller  == <<cpc, requested, signal>>
bounds     == <<faults, otherHolds, shutdown>>
vars == <<rec, token, live, lifecycle, mode, pc, todo, child, outcome, result,
          wsHolder, obHolder, permits, pending, cpc, requested, signal, wpc,
          faults, otherHolds, shutdown>>

None == "none"

\* Steps before the worker owns the execution permit.
QueuePcs == {"idle", "rejected", "validating", "created", "workspace",
             "output_base", "lock_attempt", "permit"}
\* Steps that may be reached with any subset of the locks held.
EarlyExitPcs == {"finish_cancelled", "start_failure", "start_failure_reread",
                 "start_failure_fail", "starting_failed", "starting_recheck", "unwind"}
\* Steps at which the worker owns the mutex, the file lock and a permit.
OwningPcs == {"permitted", "to_starting", "start_check", "prepare", "spawn",
              "to_running", "abort_start", "running", "terminating", "capture",
              "commit", "recover", "recommit", "release"}
\* Steps at which the Bazel process may be running.
ChildPcs == {"to_running", "abort_start", "running", "terminating"}
AfterPcs == {"release_rest", "materialize", "remove", "done"}
Pcs == QueuePcs \cup EarlyExitPcs \cup OwningPcs \cup AfterPcs

\* Every step that belongs to the task polling run_prepared.
RunPreparedPcs == Pcs \ {"idle", "rejected", "validating", "created",
                         "materialize", "remove", "done"}

TypeOK ==
    /\ rec \in [Inv -> States \cup {Absent}]
    /\ token \in [Inv -> BOOLEAN]
    /\ live \in [Inv -> BOOLEAN]
    /\ lifecycle \in [Inv -> States \cup {None}]
    /\ mode \in [Inv -> {"attached", "submitted"}]
    /\ pc \in [Inv -> Pcs]
    /\ todo \in [Inv -> States \cup {None}]
    /\ child \in [Inv -> {"none", "alive", "killed", "exited"}]
    /\ outcome \in [Inv -> TerminalStates \cup {None}]
    /\ result \in [Inv -> {"none", "ok", "err"}]
    /\ wsHolder \in [Keys -> Inv \cup {"free"}]
    /\ obHolder \in [Keys -> Inv \cup {"free", "other"}]
    /\ permits \subseteq Inv
    /\ pending \subseteq Inv
    /\ cpc \in [Inv -> {"idle", "token_queued", "token_started", "store", "publish",
                        "report", "done", "failed"}]
    /\ requested \in [Inv -> BOOLEAN]
    /\ signal \in [Inv -> {"none", "interrupt", "terminate", "kill"}]
    /\ wpc \in [Inv -> {"idle", "waiting", "returned", "cancelled"}]
    /\ faults \in 0..MaxFaults
    /\ otherHolds \in 0..MaxOtherHolds
    /\ shutdown \in BOOLEAN

Init ==
    /\ rec = [i \in Inv |-> Absent]
    /\ token = [i \in Inv |-> FALSE]
    /\ live = [i \in Inv |-> FALSE]
    /\ lifecycle = [i \in Inv |-> None]
    /\ mode \in [Inv -> {"attached", "submitted"}]
    /\ pc = [i \in Inv |-> "idle"]
    /\ todo = [i \in Inv |-> None]
    /\ child = [i \in Inv |-> "none"]
    /\ outcome = [i \in Inv |-> None]
    /\ result = [i \in Inv |-> "none"]
    /\ wsHolder = [k \in Keys |-> "free"]
    /\ obHolder = [k \in Keys |-> "free"]
    /\ permits = {} /\ pending = {}
    /\ cpc = [i \in Inv |-> "idle"]
    /\ requested = [i \in Inv |-> FALSE]
    /\ signal = [i \in Inv |-> "none"]
    /\ wpc = [i \in Inv |-> "idle"]
    /\ faults = 0 /\ otherHolds = 0 /\ shutdown = FALSE

-----------------------------------------------------------------------------
(* Frames and the operations every step is made of.                        *)

\* The worker stands at l, with nothing left to publish.
At(i, l) == pc[i] = l /\ todo[i] = None

Goto(i, l) == pc' = [pc EXCEPT ![i] = l]

\* run_prepared is about to return: r is its result, the commit is consumed.
Return(i, r, l) ==
    /\ result' = [result EXCEPT ![i] = r]
    /\ outcome' = [outcome EXCEPT ![i] = None]
    /\ Goto(i, l)

\* The store half of transition_invocation and finish_invocation.
Store(i, next) == rec' = [rec EXCEPT ![i] = next]

\* ... followed, in a later step, by publish_state.
StoreAndPublish(i, next) ==
    /\ Store(i, next)
    /\ todo' = [todo EXCEPT ![i] = next]

\* A store, lock-file or runtime error that had no effect.
Fault == faults < MaxFaults /\ faults' = faults + 1
NoFault == UNCHANGED faults

\* A worker step touches nothing but its own control state and the store.
WorkerFrame ==
    UNCHANGED <<registry, mode, locks, admission, canceller, wpc, otherHolds, shutdown>>

\* InvocationScheduler::publish_state.
PublishState(i, s) ==
    lifecycle' = IF live[i] THEN [lifecycle EXCEPT ![i] = s] ELSE lifecycle

Publish(i) ==
    /\ todo[i] # None
    /\ PublishState(i, todo[i])
    /\ todo' = [todo EXCEPT ![i] = None]
    /\ UNCHANGED <<rec, token, live, mode, pc, child, outcome, result, locks,
                   admission, canceller, wpc, bounds>>

-----------------------------------------------------------------------------
(* prepare_submission *)

\* The submission is refused: an already cancelled request token, or no free slot
\* (QueueFull).  Otherwise a pending permit is taken and validation goes on.  A request
\* that was dispatched before the shutdown may still arrive here after it.
Submit(i) ==
    /\ At(i, "idle")
    /\ IF token[i] \/ Cardinality(pending) >= MaximumPending
       THEN Goto(i, "rejected") /\ UNCHANGED pending
       ELSE Goto(i, "validating") /\ pending' = pending \cup {i}
    /\ UNCHANGED <<rec, registry, mode, worker, locks, permits, canceller, wpc, bounds>>

\* A policy, workspace, executable or version check fails, or the request is
\* cancelled before acceptance: the pending permit is dropped.
Reject(i) ==
    /\ At(i, "validating")
    /\ Goto(i, "rejected")
    /\ pending' = pending \ {i}
    /\ UNCHANGED <<rec, registry, mode, worker, locks, permits, canceller, wpc, bounds>>

\* create_invocation_with_deferred: the durable acceptance.
Create(i) ==
    /\ At(i, "validating") /\ ~token[i]
    /\ Store(i, "queued")
    /\ Goto(i, "created")
    /\ UNCHANGED <<registry, mode, worker, locks, admission, canceller, wpc, bounds>>

\* InvocationScheduler::register, with the state that was stored.
Register(i) ==
    /\ At(i, "created")
    /\ live' = [live EXCEPT ![i] = TRUE]
    /\ lifecycle' = [lifecycle EXCEPT ![i] = "queued"]
    /\ Goto(i, "workspace")
    /\ UNCHANGED <<rec, token, mode, worker, locks, admission, canceller, wpc, bounds>>

-----------------------------------------------------------------------------
(* run_prepared: workspace mutex, output-base lock, execution permit        *)

CancelledWhile(i, l) ==
    /\ At(i, l) /\ token[i]
    /\ Goto(i, "finish_cancelled")
    /\ UNCHANGED <<rec, registry, mode, worker, locks, admission, canceller, wpc, bounds>>

\* Every await of run_prepared before execution selects on the token.
CancelledInQueue(i) ==
    \E l \in {"workspace", "output_base", "permit", "permitted"} : CancelledWhile(i, l)

AcquireWorkspace(i) ==
    /\ At(i, "workspace") /\ wsHolder[KeyOf[i]] = "free"
    /\ wsHolder' = [wsHolder EXCEPT ![KeyOf[i]] = i]
    /\ Goto(i, "output_base")
    /\ UNCHANGED <<rec, registry, mode, worker, obHolder, admission, canceller, wpc, bounds>>

\* acquire: the token is checked at the top of each round ...
BeginLockAttempt(i) ==
    /\ At(i, "output_base") /\ ~token[i]
    /\ Goto(i, "lock_attempt")
    /\ UNCHANGED <<rec, registry, mode, worker, locks, admission, canceller, wpc, bounds>>

\* Seeded fault: a busy file lock is taken for an acquired one.
TryOutputBaseLockIgnoresBusy(i) ==
    /\ At(i, "lock_attempt")
    /\ obHolder' = [obHolder EXCEPT ![KeyOf[i]] = IF @ = "free" THEN i ELSE @]
    /\ Goto(i, "permit")
    /\ UNCHANGED <<rec, registry, mode, worker, wsHolder, admission, canceller, wpc, bounds>>

\* ... and try_lock takes the file lock, finds it busy (and polls again), ...
TryOutputBaseLock(i) ==
    /\ At(i, "lock_attempt")
    /\ IF obHolder[KeyOf[i]] = "free"
       THEN /\ obHolder' = [obHolder EXCEPT ![KeyOf[i]] = i]
            /\ Goto(i, "permit")
       ELSE /\ Goto(i, "output_base")
            /\ UNCHANGED obHolder
    /\ UNCHANGED <<rec, registry, mode, worker, wsHolder, admission, canceller, wpc, bounds>>

\* ... or fails with an I/O error.
OutputBaseLockFails(i) ==
    /\ At(i, "lock_attempt") /\ Fault
    /\ Goto(i, "start_failure")
    /\ UNCHANGED <<rec, worker>> /\ WorkerFrame

\* Seeded fault: one permit too many.
AcquireExecutionOffByOne(i) ==
    /\ At(i, "permit") /\ Cardinality(permits) <= GlobalConcurrency
    /\ permits' = permits \cup {i}
    /\ Goto(i, "permitted")
    /\ UNCHANGED <<rec, registry, mode, worker, locks, pending, canceller, wpc, bounds>>

AcquireExecution(i) ==
    /\ At(i, "permit") /\ Cardinality(permits) < GlobalConcurrency
    /\ permits' = permits \cup {i}
    /\ Goto(i, "permitted")
    /\ UNCHANGED <<rec, registry, mode, worker, locks, pending, canceller, wpc, bounds>>

\* Seeded fault: the token is not checked again after the permit was awaited.
BeginStartingUnchecked(i) ==
    /\ At(i, "permitted")
    /\ Goto(i, "to_starting")
    /\ UNCHANGED <<rec, registry, mode, worker, locks, admission, canceller, wpc, bounds>>

BeginStarting(i) ==
    /\ At(i, "permitted") /\ ~token[i]
    /\ Goto(i, "to_starting")
    /\ UNCHANGED <<rec, registry, mode, worker, locks, admission, canceller, wpc, bounds>>

\* Queued -> Starting.  A cancellation that got there first makes the record terminal
\* with a summary: run_prepared returns it.
TransitionStarting(i) ==
    /\ At(i, "to_starting")
    /\ IF ValidateTransition(rec[i], "starting")
       THEN StoreAndPublish(i, "starting") /\ Goto(i, "start_check") /\ UNCHANGED result
       ELSE Goto(i, "starting_failed") /\ UNCHANGED <<rec, todo, result>>
    /\ NoFault /\ UNCHANGED <<child, outcome>> /\ WorkerFrame

TransitionStartingFails(i) ==
    /\ At(i, "to_starting") /\ Fault
    /\ Goto(i, "starting_failed")
    /\ UNCHANGED <<rec, worker>> /\ WorkerFrame

\* The error arm of that transition tries to record Failed; its result is ignored.
RecordStartingFailure(i) ==
    /\ At(i, "starting_failed")
    /\ IF ValidateTransition(rec[i], "failed")
       THEN StoreAndPublish(i, "failed")
       ELSE UNCHANGED <<rec, todo>>
    /\ Goto(i, "starting_recheck")
    /\ NoFault /\ UNCHANGED <<child, outcome, result>> /\ WorkerFrame

StartingRecheck(i) ==
    /\ At(i, "starting_recheck")
    /\ Return(i, IF IsTerminal(rec[i]) THEN "ok" ELSE "err", "unwind")
    /\ NoFault /\ UNCHANGED <<rec, todo, child>> /\ WorkerFrame

\* Seeded fault: the pending outcome is recorded instead of Cancelled.
FinishCancelledRecordsOutcome(i) ==
    /\ At(i, "finish_cancelled")
    /\ IF IsTerminal(rec[i]) THEN UNCHANGED <<rec, todo>> ELSE StoreAndPublish(i, outcome[i])
    /\ Return(i, "ok", "unwind")
    /\ NoFault /\ UNCHANGED child /\ WorkerFrame

\* finish_cancelled: the record is or becomes Cancelled, or already is terminal.
FinishCancelled(i) ==
    /\ At(i, "finish_cancelled")
    /\ IF IsTerminal(rec[i]) THEN UNCHANGED <<rec, todo>> ELSE StoreAndPublish(i, "cancelled")
    /\ Return(i, "ok", "unwind")
    /\ NoFault /\ UNCHANGED child /\ WorkerFrame

FinishCancelledFails(i) ==
    /\ At(i, "finish_cancelled") /\ Fault
    /\ Return(i, "err", "unwind")
    /\ UNCHANGED <<rec, todo, child>> /\ WorkerFrame

\* finish_start_failure: Queued -> Starting (a State error is tolerated), ...
StartFailureStarting(i) ==
    /\ At(i, "start_failure")
    /\ IF IsTerminal(rec[i])
       THEN Return(i, "ok", "unwind") /\ UNCHANGED <<rec, todo>>
       ELSE /\ Goto(i, "start_failure_reread") /\ UNCHANGED <<result, outcome>>
            /\ IF rec[i] = "queued" THEN StoreAndPublish(i, "starting") ELSE UNCHANGED <<rec, todo>>
    /\ NoFault /\ UNCHANGED child /\ WorkerFrame

\* ... the record is read again, ...
StartFailureReread(i) ==
    /\ At(i, "start_failure_reread")
    /\ IF IsTerminal(rec[i])
       THEN Return(i, "ok", "unwind")
       ELSE Goto(i, "start_failure_fail") /\ UNCHANGED <<result, outcome>>
    /\ NoFault /\ UNCHANGED <<rec, todo, child>> /\ WorkerFrame

\* ... and Starting -> Failed, whose error is returned whatever its kind.
StartFailureFail(i) ==
    /\ At(i, "start_failure_fail")
    /\ IF ValidateTransition(rec[i], "failed")
       THEN StoreAndPublish(i, "failed") /\ Return(i, "ok", "unwind")
       ELSE Return(i, "err", "unwind") /\ UNCHANGED <<rec, todo>>
    /\ NoFault /\ UNCHANGED child /\ WorkerFrame

StartFailureStoreFails(i) ==
    /\ \/ At(i, "start_failure") /\ rec[i] = "queued"
       \/ At(i, "start_failure_fail")
    /\ Fault
    /\ Return(i, "err", "unwind")
    /\ UNCHANGED <<rec, todo, child>> /\ WorkerFrame

-----------------------------------------------------------------------------
(* execute: start_execution, wait_for_exit, evidence, terminal commit       *)

\* A TerminalCommit, or a failure context, for state s is prepared.
Decide(i, s, l) ==
    /\ outcome' = [outcome EXCEPT ![i] = s]
    /\ Goto(i, l)

\* start_execution: the token, then open_stdio.
StartCheck(i) ==
    /\ At(i, "start_check")
    /\ \/ token[i] /\ Decide(i, "cancelled", "commit")
       \/ ~token[i] /\ Decide(i, "failed", "commit")            \* open_stdio failed
       \/ ~token[i] /\ Goto(i, "prepare") /\ UNCHANGED outcome
    /\ NoFault /\ UNCHANGED <<rec, todo, child, result>> /\ WorkerFrame

\* After the FIFO probe: the token again, then the BES registration.
Prepare(i) ==
    /\ At(i, "prepare")
    /\ \/ token[i] /\ Decide(i, "cancelled", "commit")
       \/ ~token[i] /\ Decide(i, "failed", "recover")           \* register or start failed
       \/ ~token[i] /\ Goto(i, "spawn") /\ UNCHANGED outcome
    /\ NoFault /\ UNCHANGED <<rec, todo, child, result>> /\ WorkerFrame

SpawnChild(i) ==
    /\ At(i, "spawn")
    /\ child' = [child EXCEPT ![i] = "alive"]
    /\ Goto(i, "to_running")
    /\ NoFault /\ UNCHANGED <<rec, todo, outcome, result>> /\ WorkerFrame

SpawnFails(i) ==
    /\ At(i, "spawn")
    /\ Decide(i, "failed", "commit")
    /\ NoFault /\ UNCHANGED <<rec, todo, child, result>> /\ WorkerFrame

\* Seeded fault: a refused Running record is committed as a failure without
\* terminating the child.
TransitionRunningForgetsChild(i) ==
    /\ At(i, "to_running")
    /\ IF ValidateTransition(rec[i], "running")
       THEN StoreAndPublish(i, "running") /\ Goto(i, "running") /\ UNCHANGED outcome
       ELSE Decide(i, "failed", "commit") /\ UNCHANGED <<rec, todo>>
    /\ NoFault /\ UNCHANGED <<child, result>> /\ WorkerFrame

\* Starting -> Running; any error terminates the child again.
TransitionRunning(i) ==
    /\ At(i, "to_running")
    /\ IF ValidateTransition(rec[i], "running")
       THEN StoreAndPublish(i, "running") /\ Goto(i, "running")
       ELSE Goto(i, "abort_start") /\ UNCHANGED <<rec, todo>>
    /\ NoFault /\ UNCHANGED <<child, outcome, result>> /\ WorkerFrame

TransitionRunningFails(i) ==
    /\ At(i, "to_running") /\ Fault
    /\ Goto(i, "abort_start")
    /\ UNCHANGED <<rec, worker>> /\ WorkerFrame

\* terminate_child has reaped the child of a start that could not be recorded.
StartAborted(i) ==
    /\ At(i, "abort_start") /\ child[i] = "exited"
    /\ Decide(i, "failed", "commit")
    /\ NoFault /\ UNCHANGED <<rec, todo, child, result>> /\ WorkerFrame

\* wait_for_exit: the child ends by itself, with or without success (or with more
\* output than a run command may print) ...
ObserveExit(i) ==
    /\ At(i, "running") /\ child[i] = "exited"
    /\ \E s \in {"succeeded", "failed"} : Decide(i, s, "capture")
    /\ NoFault /\ UNCHANGED <<rec, todo, child, result>> /\ WorkerFrame

\* ... or cancellation, the deadline or the output limit starts terminate_child.
ObserveCancellation(i) ==
    /\ At(i, "running") /\ token[i]
    /\ Decide(i, "cancelled", "terminating")
    /\ NoFault /\ UNCHANGED <<rec, todo, child, result>> /\ WorkerFrame

ObserveTimeout(i) ==
    /\ At(i, "running")
    /\ Decide(i, "timed_out", "terminating")
    /\ NoFault /\ UNCHANGED <<rec, todo, child, result>> /\ WorkerFrame

ObserveOutputLimit(i) ==
    /\ At(i, "running")
    /\ Decide(i, "failed", "terminating")
    /\ NoFault /\ UNCHANGED <<rec, todo, child, result>> /\ WorkerFrame

\* terminate_child: each grace period that ends before the child does is followed by a
\* stronger signal to its process group; only the last one cannot be ignored.
Signal(i, from, to) ==
    /\ At(i, "abort_start") \/ At(i, "terminating")
    /\ child[i] = "alive" /\ signal[i] = from
    /\ signal' = [signal EXCEPT ![i] = to]
    /\ child' = [child EXCEPT ![i] = IF to = "kill" THEN "killed" ELSE @]
    /\ UNCHANGED <<rec, registry, mode, pc, todo, outcome, result, locks, admission, cpc,
                   requested, wpc, bounds>>

SignalInterrupt(i) == Signal(i, "none", "interrupt")
SignalTerminate(i) == Signal(i, "interrupt", "terminate")

SignalKill(i) == Signal(i, "terminate", "kill")

\* terminate_child returns once the child has been waited for.
ChildTerminated(i) ==
    /\ At(i, "terminating") /\ child[i] = "exited"
    /\ Goto(i, "capture")
    /\ NoFault /\ UNCHANGED <<rec, worker>> /\ WorkerFrame

\* capture_evidence and reduce_evidence succeed, or one of their reads fails.
CaptureAndReduce(i) ==
    /\ At(i, "capture")
    /\ \E l \in {"commit", "recover"} : Goto(i, l)
    /\ NoFault /\ UNCHANGED <<rec, worker>> /\ WorkerFrame

\* Seeded fault: the outcome is published although the store kept another one.
CommitTerminalPublishesOutcome(i, l) ==
    /\ At(i, l)
    /\ todo' = [todo EXCEPT ![i] = outcome[i]]
    /\ IF ValidateTransition(rec[i], outcome[i]) THEN Store(i, outcome[i]) ELSE UNCHANGED rec
    /\ Return(i, "ok", "release")
    /\ NoFault /\ UNCHANGED child /\ WorkerFrame

\* commit_terminal: finish_invocation, or the record some other actor finished.
CommitTerminal(i, l) ==
    /\ At(i, l)
    /\ IF ValidateTransition(rec[i], outcome[i])
       THEN StoreAndPublish(i, outcome[i])
       ELSE UNCHANGED <<rec, todo>>
    /\ IF ValidateTransition(rec[i], outcome[i]) \/ IsTerminal(rec[i])
       THEN Return(i, "ok", "release")
       ELSE IF l = "commit" THEN Goto(i, "recover") /\ UNCHANGED <<result, outcome>>
                            ELSE Return(i, "err", "release")
    /\ NoFault /\ UNCHANGED child /\ WorkerFrame

\* Seeded fault: a commit that failed twice is reported as done.
CommitTerminalFailsSilently(i) ==
    /\ Fault
    /\ \/ At(i, "commit") /\ Goto(i, "recover") /\ UNCHANGED <<result, outcome>>
       \/ At(i, "recommit") /\ Return(i, "ok", "release")
    /\ UNCHANGED <<rec, todo, child>> /\ WorkerFrame

CommitTerminalFails(i) ==
    /\ Fault
    /\ \/ At(i, "commit") /\ Goto(i, "recover") /\ UNCHANGED <<result, outcome>>
       \/ At(i, "recommit") /\ Return(i, "err", "release")
    /\ UNCHANGED <<rec, todo, child>> /\ WorkerFrame

\* The state of the failure context: what wait_for_exit found, and Failed before there
\* was a process (starting_context), whatever the commit that failed said.
FailureContext(i) ==
    IF outcome[i] = "succeeded" \/ child[i] = "none" THEN "failed" ELSE outcome[i]

\* recover_terminal_failure: a terminal record wins; a success becomes a failure.
RecoverTerminalFailure(i) ==
    /\ At(i, "recover")
    /\ IF IsTerminal(rec[i])
       THEN Return(i, "ok", "release")
       ELSE /\ Decide(i, FailureContext(i), "recommit")
            /\ UNCHANGED result
    /\ NoFault /\ UNCHANGED <<rec, todo, child>> /\ WorkerFrame

-----------------------------------------------------------------------------
(* The end of run_prepared, the supervisor and the registry                 *)

\* After the worker: the supervisor of a submitted invocation materializes an error.
AfterWorker(i) == IF mode[i] = "submitted" /\ result[i] = "err" THEN "materialize" ELSE "remove"

FreeIf(holder, i) ==
    [k \in Keys |-> IF k = KeyOf[i] /\ holder[k] = i THEN "free" ELSE holder[k]]

\* Seeded fault: an early return keeps its execution permit.
UnwindKeepsPermit(i) ==
    /\ At(i, "unwind")
    /\ wsHolder' = FreeIf(wsHolder, i)
    /\ obHolder' = FreeIf(obHolder, i)
    /\ pending' = pending \ {i}
    /\ Goto(i, AfterWorker(i))
    /\ UNCHANGED <<rec, registry, mode, worker, permits, canceller, wpc, bounds>>

\* An early return drops permit, file lock, mutex and pending permit.
Unwind(i) ==
    /\ At(i, "unwind")
    /\ wsHolder' = FreeIf(wsHolder, i)
    /\ obHolder' = FreeIf(obHolder, i)
    /\ permits' = permits \ {i} /\ pending' = pending \ {i}
    /\ Goto(i, AfterWorker(i))
    /\ UNCHANGED <<rec, registry, mode, worker, canceller, wpc, bounds>>

\* After execute the mutex is dropped first, ...
ReleaseWorkspace(i) ==
    /\ At(i, "release")
    /\ wsHolder' = FreeIf(wsHolder, i)
    /\ Goto(i, "release_rest")
    /\ UNCHANGED <<rec, registry, mode, worker, obHolder, admission, canceller, wpc, bounds>>

\* Seeded fault: the file lock is not released after execution.
ReleaseRestKeepsLock(i) ==
    /\ At(i, "release_rest")
    /\ permits' = permits \ {i} /\ pending' = pending \ {i}
    /\ Goto(i, AfterWorker(i))
    /\ UNCHANGED <<rec, registry, mode, worker, locks, canceller, wpc, bounds>>

\* ... then the file lock, the permit and the pending permit.
ReleaseRest(i) ==
    /\ At(i, "release_rest")
    /\ obHolder' = FreeIf(obHolder, i)
    /\ permits' = permits \ {i} /\ pending' = pending \ {i}
    /\ Goto(i, AfterWorker(i))
    /\ UNCHANGED <<rec, registry, mode, worker, wsHolder, canceller, wpc, bounds>>

\* Seeded fault: Failed overwrites whatever the record holds.
MaterializeOverwrites(i) ==
    /\ At(i, "materialize")
    /\ StoreAndPublish(i, "failed")
    /\ Goto(i, "remove")
    /\ NoFault /\ UNCHANGED <<child, outcome, result>> /\ WorkerFrame

\* materialize_worker_failure: record Failed if that is possible, ignoring errors.
MaterializeWorkerFailure(i) ==
    /\ At(i, "materialize")
    /\ \/ /\ ValidateTransition(rec[i], "failed")
          /\ StoreAndPublish(i, "failed")
          /\ NoFault
       \/ /\ ~ValidateTransition(rec[i], "failed")
          /\ UNCHANGED <<rec, todo>>
          /\ NoFault
       \/ /\ Fault
          /\ UNCHANGED <<rec, todo>>
    /\ Goto(i, "remove")
    /\ UNCHANGED <<child, outcome, result>> /\ WorkerFrame

\* InvocationScheduler::remove.
Remove(i) ==
    /\ At(i, "remove")
    /\ live' = [live EXCEPT ![i] = FALSE]
    /\ Goto(i, "done")
    /\ UNCHANGED <<rec, token, lifecycle, mode, worker, locks, admission, canceller,
                   wpc, bounds>>

\* The task polling run_prepared panics and unwinds: guards are dropped, a running
\* process group gets SIGKILL.  Only submit has a supervisor to notice; the task
\* spawned by bazel.run dies before it reaches scheduler.remove.
WorkerPanics(i) ==
    /\ pc[i] \in RunPreparedPcs /\ todo[i] = None /\ Fault
    /\ wsHolder' = FreeIf(wsHolder, i)
    /\ obHolder' = FreeIf(obHolder, i)
    /\ permits' = permits \ {i} /\ pending' = pending \ {i}
    /\ child' = [child EXCEPT ![i] = IF @ = "alive" THEN "killed" ELSE @]
    /\ Return(i, "err", IF mode[i] = "submitted" THEN "materialize" ELSE "done")
    /\ UNCHANGED <<rec, todo, registry, mode, canceller, wpc, otherHolds, shutdown>>

-----------------------------------------------------------------------------
(* bazel.cancel: cancel_with_reason *)

CancelFrame ==
    UNCHANGED <<live, mode, pc, worker, locks, admission, signal, wpc, otherHolds, shutdown>>

\* The record is read; a terminal one is only reported.  The rest of the call goes by
\* the state read here.
CancelRead(i) ==
    /\ i \in Cancellable /\ cpc[i] = "idle" /\ rec[i] # Absent
    /\ cpc' = [cpc EXCEPT ![i] = IF IsTerminal(rec[i]) THEN "done"
                                 ELSE IF rec[i] = "queued" THEN "token_queued"
                                 ELSE "token_started"]
    /\ NoFault /\ UNCHANGED <<rec, token, lifecycle, requested>> /\ CancelFrame

\* Seeded fault: only an invocation that was queued when read has its token cancelled.
CancelTokenOfQueuedOnly(i) ==
    /\ cpc[i] \in {"token_queued", "token_started"}
    /\ token' = [token EXCEPT ![i] = @ \/ (live[i] /\ cpc[i] = "token_queued")]
    /\ requested' = [requested EXCEPT ![i] = live[i]]
    /\ cpc' = [cpc EXCEPT ![i] = IF @ = "token_queued" THEN "store" ELSE "report"]
    /\ NoFault /\ UNCHANGED <<rec, lifecycle>> /\ CancelFrame

\* The token is cancelled if the invocation is registered in this process.
CancelToken(i) ==
    /\ cpc[i] \in {"token_queued", "token_started"}
    /\ token' = [token EXCEPT ![i] = @ \/ live[i]]
    /\ requested' = [requested EXCEPT ![i] = live[i]]
    /\ cpc' = [cpc EXCEPT ![i] = IF @ = "token_queued" THEN "store" ELSE "report"]
    /\ NoFault /\ UNCHANGED <<rec, lifecycle>> /\ CancelFrame

\* An invocation that was queued when read is moved to Cancelled directly.
CancelStore(i) ==
    /\ cpc[i] = "store"
    /\ IF ValidateTransition(rec[i], "cancelled")
       THEN Store(i, "cancelled") /\ cpc' = [cpc EXCEPT ![i] = "publish"]
       ELSE UNCHANGED rec /\ cpc' = [cpc EXCEPT ![i] = "report"]
    /\ NoFault /\ UNCHANGED <<token, lifecycle, requested>> /\ CancelFrame

\* update_cancellation_reason or that transition fails: the call returns the error.
CancelStoreFails(i) ==
    /\ cpc[i] \in {"token_queued", "token_started", "store"} /\ Fault
    /\ cpc' = [cpc EXCEPT ![i] = "failed"]
    /\ UNCHANGED <<rec, token, lifecycle, requested>> /\ CancelFrame

CancelPublish(i) ==
    /\ cpc[i] = "publish"
    /\ PublishState(i, "cancelled")
    /\ requested' = [requested EXCEPT ![i] = TRUE]
    /\ cpc' = [cpc EXCEPT ![i] = "done"]
    /\ NoFault /\ UNCHANGED <<rec, token>> /\ CancelFrame

CancelReport(i) ==
    /\ cpc[i] = "report"
    /\ cpc' = [cpc EXCEPT ![i] = "done"]
    /\ NoFault /\ UNCHANGED <<rec, token, lifecycle, requested>> /\ CancelFrame

CancelStep(i) ==
    CancelToken(i) \/ CancelStore(i) \/ CancelPublish(i) \/ CancelReport(i)

\* The MCP client cancels the bazel.run request it is attached to.
ClientCancels(i) ==
    /\ i \in Cancellable /\ mode[i] = "attached" /\ ~token[i]
    /\ pc[i] \notin {"rejected", "done"}
    /\ token' = [token EXCEPT ![i] = TRUE]
    /\ UNCHANGED <<rec, live, lifecycle, mode, pc, worker, locks, admission, canceller,
                   wpc, bounds>>

\* Seeded fault: only the invocations that have started are cancelled.
CancelAllStarted ==
    /\ ShutdownAllowed /\ ~shutdown
    /\ shutdown' = TRUE
    /\ token' = [i \in Inv |-> token[i] \/ (live[i] /\ rec[i] # "queued")]
    /\ UNCHANGED <<rec, live, lifecycle, mode, pc, worker, locks, admission, canceller,
                   wpc, faults, otherHolds>>

\* cancel_all_active: the tokens registered at this moment.
CancelAllActive ==
    /\ ShutdownAllowed /\ ~shutdown
    /\ shutdown' = TRUE
    /\ token' = [i \in Inv |-> token[i] \/ live[i]]
    /\ UNCHANGED <<rec, live, lifecycle, mode, pc, worker, locks, admission, canceller,
                   wpc, faults, otherHolds>>

-----------------------------------------------------------------------------
(* wait *)

WaitFrame == UNCHANGED <<rec, registry, mode, pc, worker, locks, admission, canceller, bounds>>

StartWait(i) ==
    /\ i \in Awaited /\ wpc[i] = "idle" /\ rec[i] # Absent
    /\ wpc' = [wpc EXCEPT ![i] = "waiting"]
    /\ WaitFrame

\* Seeded fault: an invocation that is not registered counts as finished.
WaitIsOverWhenUnregistered(i) == ~live[i] \/ IsTerminal(lifecycle[i])

\* Seeded fault: the durable record is never consulted.
WaitIsOverByWatchOnly(i) == IsTerminal(lifecycle[i])

\* A registered invocation is watched; otherwise the durable record is polled.
WaitIsOver(i) == IF live[i] THEN IsTerminal(lifecycle[i]) ELSE IsTerminal(rec[i])

WaitReturns(i) ==
    /\ wpc[i] = "waiting" /\ WaitIsOver(i)
    /\ wpc' = [wpc EXCEPT ![i] = "returned"]
    /\ WaitFrame

WaitIsCancelled(i) ==
    /\ wpc[i] = "waiting"
    /\ wpc' = [wpc EXCEPT ![i] = "cancelled"]
    /\ WaitFrame

-----------------------------------------------------------------------------
(* The environment: the Bazel process and other server processes            *)

\* The process ends by itself or because of a signal.
ChildExits(i) ==
    /\ child[i] \in {"alive", "killed"}
    /\ child' = [child EXCEPT ![i] = "exited"]
    /\ signal' = [signal EXCEPT ![i] = "none"]
    /\ UNCHANGED <<rec, registry, mode, pc, todo, outcome, result, locks, admission, cpc,
                   requested, wpc, bounds>>

OtherAcquires(k) ==
    /\ obHolder[k] = "free" /\ otherHolds < MaxOtherHolds
    /\ obHolder' = [obHolder EXCEPT ![k] = "other"]
    /\ otherHolds' = otherHolds + 1
    /\ UNCHANGED <<rec, registry, mode, pc, worker, wsHolder, admission, canceller, wpc,
                   faults, shutdown>>

OtherReleases(k) ==
    /\ obHolder[k] = "other"
    /\ obHolder' = [obHolder EXCEPT ![k] = "free"]
    /\ UNCHANGED <<rec, registry, mode, pc, worker, wsHolder, admission, canceller, wpc,
                   bounds>>

-----------------------------------------------------------------------------

PrepareStep(i) == Submit(i) \/ Reject(i) \/ Create(i) \/ Register(i)

QueueStep(i) ==
    \/ CancelledInQueue(i) \/ AcquireWorkspace(i) \/ BeginLockAttempt(i)
    \/ TryOutputBaseLock(i) \/ AcquireExecution(i) \/ BeginStarting(i)

EarlyExitStep(i) ==
    \/ RecordStartingFailure(i) \/ StartingRecheck(i) \/ FinishCancelled(i)
    \/ StartFailureStarting(i) \/ StartFailureReread(i) \/ StartFailureFail(i)
    \/ Unwind(i)

ExecutionProgress(i) ==
    \/ TransitionStarting(i) \/ StartCheck(i) \/ Prepare(i) \/ SpawnChild(i) \/ SpawnFails(i)
    \/ TransitionRunning(i) \/ StartAborted(i)
    \/ ObserveExit(i) \/ ObserveCancellation(i)
    \/ SignalInterrupt(i) \/ SignalTerminate(i) \/ SignalKill(i)
    \/ ChildTerminated(i) \/ CaptureAndReduce(i)
    \/ CommitTerminal(i, "commit") \/ CommitTerminal(i, "recommit")
    \/ RecoverTerminalFailure(i)
    \/ ReleaseWorkspace(i) \/ ReleaseRest(i)

ExecuteStep(i) == ExecutionProgress(i) \/ ObserveTimeout(i) \/ ObserveOutputLimit(i)

SupervisorStep(i) == MaterializeWorkerFailure(i) \/ Remove(i)

FaultStep(i) ==
    \/ OutputBaseLockFails(i) \/ TransitionStartingFails(i) \/ FinishCancelledFails(i)
    \/ StartFailureStoreFails(i) \/ TransitionRunningFails(i) \/ CommitTerminalFails(i)
    \/ WorkerPanics(i) \/ CancelStoreFails(i)

ClientStep(i) ==
    \/ CancelRead(i) \/ CancelStep(i) \/ ClientCancels(i)
    \/ StartWait(i) \/ WaitReturns(i) \/ WaitIsCancelled(i)

\* Everything has ended; the server idles.
Quiescent ==
    /\ \A i \in Inv :
        /\ pc[i] \in {"idle", "rejected", "done"}
        /\ todo[i] = None
    /\ UNCHANGED vars

Next ==
    \/ \E i \in Inv :
        \/ Publish(i) \/ PrepareStep(i) \/ QueueStep(i) \/ EarlyExitStep(i)
        \/ ExecuteStep(i) \/ SupervisorStep(i) \/ FaultStep(i) \/ ClientStep(i)
        \/ ChildExits(i)
    \/ \E k \in Keys : OtherAcquires(k) \/ OtherReleases(k)
    \/ CancelAllActive
    \/ Quiescent

Spec == Init /\ [][Next]_vars

-----------------------------------------------------------------------------
(* Fairness.  Tasks the tokio runtime polls make progress; its mutex and    *)
(* semaphore queues are first-in first-out, so a waiter that finds them     *)
(* free again and again is served; the grace periods of terminate_child     *)
(* end and a process that was sent SIGKILL is gone in the end (no other     *)
(* signal need have an effect); another server process that holds the       *)
(* output-base lock ends its own invocation.  Nothing makes a client submit *)
(* or cancel, and nothing makes Bazel end by itself, reach its deadline or  *)
(* print too much: the properties of cancellation may not rest on that.     *)

WorkerProgress(i) ==
    \/ Publish(i) \/ Reject(i) \/ Create(i) \/ Register(i) \/ QueueStep(i)
    \/ EarlyExitStep(i) \/ ExecutionProgress(i) \/ SupervisorStep(i)

KilledChildExits(i) == child[i] = "killed" /\ ChildExits(i)

Fairness ==
    /\ \A i \in Inv :
        /\ WF_vars(WorkerProgress(i))
        /\ SF_vars(AcquireWorkspace(i))
        /\ SF_vars(AcquireExecution(i))
        /\ WF_vars(KilledChildExits(i))
        /\ WF_vars(CancelStep(i))
        /\ WF_vars(WaitReturns(i))
    /\ \A k \in Keys : WF_vars(OtherReleases(k))

FairSpec == Spec /\ Fairness

\* wait_for_exit arms a finite deadline: assumed only by the properties that need it.
DeadlinesFire == \A i \in Inv : WF_vars(ObserveTimeout(i))

-----------------------------------------------------------------------------
(* Safety *)

\* A running Bazel process owns the cross-process lock of its output base, so no
\* second one runs there, of this server or of another (run_prepared keeps both
\* guards until execute has returned).
SerializedOutputBase ==
    \A i \in Inv : child[i] = "alive" => obHolder[KeyOf[i]] = i

\* No more Bazel processes run than the global semaphore has permits
\* (acquire_execution; the permit outlives every path through execute).
ExecutionLimit ==
    Cardinality({i \in Inv : child[i] = "alive"}) <= GlobalConcurrency

\* Once run_prepared has a result, whatever the path (early return, failed start,
\* timeout, panic), no Bazel process is left running behind it.
NoOrphanedChild ==
    \A i \in Inv : result[i] # "none" => child[i] # "alive"

\* A worker that is gone holds no mutex, file lock or permit: the queue cannot
\* shrink over time, whatever way invocations end.
DoneHoldsNothing ==
    \A i \in Inv : pc[i] \in {"rejected", "materialize", "remove", "done"} =>
        /\ i \notin permits \cup pending
        /\ wsHolder[KeyOf[i]] # i /\ obHolder[KeyOf[i]] # i

\* A terminal state on the lifecycle watch is the durable terminal state, although
\* the store write and the publication are separate steps of two actors.
PublishedTerminalIsDurable ==
    \A i \in Inv : live[i] /\ IsTerminal(lifecycle[i]) => rec[i] = lifecycle[i]

\* run_prepared answers Ok only with a terminal record, also after store errors.
OkMeansTerminal ==
    \A i \in Inv : result[i] = "ok" => IsTerminal(rec[i])

\* wait never hands its caller a record that may still change.
WaitReturnsFinalRecord ==
    [][\A i \in Inv : wpc[i] = "waiting" /\ wpc'[i] = "returned" => IsTerminal(rec[i])]_vars

\* An invocation cancelled while it queues for the mutex, the output base or a
\* permit never spawns a process ("a cancelled waiter never spawns a child",
\* specs/001 1037), and without a lock error or a panic is not even Starting.
CancelledWaiterNeverStarts ==
    \A i \in Inv :
        [](token[i] /\ pc[i] \in {"workspace", "output_base", "lock_attempt", "permit"}
           => [](child[i] = "none" /\ (rec[i] \in {"queued", "cancelled"} \/ faults > 0)))

\* The runner implements the abstract lifecycle: monotonic records, one process per
\* invocation, serialized per output base, results recorded after the process.
Lifecycle == INSTANCE InvocationLifecycle WITH state <- rec
LifecycleSpec == Lifecycle!Spec

-----------------------------------------------------------------------------
(* Liveness *)

\* Every accepted invocation reaches a terminal state, through the mutex, the output
\* base, the semaphore and a Bazel that may never end before its deadline (no store
\* errors).
AcceptedTerminates ==
    DeadlinesFire => \A i \in Inv : rec[i] = "queued" ~> IsTerminal(rec[i])

\* A waiter returns, although the watch value may be overwritten by a late
\* publication and the registry entry removed under it (after an error or a panic the
\* record may never end).
WaitersReturn ==
    DeadlinesFire => \A i \in Inv : wpc[i] = "waiting" ~> wpc[i] # "waiting" \/ faults > 0

\* bazel.cancel on a registered invocation that answers cancellation_requested stops
\* Bazel whatever the race and whatever fails, although Bazel would go on for ever and no
\* deadline comes to help: the token, or the record that refuses Starting and Running, is
\* enough.  Without a store error or a panic it also ends the invocation.  (A call that
\* looks for the token before the registration: CancelledRunHasItsToken.)
CancellationStopsBazel ==
    \A i \in Inv :
        [](live[i] /\ cpc[i] \in {"idle", "token_queued", "token_started"}
           => [](cpc[i] = "done" /\ requested[i]
                 => <>(child[i] # "alive" /\ (IsTerminal(rec[i]) \/ faults > 0))))

\* cancel_all_active alone ends every invocation registered when it runs, queued or
\* running; with the deadlines the registry drains for good, also of submissions that
\* registered after the tokens were collected.
ShutdownDrains ==
    /\ \A i \in Inv : [](live[i] /\ ~shutdown => [](shutdown => <>(~live[i])))
    /\ DeadlinesFire => (shutdown ~> [](\A i \in Inv : ~live[i]))

-----------------------------------------------------------------------------
(* The inductive strengthening of the safety invariants                     *)

\* From the moment it has the file lock until it drops it, a worker is its holder.
OwnsOutputBase ==
    \A i \in Inv : pc[i] \in OwningPcs \cup {"permit", "release_rest"} => obHolder[KeyOf[i]] = i

\* A permit is held throughout execution, and permits never exceed the semaphore.
HoldsPermit ==
    /\ \A i \in Inv : pc[i] \in OwningPcs => i \in permits
    /\ IsFiniteSet(permits) /\ Cardinality(permits) <= GlobalConcurrency

\* A running process has a worker that waits for it.
SupervisedChild ==
    \A i \in Inv : child[i] = "alive" => pc[i] \in ChildPcs

\* There is a result only when run_prepared is returning or has returned.
ResultWhenReturning ==
    \A i \in Inv : result[i] # "none" =>
        pc[i] \in {"unwind", "release", "release_rest", "materialize", "remove", "done"}

\* A permit, the mutex or the file lock is held only between the step that takes it and
\* the step that drops it.
HoldsWhatItTook ==
    \A i \in Inv :
        /\ pc[i] \in {"idle", "rejected", "materialize", "remove", "done"} => i \notin pending
        /\ pc[i] \in {"idle", "rejected", "validating", "created", "workspace", "output_base",
                     "lock_attempt", "permit", "materialize", "remove", "done"}
               => i \notin permits
        /\ pc[i] \in {"idle", "rejected", "validating", "created", "workspace", "release_rest",
                     "materialize", "remove", "done"} => wsHolder[KeyOf[i]] # i
        /\ pc[i] \in {"idle", "rejected", "validating", "created", "workspace", "output_base",
                     "lock_attempt", "materialize", "remove", "done"} => obHolder[KeyOf[i]] # i

\* Nothing is durable before acceptance.
AbsentBeforeCreate ==
    \A i \in Inv : pc[i] \in {"idle", "rejected", "validating"} <=> rec[i] = Absent

\* What is about to be published is what the store holds, if it is terminal.
StoredBeforePublished ==
    \A i \in Inv : /\ IsTerminal(todo[i]) => rec[i] = todo[i]
                   /\ cpc[i] = "publish" => rec[i] = "cancelled"

\* The process has not been spawned before its worker reaches that point, has been
\* when the worker waits for it, and has exited when its evidence is captured or a
\* success or a timeout is about to be committed.
ChildMatchesWorker ==
    \A i \in Inv :
        /\ pc[i] \in QueuePcs \cup {"permitted", "to_starting", "start_check", "prepare", "spawn"}
               => child[i] = "none"
        /\ pc[i] \in ChildPcs => child[i] # "none"
        /\ pc[i] = "capture" => child[i] = "exited"
        /\ pc[i] \in {"commit", "recover", "recommit"} /\ outcome[i] \in {"succeeded", "timed_out"}
               => child[i] = "exited"

\* Before Starting, and between Starting and Running, only bazel.cancel may have changed
\* the record.
StartingOrCancelled ==
    \A i \in Inv :
        /\ pc[i] \in {"created", "workspace", "output_base", "lock_attempt", "permit", "permitted"}
               => rec[i] \in {"queued", "cancelled"}
        /\ pc[i] \in {"start_check", "prepare", "spawn", "to_running"}
               => rec[i] \in {"starting", "cancelled"}

ServiceInv ==
    /\ TypeOK
    /\ OwnsOutputBase
    /\ HoldsPermit
    /\ SupervisedChild
    /\ ResultWhenReturning
    /\ AbsentBeforeCreate
    /\ StoredBeforePublished
    /\ OkMeansTerminal
    /\ PublishedTerminalIsDurable
    /\ ChildMatchesWorker
    /\ StartingOrCancelled
    /\ HoldsWhatItTook

\* What a caller may rely on, whatever store error, refused transition, panic or
\* cancellation a worker meets: no Bazel process is left without a worker
\* (run_prepared), an Ok result comes with a terminal record (recover_terminal_failure),
\* and a terminal state on the lifecycle watch is the durable one
\* (transition_invocation).
OutcomesAreHonest ==
    /\ TypeOK
    /\ NoOrphanedChild
    /\ OkMeansTerminal
    /\ PublishedTerminalIsDurable

-----------------------------------------------------------------------------
(* What the documents say and the code does not do                          *)

\* specs/001 549: "`cancelled` means cancellation was requested and the process
\* stopped", and where the worker was faster, "Its cancellation token takes the graceful
\* process-group path" (service.rs, the comment in cancel_with_reason): a process whose
\* record says Cancelled is at least being told.  bazel.cancel may look for the token
\* between create_invocation_with_deferred and register, and record Cancelled once Bazel
\* runs: the call answers cancellation_requested and nothing stops Bazel.
CancelledRunHasItsToken ==
    \A i \in Inv : rec[i] = "cancelled" /\ pc[i] = "running" => token[i]

\* specs/003 689: "Internal failure after acceptance | durable terminal task
\* failure/result": when the supervisor of a submitted invocation is done, the record
\* is terminal.
AcceptedFailureIsTerminal ==
    \A i \in Inv : mode[i] = "submitted" /\ pc[i] = "done" => IsTerminal(rec[i])
=============================================================================
