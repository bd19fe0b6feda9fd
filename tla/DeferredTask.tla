---------------------------- MODULE DeferredTask ----------------------------
(***************************************************************************)
(* One deferred bazel.run: the durable task handle, its expiry clock and   *)
(* the MCP task methods that read and change it (handler.rs, tasks.rs,     *)
(* types/deferred.rs, store/deferred_repository.rs).                       *)
(*                                                                         *)
(* Actors: the request that creates the task (submit_deferred), the runner *)
(* with the supervisor that materializes a worker failure, tasks/cancel    *)
(* calls in both dialects with the finalizers they spawn, tasks/result     *)
(* calls, retention, the clock, and a server that may crash and restart.   *)
(* The runner is abstracted to the edges of its durable record: what       *)
(* InvocationLifecycle allows and InvocationService implements.  A store   *)
(* mutation is atomic.  Clients learn the task ID from the acknowledgement *)
(* and use the dialect that created the task.                              *)
(***************************************************************************)
EXTENDS InvocationState, Naturals, FiniteSets

CONSTANTS
    TTL,         \* task_ttl_seconds
    MaxTime,     \* bound: the last instant of the clock
    Cancels,     \* tasks/cancel calls
    Results,     \* tasks/result calls (legacy dialect)
    MaxFaults,   \* bound: store errors and worker failures
    MaxCrashes   \* bound: server crashes

ASSUME TaskAssumption ==
    /\ TTL \in Nat \ {0} /\ MaxTime \in Nat
    /\ MaxFaults \in Nat /\ MaxCrashes \in Nat

VARIABLES
    now,        \* unix_timestamp_ms
    up,         \* the server process is running
    retrieval,  \* DeferredRetrieval of the task
    rec,        \* InvocationRecord.state
    finishedAt, \* InvocationRecord.finished_at_ms
    kept,       \* the manifest holds deferred metadata
    created, updated, expires,  \* created_at_ms, updated_at_ms, expires_at_ms
    requested,  \* cancellation_requested_at_ms is set
    override,   \* terminal_override = Some(Cancelled)
    failure,    \* failure is set (kind Execution, the only kind stored)
    spc,        \* where submit_deferred stands
    asked,      \* the expires_at_ms the handler passed to submit
    wpc,        \* where the worker, then its supervisor, stands
    broken,     \* the supervisor's own transition ended the invocation
    swallowed,  \* the supervisor ignored a store error for the failure
    token,      \* the invocation's cancellation token
    cpc,        \* cpc[c]: where tasks/cancel call c stands
    reply,      \* reply[c]: the task state in its answer
    finalizers, \* cancel calls whose spawned finalizer still runs
    rpc,        \* rpc[r]: where tasks/result call r stands
    isError,    \* isError[r]: the is_error flag it returned
    expired,    \* retention collected the task as expired
    faults, crashes

clock   == <<now, up>>
handle  == <<kept, created, updated, expires, requested, override, failure>>
runner  == <<rec, finishedAt, wpc, broken, swallowed, token>>
submit  == <<spc, asked>>
cancels == <<cpc, reply, finalizers>>
results == <<rpc, isError>>
bounds  == <<faults, crashes>>
vars == <<now, up, retrieval, rec, finishedAt, kept, created, updated, expires,
          requested, override, failure, spc, asked, wpc, broken, swallowed, token, cpc,
          reply, finalizers, rpc, isError, expired, faults, crashes>>

Legacy == "separate_result"
Inline == "inline_result"
NoReply == "none"
Time == 0..(MaxTime + TTL + 1)

TaskStates == {"working", "completed", "failed", "cancelled"}
TerminalTaskStates == TaskStates \ {"working"}

TypeOK ==
    /\ now \in 0..MaxTime /\ up \in BOOLEAN
    /\ retrieval \in {Legacy, Inline}
    /\ rec \in States \cup {Absent} /\ finishedAt \in Time
    /\ kept \in BOOLEAN
    /\ created \in Time /\ updated \in Time /\ expires \in Time
    /\ requested \in BOOLEAN /\ override \in BOOLEAN /\ failure \in BOOLEAN
    /\ spc \in {"idle", "submit", "view", "extend", "review", "acknowledged",
                "error", "lost"}
    /\ asked \in Time
    /\ wpc \in {"idle", "working", "failure", "recheck", "fail", "gone"}
    /\ broken \in BOOLEAN /\ swallowed \in BOOLEAN /\ token \in BOOLEAN
    /\ cpc \in [Cancels -> {"idle", "record", "cancel", "cancel_store", "wait",
                            "override", "view", "ok", "rejected", "error", "lost"}]
    /\ reply \in [Cancels -> TaskStates \cup {NoReply}]
    /\ finalizers \subseteq Cancels
    /\ rpc \in [Results -> {"idle", "wait", "view", "ok", "error", "abandoned", "lost"}]
    /\ isError \in [Results -> BOOLEAN]
    /\ expired \in BOOLEAN
    /\ faults \in 0..MaxFaults /\ crashes \in 0..MaxCrashes

Init ==
    /\ now = 0 /\ up = TRUE
    /\ retrieval \in {Legacy, Inline}
    /\ rec = Absent /\ finishedAt = 0
    /\ kept = FALSE
    /\ created = 0 /\ updated = 0 /\ expires = 0
    /\ requested = FALSE /\ override = FALSE /\ failure = FALSE
    /\ spc = "idle" /\ asked = 0
    /\ wpc = "idle" /\ broken = FALSE /\ swallowed = FALSE /\ token = FALSE
    /\ cpc = [c \in Cancels |-> "idle"]
    /\ reply = [c \in Cancels |-> NoReply]
    /\ finalizers = {}
    /\ rpc = [r \in Results |-> "idle"]
    /\ isError = [r \in Results |-> FALSE]
    /\ expired = FALSE
    /\ faults = 0 /\ crashes = 0

-----------------------------------------------------------------------------
(* The deferred record and its store operations                             *)

Later(s, t) == IF s > t THEN s ELSE t

\* Seeded fault: expiry does not wait for the invocation to end.
IsExpiredByTheClock == kept /\ expires <= now

\* DeferredResultRecord::is_expired of the stored record.
IsExpired == kept /\ IsTerminal(rec) /\ expires <= now

\* Seeded fault: the expiry instant is taken for a duration.
ExpiryAsDuration == expires

ConfiguredTTL == IF expires > updated THEN Later(expires - updated, 1) ELSE 1

\* extend_terminal_expiry(t): the expiry and update times it leaves.
ExtendTerminalExpiry(t) ==
    LET required == t + ConfiguredTTL
    IN /\ expires' = Later(required, expires)
       /\ updated' = IF required > expires THEN Later(t, updated) ELSE updated

\* A store operation that moves the record to the terminal state s.
EndInvocation(s) ==
    /\ rec' = s
    /\ finishedAt' = now
    /\ IF kept THEN ExtendTerminalExpiry(now) ELSE UNCHANGED <<expires, updated>>
    /\ UNCHANGED <<kept, created, requested, override, failure>>

\* Mutations of the handle fail with DeferredNotFound once it is gone.
Touch == updated' = Later(updated, now)

RecordCancellation ==
    /\ kept /\ Touch
    /\ requested' = TRUE
    /\ UNCHANGED <<kept, created, expires, override, failure>>

SetTerminalOverride ==
    /\ kept /\ Touch
    /\ override' = TRUE
    /\ UNCHANGED <<kept, created, expires, requested, failure>>

PersistFailure ==
    /\ kept /\ Touch
    /\ failure' = TRUE
    /\ UNCHANGED <<kept, created, expires, requested, override>>

ExtendExpiry(minimum) ==
    /\ kept /\ Touch
    /\ expires' = Later(expires, minimum)
    /\ UNCHANGED <<kept, created, requested, override, failure>>

RemoveHandle ==
    /\ kept' = FALSE
    /\ UNCHANGED <<created, updated, expires, requested, override, failure>>

\* get_deferred_result: answers while the handle is kept and unexpired, and
\* removes a handle it finds expired.  (Only a terminal task expires and
\* nothing extends it then, so the removal may be part of the read.)
Viewable == kept /\ ~IsExpired

ViewFails ==
    /\ ~Viewable
    /\ IF IsExpired THEN RemoveHandle ELSE UNCHANGED handle

\* Seeded fault: an ended invocation hides a cancelled task.
TaskStateInvocationFirst ==
    IF IsTerminal(rec) THEN "completed"
    ELSE IF retrieval = Legacy /\ override THEN "cancelled"
    ELSE "working"

\* Seeded fault: a recorded failure decides the state in both dialects.
TaskStateFailureFirst ==
    IF retrieval = Legacy /\ override THEN "cancelled"
    ELSE IF failure THEN "failed"
    ELSE IF retrieval = Inline /\ rec = "cancelled" THEN "cancelled"
    ELSE IF IsTerminal(rec) THEN "completed"
    ELSE "working"

\* TaskSnapshot::from_view.
TaskState ==
    CASE retrieval = Legacy /\ override -> "cancelled"
      [] retrieval = Legacy /\ ~override /\ failure -> "failed"
      [] retrieval = Inline /\ rec = "cancelled" -> "cancelled"
      [] OTHER -> IF IsTerminal(rec) THEN "completed" ELSE "working"

NoFault == UNCHANGED bounds
\* A store operation failed with an I/O error and changed nothing.
Fault == faults < MaxFaults /\ faults' = faults + 1 /\ UNCHANGED crashes

-----------------------------------------------------------------------------
(* submit_deferred                                                          *)

SubmitFrame == UNCHANGED <<clock, retrieval, runner, cancels, results, expired>> /\ NoFault

ComputeExpiry ==
    /\ up /\ spc = "idle"
    /\ asked' = now + TTL
    /\ spc' = "submit"
    /\ UNCHANGED handle /\ SubmitFrame

\* runner.submit: DeferredResultRecord::new and the durable acceptance.
Accept ==
    /\ up /\ spc = "submit"
    /\ rec' = "queued" /\ wpc' = "working"
    /\ kept' = TRUE
    /\ created' = now /\ updated' = now
    /\ expires' = Later(asked, now + 1)
    /\ spc' = "view"
    /\ UNCHANGED <<clock, retrieval, finishedAt, broken, swallowed, token, requested, override,
                   failure, asked, cancels, results, expired>>
    /\ NoFault

\* Seeded fault: the handler trusts the expiry it asked for.
ViewSubmittedWithoutExtending ==
    /\ up /\ spc = "view"
    /\ \/ Viewable /\ spc' = "acknowledged" /\ UNCHANGED handle
       \/ ViewFails /\ spc' = "error"
    /\ UNCHANGED asked /\ SubmitFrame

ViewSubmitted ==
    /\ up /\ spc = "view"
    /\ \/ Viewable /\ UNCHANGED handle
          /\ spc' = IF expires < created + TTL THEN "extend" ELSE "acknowledged"
       \/ ViewFails /\ spc' = "error"
    /\ UNCHANGED asked /\ SubmitFrame

ExtendSubmitted ==
    /\ up /\ spc = "extend"
    /\ \/ ExtendExpiry(created + TTL) /\ spc' = "review"
       \/ ~kept /\ UNCHANGED handle /\ spc' = "error"
    /\ UNCHANGED asked /\ SubmitFrame

ReviewSubmitted ==
    /\ up /\ spc = "review"
    /\ \/ Viewable /\ UNCHANGED handle /\ spc' = "acknowledged"
       \/ ViewFails /\ spc' = "error"
    /\ UNCHANGED asked /\ SubmitFrame

SubmitStep == ComputeExpiry \/ Accept \/ ViewSubmitted \/ ExtendSubmitted \/ ReviewSubmitted

-----------------------------------------------------------------------------
(* The runner                                                               *)

RunnerFrame == UNCHANGED <<clock, retrieval, submit, cancels, results, expired>>

WorkerAdvances(s) ==
    /\ up /\ wpc = "working" /\ s \in {"starting", "running"}
    /\ ValidateTransition(rec, s)
    /\ rec' = s
    /\ UNCHANGED <<finishedAt, wpc, broken, swallowed, token, handle>> /\ RunnerFrame /\ NoFault

\* The worker commits a terminal state: a cancelled token ends a queued record.
WorkerFinishes(s) ==
    /\ up /\ wpc = "working"
    /\ s \in TerminalStates \ {"interrupted"} /\ ValidateTransition(rec, s)
    /\ s = "cancelled" => token
    /\ EndInvocation(s)
    /\ wpc' = "gone"
    /\ UNCHANGED <<broken, swallowed, token>> /\ RunnerFrame /\ NoFault

\* bazel.cancel or tasks/cancel ended a record before its worker noticed.
WorkerObservesEnd ==
    /\ up /\ wpc = "working" /\ IsTerminal(rec)
    /\ wpc' = "gone"
    /\ UNCHANGED <<rec, finishedAt, broken, swallowed, token, handle>> /\ RunnerFrame /\ NoFault

\* run_prepared returns an error or panics.
WorkerFails ==
    /\ up /\ wpc = "working" /\ Fault
    /\ wpc' = "failure"
    /\ UNCHANGED <<rec, finishedAt, broken, swallowed, token, handle>> /\ RunnerFrame

\* Seeded fault: the record is ended before the failure is stored.
MaterializeFailureLast ==
    \/ /\ up /\ wpc = "failure"
       /\ wpc' = "fail"
       /\ UNCHANGED <<rec, finishedAt, broken, swallowed, token, handle>> /\ RunnerFrame /\ NoFault
    \/ /\ up /\ wpc = "fail"
       /\ \/ /\ ValidateTransition(rec, "failed") /\ EndInvocation("failed")
             /\ broken' = TRUE
          \/ ~ValidateTransition(rec, "failed") /\ UNCHANGED <<rec, finishedAt, handle, broken>>
       /\ wpc' = "recheck"
       /\ UNCHANGED <<swallowed, token>> /\ RunnerFrame /\ NoFault
    \/ /\ up /\ wpc = "recheck"
       /\ \/ PersistFailure
          \/ ~kept /\ UNCHANGED handle
       /\ wpc' = "gone"
       /\ UNCHANGED <<rec, finishedAt, broken, swallowed, token>> /\ RunnerFrame /\ NoFault

\* materialize_worker_failure: store the failure, read the header, and move a record
\* that has not ended to Failed; an error of any of the three is ignored.
Materialize ==
    \/ /\ up /\ wpc = "failure"
       /\ \/ PersistFailure /\ NoFault /\ UNCHANGED swallowed
          \/ ~kept /\ UNCHANGED <<handle, swallowed>> /\ NoFault
          \/ Fault /\ swallowed' = TRUE /\ UNCHANGED handle
       /\ wpc' = "recheck"
       /\ UNCHANGED <<rec, finishedAt, broken, token>> /\ RunnerFrame
    \/ /\ up /\ wpc = "recheck"
       /\ \/ wpc' = (IF IsTerminal(rec) THEN "gone" ELSE "fail") /\ NoFault
          \/ wpc' = "gone" /\ Fault
       /\ UNCHANGED <<rec, finishedAt, broken, swallowed, token, handle>> /\ RunnerFrame
    \/ /\ up /\ wpc = "fail"
       /\ \/ /\ ValidateTransition(rec, "failed") /\ EndInvocation("failed")
             /\ broken' = TRUE /\ NoFault
          \/ /\ ~ValidateTransition(rec, "failed") /\ NoFault
             /\ UNCHANGED <<rec, finishedAt, handle, broken>>
          \/ Fault /\ UNCHANGED <<rec, finishedAt, handle, broken>>
       /\ wpc' = "gone"
       /\ UNCHANGED <<swallowed, token>> /\ RunnerFrame

RunnerStep ==
    \/ \E s \in States : WorkerAdvances(s) \/ WorkerFinishes(s)
    \/ WorkerObservesEnd \/ WorkerFails \/ Materialize

-----------------------------------------------------------------------------
(* tasks/cancel: legacy_cancel_task and extension_cancel_task               *)

CancelFrame == UNCHANGED <<clock, retrieval, submit, wpc, broken, swallowed, results, expired>>
CancelGoto(c, l) == cpc' = [cpc EXCEPT ![c] = l]

\* Only the legacy dialect rejects a task that has already ended.
CancelChecks(c) ==
    /\ up /\ spc = "acknowledged" /\ cpc[c] = "idle"
    /\ \/ Viewable /\ UNCHANGED handle
          /\ CancelGoto(c, IF retrieval = Legacy /\ (IsTerminal(rec) \/ override)
                           THEN "rejected" ELSE "record")
       \/ ViewFails /\ CancelGoto(c, "error")
    /\ UNCHANGED <<rec, finishedAt, token, reply, finalizers>> /\ CancelFrame /\ NoFault

CancelRecords(c) ==
    /\ up /\ cpc[c] = "record"
    /\ \/ RecordCancellation /\ CancelGoto(c, "cancel") /\ NoFault
       \/ ~kept /\ UNCHANGED handle /\ CancelGoto(c, "error") /\ NoFault
       \/ Fault /\ UNCHANGED handle /\ CancelGoto(c, "error")
    /\ UNCHANGED <<rec, finishedAt, token, reply, finalizers>> /\ CancelFrame

\* What follows runner.cancel: the legacy handler spawns a finalizer and
\* waits, the extension acknowledges at once.
AfterCancel(c) ==
    IF retrieval = Legacy
    THEN CancelGoto(c, "wait") /\ finalizers' = finalizers \cup {c} /\ UNCHANGED reply
    ELSE CancelGoto(c, "ok") /\ UNCHANGED <<finalizers, reply>>

\* runner.cancel reads the record and cancels the token of a live worker.
CancelRunner(c) ==
    /\ up /\ cpc[c] = "cancel"
    /\ token' = (token \/ (~IsTerminal(rec) /\ wpc # "gone"))
    /\ IF rec = "queued"
       THEN CancelGoto(c, "cancel_store") /\ UNCHANGED <<finalizers, reply>>
       ELSE AfterCancel(c)
    /\ UNCHANGED <<rec, finishedAt, handle>> /\ CancelFrame /\ NoFault

\* runner.cancel moves the record it read as queued to Cancelled; a refused
\* transition is not an error, a store failure is.
CancelStore(c) ==
    /\ up /\ cpc[c] = "cancel_store"
    /\ \/ ValidateTransition(rec, "cancelled") /\ EndInvocation("cancelled")
          /\ AfterCancel(c) /\ NoFault
       \/ ~ValidateTransition(rec, "cancelled") /\ UNCHANGED <<rec, finishedAt, handle>>
          /\ AfterCancel(c) /\ NoFault
       \/ Fault /\ CancelGoto(c, "error")
          /\ UNCHANGED <<rec, finishedAt, handle, finalizers, reply>>
    /\ UNCHANGED token /\ CancelFrame

\* Seeded fault: no task outlives the request to finish the cancellation.
FinalizesNothing(c) == FALSE

\* The finalizer: wait, then set_deferred_cancelled (an error is ignored).
Finalize(c) ==
    /\ up /\ c \in finalizers /\ IsTerminal(rec)
    /\ finalizers' = finalizers \ {c}
    /\ \/ SetTerminalOverride /\ NoFault
       \/ ~kept /\ UNCHANGED handle /\ NoFault
       \/ Fault /\ UNCHANGED handle
    /\ UNCHANGED <<rec, finishedAt, token, cpc, reply>> /\ CancelFrame

CancelWaitEnds(c) ==
    /\ up /\ cpc[c] = "wait" /\ IsTerminal(rec)
    /\ CancelGoto(c, "override")
    /\ UNCHANGED <<rec, finishedAt, token, handle, reply, finalizers>> /\ CancelFrame /\ NoFault

\* The client gives up its tasks/cancel request.
CancelAbandoned(c) ==
    /\ up /\ cpc[c] = "wait"
    /\ CancelGoto(c, "error")
    /\ UNCHANGED <<rec, finishedAt, token, handle, reply, finalizers>> /\ CancelFrame /\ NoFault

CancelOverrides(c) ==
    /\ up /\ cpc[c] = "override"
    /\ \/ SetTerminalOverride /\ CancelGoto(c, "view") /\ NoFault
       \/ ~kept /\ UNCHANGED handle /\ CancelGoto(c, "error") /\ NoFault
       \/ Fault /\ UNCHANGED handle /\ CancelGoto(c, "error")
    /\ UNCHANGED <<rec, finishedAt, token, reply, finalizers>> /\ CancelFrame

CancelReplies(c) ==
    /\ up /\ cpc[c] = "view"
    /\ \/ /\ Viewable /\ UNCHANGED handle
          /\ reply' = [reply EXCEPT ![c] = TaskState] /\ CancelGoto(c, "ok")
       \/ ViewFails /\ CancelGoto(c, "error") /\ UNCHANGED reply
    /\ UNCHANGED <<rec, finishedAt, token, finalizers>> /\ CancelFrame /\ NoFault

CancelStep(c) ==
    \/ CancelRecords(c) \/ CancelRunner(c) \/ CancelStore(c)
    \/ CancelWaitEnds(c) \/ CancelOverrides(c) \/ CancelReplies(c)

-----------------------------------------------------------------------------
(* tasks/result: legacy_task_result                                         *)

ResultFrame ==
    UNCHANGED <<clock, retrieval, runner, submit, cancels, expired>> /\ NoFault
ResultGoto(r, l) == rpc' = [rpc EXCEPT ![r] = l]

ResultChecks(r) ==
    /\ up /\ spc = "acknowledged" /\ retrieval = Legacy /\ rpc[r] = "idle"
    /\ \/ Viewable /\ UNCHANGED handle /\ ResultGoto(r, "wait")
       \/ ViewFails /\ ResultGoto(r, "error")
    /\ UNCHANGED isError /\ ResultFrame

ResultWaitEnds(r) ==
    /\ up /\ rpc[r] = "wait"
    /\ \/ IsTerminal(rec) /\ ResultGoto(r, "view")
       \/ ResultGoto(r, "abandoned")
    /\ UNCHANGED <<handle, isError>> /\ ResultFrame

ResultReturns(r) ==
    /\ up /\ rpc[r] = "view"
    /\ \/ /\ Viewable /\ UNCHANGED handle
          /\ isError' = [isError EXCEPT ![r] = failure] /\ ResultGoto(r, "ok")
       \/ ViewFails /\ ResultGoto(r, "error") /\ UNCHANGED isError
    /\ ResultFrame

ResultStep(r) == ResultChecks(r) \/ ResultWaitEnds(r) \/ ResultReturns(r)

-----------------------------------------------------------------------------
(* tasks/get on an expired handle, retention, the clock, crash and restart  *)

GetExpired ==
    /\ up /\ spc = "acknowledged" /\ IsExpired /\ ViewFails
    /\ UNCHANGED <<clock, retrieval, runner, submit, cancels, results, expired>> /\ NoFault

\* delete_expired_deferred_results collects the expired handles of the index,
CollectExpired ==
    /\ up /\ ~expired /\ IsExpired
    /\ expired' = TRUE
    /\ UNCHANGED <<clock, retrieval, handle, runner, submit, cancels, results>> /\ NoFault

\* and checks again under the handle's lock before it removes one.
DeleteExpired ==
    /\ up /\ expired
    /\ expired' = FALSE
    /\ IF IsExpired THEN RemoveHandle ELSE UNCHANGED handle
    /\ UNCHANGED <<clock, retrieval, runner, submit, cancels, results>> /\ NoFault

Tick ==
    /\ now < MaxTime
    /\ now' = now + 1
    /\ UNCHANGED <<up, retrieval, handle, runner, submit, cancels, results, expired, bounds>>

\* Every task and request of the process is gone; the durable record stays.
Crash ==
    /\ up /\ crashes < MaxCrashes
    /\ crashes' = crashes + 1
    /\ up' = FALSE
    /\ spc' = IF spc \in {"acknowledged", "error"} THEN spc ELSE "lost"
    /\ wpc' = "gone" /\ token' = FALSE
    /\ cpc' = [c \in Cancels |-> IF cpc[c] \in {"idle", "ok", "rejected", "error"}
                                 THEN cpc[c] ELSE "lost"]
    /\ rpc' = [r \in Results |-> IF rpc[r] \in {"idle", "ok", "error", "abandoned"}
                                 THEN rpc[r] ELSE "lost"]
    /\ finalizers' = {} /\ expired' = FALSE
    /\ UNCHANGED <<now, retrieval, rec, finishedAt, handle, broken, swallowed, asked,
                   reply, isError, faults>>

\* Store::open interrupts what the lost process had not ended.
Restart ==
    /\ ~up /\ up' = TRUE
    /\ IF rec \in States \ TerminalStates
       THEN EndInvocation("interrupted")
       ELSE UNCHANGED <<rec, finishedAt, handle>>
    /\ UNCHANGED <<now, retrieval, wpc, broken, swallowed, token, submit, cancels,
                   results, expired, bounds>>

\* No request is running and the clock has stopped.
Idle == now = MaxTime /\ UNCHANGED vars

Next ==
    \/ SubmitStep \/ RunnerStep
    \/ \E c \in Cancels : CancelChecks(c) \/ CancelStep(c) \/ CancelAbandoned(c) \/ Finalize(c)
    \/ \E r \in Results : ResultStep(r)
    \/ GetExpired \/ CollectExpired \/ DeleteExpired
    \/ Tick \/ Crash \/ Restart \/ Idle

Spec == Init /\ [][Next]_vars

\* The executor polls every runnable task, and a cancelled Bazel ends.
Fairness ==
    /\ WF_vars(SubmitStep) /\ WF_vars(Materialize) /\ WF_vars(WorkerObservesEnd)
    /\ WF_vars(token /\ \E s \in States : WorkerFinishes(s))
    /\ \A c \in Cancels : WF_vars(CancelStep(c)) /\ WF_vars(Finalize(c))

FairSpec == Spec /\ Fairness

-----------------------------------------------------------------------------
(* Properties                                                               *)

\* deferred_repository.rs removes a handle in three places, each by the clock:
\* none may remove the handle of an invocation that has not ended.
NonterminalNeverPurged == rec \in States \ TerminalStates => kept

\* submit_deferred computes the expiry before the runner stamps the creation
\* time: whatever happens in between, and however the task ends, a handle the
\* client was given is kept for one TTL from its creation.
AcknowledgedHandleLivesOneTTL ==
    spc = "acknowledged" /\ ~kept => now >= created + TTL

\* legacy_cancel_task answers with the cancelled task, and whatever the runner,
\* its supervisor, other calls, a crash or a restart do afterwards, the task
\* stays cancelled for as long as the handle exists.
CancelledTaskStaysCancelled ==
    \A c \in Cancels :
        reply[c] # NoReply => reply[c] = "cancelled" /\ (kept => TaskState = "cancelled")

\* tasks/result of a task the supervisor ended reports a tool error: the
\* failure is stored before the record ends, so no waiter reads it too early.
BrokenTaskReportsError ==
    broken /\ ~swallowed => \A r \in Results : rpc[r] = "ok" => isError[r]

\* What the client may rely on for its handle: no purge by the clock (the lookup, the
\* sweep, the lists) takes the handle of an unfinished task or one acknowledged less
\* than a TTL ago, although submit_deferred computes the expiry before the creation
\* time is known, and a task the supervisor ended is never reported as a success.
HandleIsHonest ==
    /\ TypeOK
    /\ NonterminalNeverPurged
    /\ AcknowledgedHandleLivesOneTTL
    /\ BrokenTaskReportsError

\* The extension's task state is derived from the record on every poll: a state
\* reported as terminal is the state every later poll reports.
ExtensionStatusIsFinal ==
    [][retrieval = Inline /\ kept /\ TaskState \in TerminalTaskStates
       => TaskState' = TaskState]_vars

\* A legacy cancellation that reached the runner ends as a cancelled task even
\* if its client goes away, unless the server crashes or a store write fails.
CancellationIsFinalized ==
    \A c \in Cancels :
        (c \in finalizers) ~> (override \/ ~kept \/ crashes > 0 \/ faults > 0)

\* Documented: the final result remains available for one TTL after it ended.
TerminalResultLivesOneTTL ==
    spc = "acknowledged" /\ IsTerminal(rec) /\ ~kept => now >= finishedAt + TTL
=============================================================================
