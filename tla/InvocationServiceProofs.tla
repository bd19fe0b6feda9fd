---------------------- MODULE InvocationServiceProofs ----------------------
(***************************************************************************)
(* Proofs, for every set of invocations, every assignment of lock keys and *)
(* every bound, of the safety invariants of InvocationService and of the   *)
(* fact that it implements InvocationLifecycle.                            *)
(*                                                                         *)
(* ServiceInv is the inductive invariant.  One lemma per conjunct shows    *)
(* that a step preserves it, with one leaf per family of actions (one per  *)
(* action where the conjunct is about most variables).                     *)
(***************************************************************************)
EXTENDS InvocationService, FiniteSetTheorems, TLAPS

\* An edge of the state machine leads to a state.
LEMMA ValidNext ==
    ASSUME NEW current, NEW next, ValidateTransition(current, next) PROVE next \in States
BY DEF ValidateTransition, States, TerminalStates

\* Every step keeps the types.
LEMMA TypeStep == TypeOK /\ [Next]_vars => TypeOK'
<1> SUFFICES ASSUME TypeOK, [Next]_vars PROVE TypeOK'
  OBVIOUS
<1>s. /\ {"queued", "starting", "running", "failed", "cancelled"} \subseteq States
      /\ {"succeeded", "failed", "cancelled", "timed_out"} \subseteq TerminalStates
      /\ TerminalStates \subseteq States
  BY DEF States, TerminalStates
<1> USE ServiceAssumption, <1>s, ValidNext
<1> USE DEF None, TypeOK, Pcs, QueuePcs, EarlyExitPcs, OwningPcs, ChildPcs, AfterPcs, At,
        Goto, Return, Store, StoreAndPublish, PublishState, Decide, Fault, NoFault,
        WorkerFrame, CancelFrame, WaitFrame, registry, worker, locks, admission, canceller,
        bounds
<1>1. ASSUME NEW i \in Inv, Publish(i) PROVE TypeOK'
  BY <1>1 DEF Publish
<1>2. ASSUME NEW i \in Inv, Submit(i) PROVE TypeOK'
  BY <1>2 DEF Submit
<1>3. ASSUME NEW i \in Inv, Reject(i) PROVE TypeOK'
  BY <1>3 DEF Reject
<1>4. ASSUME NEW i \in Inv, Create(i) PROVE TypeOK'
  BY <1>4 DEF Create
<1>5. ASSUME NEW i \in Inv, Register(i) PROVE TypeOK'
  BY <1>5 DEF Register
<1>6. ASSUME NEW i \in Inv, CancelledInQueue(i) PROVE TypeOK'
  BY <1>6 DEF CancelledInQueue, CancelledWhile
<1>7. ASSUME NEW i \in Inv, AcquireWorkspace(i) PROVE TypeOK'
  BY <1>7 DEF AcquireWorkspace
<1>8. ASSUME NEW i \in Inv, BeginLockAttempt(i) PROVE TypeOK'
  BY <1>8 DEF BeginLockAttempt
<1>9. ASSUME NEW i \in Inv, TryOutputBaseLock(i) PROVE TypeOK'
  BY <1>9 DEF TryOutputBaseLock
<1>10. ASSUME NEW i \in Inv, AcquireExecution(i) PROVE TypeOK'
  BY <1>10 DEF AcquireExecution
<1>11. ASSUME NEW i \in Inv, BeginStarting(i) PROVE TypeOK'
  BY <1>11 DEF BeginStarting
<1>12. ASSUME NEW i \in Inv, RecordStartingFailure(i) PROVE TypeOK'
  BY <1>12 DEF RecordStartingFailure
<1>13. ASSUME NEW i \in Inv, StartingRecheck(i) PROVE TypeOK'
  BY <1>13 DEF StartingRecheck
<1>14. ASSUME NEW i \in Inv, FinishCancelled(i) PROVE TypeOK'
  BY <1>14 DEF FinishCancelled
<1>15. ASSUME NEW i \in Inv, StartFailureStarting(i) PROVE TypeOK'
  BY <1>15 DEF StartFailureStarting
<1>16. ASSUME NEW i \in Inv, StartFailureReread(i) PROVE TypeOK'
  <2>1. CASE IsTerminal(rec[i])
    BY <1>16, <2>1, SMTT(60) DEF StartFailureReread
  <2>2. CASE ~IsTerminal(rec[i])
    BY <1>16, <2>2 DEF StartFailureReread
  <2> QED BY <2>1, <2>2
<1>17. ASSUME NEW i \in Inv, StartFailureFail(i) PROVE TypeOK'
  <2>1. CASE ValidateTransition(rec[i], "failed")
    BY <1>17, <2>1 DEF StartFailureFail
  <2>2. CASE ~ValidateTransition(rec[i], "failed")
    BY <1>17, <2>2 DEF StartFailureFail
  <2> QED BY <2>1, <2>2
<1>18. ASSUME NEW i \in Inv, Unwind(i) PROVE TypeOK'
  BY <1>18 DEF Unwind, AfterWorker, FreeIf
<1>19. ASSUME NEW i \in Inv, TransitionStarting(i) PROVE TypeOK'
  BY <1>19 DEF TransitionStarting
<1>20. ASSUME NEW i \in Inv, StartCheck(i) PROVE TypeOK'
  BY <1>20 DEF StartCheck
<1>21. ASSUME NEW i \in Inv, Prepare(i) PROVE TypeOK'
  <2>1. CASE token[i]
    BY <1>21, <2>1 DEF Prepare
  <2>2. CASE Decide(i, "failed", "recover")
    BY <1>21, <2>2 DEF Prepare
  <2>3. CASE Goto(i, "spawn") /\ UNCHANGED outcome
    BY <1>21, <2>3 DEF Prepare
  <2> QED BY <1>21, <2>1, <2>2, <2>3 DEF Prepare
<1>22. ASSUME NEW i \in Inv, SpawnChild(i) PROVE TypeOK'
  BY <1>22 DEF SpawnChild
<1>23. ASSUME NEW i \in Inv, SpawnFails(i) PROVE TypeOK'
  BY <1>23 DEF SpawnFails
<1>24. ASSUME NEW i \in Inv, TransitionRunning(i) PROVE TypeOK'
  BY <1>24 DEF TransitionRunning
<1>25. ASSUME NEW i \in Inv, StartAborted(i) PROVE TypeOK'
  BY <1>25 DEF StartAborted
<1>26. ASSUME NEW i \in Inv, ObserveExit(i) PROVE TypeOK'
  BY <1>26 DEF ObserveExit
<1>27. ASSUME NEW i \in Inv, ObserveCancellation(i) PROVE TypeOK'
  BY <1>27 DEF ObserveCancellation
<1>28. ASSUME NEW i \in Inv, ObserveTimeout(i) PROVE TypeOK'
  BY <1>28 DEF ObserveTimeout
<1>29. ASSUME NEW i \in Inv, ObserveOutputLimit(i) PROVE TypeOK'
  BY <1>29 DEF ObserveOutputLimit
<1>30. ASSUME NEW i \in Inv, ChildTerminated(i) PROVE TypeOK'
  BY <1>30 DEF ChildTerminated
<1>31. ASSUME NEW i \in Inv, CaptureAndReduce(i) PROVE TypeOK'
  BY <1>31 DEF CaptureAndReduce
<1>32. ASSUME NEW i \in Inv, CommitTerminal(i, "commit") PROVE TypeOK'
  <2>1. CASE ValidateTransition(rec[i], outcome[i])
    <3>1. /\ StoreAndPublish(i, outcome[i]) /\ Return(i, "ok", "release")
          /\ NoFault /\ UNCHANGED child /\ WorkerFrame /\ outcome[i] \in States
      BY <1>32, <2>1 DEF CommitTerminal
    <3> QED BY <3>1
  <2>2. CASE ~ValidateTransition(rec[i], outcome[i])
    BY <1>32, <2>2 DEF CommitTerminal
  <2> QED BY <2>1, <2>2
<1>33. ASSUME NEW i \in Inv, CommitTerminal(i, "recommit") PROVE TypeOK'
  BY <1>33 DEF CommitTerminal
<1>34. ASSUME NEW i \in Inv, RecoverTerminalFailure(i) PROVE TypeOK'
  BY <1>34 DEF RecoverTerminalFailure, FailureContext
<1>35. ASSUME NEW i \in Inv, ReleaseWorkspace(i) PROVE TypeOK'
  BY <1>35 DEF ReleaseWorkspace, FreeIf
<1>36. ASSUME NEW i \in Inv, ReleaseRest(i) PROVE TypeOK'
  BY <1>36 DEF ReleaseRest, AfterWorker, FreeIf
<1>37. ASSUME NEW i \in Inv, MaterializeWorkerFailure(i) PROVE TypeOK'
  BY <1>37 DEF MaterializeWorkerFailure
<1>38. ASSUME NEW i \in Inv, Remove(i) PROVE TypeOK'
  BY <1>38 DEF Remove
<1>39. ASSUME NEW i \in Inv, OutputBaseLockFails(i) PROVE TypeOK'
  BY <1>39 DEF OutputBaseLockFails
<1>40. ASSUME NEW i \in Inv, TransitionStartingFails(i) PROVE TypeOK'
  BY <1>40 DEF TransitionStartingFails
<1>41. ASSUME NEW i \in Inv, FinishCancelledFails(i) PROVE TypeOK'
  BY <1>41 DEF FinishCancelledFails
<1>42. ASSUME NEW i \in Inv, StartFailureStoreFails(i) PROVE TypeOK'
  BY <1>42 DEF StartFailureStoreFails
<1>43. ASSUME NEW i \in Inv, TransitionRunningFails(i) PROVE TypeOK'
  BY <1>43 DEF TransitionRunningFails
<1>44. ASSUME NEW i \in Inv, CommitTerminalFails(i) PROVE TypeOK'
  BY <1>44 DEF CommitTerminalFails
<1>45. ASSUME NEW i \in Inv, WorkerPanics(i) PROVE TypeOK'
  BY <1>45 DEF WorkerPanics, FreeIf, RunPreparedPcs
<1>46. ASSUME NEW i \in Inv, CancelStoreFails(i) PROVE TypeOK'
  BY <1>46 DEF CancelStoreFails
<1>47. ASSUME NEW i \in Inv, CancelRead(i) PROVE TypeOK'
  BY <1>47 DEF CancelRead
<1>48. ASSUME NEW i \in Inv, CancelToken(i) PROVE TypeOK'
  BY <1>48 DEF CancelToken
<1>49. ASSUME NEW i \in Inv, CancelStore(i) PROVE TypeOK'
  BY <1>49 DEF CancelStore
<1>50. ASSUME NEW i \in Inv, CancelPublish(i) PROVE TypeOK'
  BY <1>50 DEF CancelPublish
<1>51. ASSUME NEW i \in Inv, CancelReport(i) PROVE TypeOK'
  BY <1>51 DEF CancelReport
<1>52. ASSUME NEW i \in Inv, ClientCancels(i) PROVE TypeOK'
  BY <1>52 DEF ClientCancels
<1>53. ASSUME NEW i \in Inv, StartWait(i) PROVE TypeOK'
  BY <1>53 DEF StartWait
<1>54. ASSUME NEW i \in Inv, WaitReturns(i) PROVE TypeOK'
  BY <1>54 DEF WaitReturns, WaitIsOver
<1>55. ASSUME NEW i \in Inv, WaitIsCancelled(i) PROVE TypeOK'
  BY <1>55 DEF WaitIsCancelled
<1>56. ASSUME NEW i \in Inv, ChildExits(i) PROVE TypeOK'
  BY <1>56 DEF ChildExits
<1>57. ASSUME NEW k \in Keys, OtherAcquires(k) \/ OtherReleases(k) PROVE TypeOK'
  BY <1>57 DEF OtherAcquires, OtherReleases
<1>58. ASSUME CancelAllActive PROVE TypeOK'
  BY <1>58 DEF CancelAllActive
<1>59. ASSUME UNCHANGED vars PROVE TypeOK'
  BY <1>59 DEF vars
<1>60. ASSUME NEW i \in Inv, SignalInterrupt(i) \/ SignalTerminate(i) \/ SignalKill(i)
       PROVE TypeOK'
  BY <1>60 DEF Signal, SignalInterrupt, SignalTerminate, SignalKill
<1> QED
  BY <1>1, <1>2, <1>3, <1>4, <1>5, <1>6, <1>7, <1>8, <1>9, <1>10, <1>11, <1>12,
        <1>13, <1>14, <1>15, <1>16, <1>17, <1>18, <1>19, <1>20, <1>21, <1>22, <1>23, <1>24,
        <1>25, <1>26, <1>27, <1>28, <1>29, <1>30, <1>31, <1>32, <1>33, <1>34, <1>35, <1>36,
        <1>37, <1>38, <1>39, <1>40, <1>41, <1>42, <1>43, <1>44, <1>45, <1>46, <1>47, <1>48,
        <1>49, <1>50, <1>51, <1>52, <1>53, <1>54, <1>55, <1>56, <1>57, <1>58, <1>59, <1>60
     DEF Next, Quiescent, PrepareStep, QueueStep, EarlyExitStep, ExecuteStep, ExecutionProgress,
        SupervisorStep, FaultStep, ClientStep, CancelStep

\* A worker that holds an output base keeps it: nobody else frees or takes it.
LEMMA OwnsOutputBaseStep == ServiceInv /\ [Next]_vars => OwnsOutputBase'
<1> SUFFICES ASSUME ServiceInv, [Next]_vars PROVE OwnsOutputBase'
  OBVIOUS
<1> USE ServiceAssumption
<1> USE DEF None, ServiceInv, TypeOK, OwnsOutputBase, Pcs, QueuePcs, EarlyExitPcs,
        OwningPcs, ChildPcs, AfterPcs, At, Goto, Return, Store, StoreAndPublish,
        PublishState, Decide, Fault, NoFault, WorkerFrame, CancelFrame, WaitFrame, registry,
        worker, locks, admission, canceller, bounds
<1>1. ASSUME NEW i \in Inv, Publish(i) PROVE OwnsOutputBase'
  BY <1>1 DEF Publish
<1>2. ASSUME NEW i \in Inv, PrepareStep(i) PROVE OwnsOutputBase'
  BY <1>2 DEF PrepareStep, Submit, Reject, Create, Register
<1>3. ASSUME NEW i \in Inv, QueueStep(i) PROVE OwnsOutputBase'
  BY <1>3 DEF QueueStep, CancelledInQueue, CancelledWhile, AcquireWorkspace,
        BeginLockAttempt, TryOutputBaseLock, AcquireExecution, BeginStarting
<1>4. ASSUME NEW i \in Inv, EarlyExitStep(i) PROVE OwnsOutputBase'
  BY <1>4 DEF EarlyExitStep, RecordStartingFailure, StartingRecheck, FinishCancelled,
        StartFailureStarting, StartFailureReread, StartFailureFail, Unwind, AfterWorker,
        FreeIf
<1>5. ASSUME NEW i \in Inv, ExecuteStep(i) PROVE OwnsOutputBase'
  BY <1>5 DEF ExecuteStep, ExecutionProgress, TransitionStarting, StartCheck, Prepare, SpawnChild, SpawnFails,
        TransitionRunning, StartAborted, ObserveExit, ObserveCancellation, ObserveTimeout,
        ObserveOutputLimit, Signal, SignalInterrupt, SignalTerminate, SignalKill,
        ChildTerminated, CaptureAndReduce, CommitTerminal,
        RecoverTerminalFailure, FailureContext, ReleaseWorkspace, FreeIf, ReleaseRest, AfterWorker
<1>6. ASSUME NEW i \in Inv, SupervisorStep(i) PROVE OwnsOutputBase'
  BY <1>6 DEF SupervisorStep, MaterializeWorkerFailure, Remove
<1>7. ASSUME NEW i \in Inv, FaultStep(i) PROVE OwnsOutputBase'
  BY <1>7 DEF FaultStep, OutputBaseLockFails, TransitionStartingFails, FinishCancelledFails,
        StartFailureStoreFails, TransitionRunningFails, CommitTerminalFails, WorkerPanics,
        FreeIf, RunPreparedPcs, CancelStoreFails
<1>8. ASSUME NEW i \in Inv, ClientStep(i) PROVE OwnsOutputBase'
  BY <1>8 DEF ClientStep, CancelStep, CancelRead, CancelToken, CancelStore, CancelPublish,
        CancelReport, ClientCancels, StartWait, WaitReturns, WaitIsOver, WaitIsCancelled
<1>9. ASSUME NEW i \in Inv, ChildExits(i) PROVE OwnsOutputBase'
  BY <1>9 DEF ChildExits
<1>10. ASSUME NEW k \in Keys, OtherAcquires(k) \/ OtherReleases(k) PROVE OwnsOutputBase'
  BY <1>10 DEF OtherAcquires, OtherReleases
<1>11. ASSUME CancelAllActive PROVE OwnsOutputBase'
  BY <1>11 DEF CancelAllActive
<1>12. ASSUME UNCHANGED vars PROVE OwnsOutputBase'
  BY <1>12 DEF vars
<1> QED
  BY <1>1, <1>2, <1>3, <1>4, <1>5, <1>6, <1>7, <1>8, <1>9, <1>10, <1>11, <1>12
     DEF Next, Quiescent

\* No step lets a worker walk away from a running process.
LEMMA SupervisedChildStep == ServiceInv /\ [Next]_vars => SupervisedChild'
<1> SUFFICES ASSUME ServiceInv, [Next]_vars PROVE SupervisedChild'
  OBVIOUS
<1> USE ServiceAssumption
<1> USE DEF None, ServiceInv, TypeOK, SupervisedChild, Pcs, QueuePcs, EarlyExitPcs,
        OwningPcs, ChildPcs, AfterPcs, At, Goto, Return, Store, StoreAndPublish,
        PublishState, Decide, Fault, NoFault, WorkerFrame, CancelFrame, WaitFrame, registry,
        worker, locks, admission, canceller, bounds
<1>1. ASSUME NEW i \in Inv, Publish(i) PROVE SupervisedChild'
  BY <1>1 DEF Publish
<1>2. ASSUME NEW i \in Inv, PrepareStep(i) PROVE SupervisedChild'
  BY <1>2 DEF PrepareStep, Submit, Reject, Create, Register
<1>3. ASSUME NEW i \in Inv, QueueStep(i) PROVE SupervisedChild'
  BY <1>3 DEF QueueStep, CancelledInQueue, CancelledWhile, AcquireWorkspace,
        BeginLockAttempt, TryOutputBaseLock, AcquireExecution, BeginStarting
<1>4. ASSUME NEW i \in Inv, EarlyExitStep(i) PROVE SupervisedChild'
  BY <1>4 DEF EarlyExitStep, RecordStartingFailure, StartingRecheck, FinishCancelled,
        StartFailureStarting, StartFailureReread, StartFailureFail, Unwind, AfterWorker,
        FreeIf
<1>5. ASSUME NEW i \in Inv, ExecuteStep(i) PROVE SupervisedChild'
  BY <1>5 DEF ExecuteStep, ExecutionProgress, TransitionStarting, StartCheck, Prepare, SpawnChild, SpawnFails,
        TransitionRunning, StartAborted, ObserveExit, ObserveCancellation, ObserveTimeout,
        ObserveOutputLimit, Signal, SignalInterrupt, SignalTerminate, SignalKill,
        ChildTerminated, CaptureAndReduce, CommitTerminal,
        RecoverTerminalFailure, FailureContext, ReleaseWorkspace, FreeIf, ReleaseRest, AfterWorker
<1>6. ASSUME NEW i \in Inv, SupervisorStep(i) PROVE SupervisedChild'
  BY <1>6 DEF SupervisorStep, MaterializeWorkerFailure, Remove
<1>7. ASSUME NEW i \in Inv, FaultStep(i) PROVE SupervisedChild'
  BY <1>7 DEF FaultStep, OutputBaseLockFails, TransitionStartingFails, FinishCancelledFails,
        StartFailureStoreFails, TransitionRunningFails, CommitTerminalFails, WorkerPanics,
        FreeIf, RunPreparedPcs, CancelStoreFails
<1>8. ASSUME NEW i \in Inv, ClientStep(i) PROVE SupervisedChild'
  BY <1>8 DEF ClientStep, CancelStep, CancelRead, CancelToken, CancelStore, CancelPublish,
        CancelReport, ClientCancels, StartWait, WaitReturns, WaitIsOver, WaitIsCancelled
<1>9. ASSUME NEW i \in Inv, ChildExits(i) PROVE SupervisedChild'
  BY <1>9 DEF ChildExits
<1>10. ASSUME NEW k \in Keys, OtherAcquires(k) \/ OtherReleases(k) PROVE SupervisedChild'
  BY <1>10 DEF OtherAcquires, OtherReleases
<1>11. ASSUME CancelAllActive PROVE SupervisedChild'
  BY <1>11 DEF CancelAllActive
<1>12. ASSUME UNCHANGED vars PROVE SupervisedChild'
  BY <1>12 DEF vars
<1> QED
  BY <1>1, <1>2, <1>3, <1>4, <1>5, <1>6, <1>7, <1>8, <1>9, <1>10, <1>11, <1>12
     DEF Next, Quiescent

\* A result appears only on the way out of run_prepared.
LEMMA ResultWhenReturningStep == ServiceInv /\ [Next]_vars => ResultWhenReturning'
<1> SUFFICES ASSUME ServiceInv, [Next]_vars PROVE ResultWhenReturning'
  OBVIOUS
<1> USE ServiceAssumption
<1> USE DEF None, ServiceInv, TypeOK, ResultWhenReturning, Pcs, QueuePcs, EarlyExitPcs,
        OwningPcs, ChildPcs, AfterPcs, At, Goto, Return, Store, StoreAndPublish,
        PublishState, Decide, Fault, NoFault, WorkerFrame, CancelFrame, WaitFrame, registry,
        worker, locks, admission, canceller, bounds
<1>1. ASSUME NEW i \in Inv, Publish(i) PROVE ResultWhenReturning'
  BY <1>1 DEF Publish
<1>2. ASSUME NEW i \in Inv, PrepareStep(i) PROVE ResultWhenReturning'
  BY <1>2 DEF PrepareStep, Submit, Reject, Create, Register
<1>3. ASSUME NEW i \in Inv, QueueStep(i) PROVE ResultWhenReturning'
  BY <1>3 DEF QueueStep, CancelledInQueue, CancelledWhile, AcquireWorkspace,
        BeginLockAttempt, TryOutputBaseLock, AcquireExecution, BeginStarting
<1>4. ASSUME NEW i \in Inv, EarlyExitStep(i) PROVE ResultWhenReturning'
  BY <1>4 DEF EarlyExitStep, RecordStartingFailure, StartingRecheck, FinishCancelled,
        StartFailureStarting, StartFailureReread, StartFailureFail, Unwind, AfterWorker,
        FreeIf
<1>5. ASSUME NEW i \in Inv, ExecuteStep(i) PROVE ResultWhenReturning'
  BY <1>5 DEF ExecuteStep, ExecutionProgress, TransitionStarting, StartCheck, Prepare, SpawnChild, SpawnFails,
        TransitionRunning, StartAborted, ObserveExit, ObserveCancellation, ObserveTimeout,
        ObserveOutputLimit, Signal, SignalInterrupt, SignalTerminate, SignalKill,
        ChildTerminated, CaptureAndReduce, CommitTerminal,
        RecoverTerminalFailure, FailureContext, ReleaseWorkspace, FreeIf, ReleaseRest, AfterWorker
<1>6. ASSUME NEW i \in Inv, SupervisorStep(i) PROVE ResultWhenReturning'
  BY <1>6 DEF SupervisorStep, MaterializeWorkerFailure, Remove
<1>7. ASSUME NEW i \in Inv, FaultStep(i) PROVE ResultWhenReturning'
  BY <1>7 DEF FaultStep, OutputBaseLockFails, TransitionStartingFails, FinishCancelledFails,
        StartFailureStoreFails, TransitionRunningFails, CommitTerminalFails, WorkerPanics,
        FreeIf, RunPreparedPcs, CancelStoreFails
<1>8. ASSUME NEW i \in Inv, ClientStep(i) PROVE ResultWhenReturning'
  BY <1>8 DEF ClientStep, CancelStep, CancelRead, CancelToken, CancelStore, CancelPublish,
        CancelReport, ClientCancels, StartWait, WaitReturns, WaitIsOver, WaitIsCancelled
<1>9. ASSUME NEW i \in Inv, ChildExits(i) PROVE ResultWhenReturning'
  BY <1>9 DEF ChildExits
<1>10. ASSUME NEW k \in Keys, OtherAcquires(k) \/ OtherReleases(k) PROVE ResultWhenReturning'
  BY <1>10 DEF OtherAcquires, OtherReleases
<1>11. ASSUME CancelAllActive PROVE ResultWhenReturning'
  BY <1>11 DEF CancelAllActive
<1>12. ASSUME UNCHANGED vars PROVE ResultWhenReturning'
  BY <1>12 DEF vars
<1> QED
  BY <1>1, <1>2, <1>3, <1>4, <1>5, <1>6, <1>7, <1>8, <1>9, <1>10, <1>11, <1>12
     DEF Next, Quiescent

\* The record exists exactly from acceptance on.
LEMMA AbsentBeforeCreateStep == ServiceInv /\ [Next]_vars => AbsentBeforeCreate'
<1> SUFFICES ASSUME ServiceInv, [Next]_vars PROVE AbsentBeforeCreate'
  OBVIOUS
<1> USE ServiceAssumption
<1> USE DEF None, Absent, ServiceInv, TypeOK, States, TerminalStates, ValidateTransition,
        IsTerminal, AbsentBeforeCreate, Pcs, QueuePcs, EarlyExitPcs, OwningPcs, ChildPcs,
        AfterPcs, At, Goto, Return, Store, StoreAndPublish, PublishState, Decide, Fault,
        NoFault, WorkerFrame, CancelFrame, WaitFrame, registry, worker, locks, admission,
        canceller, bounds
<1>1. ASSUME NEW i \in Inv, Publish(i) PROVE AbsentBeforeCreate'
  BY <1>1 DEF Publish
<1>2. ASSUME NEW i \in Inv, PrepareStep(i) PROVE AbsentBeforeCreate'
  BY <1>2 DEF PrepareStep, Submit, Reject, Create, Register
<1>3. ASSUME NEW i \in Inv, QueueStep(i) PROVE AbsentBeforeCreate'
  BY <1>3 DEF QueueStep, CancelledInQueue, CancelledWhile, AcquireWorkspace,
        BeginLockAttempt, TryOutputBaseLock, AcquireExecution, BeginStarting
<1>4. ASSUME NEW i \in Inv, EarlyExitStep(i) PROVE AbsentBeforeCreate'
  BY <1>4 DEF EarlyExitStep, RecordStartingFailure, StartingRecheck, FinishCancelled,
        StartFailureStarting, StartFailureReread, StartFailureFail, Unwind, AfterWorker,
        FreeIf
<1>5. ASSUME NEW i \in Inv, ExecuteStep(i) PROVE AbsentBeforeCreate'
  BY <1>5 DEF ExecuteStep, ExecutionProgress, TransitionStarting, StartCheck, Prepare, SpawnChild, SpawnFails,
        TransitionRunning, StartAborted, ObserveExit, ObserveCancellation, ObserveTimeout,
        ObserveOutputLimit, Signal, SignalInterrupt, SignalTerminate, SignalKill,
        ChildTerminated, CaptureAndReduce, CommitTerminal,
        RecoverTerminalFailure, FailureContext, ReleaseWorkspace, FreeIf, ReleaseRest, AfterWorker
<1>6. ASSUME NEW i \in Inv, SupervisorStep(i) PROVE AbsentBeforeCreate'
  BY <1>6 DEF SupervisorStep, MaterializeWorkerFailure, Remove
<1>7. ASSUME NEW i \in Inv, FaultStep(i) PROVE AbsentBeforeCreate'
  BY <1>7 DEF FaultStep, OutputBaseLockFails, TransitionStartingFails, FinishCancelledFails,
        StartFailureStoreFails, TransitionRunningFails, CommitTerminalFails, WorkerPanics,
        FreeIf, RunPreparedPcs, CancelStoreFails
<1>8. ASSUME NEW i \in Inv, ClientStep(i) PROVE AbsentBeforeCreate'
  BY <1>8 DEF ClientStep, CancelStep, CancelRead, CancelToken, CancelStore, CancelPublish,
        CancelReport, ClientCancels, StartWait, WaitReturns, WaitIsOver, WaitIsCancelled
<1>9. ASSUME NEW i \in Inv, ChildExits(i) PROVE AbsentBeforeCreate'
  BY <1>9 DEF ChildExits
<1>10. ASSUME NEW k \in Keys, OtherAcquires(k) \/ OtherReleases(k) PROVE AbsentBeforeCreate'
  BY <1>10 DEF OtherAcquires, OtherReleases
<1>11. ASSUME CancelAllActive PROVE AbsentBeforeCreate'
  BY <1>11 DEF CancelAllActive
<1>12. ASSUME UNCHANGED vars PROVE AbsentBeforeCreate'
  BY <1>12 DEF vars
<1> QED
  BY <1>1, <1>2, <1>3, <1>4, <1>5, <1>6, <1>7, <1>8, <1>9, <1>10, <1>11, <1>12
     DEF Next, Quiescent

\* Between a terminal store and its publication nobody changes the record.
LEMMA StoredBeforePublishedStep == ServiceInv /\ [Next]_vars => StoredBeforePublished'
<1> SUFFICES ASSUME ServiceInv, [Next]_vars PROVE StoredBeforePublished'
  OBVIOUS
<1> USE ServiceAssumption
<1> USE DEF None, Absent, ServiceInv, TypeOK, States, TerminalStates, ValidateTransition,
        IsTerminal, AbsentBeforeCreate, StoredBeforePublished, Pcs, QueuePcs, EarlyExitPcs,
        OwningPcs, ChildPcs, AfterPcs, At, Goto, Return, Store, StoreAndPublish,
        PublishState, Decide, Fault, NoFault, WorkerFrame, CancelFrame, WaitFrame, registry,
        worker, locks, admission, canceller, bounds
<1>1. ASSUME NEW i \in Inv, Publish(i) PROVE StoredBeforePublished'
  BY <1>1 DEF Publish
<1>2. ASSUME NEW i \in Inv, PrepareStep(i) PROVE StoredBeforePublished'
  BY <1>2 DEF PrepareStep, Submit, Reject, Create, Register
<1>3. ASSUME NEW i \in Inv, QueueStep(i) PROVE StoredBeforePublished'
  BY <1>3 DEF QueueStep, CancelledInQueue, CancelledWhile, AcquireWorkspace,
        BeginLockAttempt, TryOutputBaseLock, AcquireExecution, BeginStarting
<1>4. ASSUME NEW i \in Inv, EarlyExitStep(i) PROVE StoredBeforePublished'
  BY <1>4 DEF EarlyExitStep, RecordStartingFailure, StartingRecheck, FinishCancelled,
        StartFailureStarting, StartFailureReread, StartFailureFail, Unwind, AfterWorker,
        FreeIf
<1>5. ASSUME NEW i \in Inv, ExecuteStep(i) PROVE StoredBeforePublished'
  BY <1>5 DEF ExecuteStep, ExecutionProgress, TransitionStarting, StartCheck, Prepare, SpawnChild, SpawnFails,
        TransitionRunning, StartAborted, ObserveExit, ObserveCancellation, ObserveTimeout,
        ObserveOutputLimit, Signal, SignalInterrupt, SignalTerminate, SignalKill,
        ChildTerminated, CaptureAndReduce, CommitTerminal,
        RecoverTerminalFailure, FailureContext, ReleaseWorkspace, FreeIf, ReleaseRest, AfterWorker
<1>6. ASSUME NEW i \in Inv, SupervisorStep(i) PROVE StoredBeforePublished'
  BY <1>6 DEF SupervisorStep, MaterializeWorkerFailure, Remove
<1>7. ASSUME NEW i \in Inv, FaultStep(i) PROVE StoredBeforePublished'
  BY <1>7 DEF FaultStep, OutputBaseLockFails, TransitionStartingFails, FinishCancelledFails,
        StartFailureStoreFails, TransitionRunningFails, CommitTerminalFails, WorkerPanics,
        FreeIf, RunPreparedPcs, CancelStoreFails
<1>8. ASSUME NEW i \in Inv, ClientStep(i) PROVE StoredBeforePublished'
  BY <1>8 DEF ClientStep, CancelStep, CancelRead, CancelToken, CancelStore, CancelPublish,
        CancelReport, ClientCancels, StartWait, WaitReturns, WaitIsOver, WaitIsCancelled
<1>9. ASSUME NEW i \in Inv, ChildExits(i) PROVE StoredBeforePublished'
  BY <1>9 DEF ChildExits
<1>10. ASSUME NEW k \in Keys, OtherAcquires(k) \/ OtherReleases(k) PROVE StoredBeforePublished'
  BY <1>10 DEF OtherAcquires, OtherReleases
<1>11. ASSUME CancelAllActive PROVE StoredBeforePublished'
  BY <1>11 DEF CancelAllActive
<1>12. ASSUME UNCHANGED vars PROVE StoredBeforePublished'
  BY <1>12 DEF vars
<1> QED
  BY <1>1, <1>2, <1>3, <1>4, <1>5, <1>6, <1>7, <1>8, <1>9, <1>10, <1>11, <1>12
     DEF Next, Quiescent

\* Ok is returned with a terminal record, which no later step changes.
LEMMA OkMeansTerminalStep == ServiceInv /\ [Next]_vars => OkMeansTerminal'
<1> SUFFICES ASSUME ServiceInv, [Next]_vars PROVE OkMeansTerminal'
  OBVIOUS
<1> USE ServiceAssumption
<1> USE DEF None, Absent, ServiceInv, TypeOK, States, TerminalStates, ValidateTransition,
        IsTerminal, AbsentBeforeCreate, ResultWhenReturning, OkMeansTerminal, Pcs, QueuePcs,
        EarlyExitPcs, OwningPcs, ChildPcs, AfterPcs, At, Goto, Return, Store,
        StoreAndPublish, PublishState, Decide, Fault, NoFault, WorkerFrame, CancelFrame,
        WaitFrame, registry, worker, locks, admission, canceller, bounds
<1>1. ASSUME NEW i \in Inv, Publish(i) PROVE OkMeansTerminal'
  BY <1>1 DEF Publish
<1>2. ASSUME NEW i \in Inv, PrepareStep(i) PROVE OkMeansTerminal'
  BY <1>2 DEF PrepareStep, Submit, Reject, Create, Register
<1>3. ASSUME NEW i \in Inv, QueueStep(i) PROVE OkMeansTerminal'
  BY <1>3 DEF QueueStep, CancelledInQueue, CancelledWhile, AcquireWorkspace,
        BeginLockAttempt, TryOutputBaseLock, AcquireExecution, BeginStarting
<1>4. ASSUME NEW i \in Inv, EarlyExitStep(i) PROVE OkMeansTerminal'
  BY <1>4 DEF EarlyExitStep, RecordStartingFailure, StartingRecheck, FinishCancelled,
        StartFailureStarting, StartFailureReread, StartFailureFail, Unwind, AfterWorker,
        FreeIf
<1>5. ASSUME NEW i \in Inv, ExecuteStep(i) PROVE OkMeansTerminal'
  BY <1>5 DEF ExecuteStep, ExecutionProgress, TransitionStarting, StartCheck, Prepare, SpawnChild, SpawnFails,
        TransitionRunning, StartAborted, ObserveExit, ObserveCancellation, ObserveTimeout,
        ObserveOutputLimit, Signal, SignalInterrupt, SignalTerminate, SignalKill,
        ChildTerminated, CaptureAndReduce, CommitTerminal,
        RecoverTerminalFailure, FailureContext, ReleaseWorkspace, FreeIf, ReleaseRest, AfterWorker
<1>6. ASSUME NEW i \in Inv, SupervisorStep(i) PROVE OkMeansTerminal'
  BY <1>6 DEF SupervisorStep, MaterializeWorkerFailure, Remove
<1>7. ASSUME NEW i \in Inv, FaultStep(i) PROVE OkMeansTerminal'
  BY <1>7 DEF FaultStep, OutputBaseLockFails, TransitionStartingFails, FinishCancelledFails,
        StartFailureStoreFails, TransitionRunningFails, CommitTerminalFails, WorkerPanics,
        FreeIf, RunPreparedPcs, CancelStoreFails
<1>8. ASSUME NEW i \in Inv, ClientStep(i) PROVE OkMeansTerminal'
  BY <1>8 DEF ClientStep, CancelStep, CancelRead, CancelToken, CancelStore, CancelPublish,
        CancelReport, ClientCancels, StartWait, WaitReturns, WaitIsOver, WaitIsCancelled
<1>9. ASSUME NEW i \in Inv, ChildExits(i) PROVE OkMeansTerminal'
  BY <1>9 DEF ChildExits
<1>10. ASSUME NEW k \in Keys, OtherAcquires(k) \/ OtherReleases(k) PROVE OkMeansTerminal'
  BY <1>10 DEF OtherAcquires, OtherReleases
<1>11. ASSUME CancelAllActive PROVE OkMeansTerminal'
  BY <1>11 DEF CancelAllActive
<1>12. ASSUME UNCHANGED vars PROVE OkMeansTerminal'
  BY <1>12 DEF vars
<1> QED
  BY <1>1, <1>2, <1>3, <1>4, <1>5, <1>6, <1>7, <1>8, <1>9, <1>10, <1>11, <1>12
     DEF Next, Quiescent

\* A published terminal state stays equal to the record.
LEMMA PublishedTerminalStep == ServiceInv /\ [Next]_vars => PublishedTerminalIsDurable'
<1> SUFFICES ASSUME ServiceInv, [Next]_vars PROVE PublishedTerminalIsDurable'
  OBVIOUS
<1> USE ServiceAssumption
<1> USE DEF None, Absent, ServiceInv, TypeOK, States, TerminalStates, ValidateTransition,
        IsTerminal, AbsentBeforeCreate, StoredBeforePublished, PublishedTerminalIsDurable,
        Pcs, QueuePcs, EarlyExitPcs, OwningPcs, ChildPcs, AfterPcs, At, Goto, Return, Store,
        StoreAndPublish, PublishState, Decide, Fault, NoFault, WorkerFrame, CancelFrame,
        WaitFrame, registry, worker, locks, admission, canceller, bounds
<1>1. ASSUME NEW i \in Inv, Publish(i) PROVE PublishedTerminalIsDurable'
  BY <1>1 DEF Publish
<1>2. ASSUME NEW i \in Inv, PrepareStep(i) PROVE PublishedTerminalIsDurable'
  BY <1>2 DEF PrepareStep, Submit, Reject, Create, Register
<1>3. ASSUME NEW i \in Inv, QueueStep(i) PROVE PublishedTerminalIsDurable'
  BY <1>3 DEF QueueStep, CancelledInQueue, CancelledWhile, AcquireWorkspace,
        BeginLockAttempt, TryOutputBaseLock, AcquireExecution, BeginStarting
<1>4. ASSUME NEW i \in Inv, EarlyExitStep(i) PROVE PublishedTerminalIsDurable'
  BY <1>4 DEF EarlyExitStep, RecordStartingFailure, StartingRecheck, FinishCancelled,
        StartFailureStarting, StartFailureReread, StartFailureFail, Unwind, AfterWorker,
        FreeIf
<1>5. ASSUME NEW i \in Inv, ExecuteStep(i) PROVE PublishedTerminalIsDurable'
  BY <1>5 DEF ExecuteStep, ExecutionProgress, TransitionStarting, StartCheck, Prepare, SpawnChild, SpawnFails,
        TransitionRunning, StartAborted, ObserveExit, ObserveCancellation, ObserveTimeout,
        ObserveOutputLimit, Signal, SignalInterrupt, SignalTerminate, SignalKill,
        ChildTerminated, CaptureAndReduce, CommitTerminal,
        RecoverTerminalFailure, FailureContext, ReleaseWorkspace, FreeIf, ReleaseRest, AfterWorker
<1>6. ASSUME NEW i \in Inv, SupervisorStep(i) PROVE PublishedTerminalIsDurable'
  BY <1>6 DEF SupervisorStep, MaterializeWorkerFailure, Remove
<1>7. ASSUME NEW i \in Inv, FaultStep(i) PROVE PublishedTerminalIsDurable'
  BY <1>7 DEF FaultStep, OutputBaseLockFails, TransitionStartingFails, FinishCancelledFails,
        StartFailureStoreFails, TransitionRunningFails, CommitTerminalFails, WorkerPanics,
        FreeIf, RunPreparedPcs, CancelStoreFails
<1>8. ASSUME NEW i \in Inv, ClientStep(i) PROVE PublishedTerminalIsDurable'
  BY <1>8 DEF ClientStep, CancelStep, CancelRead, CancelToken, CancelStore, CancelPublish,
        CancelReport, ClientCancels, StartWait, WaitReturns, WaitIsOver, WaitIsCancelled
<1>9. ASSUME NEW i \in Inv, ChildExits(i) PROVE PublishedTerminalIsDurable'
  BY <1>9 DEF ChildExits
<1>10. ASSUME NEW k \in Keys, OtherAcquires(k) \/ OtherReleases(k) PROVE PublishedTerminalIsDurable'
  BY <1>10 DEF OtherAcquires, OtherReleases
<1>11. ASSUME CancelAllActive PROVE PublishedTerminalIsDurable'
  BY <1>11 DEF CancelAllActive
<1>12. ASSUME UNCHANGED vars PROVE PublishedTerminalIsDurable'
  BY <1>12 DEF vars
<1> QED
  BY <1>1, <1>2, <1>3, <1>4, <1>5, <1>6, <1>7, <1>8, <1>9, <1>10, <1>11, <1>12
     DEF Next, Quiescent

\* The process follows its worker.
LEMMA ChildMatchesWorkerStep == ServiceInv /\ [Next]_vars => ChildMatchesWorker'
<1> SUFFICES ASSUME ServiceInv, [Next]_vars PROVE ChildMatchesWorker'
  OBVIOUS
<1> USE ServiceAssumption
<1> USE DEF None, ServiceInv, TypeOK, SupervisedChild, ChildMatchesWorker, Pcs, QueuePcs,
        EarlyExitPcs, OwningPcs, ChildPcs, AfterPcs, At, Goto, Return, Store,
        StoreAndPublish, PublishState, Decide, Fault, NoFault, WorkerFrame, CancelFrame,
        WaitFrame, registry, worker, locks, admission, canceller, bounds
<1>1. ASSUME NEW i \in Inv, Publish(i) PROVE ChildMatchesWorker'
  BY <1>1 DEF Publish
<1>2. ASSUME NEW i \in Inv, PrepareStep(i) PROVE ChildMatchesWorker'
  BY <1>2 DEF PrepareStep, Submit, Reject, Create, Register
<1>3. ASSUME NEW i \in Inv, QueueStep(i) PROVE ChildMatchesWorker'
  BY <1>3 DEF QueueStep, CancelledInQueue, CancelledWhile, AcquireWorkspace,
        BeginLockAttempt, TryOutputBaseLock, AcquireExecution, BeginStarting
<1>4. ASSUME NEW i \in Inv, EarlyExitStep(i) PROVE ChildMatchesWorker'
  BY <1>4 DEF EarlyExitStep, RecordStartingFailure, StartingRecheck, FinishCancelled,
        StartFailureStarting, StartFailureReread, StartFailureFail, Unwind, AfterWorker,
        FreeIf
<1>5. ASSUME NEW i \in Inv, ExecuteStep(i) PROVE ChildMatchesWorker'
  BY <1>5 DEF ExecuteStep, ExecutionProgress, TransitionStarting, StartCheck, Prepare, SpawnChild, SpawnFails,
        TransitionRunning, StartAborted, ObserveExit, ObserveCancellation, ObserveTimeout,
        ObserveOutputLimit, Signal, SignalInterrupt, SignalTerminate, SignalKill,
        ChildTerminated, CaptureAndReduce, CommitTerminal,
        RecoverTerminalFailure, FailureContext, ReleaseWorkspace, FreeIf, ReleaseRest, AfterWorker
<1>6. ASSUME NEW i \in Inv, SupervisorStep(i) PROVE ChildMatchesWorker'
  BY <1>6 DEF SupervisorStep, MaterializeWorkerFailure, Remove
<1>7. ASSUME NEW i \in Inv, FaultStep(i) PROVE ChildMatchesWorker'
  BY <1>7 DEF FaultStep, OutputBaseLockFails, TransitionStartingFails, FinishCancelledFails,
        StartFailureStoreFails, TransitionRunningFails, CommitTerminalFails, WorkerPanics,
        FreeIf, RunPreparedPcs, CancelStoreFails
<1>8. ASSUME NEW i \in Inv, ClientStep(i) PROVE ChildMatchesWorker'
  BY <1>8 DEF ClientStep, CancelStep, CancelRead, CancelToken, CancelStore, CancelPublish,
        CancelReport, ClientCancels, StartWait, WaitReturns, WaitIsOver, WaitIsCancelled
<1>9. ASSUME NEW i \in Inv, ChildExits(i) PROVE ChildMatchesWorker'
  BY <1>9 DEF ChildExits
<1>10. ASSUME NEW k \in Keys, OtherAcquires(k) \/ OtherReleases(k) PROVE ChildMatchesWorker'
  BY <1>10 DEF OtherAcquires, OtherReleases
<1>11. ASSUME CancelAllActive PROVE ChildMatchesWorker'
  BY <1>11 DEF CancelAllActive
<1>12. ASSUME UNCHANGED vars PROVE ChildMatchesWorker'
  BY <1>12 DEF vars
<1> QED
  BY <1>1, <1>2, <1>3, <1>4, <1>5, <1>6, <1>7, <1>8, <1>9, <1>10, <1>11, <1>12
     DEF Next, Quiescent

\* While a process is being started the record is Starting, or Cancelled by bazel.cancel.
LEMMA StartingOrCancelledStep == ServiceInv /\ [Next]_vars => StartingOrCancelled'
<1> SUFFICES ASSUME ServiceInv, [Next]_vars PROVE StartingOrCancelled'
  OBVIOUS
<1> USE ServiceAssumption
<1> USE DEF None, Absent, ServiceInv, TypeOK, States, TerminalStates, ValidateTransition,
        IsTerminal, AbsentBeforeCreate, StartingOrCancelled, Pcs, QueuePcs, EarlyExitPcs,
        OwningPcs, ChildPcs, AfterPcs, At, Goto, Return, Store, StoreAndPublish,
        PublishState, Decide, Fault, NoFault, WorkerFrame, CancelFrame, WaitFrame, registry,
        worker, locks, admission, canceller, bounds
<1>1. ASSUME NEW i \in Inv, Publish(i) PROVE StartingOrCancelled'
  BY <1>1 DEF Publish
<1>2. ASSUME NEW i \in Inv, PrepareStep(i) PROVE StartingOrCancelled'
  BY <1>2 DEF PrepareStep, Submit, Reject, Create, Register
<1>3. ASSUME NEW i \in Inv, QueueStep(i) PROVE StartingOrCancelled'
  BY <1>3 DEF QueueStep, CancelledInQueue, CancelledWhile, AcquireWorkspace,
        BeginLockAttempt, TryOutputBaseLock, AcquireExecution, BeginStarting
<1>4. ASSUME NEW i \in Inv, EarlyExitStep(i) PROVE StartingOrCancelled'
  BY <1>4 DEF EarlyExitStep, RecordStartingFailure, StartingRecheck, FinishCancelled,
        StartFailureStarting, StartFailureReread, StartFailureFail, Unwind, AfterWorker,
        FreeIf
<1>5. ASSUME NEW i \in Inv, ExecuteStep(i) PROVE StartingOrCancelled'
  BY <1>5 DEF ExecuteStep, ExecutionProgress, TransitionStarting, StartCheck, Prepare, SpawnChild, SpawnFails,
        TransitionRunning, StartAborted, ObserveExit, ObserveCancellation, ObserveTimeout,
        ObserveOutputLimit, Signal, SignalInterrupt, SignalTerminate, SignalKill,
        ChildTerminated, CaptureAndReduce, CommitTerminal,
        RecoverTerminalFailure, FailureContext, ReleaseWorkspace, FreeIf, ReleaseRest, AfterWorker
<1>6. ASSUME NEW i \in Inv, SupervisorStep(i) PROVE StartingOrCancelled'
  BY <1>6 DEF SupervisorStep, MaterializeWorkerFailure, Remove
<1>7. ASSUME NEW i \in Inv, FaultStep(i) PROVE StartingOrCancelled'
  BY <1>7 DEF FaultStep, OutputBaseLockFails, TransitionStartingFails, FinishCancelledFails,
        StartFailureStoreFails, TransitionRunningFails, CommitTerminalFails, WorkerPanics,
        FreeIf, RunPreparedPcs, CancelStoreFails
<1>8. ASSUME NEW i \in Inv, ClientStep(i) PROVE StartingOrCancelled'
  BY <1>8 DEF ClientStep, CancelStep, CancelRead, CancelToken, CancelStore, CancelPublish,
        CancelReport, ClientCancels, StartWait, WaitReturns, WaitIsOver, WaitIsCancelled
<1>9. ASSUME NEW i \in Inv, ChildExits(i) PROVE StartingOrCancelled'
  BY <1>9 DEF ChildExits
<1>10. ASSUME NEW k \in Keys, OtherAcquires(k) \/ OtherReleases(k) PROVE StartingOrCancelled'
  BY <1>10 DEF OtherAcquires, OtherReleases
<1>11. ASSUME CancelAllActive PROVE StartingOrCancelled'
  BY <1>11 DEF CancelAllActive
<1>12. ASSUME UNCHANGED vars PROVE StartingOrCancelled'
  BY <1>12 DEF vars
<1> QED
  BY <1>1, <1>2, <1>3, <1>4, <1>5, <1>6, <1>7, <1>8, <1>9, <1>10, <1>11, <1>12
     DEF Next, Quiescent

\* Permits are taken one at a time while one is left, and held throughout execution.
LEMMA HoldsPermitStep == ServiceInv /\ [Next]_vars => HoldsPermit'
<1> SUFFICES ASSUME ServiceInv, [Next]_vars PROVE HoldsPermit'
  OBVIOUS
<1> USE ServiceAssumption
<1> USE DEF None, ServiceInv, TypeOK, HoldsPermit, Pcs, QueuePcs, EarlyExitPcs, OwningPcs,
        ChildPcs, AfterPcs, At, Goto, Return, Store, StoreAndPublish, PublishState, Decide,
        Fault, NoFault, WorkerFrame, CancelFrame, WaitFrame, registry, worker, locks,
        admission, canceller, bounds
<1>1. ASSUME NEW i \in Inv, AcquireExecution(i) PROVE HoldsPermit'
  <2>1. IsFiniteSet(permits') /\ Cardinality(permits') <= GlobalConcurrency
    <3>1. permits' = permits \cup {i} /\ Cardinality(permits) < GlobalConcurrency
      BY <1>1 DEF AcquireExecution
    <3>2. Cardinality(permits) \in Nat
      BY FS_CardinalityType
    <3>3. /\ IsFiniteSet(permits \cup {i})
          /\ Cardinality(permits \cup {i}) = IF i \in permits THEN Cardinality(permits)
                                             ELSE Cardinality(permits) + 1
      BY FS_AddElement
    <3> QED BY <3>1, <3>2, <3>3
  <2>2. \A j \in Inv : pc'[j] \in OwningPcs => j \in permits'
    BY <1>1 DEF AcquireExecution
  <2> QED BY <2>1, <2>2
<1>2. ASSUME NEW i \in Inv, permits' = permits \ {i},
             pc'[i] \notin OwningPcs, \A j \in Inv \ {i} : pc'[j] = pc[j]
      PROVE HoldsPermit'
  <2>1. IsFiniteSet(permits') /\ Cardinality(permits') <= Cardinality(permits)
    BY <1>2, FS_Subset
  <2>2. Cardinality(permits) \in Nat /\ Cardinality(permits') \in Nat
    BY <2>1, FS_CardinalityType
  <2>3. \A j \in Inv : pc'[j] \in OwningPcs => j \in permits'
    BY <1>2
  <2> QED BY <2>1, <2>2, <2>3
<1>3. ASSUME NEW i \in Inv, Unwind(i) \/ ReleaseRest(i) \/ WorkerPanics(i) PROVE HoldsPermit'
  <2>1. permits' = permits \ {i} /\ pc'[i] \notin OwningPcs /\ \A j \in Inv \ {i} : pc'[j] = pc[j]
    BY <1>3 DEF Unwind, ReleaseRest, WorkerPanics, AfterWorker
  <2> QED BY <1>2, <2>1
<1>4. ASSUME UNCHANGED permits, \A j \in Inv : pc'[j] \in OwningPcs => pc[j] \in OwningPcs
      PROVE HoldsPermit'
  BY <1>4
<1>5. ASSUME NEW i \in Inv, Publish(i) PROVE HoldsPermit'
  BY <1>4, <1>5 DEF Publish
<1>6. ASSUME NEW i \in Inv,
             Submit(i) \/ Reject(i) \/ Create(i) \/ Register(i)
       PROVE HoldsPermit'
  BY <1>4, <1>6 DEF Submit, Reject, Create, Register
<1>7. ASSUME NEW i \in Inv,
             CancelledInQueue(i) \/ AcquireWorkspace(i) \/ BeginLockAttempt(i)
             \/ TryOutputBaseLock(i) \/ BeginStarting(i)
       PROVE HoldsPermit'
  BY <1>4, <1>7 DEF CancelledInQueue, CancelledWhile, AcquireWorkspace, BeginLockAttempt,
        TryOutputBaseLock, BeginStarting
<1>8. ASSUME NEW i \in Inv,
             RecordStartingFailure(i) \/ StartingRecheck(i) \/ FinishCancelled(i)
             \/ StartFailureStarting(i) \/ StartFailureReread(i) \/ StartFailureFail(i)
       PROVE HoldsPermit'
  BY <1>4, <1>8 DEF RecordStartingFailure, StartingRecheck, FinishCancelled,
        StartFailureStarting, StartFailureReread, StartFailureFail
<1>9. ASSUME NEW i \in Inv,
             TransitionStarting(i) \/ StartCheck(i) \/ Prepare(i) \/ SpawnChild(i)
             \/ SpawnFails(i) \/ TransitionRunning(i) \/ StartAborted(i) \/ ObserveExit(i)
             \/ ObserveCancellation(i) \/ ObserveTimeout(i) \/ ObserveOutputLimit(i)
             \/ SignalInterrupt(i) \/ SignalTerminate(i) \/ SignalKill(i)
             \/ ChildTerminated(i) \/ CaptureAndReduce(i) \/ CommitTerminal(i, "commit")
             \/ CommitTerminal(i, "recommit") \/ RecoverTerminalFailure(i)
             \/ ReleaseWorkspace(i)
       PROVE HoldsPermit'
  BY <1>4, <1>9 DEF TransitionStarting, StartCheck, Prepare, SpawnChild, SpawnFails,
        TransitionRunning, StartAborted, ObserveExit, ObserveCancellation, ObserveTimeout,
        ObserveOutputLimit, Signal, SignalInterrupt, SignalTerminate, SignalKill,
        ChildTerminated, CaptureAndReduce, CommitTerminal,
        RecoverTerminalFailure, FailureContext, ReleaseWorkspace, FreeIf
<1>10. ASSUME NEW i \in Inv,
             MaterializeWorkerFailure(i) \/ Remove(i)
       PROVE HoldsPermit'
  BY <1>4, <1>10 DEF MaterializeWorkerFailure, Remove
<1>11. ASSUME NEW i \in Inv,
             OutputBaseLockFails(i) \/ TransitionStartingFails(i)
             \/ FinishCancelledFails(i) \/ StartFailureStoreFails(i)
             \/ TransitionRunningFails(i) \/ CommitTerminalFails(i) \/ CancelStoreFails(i)
       PROVE HoldsPermit'
  BY <1>4, <1>11 DEF OutputBaseLockFails, TransitionStartingFails, FinishCancelledFails,
        StartFailureStoreFails, TransitionRunningFails, CommitTerminalFails,
        CancelStoreFails
<1>12. ASSUME NEW i \in Inv,
             CancelRead(i) \/ CancelToken(i) \/ CancelStore(i) \/ CancelPublish(i)
             \/ CancelReport(i) \/ ClientCancels(i) \/ StartWait(i) \/ WaitReturns(i)
             \/ WaitIsCancelled(i)
       PROVE HoldsPermit'
  BY <1>4, <1>12 DEF CancelRead, CancelToken, CancelStore, CancelPublish, CancelReport,
        ClientCancels, StartWait, WaitReturns, WaitIsOver, WaitIsCancelled
<1>13. ASSUME NEW i \in Inv, ChildExits(i) PROVE HoldsPermit'
  BY <1>4, <1>13 DEF ChildExits
<1>14. ASSUME NEW k \in Keys, OtherAcquires(k) \/ OtherReleases(k) PROVE HoldsPermit'
  BY <1>4, <1>14 DEF OtherAcquires, OtherReleases
<1>15. ASSUME CancelAllActive PROVE HoldsPermit'
  BY <1>4, <1>15 DEF CancelAllActive
<1>16. ASSUME UNCHANGED vars PROVE HoldsPermit'
  BY <1>4, <1>16 DEF vars
<1> QED
  BY <1>1, <1>3, <1>5, <1>6, <1>7, <1>8, <1>9, <1>10, <1>11, <1>12, <1>13, <1>14,
        <1>15, <1>16
     DEF Next, Quiescent, PrepareStep, QueueStep, EarlyExitStep, ExecuteStep, ExecutionProgress,
        SupervisorStep, FaultStep, ClientStep, CancelStep

\* A permit or lock is taken and dropped by its own worker, at the step that does so.
LEMMA HoldsWhatItTookStep == ServiceInv /\ [Next]_vars => HoldsWhatItTook'
<1> SUFFICES ASSUME ServiceInv, [Next]_vars PROVE HoldsWhatItTook'
  OBVIOUS
<1> USE ServiceAssumption
<1> USE DEF None, ServiceInv, TypeOK, HoldsWhatItTook, Pcs, QueuePcs, EarlyExitPcs,
        OwningPcs, ChildPcs, AfterPcs, At, Goto, Return, Store, StoreAndPublish,
        PublishState, Decide, Fault, NoFault, WorkerFrame, CancelFrame, WaitFrame, registry,
        worker, locks, admission, canceller, bounds
<1>1. ASSUME NEW i \in Inv, Publish(i) PROVE HoldsWhatItTook'
  BY <1>1 DEF Publish
<1>2. ASSUME NEW i \in Inv, PrepareStep(i) PROVE HoldsWhatItTook'
  BY <1>2 DEF PrepareStep, Submit, Reject, Create, Register
<1>3. ASSUME NEW i \in Inv, QueueStep(i) PROVE HoldsWhatItTook'
  BY <1>3 DEF QueueStep, CancelledInQueue, CancelledWhile, AcquireWorkspace,
        BeginLockAttempt, TryOutputBaseLock, AcquireExecution, BeginStarting
<1>4. ASSUME NEW i \in Inv, EarlyExitStep(i) PROVE HoldsWhatItTook'
  BY <1>4 DEF EarlyExitStep, RecordStartingFailure, StartingRecheck, FinishCancelled,
        StartFailureStarting, StartFailureReread, StartFailureFail, Unwind, AfterWorker,
        FreeIf
<1>5. ASSUME NEW i \in Inv, ExecuteStep(i) PROVE HoldsWhatItTook'
  BY <1>5 DEF ExecuteStep, ExecutionProgress, TransitionStarting, StartCheck, Prepare, SpawnChild, SpawnFails,
        TransitionRunning, StartAborted, ObserveExit, ObserveCancellation, ObserveTimeout,
        ObserveOutputLimit, Signal, SignalInterrupt, SignalTerminate, SignalKill,
        ChildTerminated, CaptureAndReduce, CommitTerminal,
        RecoverTerminalFailure, FailureContext, ReleaseWorkspace, FreeIf, ReleaseRest, AfterWorker
<1>6. ASSUME NEW i \in Inv, SupervisorStep(i) PROVE HoldsWhatItTook'
  BY <1>6 DEF SupervisorStep, MaterializeWorkerFailure, Remove
<1>7. ASSUME NEW i \in Inv, FaultStep(i) PROVE HoldsWhatItTook'
  BY <1>7 DEF FaultStep, OutputBaseLockFails, TransitionStartingFails, FinishCancelledFails,
        StartFailureStoreFails, TransitionRunningFails, CommitTerminalFails, WorkerPanics,
        FreeIf, RunPreparedPcs, CancelStoreFails
<1>8. ASSUME NEW i \in Inv, ClientStep(i) PROVE HoldsWhatItTook'
  BY <1>8 DEF ClientStep, CancelStep, CancelRead, CancelToken, CancelStore, CancelPublish,
        CancelReport, ClientCancels, StartWait, WaitReturns, WaitIsOver, WaitIsCancelled
<1>9. ASSUME NEW i \in Inv, ChildExits(i) PROVE HoldsWhatItTook'
  BY <1>9 DEF ChildExits
<1>10. ASSUME NEW k \in Keys, OtherAcquires(k) \/ OtherReleases(k) PROVE HoldsWhatItTook'
  BY <1>10 DEF OtherAcquires, OtherReleases
<1>11. ASSUME CancelAllActive PROVE HoldsWhatItTook'
  BY <1>11 DEF CancelAllActive
<1>12. ASSUME UNCHANGED vars PROVE HoldsWhatItTook'
  BY <1>12 DEF vars
<1> QED
  BY <1>1, <1>2, <1>3, <1>4, <1>5, <1>6, <1>7, <1>8, <1>9, <1>10, <1>11, <1>12
     DEF Next, Quiescent

\* The invariant holds initially.
LEMMA ServiceInit == Init => ServiceInv
<1> SUFFICES ASSUME Init PROVE ServiceInv
  OBVIOUS
<1> USE ServiceAssumption
<1>1. HoldsPermit
  BY FS_EmptySet DEF Init, HoldsPermit, OwningPcs
<1>2. TypeOK
  <2>1. faults \in 0..MaxFaults /\ otherHolds \in 0..MaxOtherHolds
    BY DEF Init
  <2>2. permits \subseteq Inv /\ pending \subseteq Inv
    BY DEF Init
  <2>3. pc \in [Inv -> Pcs]
    BY DEF Init, Pcs, QueuePcs
  <2> QED
    BY <2>1, <2>2, <2>3 DEF Init, TypeOK, None, Absent
<1>3. OwnsOutputBase /\ SupervisedChild /\ ResultWhenReturning /\ ChildMatchesWorker
  BY DEF Init, OwnsOutputBase, SupervisedChild, ResultWhenReturning, ChildMatchesWorker,
         QueuePcs, OwningPcs, ChildPcs
<1>4. AbsentBeforeCreate /\ StoredBeforePublished /\ OkMeansTerminal
      /\ PublishedTerminalIsDurable /\ StartingOrCancelled
  BY DEF Init, AbsentBeforeCreate, StoredBeforePublished, OkMeansTerminal, None,
         PublishedTerminalIsDurable, StartingOrCancelled, IsTerminal, TerminalStates
<1>5. HoldsWhatItTook
  BY DEF Init, HoldsWhatItTook
<1> QED BY <1>1, <1>2, <1>3, <1>4, <1>5 DEF ServiceInv

\* ServiceInv is inductive.
LEMMA ServiceStep == ServiceInv /\ [Next]_vars => ServiceInv'
BY TypeStep, OwnsOutputBaseStep, HoldsPermitStep, SupervisedChildStep,
   ResultWhenReturningStep, AbsentBeforeCreateStep, StoredBeforePublishedStep,
   OkMeansTerminalStep, PublishedTerminalStep, ChildMatchesWorkerStep,
   StartingOrCancelledStep, HoldsWhatItTookStep
   DEF ServiceInv

\* ServiceInv holds in every reachable state of run_prepared, execute and their callers.
THEOREM ServiceInvariance == Spec => []ServiceInv
<1>1. Init => ServiceInv
  BY ServiceInit
<1>2. ServiceInv /\ [Next]_vars => ServiceInv'
  BY ServiceStep
<1> QED BY <1>1, <1>2, PTL DEF Spec

\* Every variable keeps its type.
THEOREM ServiceTypeCorrect == Spec => []TypeOK
<1>1. ServiceInv => TypeOK
  BY DEF ServiceInv
<1> QED BY <1>1, ServiceInvariance, PTL

\* A running Bazel process owns the lock of its output base (run_prepared).
THEOREM OutputBaseIsSerialized == Spec => []SerializedOutputBase
<1>1. ServiceInv => SerializedOutputBase
  BY DEF ServiceInv, SerializedOutputBase, SupervisedChild, OwnsOutputBase, ChildPcs, OwningPcs
<1> QED BY <1>1, ServiceInvariance, PTL

\* At most global_concurrency Bazel processes run (acquire_execution).
THEOREM ConcurrencyIsLimited == Spec => []ExecutionLimit
<1>1. ServiceInv => ExecutionLimit
  <2> SUFFICES ASSUME ServiceInv PROVE ExecutionLimit
    OBVIOUS
  <2> DEFINE Running == {i \in Inv : child[i] = "alive"}
  <2>1. Running \subseteq permits
    BY DEF ServiceInv, SupervisedChild, HoldsPermit, ChildPcs, OwningPcs
  <2>2. IsFiniteSet(permits) /\ Cardinality(permits) <= GlobalConcurrency
    BY DEF ServiceInv, HoldsPermit
  <2>3. IsFiniteSet(Running) /\ Cardinality(Running) <= Cardinality(permits)
    BY <2>1, <2>2, FS_Subset
  <2>4. Cardinality(Running) \in Nat /\ Cardinality(permits) \in Nat
    BY <2>2, <2>3, FS_CardinalityType
  <2>5. Cardinality(Running) <= GlobalConcurrency
    BY <2>2, <2>3, <2>4, ServiceAssumption
  <2> QED BY <2>5 DEF ExecutionLimit
<1> QED BY <1>1, ServiceInvariance, PTL

\* No process is left running behind a result of run_prepared.
THEOREM ChildrenAreSupervised == Spec => []NoOrphanedChild
<1>1. ServiceInv => NoOrphanedChild
  BY DEF ServiceInv, NoOrphanedChild, SupervisedChild, ResultWhenReturning, ChildPcs
<1> QED BY <1>1, ServiceInvariance, PTL

\* Ok comes with a terminal record, also after store errors.
THEOREM OkResultsAreTerminal == Spec => []OkMeansTerminal
<1>1. ServiceInv => OkMeansTerminal
  BY DEF ServiceInv
<1> QED BY <1>1, ServiceInvariance, PTL

\* A terminal state on the lifecycle watch is the durable one.
THEOREM PublicationIsDurable == Spec => []PublishedTerminalIsDurable
<1>1. ServiceInv => PublishedTerminalIsDurable
  BY DEF ServiceInv
<1> QED BY <1>1, ServiceInvariance, PTL

\* What a caller may rely on, whatever fails: types, no unsupervised Bazel process, Ok
\* only with a terminal record, and nothing terminal published that is not durable
\* (run_prepared, recover_terminal_failure, transition_invocation).
THEOREM OutcomesAreReliable == Spec => []OutcomesAreHonest
<1>1. TypeOK /\ NoOrphanedChild /\ OkMeansTerminal /\ PublishedTerminalIsDurable
        => OutcomesAreHonest
  BY DEF OutcomesAreHonest
<1> QED
  BY <1>1, ServiceTypeCorrect, ChildrenAreSupervised, OkResultsAreTerminal,
     PublicationIsDurable, PTL

\* Only the waiter itself moves the waiter.
LEMMA StepsOfTheWaiter ==
    ASSUME [Next]_vars
    PROVE  \/ UNCHANGED wpc
           \/ \E j \in Inv : StartWait(j) \/ WaitReturns(j) \/ WaitIsCancelled(j)
<1> USE DEF WorkerFrame, CancelFrame
<1>1. ASSUME NEW i \in Inv, Publish(i) \/ PrepareStep(i) \/ QueueStep(i) PROVE UNCHANGED wpc
  BY <1>1 DEF Publish, PrepareStep, Submit, Reject, Create, Register, QueueStep,
        CancelledInQueue, CancelledWhile, AcquireWorkspace, BeginLockAttempt,
        TryOutputBaseLock, AcquireExecution, BeginStarting
<1>2. ASSUME NEW i \in Inv, EarlyExitStep(i) \/ SupervisorStep(i) PROVE UNCHANGED wpc
  BY <1>2 DEF EarlyExitStep, RecordStartingFailure, StartingRecheck, FinishCancelled,
        StartFailureStarting, StartFailureReread, StartFailureFail, Unwind, SupervisorStep,
        MaterializeWorkerFailure, Remove
<1>3. ASSUME NEW i \in Inv, ExecuteStep(i) PROVE UNCHANGED wpc
  BY <1>3 DEF ExecuteStep, ExecutionProgress, TransitionStarting, StartCheck, Prepare, SpawnChild, SpawnFails,
        TransitionRunning, StartAborted, ObserveExit, ObserveCancellation, ObserveTimeout,
        ObserveOutputLimit, Signal, SignalInterrupt, SignalTerminate, SignalKill,
        ChildTerminated, CaptureAndReduce, CommitTerminal, RecoverTerminalFailure, FailureContext,
        ReleaseWorkspace, ReleaseRest
<1>4. ASSUME NEW i \in Inv, FaultStep(i) PROVE UNCHANGED wpc
  BY <1>4 DEF FaultStep, OutputBaseLockFails, TransitionStartingFails, FinishCancelledFails,
        StartFailureStoreFails, TransitionRunningFails, CommitTerminalFails, WorkerPanics,
        CancelStoreFails
<1>5. ASSUME NEW i \in Inv, CancelRead(i) \/ CancelStep(i) \/ ClientCancels(i) \/ ChildExits(i)
      PROVE UNCHANGED wpc
  BY <1>5 DEF CancelRead, CancelStep, CancelToken, CancelStore, CancelPublish, CancelReport,
        ClientCancels, ChildExits
<1>6. ASSUME NEW k \in Keys, OtherAcquires(k) \/ OtherReleases(k) PROVE UNCHANGED wpc
  BY <1>6 DEF OtherAcquires, OtherReleases
<1>7. ASSUME CancelAllActive \/ Quiescent \/ UNCHANGED vars PROVE UNCHANGED wpc
  BY <1>7 DEF CancelAllActive, Quiescent, vars
<1> QED BY <1>1, <1>2, <1>3, <1>4, <1>5, <1>6, <1>7 DEF Next, ClientStep

\* A worker that is gone, whatever way it went (early return, completed execution, panic
\* or refused submission), holds no permit, mutex or file lock (run_prepared).
THEOREM FinishedWorkersHoldNothing == Spec => []DoneHoldsNothing
<1>1. ServiceInv => DoneHoldsNothing
  BY DEF ServiceInv, HoldsWhatItTook, DoneHoldsNothing
<1> QED BY <1>1, ServiceInvariance, PTL

\* wait hands out a record that can no longer change, although it may have looked only
\* at the lifecycle watch (InvocationService::wait).
THEOREM WaitIsFinal == Spec => WaitReturnsFinalRecord
<1>1. ServiceInv /\ [Next]_vars =>
        [\A i \in Inv : wpc[i] = "waiting" /\ wpc'[i] = "returned" => IsTerminal(rec[i])]_vars
  <2> SUFFICES ASSUME ServiceInv, [Next]_vars, NEW i \in Inv,
                      wpc[i] = "waiting", wpc'[i] = "returned"
               PROVE IsTerminal(rec[i])
    OBVIOUS
  <2>1. \E j \in Inv : WaitReturns(j)
    <3>1. ASSUME UNCHANGED wpc PROVE FALSE
      BY <3>1
    <3>2. ASSUME NEW j \in Inv, StartWait(j) \/ WaitIsCancelled(j) PROVE FALSE
      BY <3>2 DEF StartWait, WaitIsCancelled, ServiceInv, TypeOK
    <3>3. \/ UNCHANGED wpc
          \/ \E j \in Inv : StartWait(j) \/ WaitReturns(j) \/ WaitIsCancelled(j)
      BY StepsOfTheWaiter
    <3> QED BY <3>1, <3>2, <3>3
  <2>2. PICK j \in Inv : WaitReturns(j)
    BY <2>1
  <2>3. j = i /\ WaitIsOver(i)
    BY <2>2 DEF WaitReturns, ServiceInv, TypeOK
  <2> QED BY <2>3 DEF WaitIsOver, ServiceInv, PublishedTerminalIsDurable
<1> QED BY <1>1, ServiceInvariance, PTL DEF Spec, WaitReturnsFinalRecord

\* Where an invocation can get to once its token is cancelled while it queues: to the
\* end without a process, Starting or Failed only after a lock error, store error or panic.
NeverStarted(i) ==
    /\ token[i] /\ child[i] = "none"
    /\ pc[i] \in {"workspace", "output_base", "lock_attempt", "permit", "permitted",
                  "finish_cancelled", "start_failure", "start_failure_reread",
                  "start_failure_fail", "unwind", "materialize", "remove", "done"}
    /\ \/ faults > 0
       \/ /\ rec[i] \in {"queued", "cancelled"} /\ result[i] # "err"
          /\ pc[i] \notin {"start_failure", "start_failure_reread", "start_failure_fail",
                          "materialize"}

\* An invocation that has got there stays there.
LEMMA NeverStartedStep ==
    ASSUME NEW w \in Inv, ServiceInv, [Next]_vars, NeverStarted(w) PROVE NeverStarted(w)'
<1> USE ServiceAssumption
<1> USE DEF None, ServiceInv, TypeOK, NeverStarted, At, Goto, Return, Store, StoreAndPublish,
        PublishState, Decide, Fault, NoFault, WorkerFrame, CancelFrame, WaitFrame, registry,
        worker, locks, admission, canceller, bounds
<1>1. ASSUME NEW i \in Inv, Publish(i) PROVE NeverStarted(w)'
  BY <1>1 DEF Publish
<1>2. ASSUME NEW i \in Inv, PrepareStep(i) PROVE NeverStarted(w)'
  BY <1>2 DEF PrepareStep, Submit, Reject, Create, Register
<1>3. ASSUME NEW i \in Inv, QueueStep(i) PROVE NeverStarted(w)'
  BY <1>3 DEF QueueStep, CancelledInQueue, CancelledWhile, AcquireWorkspace,
        BeginLockAttempt, TryOutputBaseLock, AcquireExecution, BeginStarting
<1>4. ASSUME NEW i \in Inv, EarlyExitStep(i) PROVE NeverStarted(w)'
  <2>1. ASSUME RecordStartingFailure(i) \/ StartingRecheck(i) \/ FinishCancelled(i)
        PROVE NeverStarted(w)'
    BY <2>1 DEF RecordStartingFailure, StartingRecheck, FinishCancelled
  <2>2. ASSUME StartFailureStarting(i) \/ StartFailureReread(i) \/ StartFailureFail(i)
        PROVE NeverStarted(w)'
    BY <2>2 DEF StartFailureStarting, StartFailureReread, StartFailureFail
  <2>3. ASSUME Unwind(i) PROVE NeverStarted(w)'
    BY <2>3 DEF Unwind, AfterWorker
  <2> QED BY <1>4, <2>1, <2>2, <2>3 DEF EarlyExitStep
<1>5. ASSUME NEW i \in Inv, ExecuteStep(i) PROVE NeverStarted(w)'
  BY <1>5 DEF ExecuteStep, ExecutionProgress, TransitionStarting, StartCheck, Prepare, SpawnChild, SpawnFails,
        TransitionRunning, StartAborted, ObserveExit, ObserveCancellation, ObserveTimeout,
        ObserveOutputLimit, Signal, SignalInterrupt, SignalTerminate, SignalKill,
        ChildTerminated, CaptureAndReduce, CommitTerminal,
        RecoverTerminalFailure, FailureContext, ReleaseWorkspace, ReleaseRest, AfterWorker
<1>6. ASSUME NEW i \in Inv, SupervisorStep(i) PROVE NeverStarted(w)'
  BY <1>6 DEF SupervisorStep, MaterializeWorkerFailure, Remove
<1>7. ASSUME NEW i \in Inv, FaultStep(i) PROVE NeverStarted(w)'
  BY <1>7 DEF FaultStep, OutputBaseLockFails, TransitionStartingFails, FinishCancelledFails,
        StartFailureStoreFails, TransitionRunningFails, CommitTerminalFails, WorkerPanics,
        RunPreparedPcs, CancelStoreFails
<1>8. ASSUME NEW i \in Inv, ClientStep(i) PROVE NeverStarted(w)'
  BY <1>8 DEF ClientStep, CancelStep, CancelRead, CancelToken, CancelStore, CancelPublish,
        CancelReport, ClientCancels, StartWait, WaitReturns, WaitIsCancelled
<1>9. ASSUME NEW i \in Inv, ChildExits(i) PROVE NeverStarted(w)'
  BY <1>9 DEF ChildExits
<1>10. ASSUME NEW k \in Keys, OtherAcquires(k) \/ OtherReleases(k) PROVE NeverStarted(w)'
  BY <1>10 DEF OtherAcquires, OtherReleases
<1>11. ASSUME CancelAllActive PROVE NeverStarted(w)'
  BY <1>11 DEF CancelAllActive
<1>12. ASSUME UNCHANGED vars PROVE NeverStarted(w)'
  BY <1>12 DEF vars
<1> QED
  BY <1>1, <1>2, <1>3, <1>4, <1>5, <1>6, <1>7, <1>8, <1>9, <1>10, <1>11, <1>12
     DEF Next, Quiescent

\* An invocation whose token is cancelled while it waits for the mutex, the output base
\* or a permit never has a process, and is not even Starting unless something failed
\* (run_prepared: every await of the queue selects on the token).
THEOREM CancelledWaiterStaysQueued == Spec => CancelledWaiterNeverStarts
<1> SUFFICES ASSUME NEW i \in Inv
             PROVE Spec => [](token[i] /\ pc[i] \in {"workspace", "output_base", "lock_attempt", "permit"}
                      => [](child[i] = "none" /\ (rec[i] \in {"queued", "cancelled"} \/ faults > 0)))
  BY DEF CancelledWaiterNeverStarts
<1> DEFINE Waits == token[i] /\ pc[i] \in {"workspace", "output_base", "lock_attempt", "permit"}
           Stays == child[i] = "none" /\ (rec[i] \in {"queued", "cancelled"} \/ faults > 0)
<1>1. ServiceInv /\ Waits => NeverStarted(i)
  BY DEF ServiceInv, TypeOK, ResultWhenReturning, ChildMatchesWorker, QueuePcs,
         StartingOrCancelled, NeverStarted
<1>2. ServiceInv /\ [Next]_vars /\ NeverStarted(i) => NeverStarted(i)'
  BY NeverStartedStep
<1>3. NeverStarted(i) => Stays
  BY DEF NeverStarted
<1> QED BY <1>1, <1>2, <1>3, ServiceInvariance, PTL DEF Spec

\* The abstract steps a worker may take, in the terms of the abstract specification.
LEMMA AdvanceIsAllowed ==
    ASSUME NEW i \in Inv, NEW next, ValidateTransition(rec[i], next), Store(i, next),
           UNCHANGED child,
           next = "running" => child[i] # "none",
           next \in {"succeeded", "timed_out"} => child[i] = "exited",
           next = "failed" => child[i] # "alive"
    PROVE  Lifecycle!Next
<1>1. next \in States
  BY ValidNext
<1>2. next \in Lifecycle!States
  BY <1>1 DEF States, Lifecycle!States
<1>3. Lifecycle!ValidateTransition(rec[i], next)
  BY DEF ValidateTransition, Lifecycle!ValidateTransition, TerminalStates,
         Lifecycle!TerminalStates
<1>4. Lifecycle!Advance(i)
  BY <1>2, <1>3 DEF Lifecycle!Advance, Store
<1> QED BY <1>4 DEF Lifecycle!Next

\* Every step of the runner is a step of the abstract lifecycle or leaves it alone.
LEMMA LifecycleStep == ServiceInv /\ [Next]_vars => [Lifecycle!Next]_<<rec, child>>
<1> SUFFICES ASSUME ServiceInv, [Next]_vars PROVE [Lifecycle!Next]_<<rec, child>>
  OBVIOUS
<1> USE ServiceAssumption
<1> USE DEF None, Absent, ServiceInv, TypeOK, AbsentBeforeCreate, SupervisedChild,
        ChildMatchesWorker, StartingOrCancelled, OwnsOutputBase, IsTerminal, TerminalStates,
        Pcs, QueuePcs, EarlyExitPcs, OwningPcs, ChildPcs, AfterPcs, At, Goto, Return, Store,
        StoreAndPublish, PublishState, Decide, Fault, NoFault, WorkerFrame, CancelFrame,
        WaitFrame, registry, worker, locks, admission, canceller, bounds
<1>1. ASSUME NEW i \in Inv, Publish(i) PROVE [Lifecycle!Next]_<<rec, child>>
  BY <1>1 DEF Publish
<1>2. ASSUME NEW i \in Inv, Create(i) PROVE [Lifecycle!Next]_<<rec, child>>
  BY <1>2 DEF Create, Lifecycle!Next, Lifecycle!Accept, Lifecycle!Absent
<1>3. ASSUME NEW i \in Inv, TransitionStarting(i) PROVE [Lifecycle!Next]_<<rec, child>>
  BY <1>3, AdvanceIsAllowed DEF TransitionStarting
<1>4. ASSUME NEW i \in Inv, TransitionRunning(i) PROVE [Lifecycle!Next]_<<rec, child>>
  BY <1>4, AdvanceIsAllowed DEF TransitionRunning
<1>5. ASSUME NEW i \in Inv, RecordStartingFailure(i) PROVE [Lifecycle!Next]_<<rec, child>>
  BY <1>5, AdvanceIsAllowed DEF RecordStartingFailure
<1>6. ASSUME NEW i \in Inv, StartFailureFail(i) PROVE [Lifecycle!Next]_<<rec, child>>
  BY <1>6, AdvanceIsAllowed DEF StartFailureFail
<1>7. ASSUME NEW i \in Inv, MaterializeWorkerFailure(i) PROVE [Lifecycle!Next]_<<rec, child>>
  BY <1>7, AdvanceIsAllowed DEF MaterializeWorkerFailure
<1>8. ASSUME NEW i \in Inv, CancelStore(i) PROVE [Lifecycle!Next]_<<rec, child>>
  BY <1>8, AdvanceIsAllowed DEF CancelStore
<1>9. ASSUME NEW i \in Inv, FinishCancelled(i) PROVE [Lifecycle!Next]_<<rec, child>>
  BY <1>9, AdvanceIsAllowed DEF FinishCancelled, States, ValidateTransition
<1>10. ASSUME NEW i \in Inv, StartFailureStarting(i) PROVE [Lifecycle!Next]_<<rec, child>>
  BY <1>10, AdvanceIsAllowed DEF StartFailureStarting, States, ValidateTransition
<1>11. ASSUME NEW i \in Inv, NEW l \in {"commit", "recommit"}, CommitTerminal(i, l) PROVE [Lifecycle!Next]_<<rec, child>>
  <2>1. CASE ValidateTransition(rec[i], outcome[i])
    BY <1>11, <2>1, AdvanceIsAllowed DEF CommitTerminal, ValidateTransition
  <2>2. CASE ~ValidateTransition(rec[i], outcome[i])
    BY <1>11, <2>2 DEF CommitTerminal
  <2> QED BY <2>1, <2>2
<1>12. ASSUME NEW i \in Inv, SpawnChild(i) PROVE [Lifecycle!Next]_<<rec, child>>
  <2>1. \A j \in Inv : KeyOf[j] = KeyOf[i] => child[j] # "alive"
    BY <1>12 DEF SpawnChild
  <2> QED BY <1>12, <2>1 DEF SpawnChild, Lifecycle!Next, Lifecycle!Spawn
<1>13. ASSUME NEW i \in Inv, WorkerPanics(i) PROVE [Lifecycle!Next]_<<rec, child>>
  <2>1. CASE child[i] = "alive"
    BY <1>13, <2>1 DEF WorkerPanics, Lifecycle!Next, Lifecycle!Leave
  <2>2. CASE child[i] # "alive"
    <3>1. child' = child
      BY <1>13, <2>2 DEF WorkerPanics
    <3> QED BY <1>13, <3>1 DEF WorkerPanics
  <2> QED BY <2>1, <2>2
<1>14. ASSUME NEW i \in Inv, ChildExits(i) PROVE [Lifecycle!Next]_<<rec, child>>
  BY <1>14 DEF ChildExits, Lifecycle!Next, Lifecycle!Leave
<1>15. ASSUME NEW i \in Inv,
             Submit(i) \/ Reject(i) \/ Register(i)
       PROVE [Lifecycle!Next]_<<rec, child>>
  BY <1>15 DEF Submit, Reject, Register
<1>16. ASSUME NEW i \in Inv,
             CancelledInQueue(i) \/ AcquireWorkspace(i) \/ BeginLockAttempt(i)
             \/ TryOutputBaseLock(i) \/ AcquireExecution(i) \/ BeginStarting(i)
       PROVE [Lifecycle!Next]_<<rec, child>>
  BY <1>16 DEF CancelledInQueue, CancelledWhile, AcquireWorkspace, BeginLockAttempt,
        TryOutputBaseLock, AcquireExecution, BeginStarting
<1>17. ASSUME NEW i \in Inv,
             StartingRecheck(i) \/ StartFailureReread(i) \/ Unwind(i)
       PROVE [Lifecycle!Next]_<<rec, child>>
  BY <1>17 DEF StartingRecheck, StartFailureReread, Unwind, AfterWorker, FreeIf
<1>18. ASSUME NEW i \in Inv,
             StartCheck(i) \/ Prepare(i) \/ SpawnFails(i) \/ StartAborted(i)
             \/ ObserveExit(i) \/ ObserveCancellation(i) \/ ObserveTimeout(i)
             \/ ObserveOutputLimit(i) \/ ChildTerminated(i) \/ CaptureAndReduce(i)
             \/ RecoverTerminalFailure(i) \/ ReleaseWorkspace(i) \/ ReleaseRest(i)
       PROVE [Lifecycle!Next]_<<rec, child>>
  BY <1>18 DEF StartCheck, Prepare, SpawnFails, StartAborted, ObserveExit, ObserveCancellation,
        ObserveTimeout, ObserveOutputLimit, ChildTerminated, CaptureAndReduce,
        RecoverTerminalFailure, FailureContext, ReleaseWorkspace, FreeIf, ReleaseRest, AfterWorker
<1>19. ASSUME NEW i \in Inv,
             Remove(i)
       PROVE [Lifecycle!Next]_<<rec, child>>
  BY <1>19 DEF Remove
<1>20. ASSUME NEW i \in Inv,
             OutputBaseLockFails(i) \/ TransitionStartingFails(i)
             \/ FinishCancelledFails(i) \/ StartFailureStoreFails(i)
             \/ TransitionRunningFails(i) \/ CommitTerminalFails(i) \/ CancelStoreFails(i)
       PROVE [Lifecycle!Next]_<<rec, child>>
  BY <1>20 DEF OutputBaseLockFails, TransitionStartingFails, FinishCancelledFails,
        StartFailureStoreFails, TransitionRunningFails, CommitTerminalFails,
        CancelStoreFails
<1>21. ASSUME NEW i \in Inv,
             CancelRead(i) \/ CancelToken(i) \/ CancelPublish(i) \/ CancelReport(i)
             \/ ClientCancels(i) \/ StartWait(i) \/ WaitReturns(i) \/ WaitIsCancelled(i)
       PROVE [Lifecycle!Next]_<<rec, child>>
  BY <1>21 DEF CancelRead, CancelToken, CancelPublish, CancelReport, ClientCancels, StartWait,
        WaitReturns, WaitIsOver, WaitIsCancelled
<1>22. ASSUME NEW k \in Keys, OtherAcquires(k) \/ OtherReleases(k) PROVE [Lifecycle!Next]_<<rec, child>>
  BY <1>22 DEF OtherAcquires, OtherReleases
<1>23. ASSUME CancelAllActive PROVE [Lifecycle!Next]_<<rec, child>>
  BY <1>23 DEF CancelAllActive
<1>24. ASSUME UNCHANGED vars PROVE [Lifecycle!Next]_<<rec, child>>
  BY <1>24 DEF vars
<1>25. ASSUME NEW i \in Inv, SignalInterrupt(i) \/ SignalTerminate(i)
       PROVE [Lifecycle!Next]_<<rec, child>>
  <2>1. rec' = rec /\ child' = child
    BY <1>25 DEF Signal, SignalInterrupt, SignalTerminate
  <2> QED BY <2>1
<1>26. ASSUME NEW i \in Inv, SignalKill(i) PROVE [Lifecycle!Next]_<<rec, child>>
  BY <1>26 DEF Signal, SignalKill, Lifecycle!Next, Lifecycle!Leave
<1> QED
  BY <1>1, <1>2, <1>3, <1>4, <1>5, <1>6, <1>7, <1>8, <1>9, <1>10, <1>11, <1>12,
        <1>13, <1>14, <1>15, <1>16, <1>17, <1>18, <1>19, <1>20, <1>21, <1>22, <1>23, <1>24,
        <1>25, <1>26
     DEF Next, Quiescent, PrepareStep, QueueStep, EarlyExitStep, ExecuteStep, ExecutionProgress,
        SupervisorStep, FaultStep, ClientStep, CancelStep

\* The runner implements the abstract lifecycle: records follow the state machine and
\* stay terminal, each invocation spawns at most one process, one per output base at a
\* time, and a result is recorded after its process is gone.
THEOREM ServiceImplementsLifecycle == Spec => LifecycleSpec
<1>1. Init => Lifecycle!Init
  BY DEF Init, Lifecycle!Init, Absent, Lifecycle!Absent
<1>2. ServiceInv /\ [Next]_vars => [Lifecycle!Next]_<<rec, child>>
  BY LifecycleStep
<1> QED
  BY <1>1, <1>2, ServiceInvariance, PTL
     DEF Spec, LifecycleSpec, Lifecycle!Spec, Lifecycle!lifecycleVars
=============================================================================
