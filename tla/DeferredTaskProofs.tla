------------------------- MODULE DeferredTaskProofs -------------------------
(***************************************************************************)
(* Proofs about DeferredTask, for every TTL, every number of tasks/cancel  *)
(* and tasks/result calls and every bound: what the client may rely on for *)
(* its handle (HandleIsHonest), that a cancelled task stays cancelled, and *)
(* that an extension task's terminal state is final.                       *)
(*                                                                         *)
(* None is inductive.  The TTL promise needs TimesAreOrdered: an expiry    *)
(* never lies more than one TTL after the last update, so the TTL that     *)
(* extend_terminal_expiry recovers from the two is one the handler asked   *)
(* for, and PromiseIsKept carries the promise from the extension to the    *)
(* acknowledgement.  That a broken task reports an error needs that the    *)
(* supervisor stored its failure before it ends the record                 *)
(* (FailureComesFirst) and that a result is read after the end             *)
(* (ResultsFollowTheEnd).                                                  *)
(***************************************************************************)
EXTENDS DeferredTask, TLAPS

\* No timestamp is ahead of the clock, and no expiry more than a TTL after the update.
TimesAreOrdered ==
    /\ created <= updated /\ updated <= now /\ finishedAt <= now
    /\ asked <= now + TTL /\ expires <= updated + TTL

\* Before runner.submit there is neither a record nor a handle.
NothingBeforeAcceptance == spc \in {"idle", "submit"} => rec = Absent /\ ~kept

\* From the extension on, the stored expiry covers one TTL from the creation.
PromiseIsKept == spc \in {"review", "acknowledged"} /\ kept => expires >= created + TTL

\* A supervisor past its first store operation left the failure in the handle, unless
\* the store failed or the handle was gone; so did one that ended the record.
FailureComesFirst ==
    /\ wpc \in {"recheck", "fail"} => failure \/ swallowed \/ ~kept
    /\ broken => failure \/ swallowed

\* tasks/result reads the handle when the record has ended.
ResultsFollowTheEnd == \A r \in Results : rpc[r] \in {"view", "ok"} => IsTerminal(rec)

\* Only a legacy call waits for the override it then replies with.
RepliesFollowTheOverride ==
    \A c \in Cancels :
        /\ cpc[c] \in {"wait", "override", "view"} => retrieval = Legacy
        /\ cpc[c] = "view" => override
        /\ reply[c] # NoReply => reply[c] = "cancelled" /\ override /\ retrieval = Legacy

TaskInv ==
    /\ TypeOK
    /\ TimesAreOrdered
    /\ NothingBeforeAcceptance
    /\ NonterminalNeverPurged
    /\ PromiseIsKept
    /\ AcknowledgedHandleLivesOneTTL
    /\ FailureComesFirst
    /\ ResultsFollowTheEnd
    /\ BrokenTaskReportsError
    /\ RepliesFollowTheOverride

-----------------------------------------------------------------------------
(* What the store operations on the handle do                               *)

\* The end of the record never shortens the expiry, and leaves it within one TTL of the
\* update (extend_terminal_expiry).
LEMMA EndingExtends ==
    ASSUME TaskInv, NEW s \in States, EndInvocation(s)
    PROVE  /\ rec' = s /\ finishedAt' = now
           /\ expires' \in Nat /\ updated' \in Nat
           /\ expires <= expires' /\ updated <= updated' /\ updated' <= now
           /\ expires' <= updated' + TTL
           /\ UNCHANGED <<kept, created, requested, override, failure>>
<1>1. /\ now \in Nat /\ expires \in Nat /\ updated \in Nat
      /\ updated <= now /\ expires <= updated + TTL
  BY TaskAssumption DEF TaskInv, TypeOK, TimesAreOrdered, Time
<1>2. ConfiguredTTL \in Nat /\ ConfiguredTTL <= TTL
  BY <1>1, TaskAssumption DEF ConfiguredTTL, Later
<1> HIDE DEF ConfiguredTTL
<1>3. CASE kept
  BY <1>1, <1>2, <1>3, TaskAssumption DEF EndInvocation, ExtendTerminalExpiry, Later
<1>4. CASE ~kept
  BY <1>1, <1>4, TaskAssumption DEF EndInvocation
<1> QED  BY <1>3, <1>4

\* A lookup that fails takes at most the handle, and only that of an ended task whose
\* expiry has passed.
LEMMA ViewFailsKeeps ==
    ASSUME TaskInv, ViewFails
    PROVE  /\ kept' \in BOOLEAN /\ (kept' => kept)
           /\ kept /\ ~kept' => IsTerminal(rec) /\ expires <= now
           /\ UNCHANGED <<created, updated, expires, requested, override, failure>>
<1>1. CASE IsExpired
  BY <1>1 DEF ViewFails, IsExpired, RemoveHandle
<1>2. CASE ~IsExpired
  BY <1>2 DEF ViewFails, handle, TaskInv, TypeOK
<1> QED  BY <1>1, <1>2

\* An update never moves the update time back or ahead of the clock.
LEMMA TouchKeeps ==
    ASSUME TaskInv, Touch
    PROVE  updated' \in Nat /\ updated <= updated' /\ updated' <= now
BY TaskAssumption DEF TaskInv, TypeOK, TimesAreOrdered, Time, Touch, Later

-----------------------------------------------------------------------------
(* One lemma per operation                                                  *)

\* The handler's expiry is one TTL ahead of its clock.
LEMMA ComputeExpiryKeeps ==
    ASSUME TaskInv, ComputeExpiry
    PROVE  TaskInv'
<1>n. /\ now \in Nat /\ created \in Nat /\ updated \in Nat
      /\ expires \in Nat /\ asked \in Nat /\ finishedAt \in Nat /\ TTL \in Nat
  BY TaskAssumption DEF TaskInv, TypeOK, Time
<1>1. TimesAreOrdered'
  BY <1>n DEF TaskInv, TimesAreOrdered, ComputeExpiry, SubmitFrame, clock, runner,
    handle
<1>b. {up', kept', requested', override', failure', broken', swallowed', token',
       expired'} \subseteq BOOLEAN
  BY Zenon DEF TaskInv, TypeOK, ComputeExpiry, SubmitFrame, clock, runner, handle
<1>2. TypeOK'
  BY <1>n, <1>b, <1>1, TaskAssumption DEF TaskInv, TypeOK, TimesAreOrdered, Time,
    TaskStates, Legacy, Inline, NoReply, ComputeExpiry, SubmitFrame, NoFault, clock,
    runner, cancels, results, handle, bounds, States, TerminalStates
<1>3. NothingBeforeAcceptance'
  BY DEF TaskInv, NothingBeforeAcceptance, ComputeExpiry, SubmitFrame, runner,
    handle, States, TerminalStates, Absent
<1>4. NonterminalNeverPurged'
  BY DEF TaskInv, NonterminalNeverPurged, NothingBeforeAcceptance, ComputeExpiry,
    SubmitFrame, runner, handle, IsTerminal, States, TerminalStates, Absent
<1>5. PromiseIsKept'
  BY <1>n DEF TaskInv, PromiseIsKept, NothingBeforeAcceptance, ComputeExpiry,
    SubmitFrame, handle
<1>6. AcknowledgedHandleLivesOneTTL'
  BY <1>n DEF TaskInv, AcknowledgedHandleLivesOneTTL, PromiseIsKept, TimesAreOrdered,
    ComputeExpiry, SubmitFrame, clock, handle
<1>7. FailureComesFirst'
  BY DEF TaskInv, FailureComesFirst, NonterminalNeverPurged, ComputeExpiry,
    SubmitFrame, runner, handle, IsTerminal, States, TerminalStates, Absent
<1>8. ResultsFollowTheEnd'
  BY DEF TaskInv, ResultsFollowTheEnd, NothingBeforeAcceptance, TypeOK,
    ComputeExpiry, SubmitFrame, runner, results, IsTerminal, States, TerminalStates,
    Absent
<1>9. BrokenTaskReportsError'
  BY DEF TaskInv, BrokenTaskReportsError, FailureComesFirst, ResultsFollowTheEnd,
    TypeOK, ComputeExpiry, SubmitFrame, runner, results, handle, IsTerminal, States,
    TerminalStates, Absent
<1>10. RepliesFollowTheOverride'
  BY DEF TaskInv, RepliesFollowTheOverride, TypeOK, Legacy, Inline, NoReply,
    TaskStates, ComputeExpiry, SubmitFrame, cancels, handle
<1> QED  BY <1>1, <1>2, <1>3, <1>4, <1>5, <1>6, <1>7, <1>8, <1>9, <1>10 DEF TaskInv

\* The acceptance starts a handle that lives at most a TTL after it was updated.
LEMMA AcceptKeeps ==
    ASSUME TaskInv, Accept
    PROVE  TaskInv'
<1>n. /\ now \in Nat /\ created \in Nat /\ updated \in Nat
      /\ expires \in Nat /\ asked \in Nat /\ finishedAt \in Nat /\ TTL \in Nat
  BY TaskAssumption DEF TaskInv, TypeOK, Time
<1>1. TimesAreOrdered'
  BY <1>n, TaskAssumption DEF TaskInv, TimesAreOrdered, Accept, Later, SubmitFrame,
    clock, runner, handle
<1>b. {up', kept', requested', override', failure', broken', swallowed', token',
       expired'} \subseteq BOOLEAN
  BY Zenon DEF TaskInv, TypeOK, Accept, Later, SubmitFrame, clock, runner, handle
<1>2. TypeOK'
  BY <1>n, <1>b, <1>1, TaskAssumption DEF TaskInv, TypeOK, TimesAreOrdered, Time,
    TaskStates, Legacy, Inline, NoReply, Accept, Later, SubmitFrame, NoFault, clock,
    runner, cancels, results, handle, bounds, States, TerminalStates
<1>3. NothingBeforeAcceptance'
  BY DEF TaskInv, NothingBeforeAcceptance, Accept, Later, SubmitFrame, runner,
    handle, States, TerminalStates, Absent
<1>4. NonterminalNeverPurged'
  BY DEF TaskInv, NonterminalNeverPurged, NothingBeforeAcceptance, Accept, Later,
    SubmitFrame, runner, handle, IsTerminal, States, TerminalStates, Absent
<1>5. PromiseIsKept'
  BY <1>n DEF TaskInv, PromiseIsKept, NothingBeforeAcceptance, Accept, Later,
    SubmitFrame, handle
<1>6. AcknowledgedHandleLivesOneTTL'
  BY <1>n DEF TaskInv, AcknowledgedHandleLivesOneTTL, PromiseIsKept, TimesAreOrdered,
    Accept, Later, SubmitFrame, clock, handle
<1>7. FailureComesFirst'
  BY DEF TaskInv, FailureComesFirst, NonterminalNeverPurged, Accept, Later,
    SubmitFrame, runner, handle, IsTerminal, States, TerminalStates, Absent
<1>8. ResultsFollowTheEnd'
  BY DEF TaskInv, ResultsFollowTheEnd, NothingBeforeAcceptance, TypeOK, Accept,
    Later, SubmitFrame, runner, results, IsTerminal, States, TerminalStates, Absent
<1>9. BrokenTaskReportsError'
  BY DEF TaskInv, BrokenTaskReportsError, FailureComesFirst, ResultsFollowTheEnd,
    TypeOK, Accept, Later, SubmitFrame, runner, results, handle, IsTerminal, States,
    TerminalStates, Absent
<1>10. RepliesFollowTheOverride'
  BY DEF TaskInv, RepliesFollowTheOverride, TypeOK, Legacy, Inline, NoReply,
    TaskStates, Accept, Later, SubmitFrame, cancels, handle
<1> QED  BY <1>1, <1>2, <1>3, <1>4, <1>5, <1>6, <1>7, <1>8, <1>9, <1>10 DEF TaskInv

\* The view acknowledges only a handle whose expiry covers the TTL.
LEMMA ViewSubmittedKeeps ==
    ASSUME TaskInv, ViewSubmitted
    PROVE  TaskInv'
<1>n. /\ now \in Nat /\ created \in Nat /\ updated \in Nat
      /\ expires \in Nat /\ asked \in Nat /\ finishedAt \in Nat /\ TTL \in Nat
  BY TaskAssumption DEF TaskInv, TypeOK, Time
<1>v. ViewFails => /\ kept' \in BOOLEAN /\ (kept' => kept)
                   /\ kept /\ ~kept' => IsTerminal(rec) /\ expires <= now
                   /\ UNCHANGED <<created, updated, expires, requested, override, failure>>
  BY ViewFailsKeeps
<1>1. TimesAreOrdered'
  BY <1>v, <1>n DEF TaskInv, TimesAreOrdered, ViewSubmitted, Viewable, SubmitFrame,
    clock, runner, handle
<1>b. {up', kept', requested', override', failure', broken', swallowed', token',
       expired'} \subseteq BOOLEAN
  BY <1>v, Zenon DEF TaskInv, TypeOK, ViewSubmitted, Viewable, SubmitFrame, clock,
    runner, handle
<1>2. TypeOK'
  BY <1>v, <1>n, <1>b, <1>1, TaskAssumption DEF TaskInv, TypeOK, TimesAreOrdered,
    Time, TaskStates, Legacy, Inline, NoReply, ViewSubmitted, Viewable, SubmitFrame,
    NoFault, clock, runner, cancels, results, handle, bounds, States, TerminalStates
<1>3. NothingBeforeAcceptance'
  BY <1>v DEF TaskInv, NothingBeforeAcceptance, ViewSubmitted, Viewable, SubmitFrame,
    runner, handle, States, TerminalStates, Absent
<1>4. NonterminalNeverPurged'
  BY <1>v DEF TaskInv, NonterminalNeverPurged, NothingBeforeAcceptance, ViewSubmitted,
    Viewable, SubmitFrame, runner, handle, IsTerminal, States, TerminalStates, Absent
<1>5. PromiseIsKept'
  <2>1. CASE Viewable /\ UNCHANGED handle
             /\ spc' = IF expires < created + TTL THEN "extend" ELSE "acknowledged"
    BY <2>1, <1>n DEF PromiseIsKept, handle
  <2>2. CASE ViewFails /\ spc' = "error"
    BY <2>2 DEF PromiseIsKept
  <2> QED  BY <2>1, <2>2 DEF ViewSubmitted
<1>6. AcknowledgedHandleLivesOneTTL'
  BY <1>v, <1>n DEF TaskInv, AcknowledgedHandleLivesOneTTL, PromiseIsKept,
    TimesAreOrdered, ViewSubmitted, Viewable, SubmitFrame, clock, handle
<1>7. FailureComesFirst'
  BY <1>v DEF TaskInv, FailureComesFirst, NonterminalNeverPurged, ViewSubmitted,
    Viewable, SubmitFrame, runner, handle, IsTerminal, States, TerminalStates, Absent
<1>8. ResultsFollowTheEnd'
  BY <1>v DEF TaskInv, ResultsFollowTheEnd, NothingBeforeAcceptance, TypeOK,
    ViewSubmitted, Viewable, SubmitFrame, runner, results, IsTerminal, States,
    TerminalStates, Absent
<1>9. BrokenTaskReportsError'
  BY <1>v DEF TaskInv, BrokenTaskReportsError, FailureComesFirst, ResultsFollowTheEnd,
    TypeOK, ViewSubmitted, Viewable, SubmitFrame, runner, results, handle, IsTerminal,
    States, TerminalStates, Absent
<1>10. RepliesFollowTheOverride'
  BY <1>v DEF TaskInv, RepliesFollowTheOverride, TypeOK, Legacy, Inline, NoReply,
    TaskStates, ViewSubmitted, Viewable, SubmitFrame, cancels, handle
<1> QED  BY <1>1, <1>2, <1>3, <1>4, <1>5, <1>6, <1>7, <1>8, <1>9, <1>10 DEF TaskInv

\* The extension makes the expiry cover the TTL.
LEMMA ExtendSubmittedKeeps ==
    ASSUME TaskInv, ExtendSubmitted
    PROVE  TaskInv'
<1>n. /\ now \in Nat /\ created \in Nat /\ updated \in Nat
      /\ expires \in Nat /\ asked \in Nat /\ finishedAt \in Nat /\ TTL \in Nat
  BY TaskAssumption DEF TaskInv, TypeOK, Time
<1>t. Touch => updated' \in Nat /\ updated <= updated' /\ updated' <= now
  BY TouchKeeps
<1>1. TimesAreOrdered'
  BY <1>t, <1>n DEF TaskInv, TimesAreOrdered, ExtendSubmitted, ExtendExpiry, Later,
    SubmitFrame, clock, runner, handle
<1>b. {up', kept', requested', override', failure', broken', swallowed', token',
       expired'} \subseteq BOOLEAN
  BY <1>t, Zenon DEF TaskInv, TypeOK, ExtendSubmitted, ExtendExpiry, Later,
    SubmitFrame, clock, runner, handle
<1>2. TypeOK'
  BY <1>t, <1>n, <1>b, <1>1, TaskAssumption DEF TaskInv, TypeOK, TimesAreOrdered,
    Time, TaskStates, Legacy, Inline, NoReply, ExtendSubmitted, ExtendExpiry, Later,
    SubmitFrame, NoFault, clock, runner, cancels, results, handle, bounds, States,
    TerminalStates
<1>3. NothingBeforeAcceptance'
  BY <1>t DEF TaskInv, NothingBeforeAcceptance, ExtendSubmitted, ExtendExpiry, Later,
    SubmitFrame, runner, handle, States, TerminalStates, Absent
<1>4. NonterminalNeverPurged'
  BY <1>t DEF TaskInv, NonterminalNeverPurged, NothingBeforeAcceptance,
    ExtendSubmitted, ExtendExpiry, Later, SubmitFrame, runner, handle, IsTerminal,
    States, TerminalStates, Absent
<1>5. PromiseIsKept'
  <2>1. CASE ExtendExpiry(created + TTL) /\ spc' = "review"
    BY <2>1, <1>n DEF PromiseIsKept, ExtendExpiry, Later
  <2>2. CASE ~kept /\ UNCHANGED handle /\ spc' = "error"
    BY <2>2 DEF PromiseIsKept
  <2> QED  BY <2>1, <2>2 DEF ExtendSubmitted
<1>6. AcknowledgedHandleLivesOneTTL'
  BY <1>t, <1>n DEF TaskInv, AcknowledgedHandleLivesOneTTL, PromiseIsKept,
    TimesAreOrdered, ExtendSubmitted, ExtendExpiry, Later, SubmitFrame, clock, handle
<1>7. FailureComesFirst'
  BY <1>t DEF TaskInv, FailureComesFirst, NonterminalNeverPurged, ExtendSubmitted,
    ExtendExpiry, Later, SubmitFrame, runner, handle, IsTerminal, States,
    TerminalStates, Absent
<1>8. ResultsFollowTheEnd'
  BY <1>t DEF TaskInv, ResultsFollowTheEnd, NothingBeforeAcceptance, TypeOK,
    ExtendSubmitted, ExtendExpiry, Later, SubmitFrame, runner, results, IsTerminal,
    States, TerminalStates, Absent
<1>9. BrokenTaskReportsError'
  BY <1>t DEF TaskInv, BrokenTaskReportsError, FailureComesFirst, ResultsFollowTheEnd,
    TypeOK, ExtendSubmitted, ExtendExpiry, Later, SubmitFrame, runner, results,
    handle, IsTerminal, States, TerminalStates, Absent
<1>10. RepliesFollowTheOverride'
  BY <1>t DEF TaskInv, RepliesFollowTheOverride, TypeOK, Legacy, Inline, NoReply,
    TaskStates, ExtendSubmitted, ExtendExpiry, Later, SubmitFrame, cancels, handle
<1> QED  BY <1>1, <1>2, <1>3, <1>4, <1>5, <1>6, <1>7, <1>8, <1>9, <1>10 DEF TaskInv

\* The second view removes only an expired handle.
LEMMA ReviewSubmittedKeeps ==
    ASSUME TaskInv, ReviewSubmitted
    PROVE  TaskInv'
<1>n. /\ now \in Nat /\ created \in Nat /\ updated \in Nat
      /\ expires \in Nat /\ asked \in Nat /\ finishedAt \in Nat /\ TTL \in Nat
  BY TaskAssumption DEF TaskInv, TypeOK, Time
<1>v. ViewFails => /\ kept' \in BOOLEAN /\ (kept' => kept)
                   /\ kept /\ ~kept' => IsTerminal(rec) /\ expires <= now
                   /\ UNCHANGED <<created, updated, expires, requested, override, failure>>
  BY ViewFailsKeeps
<1>1. TimesAreOrdered'
  BY <1>v, <1>n DEF TaskInv, TimesAreOrdered, ReviewSubmitted, Viewable, SubmitFrame,
    clock, runner, handle
<1>b. {up', kept', requested', override', failure', broken', swallowed', token',
       expired'} \subseteq BOOLEAN
  BY <1>v, Zenon DEF TaskInv, TypeOK, ReviewSubmitted, Viewable, SubmitFrame, clock,
    runner, handle
<1>2. TypeOK'
  BY <1>v, <1>n, <1>b, <1>1, TaskAssumption DEF TaskInv, TypeOK, TimesAreOrdered,
    Time, TaskStates, Legacy, Inline, NoReply, ReviewSubmitted, Viewable, SubmitFrame,
    NoFault, clock, runner, cancels, results, handle, bounds, States, TerminalStates
<1>3. NothingBeforeAcceptance'
  BY <1>v DEF TaskInv, NothingBeforeAcceptance, ReviewSubmitted, Viewable,
    SubmitFrame, runner, handle, States, TerminalStates, Absent
<1>4. NonterminalNeverPurged'
  BY <1>v DEF TaskInv, NonterminalNeverPurged, NothingBeforeAcceptance,
    ReviewSubmitted, Viewable, SubmitFrame, runner, handle, IsTerminal, States,
    TerminalStates, Absent
<1>5. PromiseIsKept'
  BY <1>v, <1>n DEF TaskInv, PromiseIsKept, NothingBeforeAcceptance, ReviewSubmitted,
    Viewable, SubmitFrame, handle
<1>6. AcknowledgedHandleLivesOneTTL'
  BY <1>v, <1>n DEF TaskInv, AcknowledgedHandleLivesOneTTL, PromiseIsKept,
    TimesAreOrdered, ReviewSubmitted, Viewable, SubmitFrame, clock, handle
<1>7. FailureComesFirst'
  BY <1>v DEF TaskInv, FailureComesFirst, NonterminalNeverPurged, ReviewSubmitted,
    Viewable, SubmitFrame, runner, handle, IsTerminal, States, TerminalStates, Absent
<1>8. ResultsFollowTheEnd'
  BY <1>v DEF TaskInv, ResultsFollowTheEnd, NothingBeforeAcceptance, TypeOK,
    ReviewSubmitted, Viewable, SubmitFrame, runner, results, IsTerminal, States,
    TerminalStates, Absent
<1>9. BrokenTaskReportsError'
  BY <1>v DEF TaskInv, BrokenTaskReportsError, FailureComesFirst, ResultsFollowTheEnd,
    TypeOK, ReviewSubmitted, Viewable, SubmitFrame, runner, results, handle,
    IsTerminal, States, TerminalStates, Absent
<1>10. RepliesFollowTheOverride'
  BY <1>v DEF TaskInv, RepliesFollowTheOverride, TypeOK, Legacy, Inline, NoReply,
    TaskStates, ReviewSubmitted, Viewable, SubmitFrame, cancels, handle
<1> QED  BY <1>1, <1>2, <1>3, <1>4, <1>5, <1>6, <1>7, <1>8, <1>9, <1>10 DEF TaskInv

\* The worker advances a record that has not ended.
LEMMA WorkerAdvancesKeeps ==
    ASSUME TaskInv, NEW s \in States, WorkerAdvances(s)
    PROVE  TaskInv'
<1>n. /\ now \in Nat /\ created \in Nat /\ updated \in Nat
      /\ expires \in Nat /\ asked \in Nat /\ finishedAt \in Nat /\ TTL \in Nat
  BY TaskAssumption DEF TaskInv, TypeOK, Time
<1>1. TimesAreOrdered'
  BY <1>n DEF TaskInv, TimesAreOrdered, WorkerAdvances, ValidateTransition,
    RunnerFrame, clock, submit, handle
<1>b. {up', kept', requested', override', failure', broken', swallowed', token',
       expired'} \subseteq BOOLEAN
  BY Zenon DEF TaskInv, TypeOK, WorkerAdvances, ValidateTransition, RunnerFrame,
    clock, handle
<1>2. TypeOK'
  BY <1>n, <1>b, <1>1, TaskAssumption DEF TaskInv, TypeOK, TimesAreOrdered, Time,
    TaskStates, Legacy, Inline, NoReply, WorkerAdvances, ValidateTransition,
    RunnerFrame, NoFault, Fault, clock, submit, cancels, results, handle, bounds,
    States, TerminalStates
<1>3. NothingBeforeAcceptance'
  BY DEF TaskInv, NothingBeforeAcceptance, WorkerAdvances, ValidateTransition,
    RunnerFrame, submit, handle, States, TerminalStates, Absent
<1>4. NonterminalNeverPurged'
  BY DEF TaskInv, NonterminalNeverPurged, NothingBeforeAcceptance, WorkerAdvances,
    ValidateTransition, RunnerFrame, handle, IsTerminal, States, TerminalStates,
    Absent
<1>5. PromiseIsKept'
  BY <1>n DEF TaskInv, PromiseIsKept, NothingBeforeAcceptance, WorkerAdvances,
    ValidateTransition, RunnerFrame, submit, handle
<1>6. AcknowledgedHandleLivesOneTTL'
  BY <1>n DEF TaskInv, AcknowledgedHandleLivesOneTTL, PromiseIsKept, TimesAreOrdered,
    WorkerAdvances, ValidateTransition, RunnerFrame, clock, submit, handle
<1>7. FailureComesFirst'
  BY DEF TaskInv, FailureComesFirst, NonterminalNeverPurged, WorkerAdvances,
    ValidateTransition, RunnerFrame, handle, IsTerminal, States, TerminalStates,
    Absent
<1>8. ResultsFollowTheEnd'
  BY DEF TaskInv, ResultsFollowTheEnd, NothingBeforeAcceptance, TypeOK,
    WorkerAdvances, ValidateTransition, RunnerFrame, results, IsTerminal, States,
    TerminalStates, Absent
<1>9. BrokenTaskReportsError'
  BY DEF TaskInv, BrokenTaskReportsError, FailureComesFirst, ResultsFollowTheEnd,
    TypeOK, WorkerAdvances, ValidateTransition, RunnerFrame, results, handle,
    IsTerminal, States, TerminalStates, Absent
<1>10. RepliesFollowTheOverride'
  BY DEF TaskInv, RepliesFollowTheOverride, TypeOK, Legacy, Inline, NoReply,
    TaskStates, WorkerAdvances, ValidateTransition, RunnerFrame, cancels, handle
<1> QED  BY <1>1, <1>2, <1>3, <1>4, <1>5, <1>6, <1>7, <1>8, <1>9, <1>10 DEF TaskInv

\* The worker ends the record, which extends the expiry.
LEMMA WorkerFinishesKeeps ==
    ASSUME TaskInv, NEW s \in States, WorkerFinishes(s)
    PROVE  TaskInv'
<1>n. /\ now \in Nat /\ created \in Nat /\ updated \in Nat
      /\ expires \in Nat /\ asked \in Nat /\ finishedAt \in Nat /\ TTL \in Nat
  BY TaskAssumption DEF TaskInv, TypeOK, Time
<1>e. \A t \in States : EndInvocation(t) =>
           /\ rec' = t /\ finishedAt' = now
           /\ expires' \in Nat /\ updated' \in Nat
           /\ expires <= expires' /\ updated <= updated' /\ updated' <= now
           /\ expires' <= updated' + TTL
           /\ UNCHANGED <<kept, created, requested, override, failure>>
  BY EndingExtends
<1>1. TimesAreOrdered'
  BY <1>e, <1>n DEF TaskInv, TimesAreOrdered, WorkerFinishes, ValidateTransition,
    RunnerFrame, clock, submit, handle, States, TerminalStates
<1>b. {up', kept', requested', override', failure', broken', swallowed', token',
       expired'} \subseteq BOOLEAN
  BY <1>e, Zenon DEF TaskInv, TypeOK, WorkerFinishes, ValidateTransition, RunnerFrame,
    clock, handle, States, TerminalStates
<1>2. TypeOK'
  BY <1>e, <1>n, <1>b, <1>1, TaskAssumption DEF TaskInv, TypeOK, TimesAreOrdered,
    Time, TaskStates, Legacy, Inline, NoReply, WorkerFinishes, ValidateTransition,
    RunnerFrame, NoFault, Fault, clock, submit, cancels, results, handle, bounds,
    States, TerminalStates
<1>3. NothingBeforeAcceptance'
  BY <1>e DEF TaskInv, NothingBeforeAcceptance, WorkerFinishes, ValidateTransition,
    RunnerFrame, submit, handle, States, TerminalStates, Absent
<1>4. NonterminalNeverPurged'
  BY <1>e DEF TaskInv, NonterminalNeverPurged, NothingBeforeAcceptance,
    WorkerFinishes, ValidateTransition, RunnerFrame, handle, IsTerminal, States,
    TerminalStates, Absent
<1>5. PromiseIsKept'
  <2>1. /\ spc' = spc /\ created' = created /\ kept' = kept
        /\ expires' \in Nat /\ expires <= expires'
    BY <1>e, <1>n DEF WorkerFinishes, ValidateTransition, RunnerFrame, submit, handle,
      States, TerminalStates
  <2> QED  BY <2>1, <1>n DEF TaskInv, PromiseIsKept
<1>6. AcknowledgedHandleLivesOneTTL'
  BY <1>e, <1>n DEF TaskInv, AcknowledgedHandleLivesOneTTL, PromiseIsKept,
    TimesAreOrdered, WorkerFinishes, ValidateTransition, RunnerFrame, clock, submit,
    handle, States, TerminalStates
<1>7. FailureComesFirst'
  BY <1>e DEF TaskInv, FailureComesFirst, NonterminalNeverPurged, WorkerFinishes,
    ValidateTransition, RunnerFrame, handle, IsTerminal, States, TerminalStates,
    Absent
<1>8. ResultsFollowTheEnd'
  BY <1>e DEF TaskInv, ResultsFollowTheEnd, NothingBeforeAcceptance, TypeOK,
    WorkerFinishes, ValidateTransition, RunnerFrame, results, IsTerminal, States,
    TerminalStates, Absent
<1>9. BrokenTaskReportsError'
  BY <1>e DEF TaskInv, BrokenTaskReportsError, FailureComesFirst, ResultsFollowTheEnd,
    TypeOK, WorkerFinishes, ValidateTransition, RunnerFrame, results, handle,
    IsTerminal, States, TerminalStates, Absent
<1>10. RepliesFollowTheOverride'
  BY <1>e DEF TaskInv, RepliesFollowTheOverride, TypeOK, Legacy, Inline, NoReply,
    TaskStates, WorkerFinishes, ValidateTransition, RunnerFrame, cancels, handle,
    States, TerminalStates
<1> QED  BY <1>1, <1>2, <1>3, <1>4, <1>5, <1>6, <1>7, <1>8, <1>9, <1>10 DEF TaskInv

\* A worker that finds its record ended changes no durable state.
LEMMA WorkerObservesEndKeeps ==
    ASSUME TaskInv, WorkerObservesEnd
    PROVE  TaskInv'
<1>n. /\ now \in Nat /\ created \in Nat /\ updated \in Nat
      /\ expires \in Nat /\ asked \in Nat /\ finishedAt \in Nat /\ TTL \in Nat
  BY TaskAssumption DEF TaskInv, TypeOK, Time
<1>1. TimesAreOrdered'
  BY <1>n DEF TaskInv, TimesAreOrdered, WorkerObservesEnd, RunnerFrame, clock, submit,
    handle
<1>b. {up', kept', requested', override', failure', broken', swallowed', token',
       expired'} \subseteq BOOLEAN
  BY Zenon DEF TaskInv, TypeOK, WorkerObservesEnd, RunnerFrame, clock, handle
<1>2. TypeOK'
  BY <1>n, <1>b, <1>1, TaskAssumption DEF TaskInv, TypeOK, TimesAreOrdered, Time,
    TaskStates, Legacy, Inline, NoReply, WorkerObservesEnd, RunnerFrame, NoFault,
    Fault, clock, submit, cancels, results, handle, bounds, States, TerminalStates
<1>3. NothingBeforeAcceptance'
  BY DEF TaskInv, NothingBeforeAcceptance, WorkerObservesEnd, RunnerFrame, submit,
    handle, States, TerminalStates, Absent
<1>4. NonterminalNeverPurged'
  BY DEF TaskInv, NonterminalNeverPurged, NothingBeforeAcceptance, WorkerObservesEnd,
    RunnerFrame, handle, IsTerminal, States, TerminalStates, Absent
<1>5. PromiseIsKept'
  BY <1>n DEF TaskInv, PromiseIsKept, NothingBeforeAcceptance, WorkerObservesEnd,
    RunnerFrame, submit, handle
<1>6. AcknowledgedHandleLivesOneTTL'
  BY <1>n DEF TaskInv, AcknowledgedHandleLivesOneTTL, PromiseIsKept, TimesAreOrdered,
    WorkerObservesEnd, RunnerFrame, clock, submit, handle
<1>7. FailureComesFirst'
  BY DEF TaskInv, FailureComesFirst, NonterminalNeverPurged, WorkerObservesEnd,
    RunnerFrame, handle, IsTerminal, States, TerminalStates, Absent
<1>8. ResultsFollowTheEnd'
  BY DEF TaskInv, ResultsFollowTheEnd, NothingBeforeAcceptance, TypeOK,
    WorkerObservesEnd, RunnerFrame, results, IsTerminal, States, TerminalStates,
    Absent
<1>9. BrokenTaskReportsError'
  BY DEF TaskInv, BrokenTaskReportsError, FailureComesFirst, ResultsFollowTheEnd,
    TypeOK, WorkerObservesEnd, RunnerFrame, results, handle, IsTerminal, States,
    TerminalStates, Absent
<1>10. RepliesFollowTheOverride'
  BY DEF TaskInv, RepliesFollowTheOverride, TypeOK, Legacy, Inline, NoReply,
    TaskStates, WorkerObservesEnd, RunnerFrame, cancels, handle
<1> QED  BY <1>1, <1>2, <1>3, <1>4, <1>5, <1>6, <1>7, <1>8, <1>9, <1>10 DEF TaskInv

\* A failing worker leaves the rest to its supervisor.
LEMMA WorkerFailsKeeps ==
    ASSUME TaskInv, WorkerFails
    PROVE  TaskInv'
<1>n. /\ now \in Nat /\ created \in Nat /\ updated \in Nat
      /\ expires \in Nat /\ asked \in Nat /\ finishedAt \in Nat /\ TTL \in Nat
  BY TaskAssumption DEF TaskInv, TypeOK, Time
<1>1. TimesAreOrdered'
  BY <1>n DEF TaskInv, TimesAreOrdered, WorkerFails, RunnerFrame, clock, submit,
    handle
<1>b. {up', kept', requested', override', failure', broken', swallowed', token',
       expired'} \subseteq BOOLEAN
  BY Zenon DEF TaskInv, TypeOK, WorkerFails, RunnerFrame, clock, handle
<1>2. TypeOK'
  BY <1>n, <1>b, <1>1, TaskAssumption DEF TaskInv, TypeOK, TimesAreOrdered, Time,
    TaskStates, Legacy, Inline, NoReply, WorkerFails, RunnerFrame, NoFault, Fault,
    clock, submit, cancels, results, handle, bounds, States, TerminalStates
<1>3. NothingBeforeAcceptance'
  BY DEF TaskInv, NothingBeforeAcceptance, WorkerFails, RunnerFrame, submit, handle,
    States, TerminalStates, Absent
<1>4. NonterminalNeverPurged'
  BY DEF TaskInv, NonterminalNeverPurged, NothingBeforeAcceptance, WorkerFails,
    RunnerFrame, handle, IsTerminal, States, TerminalStates, Absent
<1>5. PromiseIsKept'
  BY <1>n DEF TaskInv, PromiseIsKept, NothingBeforeAcceptance, WorkerFails,
    RunnerFrame, submit, handle
<1>6. AcknowledgedHandleLivesOneTTL'
  BY <1>n DEF TaskInv, AcknowledgedHandleLivesOneTTL, PromiseIsKept, TimesAreOrdered,
    WorkerFails, RunnerFrame, clock, submit, handle
<1>7. FailureComesFirst'
  BY DEF TaskInv, FailureComesFirst, NonterminalNeverPurged, WorkerFails,
    RunnerFrame, handle, IsTerminal, States, TerminalStates, Absent
<1>8. ResultsFollowTheEnd'
  BY DEF TaskInv, ResultsFollowTheEnd, NothingBeforeAcceptance, TypeOK, WorkerFails,
    RunnerFrame, results, IsTerminal, States, TerminalStates, Absent
<1>9. BrokenTaskReportsError'
  BY DEF TaskInv, BrokenTaskReportsError, FailureComesFirst, ResultsFollowTheEnd,
    TypeOK, WorkerFails, RunnerFrame, results, handle, IsTerminal, States,
    TerminalStates, Absent
<1>10. RepliesFollowTheOverride'
  BY DEF TaskInv, RepliesFollowTheOverride, TypeOK, Legacy, Inline, NoReply,
    TaskStates, WorkerFails, RunnerFrame, cancels, handle
<1> QED  BY <1>1, <1>2, <1>3, <1>4, <1>5, <1>6, <1>7, <1>8, <1>9, <1>10 DEF TaskInv

\* The supervisor stores the failure before it ends the record.
LEMMA MaterializeKeeps ==
    ASSUME TaskInv, Materialize
    PROVE  TaskInv'
<1>n. /\ now \in Nat /\ created \in Nat /\ updated \in Nat
      /\ expires \in Nat /\ asked \in Nat /\ finishedAt \in Nat /\ TTL \in Nat
  BY TaskAssumption DEF TaskInv, TypeOK, Time
<1>t. Touch => updated' \in Nat /\ updated <= updated' /\ updated' <= now
  BY TouchKeeps
<1>e. \A t \in States : EndInvocation(t) =>
           /\ rec' = t /\ finishedAt' = now
           /\ expires' \in Nat /\ updated' \in Nat
           /\ expires <= expires' /\ updated <= updated' /\ updated' <= now
           /\ expires' <= updated' + TTL
           /\ UNCHANGED <<kept, created, requested, override, failure>>
  BY EndingExtends
<1>1. TimesAreOrdered'
  BY <1>e, <1>t, <1>n DEF TaskInv, TimesAreOrdered, Materialize, PersistFailure,
    ValidateTransition, RunnerFrame, clock, submit, handle, States, TerminalStates
<1>b. {up', kept', requested', override', failure', broken', swallowed', token',
       expired'} \subseteq BOOLEAN
  BY <1>e, <1>t, Zenon DEF TaskInv, TypeOK, Materialize, PersistFailure,
    ValidateTransition, RunnerFrame, clock, handle, States, TerminalStates
<1>2. TypeOK'
  BY <1>e, <1>t, <1>n, <1>b, <1>1, TaskAssumption DEF TaskInv, TypeOK,
    TimesAreOrdered, Time, TaskStates, Legacy, Inline, NoReply, Materialize,
    PersistFailure, ValidateTransition, RunnerFrame, NoFault, Fault, clock, submit,
    cancels, results, handle, bounds, States, TerminalStates
<1>3. NothingBeforeAcceptance'
  BY <1>e, <1>t DEF TaskInv, NothingBeforeAcceptance, Materialize, PersistFailure,
    ValidateTransition, RunnerFrame, submit, handle, States, TerminalStates, Absent
<1>4. NonterminalNeverPurged'
  BY <1>e, <1>t DEF TaskInv, NonterminalNeverPurged, NothingBeforeAcceptance,
    Materialize, PersistFailure, ValidateTransition, RunnerFrame, handle, IsTerminal,
    States, TerminalStates, Absent
<1>5. PromiseIsKept'
  <2>1. /\ spc' = spc /\ created' = created /\ kept' = kept
        /\ expires' \in Nat /\ expires <= expires'
    BY <1>e, <1>t, <1>n DEF Materialize, PersistFailure, ValidateTransition,
      RunnerFrame, submit, handle, States, TerminalStates
  <2> QED  BY <2>1, <1>n DEF TaskInv, PromiseIsKept
<1>6. AcknowledgedHandleLivesOneTTL'
  BY <1>e, <1>t, <1>n DEF TaskInv, AcknowledgedHandleLivesOneTTL, PromiseIsKept,
    TimesAreOrdered, Materialize, PersistFailure, ValidateTransition, RunnerFrame,
    clock, submit, handle, States, TerminalStates
<1>7. FailureComesFirst'
  BY <1>e, <1>t DEF TaskInv, FailureComesFirst, NonterminalNeverPurged, Materialize,
    PersistFailure, ValidateTransition, RunnerFrame, handle, IsTerminal, States,
    TerminalStates, Absent
<1>8. ResultsFollowTheEnd'
  BY <1>e, <1>t DEF TaskInv, ResultsFollowTheEnd, NothingBeforeAcceptance, TypeOK,
    Materialize, PersistFailure, ValidateTransition, RunnerFrame, results, IsTerminal,
    States, TerminalStates, Absent
<1>9. BrokenTaskReportsError'
  BY <1>e, <1>t DEF TaskInv, BrokenTaskReportsError, FailureComesFirst,
    ResultsFollowTheEnd, TypeOK, Materialize, PersistFailure, ValidateTransition,
    RunnerFrame, results, handle, IsTerminal, States, TerminalStates, Absent
<1>10. RepliesFollowTheOverride'
  BY <1>e, <1>t DEF TaskInv, RepliesFollowTheOverride, TypeOK, Legacy, Inline,
    NoReply, TaskStates, Materialize, PersistFailure, ValidateTransition, RunnerFrame,
    cancels, handle, States, TerminalStates
<1> QED  BY <1>1, <1>2, <1>3, <1>4, <1>5, <1>6, <1>7, <1>8, <1>9, <1>10 DEF TaskInv

\* tasks/cancel looks the task up.
LEMMA CancelChecksKeeps ==
    ASSUME TaskInv, NEW c \in Cancels, CancelChecks(c)
    PROVE  TaskInv'
<1>n. /\ now \in Nat /\ created \in Nat /\ updated \in Nat
      /\ expires \in Nat /\ asked \in Nat /\ finishedAt \in Nat /\ TTL \in Nat
  BY TaskAssumption DEF TaskInv, TypeOK, Time
<1>v. ViewFails => /\ kept' \in BOOLEAN /\ (kept' => kept)
                   /\ kept /\ ~kept' => IsTerminal(rec) /\ expires <= now
                   /\ UNCHANGED <<created, updated, expires, requested, override, failure>>
  BY ViewFailsKeeps
<1>1. TimesAreOrdered'
  BY <1>v, <1>n DEF TaskInv, TimesAreOrdered, CancelChecks, Viewable, CancelFrame,
    CancelGoto, clock, submit, handle
<1>b. {up', kept', requested', override', failure', broken', swallowed', token',
       expired'} \subseteq BOOLEAN
  BY <1>v, Zenon DEF TaskInv, TypeOK, CancelChecks, Viewable, CancelFrame, CancelGoto,
    clock, handle
<1>2. TypeOK'
  BY <1>v, <1>n, <1>b, <1>1, TaskAssumption DEF TaskInv, TypeOK, TimesAreOrdered,
    Time, TaskStates, Legacy, Inline, NoReply, CancelChecks, Viewable, CancelFrame,
    CancelGoto, NoFault, Fault, clock, submit, results, handle, bounds, States,
    TerminalStates
<1>3. NothingBeforeAcceptance'
  BY <1>v DEF TaskInv, NothingBeforeAcceptance, CancelChecks, Viewable, CancelFrame,
    CancelGoto, submit, handle, States, TerminalStates, Absent
<1>4. NonterminalNeverPurged'
  BY <1>v DEF TaskInv, NonterminalNeverPurged, NothingBeforeAcceptance, CancelChecks,
    Viewable, CancelFrame, CancelGoto, handle, IsTerminal, States, TerminalStates,
    Absent
<1>5. PromiseIsKept'
  BY <1>v, <1>n DEF TaskInv, PromiseIsKept, NothingBeforeAcceptance, CancelChecks,
    Viewable, CancelFrame, CancelGoto, submit, handle
<1>6. AcknowledgedHandleLivesOneTTL'
  BY <1>v, <1>n DEF TaskInv, AcknowledgedHandleLivesOneTTL, PromiseIsKept,
    TimesAreOrdered, CancelChecks, Viewable, CancelFrame, CancelGoto, clock, submit,
    handle
<1>7. FailureComesFirst'
  BY <1>v DEF TaskInv, FailureComesFirst, NonterminalNeverPurged, CancelChecks,
    Viewable, CancelFrame, CancelGoto, handle, IsTerminal, States, TerminalStates,
    Absent
<1>8. ResultsFollowTheEnd'
  BY <1>v DEF TaskInv, ResultsFollowTheEnd, NothingBeforeAcceptance, TypeOK,
    CancelChecks, Viewable, CancelFrame, CancelGoto, results, IsTerminal, States,
    TerminalStates, Absent
<1>9. BrokenTaskReportsError'
  BY <1>v DEF TaskInv, BrokenTaskReportsError, FailureComesFirst, ResultsFollowTheEnd,
    TypeOK, CancelChecks, Viewable, CancelFrame, CancelGoto, results, handle,
    IsTerminal, States, TerminalStates, Absent
<1>10. RepliesFollowTheOverride'
  BY <1>v DEF TaskInv, RepliesFollowTheOverride, TypeOK, Legacy, Inline, NoReply,
    TaskStates, CancelChecks, Viewable, CancelFrame, CancelGoto, handle
<1> QED  BY <1>1, <1>2, <1>3, <1>4, <1>5, <1>6, <1>7, <1>8, <1>9, <1>10 DEF TaskInv

\* tasks/cancel records the request.
LEMMA CancelRecordsKeeps ==
    ASSUME TaskInv, NEW c \in Cancels, CancelRecords(c)
    PROVE  TaskInv'
<1>n. /\ now \in Nat /\ created \in Nat /\ updated \in Nat
      /\ expires \in Nat /\ asked \in Nat /\ finishedAt \in Nat /\ TTL \in Nat
  BY TaskAssumption DEF TaskInv, TypeOK, Time
<1>t. Touch => updated' \in Nat /\ updated <= updated' /\ updated' <= now
  BY TouchKeeps
<1>1. TimesAreOrdered'
  BY <1>t, <1>n DEF TaskInv, TimesAreOrdered, CancelRecords, RecordCancellation,
    CancelFrame, CancelGoto, clock, submit, handle
<1>b. {up', kept', requested', override', failure', broken', swallowed', token',
       expired'} \subseteq BOOLEAN
  BY <1>t, Zenon DEF TaskInv, TypeOK, CancelRecords, RecordCancellation, CancelFrame,
    CancelGoto, clock, handle
<1>2. TypeOK'
  BY <1>t, <1>n, <1>b, <1>1, TaskAssumption DEF TaskInv, TypeOK, TimesAreOrdered,
    Time, TaskStates, Legacy, Inline, NoReply, CancelRecords, RecordCancellation,
    CancelFrame, CancelGoto, NoFault, Fault, clock, submit, results, handle, bounds,
    States, TerminalStates
<1>3. NothingBeforeAcceptance'
  BY <1>t DEF TaskInv, NothingBeforeAcceptance, CancelRecords, RecordCancellation,
    CancelFrame, CancelGoto, submit, handle, States, TerminalStates, Absent
<1>4. NonterminalNeverPurged'
  BY <1>t DEF TaskInv, NonterminalNeverPurged, NothingBeforeAcceptance, CancelRecords,
    RecordCancellation, CancelFrame, CancelGoto, handle, IsTerminal, States,
    TerminalStates, Absent
<1>5. PromiseIsKept'
  BY <1>t, <1>n DEF TaskInv, PromiseIsKept, NothingBeforeAcceptance, CancelRecords,
    RecordCancellation, CancelFrame, CancelGoto, submit, handle
<1>6. AcknowledgedHandleLivesOneTTL'
  BY <1>t, <1>n DEF TaskInv, AcknowledgedHandleLivesOneTTL, PromiseIsKept,
    TimesAreOrdered, CancelRecords, RecordCancellation, CancelFrame, CancelGoto,
    clock, submit, handle
<1>7. FailureComesFirst'
  BY <1>t DEF TaskInv, FailureComesFirst, NonterminalNeverPurged, CancelRecords,
    RecordCancellation, CancelFrame, CancelGoto, handle, IsTerminal, States,
    TerminalStates, Absent
<1>8. ResultsFollowTheEnd'
  BY <1>t DEF TaskInv, ResultsFollowTheEnd, NothingBeforeAcceptance, TypeOK,
    CancelRecords, RecordCancellation, CancelFrame, CancelGoto, results, IsTerminal,
    States, TerminalStates, Absent
<1>9. BrokenTaskReportsError'
  BY <1>t DEF TaskInv, BrokenTaskReportsError, FailureComesFirst, ResultsFollowTheEnd,
    TypeOK, CancelRecords, RecordCancellation, CancelFrame, CancelGoto, results,
    handle, IsTerminal, States, TerminalStates, Absent
<1>10. RepliesFollowTheOverride'
  BY <1>t DEF TaskInv, RepliesFollowTheOverride, TypeOK, Legacy, Inline, NoReply,
    TaskStates, CancelRecords, RecordCancellation, CancelFrame, CancelGoto, handle
<1> QED  BY <1>1, <1>2, <1>3, <1>4, <1>5, <1>6, <1>7, <1>8, <1>9, <1>10 DEF TaskInv

\* runner.cancel cancels the token; only a legacy call waits.
LEMMA CancelRunnerKeeps ==
    ASSUME TaskInv, NEW c \in Cancels, CancelRunner(c)
    PROVE  TaskInv'
<1>n. /\ now \in Nat /\ created \in Nat /\ updated \in Nat
      /\ expires \in Nat /\ asked \in Nat /\ finishedAt \in Nat /\ TTL \in Nat
  BY TaskAssumption DEF TaskInv, TypeOK, Time
<1>1. TimesAreOrdered'
  BY <1>n DEF TaskInv, TimesAreOrdered, CancelRunner, AfterCancel, CancelFrame,
    CancelGoto, clock, submit, handle
<1>b. {up', kept', requested', override', failure', broken', swallowed', token',
       expired'} \subseteq BOOLEAN
  BY Zenon DEF TaskInv, TypeOK, CancelRunner, AfterCancel, CancelFrame, CancelGoto,
    clock, handle
<1>2. TypeOK'
  BY <1>n, <1>b, <1>1, TaskAssumption DEF TaskInv, TypeOK, TimesAreOrdered, Time,
    TaskStates, Legacy, Inline, NoReply, CancelRunner, AfterCancel, CancelFrame,
    CancelGoto, NoFault, Fault, clock, submit, results, handle, bounds, States,
    TerminalStates
<1>3. NothingBeforeAcceptance'
  BY DEF TaskInv, NothingBeforeAcceptance, CancelRunner, AfterCancel, CancelFrame,
    CancelGoto, submit, handle, States, TerminalStates, Absent
<1>4. NonterminalNeverPurged'
  BY DEF TaskInv, NonterminalNeverPurged, NothingBeforeAcceptance, CancelRunner,
    AfterCancel, CancelFrame, CancelGoto, handle, IsTerminal, States, TerminalStates,
    Absent
<1>5. PromiseIsKept'
  BY <1>n DEF TaskInv, PromiseIsKept, NothingBeforeAcceptance, CancelRunner,
    AfterCancel, CancelFrame, CancelGoto, submit, handle
<1>6. AcknowledgedHandleLivesOneTTL'
  BY <1>n DEF TaskInv, AcknowledgedHandleLivesOneTTL, PromiseIsKept, TimesAreOrdered,
    CancelRunner, AfterCancel, CancelFrame, CancelGoto, clock, submit, handle
<1>7. FailureComesFirst'
  BY DEF TaskInv, FailureComesFirst, NonterminalNeverPurged, CancelRunner,
    AfterCancel, CancelFrame, CancelGoto, handle, IsTerminal, States, TerminalStates,
    Absent
<1>8. ResultsFollowTheEnd'
  BY DEF TaskInv, ResultsFollowTheEnd, NothingBeforeAcceptance, TypeOK, CancelRunner,
    AfterCancel, CancelFrame, CancelGoto, results, IsTerminal, States, TerminalStates,
    Absent
<1>9. BrokenTaskReportsError'
  BY DEF TaskInv, BrokenTaskReportsError, FailureComesFirst, ResultsFollowTheEnd,
    TypeOK, CancelRunner, AfterCancel, CancelFrame, CancelGoto, results, handle,
    IsTerminal, States, TerminalStates, Absent
<1>10. RepliesFollowTheOverride'
  BY DEF TaskInv, RepliesFollowTheOverride, TypeOK, Legacy, Inline, NoReply,
    TaskStates, CancelRunner, AfterCancel, CancelFrame, CancelGoto, handle
<1> QED  BY <1>1, <1>2, <1>3, <1>4, <1>5, <1>6, <1>7, <1>8, <1>9, <1>10 DEF TaskInv

\* runner.cancel ends a queued record.
LEMMA CancelStoreKeeps ==
    ASSUME TaskInv, NEW c \in Cancels, CancelStore(c)
    PROVE  TaskInv'
<1>n. /\ now \in Nat /\ created \in Nat /\ updated \in Nat
      /\ expires \in Nat /\ asked \in Nat /\ finishedAt \in Nat /\ TTL \in Nat
  BY TaskAssumption DEF TaskInv, TypeOK, Time
<1>e. \A t \in States : EndInvocation(t) =>
           /\ rec' = t /\ finishedAt' = now
           /\ expires' \in Nat /\ updated' \in Nat
           /\ expires <= expires' /\ updated <= updated' /\ updated' <= now
           /\ expires' <= updated' + TTL
           /\ UNCHANGED <<kept, created, requested, override, failure>>
  BY EndingExtends
<1>1. TimesAreOrdered'
  BY <1>e, <1>n DEF TaskInv, TimesAreOrdered, CancelStore, AfterCancel,
    ValidateTransition, CancelFrame, CancelGoto, clock, submit, handle, States,
    TerminalStates
<1>b. {up', kept', requested', override', failure', broken', swallowed', token',
       expired'} \subseteq BOOLEAN
  BY <1>e, Zenon DEF TaskInv, TypeOK, CancelStore, AfterCancel, ValidateTransition,
    CancelFrame, CancelGoto, clock, handle, States, TerminalStates
<1>2. TypeOK'
  BY <1>e, <1>n, <1>b, <1>1, TaskAssumption DEF TaskInv, TypeOK, TimesAreOrdered,
    Time, TaskStates, Legacy, Inline, NoReply, CancelStore, AfterCancel,
    ValidateTransition, CancelFrame, CancelGoto, NoFault, Fault, clock, submit,
    results, handle, bounds, States, TerminalStates
<1>3. NothingBeforeAcceptance'
  BY <1>e DEF TaskInv, NothingBeforeAcceptance, CancelStore, AfterCancel,
    ValidateTransition, CancelFrame, CancelGoto, submit, handle, States,
    TerminalStates, Absent
<1>4. NonterminalNeverPurged'
  BY <1>e DEF TaskInv, NonterminalNeverPurged, NothingBeforeAcceptance, CancelStore,
    AfterCancel, ValidateTransition, CancelFrame, CancelGoto, handle, IsTerminal,
    States, TerminalStates, Absent
<1>5. PromiseIsKept'
  <2>1. /\ spc' = spc /\ created' = created /\ kept' = kept
        /\ expires' \in Nat /\ expires <= expires'
    BY <1>e, <1>n DEF CancelStore, AfterCancel, ValidateTransition, CancelFrame,
      CancelGoto, submit, handle, States, TerminalStates
  <2> QED  BY <2>1, <1>n DEF TaskInv, PromiseIsKept
<1>6. AcknowledgedHandleLivesOneTTL'
  BY <1>e, <1>n DEF TaskInv, AcknowledgedHandleLivesOneTTL, PromiseIsKept,
    TimesAreOrdered, CancelStore, AfterCancel, ValidateTransition, CancelFrame,
    CancelGoto, clock, submit, handle, States, TerminalStates
<1>7. FailureComesFirst'
  BY <1>e DEF TaskInv, FailureComesFirst, NonterminalNeverPurged, CancelStore,
    AfterCancel, ValidateTransition, CancelFrame, CancelGoto, handle, IsTerminal,
    States, TerminalStates, Absent
<1>8. ResultsFollowTheEnd'
  BY <1>e DEF TaskInv, ResultsFollowTheEnd, NothingBeforeAcceptance, TypeOK,
    CancelStore, AfterCancel, ValidateTransition, CancelFrame, CancelGoto, results,
    IsTerminal, States, TerminalStates, Absent
<1>9. BrokenTaskReportsError'
  BY <1>e DEF TaskInv, BrokenTaskReportsError, FailureComesFirst, ResultsFollowTheEnd,
    TypeOK, CancelStore, AfterCancel, ValidateTransition, CancelFrame, CancelGoto,
    results, handle, IsTerminal, States, TerminalStates, Absent
<1>10. RepliesFollowTheOverride'
  BY <1>e DEF TaskInv, RepliesFollowTheOverride, TypeOK, Legacy, Inline, NoReply,
    TaskStates, CancelStore, AfterCancel, ValidateTransition, CancelFrame, CancelGoto,
    handle, States, TerminalStates
<1> QED  BY <1>1, <1>2, <1>3, <1>4, <1>5, <1>6, <1>7, <1>8, <1>9, <1>10 DEF TaskInv

\* The finalizer sets the override of an ended task.
LEMMA FinalizeKeeps ==
    ASSUME TaskInv, NEW c \in Cancels, Finalize(c)
    PROVE  TaskInv'
<1>n. /\ now \in Nat /\ created \in Nat /\ updated \in Nat
      /\ expires \in Nat /\ asked \in Nat /\ finishedAt \in Nat /\ TTL \in Nat
  BY TaskAssumption DEF TaskInv, TypeOK, Time
<1>t. Touch => updated' \in Nat /\ updated <= updated' /\ updated' <= now
  BY TouchKeeps
<1>1. TimesAreOrdered'
  BY <1>t, <1>n DEF TaskInv, TimesAreOrdered, Finalize, SetTerminalOverride,
    CancelFrame, CancelGoto, clock, submit, handle
<1>b. {up', kept', requested', override', failure', broken', swallowed', token',
       expired'} \subseteq BOOLEAN
  BY <1>t, Zenon DEF TaskInv, TypeOK, Finalize, SetTerminalOverride, CancelFrame,
    CancelGoto, clock, handle
<1>2. TypeOK'
  BY <1>t, <1>n, <1>b, <1>1, TaskAssumption DEF TaskInv, TypeOK, TimesAreOrdered,
    Time, TaskStates, Legacy, Inline, NoReply, Finalize, SetTerminalOverride,
    CancelFrame, CancelGoto, NoFault, Fault, clock, submit, results, handle, bounds,
    States, TerminalStates
<1>3. NothingBeforeAcceptance'
  BY <1>t DEF TaskInv, NothingBeforeAcceptance, Finalize, SetTerminalOverride,
    CancelFrame, CancelGoto, submit, handle, States, TerminalStates, Absent
<1>4. NonterminalNeverPurged'
  BY <1>t DEF TaskInv, NonterminalNeverPurged, NothingBeforeAcceptance, Finalize,
    SetTerminalOverride, CancelFrame, CancelGoto, handle, IsTerminal, States,
    TerminalStates, Absent
<1>5. PromiseIsKept'
  BY <1>t, <1>n DEF TaskInv, PromiseIsKept, NothingBeforeAcceptance, Finalize,
    SetTerminalOverride, CancelFrame, CancelGoto, submit, handle
<1>6. AcknowledgedHandleLivesOneTTL'
  BY <1>t, <1>n DEF TaskInv, AcknowledgedHandleLivesOneTTL, PromiseIsKept,
    TimesAreOrdered, Finalize, SetTerminalOverride, CancelFrame, CancelGoto, clock,
    submit, handle
<1>7. FailureComesFirst'
  BY <1>t DEF TaskInv, FailureComesFirst, NonterminalNeverPurged, Finalize,
    SetTerminalOverride, CancelFrame, CancelGoto, handle, IsTerminal, States,
    TerminalStates, Absent
<1>8. ResultsFollowTheEnd'
  BY <1>t DEF TaskInv, ResultsFollowTheEnd, NothingBeforeAcceptance, TypeOK, Finalize,
    SetTerminalOverride, CancelFrame, CancelGoto, results, IsTerminal, States,
    TerminalStates, Absent
<1>9. BrokenTaskReportsError'
  BY <1>t DEF TaskInv, BrokenTaskReportsError, FailureComesFirst, ResultsFollowTheEnd,
    TypeOK, Finalize, SetTerminalOverride, CancelFrame, CancelGoto, results, handle,
    IsTerminal, States, TerminalStates, Absent
<1>10. RepliesFollowTheOverride'
  BY <1>t DEF TaskInv, RepliesFollowTheOverride, TypeOK, Legacy, Inline, NoReply,
    TaskStates, Finalize, SetTerminalOverride, CancelFrame, CancelGoto, handle
<1> QED  BY <1>1, <1>2, <1>3, <1>4, <1>5, <1>6, <1>7, <1>8, <1>9, <1>10 DEF TaskInv

\* The end of the wait lets a legacy call go on.
LEMMA CancelWaitEndsKeeps ==
    ASSUME TaskInv, NEW c \in Cancels, CancelWaitEnds(c)
    PROVE  TaskInv'
<1>n. /\ now \in Nat /\ created \in Nat /\ updated \in Nat
      /\ expires \in Nat /\ asked \in Nat /\ finishedAt \in Nat /\ TTL \in Nat
  BY TaskAssumption DEF TaskInv, TypeOK, Time
<1>1. TimesAreOrdered'
  BY <1>n DEF TaskInv, TimesAreOrdered, CancelWaitEnds, CancelFrame, CancelGoto,
    clock, submit, handle
<1>b. {up', kept', requested', override', failure', broken', swallowed', token',
       expired'} \subseteq BOOLEAN
  BY Zenon DEF TaskInv, TypeOK, CancelWaitEnds, CancelFrame, CancelGoto, clock, handle
<1>2. TypeOK'
  BY <1>n, <1>b, <1>1, TaskAssumption DEF TaskInv, TypeOK, TimesAreOrdered, Time,
    TaskStates, Legacy, Inline, NoReply, CancelWaitEnds, CancelFrame, CancelGoto,
    NoFault, Fault, clock, submit, results, handle, bounds, States, TerminalStates
<1>3. NothingBeforeAcceptance'
  BY DEF TaskInv, NothingBeforeAcceptance, CancelWaitEnds, CancelFrame, CancelGoto,
    submit, handle, States, TerminalStates, Absent
<1>4. NonterminalNeverPurged'
  BY DEF TaskInv, NonterminalNeverPurged, NothingBeforeAcceptance, CancelWaitEnds,
    CancelFrame, CancelGoto, handle, IsTerminal, States, TerminalStates, Absent
<1>5. PromiseIsKept'
  BY <1>n DEF TaskInv, PromiseIsKept, NothingBeforeAcceptance, CancelWaitEnds,
    CancelFrame, CancelGoto, submit, handle
<1>6. AcknowledgedHandleLivesOneTTL'
  BY <1>n DEF TaskInv, AcknowledgedHandleLivesOneTTL, PromiseIsKept, TimesAreOrdered,
    CancelWaitEnds, CancelFrame, CancelGoto, clock, submit, handle
<1>7. FailureComesFirst'
  BY DEF TaskInv, FailureComesFirst, NonterminalNeverPurged, CancelWaitEnds,
    CancelFrame, CancelGoto, handle, IsTerminal, States, TerminalStates, Absent
<1>8. ResultsFollowTheEnd'
  BY DEF TaskInv, ResultsFollowTheEnd, NothingBeforeAcceptance, TypeOK,
    CancelWaitEnds, CancelFrame, CancelGoto, results, IsTerminal, States,
    TerminalStates, Absent
<1>9. BrokenTaskReportsError'
  BY DEF TaskInv, BrokenTaskReportsError, FailureComesFirst, ResultsFollowTheEnd,
    TypeOK, CancelWaitEnds, CancelFrame, CancelGoto, results, handle, IsTerminal,
    States, TerminalStates, Absent
<1>10. RepliesFollowTheOverride'
  BY DEF TaskInv, RepliesFollowTheOverride, TypeOK, Legacy, Inline, NoReply,
    TaskStates, CancelWaitEnds, CancelFrame, CancelGoto, handle
<1> QED  BY <1>1, <1>2, <1>3, <1>4, <1>5, <1>6, <1>7, <1>8, <1>9, <1>10 DEF TaskInv

\* An abandoned call changes no durable state.
LEMMA CancelAbandonedKeeps ==
    ASSUME TaskInv, NEW c \in Cancels, CancelAbandoned(c)
    PROVE  TaskInv'
<1>n. /\ now \in Nat /\ created \in Nat /\ updated \in Nat
      /\ expires \in Nat /\ asked \in Nat /\ finishedAt \in Nat /\ TTL \in Nat
  BY TaskAssumption DEF TaskInv, TypeOK, Time
<1>1. TimesAreOrdered'
  BY <1>n DEF TaskInv, TimesAreOrdered, CancelAbandoned, CancelFrame, CancelGoto,
    clock, submit, handle
<1>b. {up', kept', requested', override', failure', broken', swallowed', token',
       expired'} \subseteq BOOLEAN
  BY Zenon DEF TaskInv, TypeOK, CancelAbandoned, CancelFrame, CancelGoto, clock,
    handle
<1>2. TypeOK'
  BY <1>n, <1>b, <1>1, TaskAssumption DEF TaskInv, TypeOK, TimesAreOrdered, Time,
    TaskStates, Legacy, Inline, NoReply, CancelAbandoned, CancelFrame, CancelGoto,
    NoFault, Fault, clock, submit, results, handle, bounds, States, TerminalStates
<1>3. NothingBeforeAcceptance'
  BY DEF TaskInv, NothingBeforeAcceptance, CancelAbandoned, CancelFrame, CancelGoto,
    submit, handle, States, TerminalStates, Absent
<1>4. NonterminalNeverPurged'
  BY DEF TaskInv, NonterminalNeverPurged, NothingBeforeAcceptance, CancelAbandoned,
    CancelFrame, CancelGoto, handle, IsTerminal, States, TerminalStates, Absent
<1>5. PromiseIsKept'
  BY <1>n DEF TaskInv, PromiseIsKept, NothingBeforeAcceptance, CancelAbandoned,
    CancelFrame, CancelGoto, submit, handle
<1>6. AcknowledgedHandleLivesOneTTL'
  BY <1>n DEF TaskInv, AcknowledgedHandleLivesOneTTL, PromiseIsKept, TimesAreOrdered,
    CancelAbandoned, CancelFrame, CancelGoto, clock, submit, handle
<1>7. FailureComesFirst'
  BY DEF TaskInv, FailureComesFirst, NonterminalNeverPurged, CancelAbandoned,
    CancelFrame, CancelGoto, handle, IsTerminal, States, TerminalStates, Absent
<1>8. ResultsFollowTheEnd'
  BY DEF TaskInv, ResultsFollowTheEnd, NothingBeforeAcceptance, TypeOK,
    CancelAbandoned, CancelFrame, CancelGoto, results, IsTerminal, States,
    TerminalStates, Absent
<1>9. BrokenTaskReportsError'
  BY DEF TaskInv, BrokenTaskReportsError, FailureComesFirst, ResultsFollowTheEnd,
    TypeOK, CancelAbandoned, CancelFrame, CancelGoto, results, handle, IsTerminal,
    States, TerminalStates, Absent
<1>10. RepliesFollowTheOverride'
  BY DEF TaskInv, RepliesFollowTheOverride, TypeOK, Legacy, Inline, NoReply,
    TaskStates, CancelAbandoned, CancelFrame, CancelGoto, handle
<1> QED  BY <1>1, <1>2, <1>3, <1>4, <1>5, <1>6, <1>7, <1>8, <1>9, <1>10 DEF TaskInv

\* The call replies only after it set the override.
LEMMA CancelOverridesKeeps ==
    ASSUME TaskInv, NEW c \in Cancels, CancelOverrides(c)
    PROVE  TaskInv'
<1>n. /\ now \in Nat /\ created \in Nat /\ updated \in Nat
      /\ expires \in Nat /\ asked \in Nat /\ finishedAt \in Nat /\ TTL \in Nat
  BY TaskAssumption DEF TaskInv, TypeOK, Time
<1>t. Touch => updated' \in Nat /\ updated <= updated' /\ updated' <= now
  BY TouchKeeps
<1>1. TimesAreOrdered'
  BY <1>t, <1>n DEF TaskInv, TimesAreOrdered, CancelOverrides, SetTerminalOverride,
    CancelFrame, CancelGoto, clock, submit, handle
<1>b. {up', kept', requested', override', failure', broken', swallowed', token',
       expired'} \subseteq BOOLEAN
  BY <1>t, Zenon DEF TaskInv, TypeOK, CancelOverrides, SetTerminalOverride,
    CancelFrame, CancelGoto, clock, handle
<1>2. TypeOK'
  BY <1>t, <1>n, <1>b, <1>1, TaskAssumption DEF TaskInv, TypeOK, TimesAreOrdered,
    Time, TaskStates, Legacy, Inline, NoReply, CancelOverrides, SetTerminalOverride,
    CancelFrame, CancelGoto, NoFault, Fault, clock, submit, results, handle, bounds,
    States, TerminalStates
<1>3. NothingBeforeAcceptance'
  BY <1>t DEF TaskInv, NothingBeforeAcceptance, CancelOverrides, SetTerminalOverride,
    CancelFrame, CancelGoto, submit, handle, States, TerminalStates, Absent
<1>4. NonterminalNeverPurged'
  BY <1>t DEF TaskInv, NonterminalNeverPurged, NothingBeforeAcceptance,
    CancelOverrides, SetTerminalOverride, CancelFrame, CancelGoto, handle, IsTerminal,
    States, TerminalStates, Absent
<1>5. PromiseIsKept'
  BY <1>t, <1>n DEF TaskInv, PromiseIsKept, NothingBeforeAcceptance, CancelOverrides,
    SetTerminalOverride, CancelFrame, CancelGoto, submit, handle
<1>6. AcknowledgedHandleLivesOneTTL'
  BY <1>t, <1>n DEF TaskInv, AcknowledgedHandleLivesOneTTL, PromiseIsKept,
    TimesAreOrdered, CancelOverrides, SetTerminalOverride, CancelFrame, CancelGoto,
    clock, submit, handle
<1>7. FailureComesFirst'
  BY <1>t DEF TaskInv, FailureComesFirst, NonterminalNeverPurged, CancelOverrides,
    SetTerminalOverride, CancelFrame, CancelGoto, handle, IsTerminal, States,
    TerminalStates, Absent
<1>8. ResultsFollowTheEnd'
  BY <1>t DEF TaskInv, ResultsFollowTheEnd, NothingBeforeAcceptance, TypeOK,
    CancelOverrides, SetTerminalOverride, CancelFrame, CancelGoto, results,
    IsTerminal, States, TerminalStates, Absent
<1>9. BrokenTaskReportsError'
  BY <1>t DEF TaskInv, BrokenTaskReportsError, FailureComesFirst, ResultsFollowTheEnd,
    TypeOK, CancelOverrides, SetTerminalOverride, CancelFrame, CancelGoto, results,
    handle, IsTerminal, States, TerminalStates, Absent
<1>10. RepliesFollowTheOverride'
  BY <1>t DEF TaskInv, RepliesFollowTheOverride, TypeOK, Legacy, Inline, NoReply,
    TaskStates, CancelOverrides, SetTerminalOverride, CancelFrame, CancelGoto, handle
<1> QED  BY <1>1, <1>2, <1>3, <1>4, <1>5, <1>6, <1>7, <1>8, <1>9, <1>10 DEF TaskInv

\* The reply to a legacy cancellation is the cancelled task.
LEMMA CancelRepliesKeeps ==
    ASSUME TaskInv, NEW c \in Cancels, CancelReplies(c)
    PROVE  TaskInv'
<1>n. /\ now \in Nat /\ created \in Nat /\ updated \in Nat
      /\ expires \in Nat /\ asked \in Nat /\ finishedAt \in Nat /\ TTL \in Nat
  BY TaskAssumption DEF TaskInv, TypeOK, Time
<1>v. ViewFails => /\ kept' \in BOOLEAN /\ (kept' => kept)
                   /\ kept /\ ~kept' => IsTerminal(rec) /\ expires <= now
                   /\ UNCHANGED <<created, updated, expires, requested, override, failure>>
  BY ViewFailsKeeps
<1>1. TimesAreOrdered'
  BY <1>v, <1>n DEF TaskInv, TimesAreOrdered, CancelReplies, Viewable, TaskState,
    CancelFrame, CancelGoto, clock, submit, handle
<1>b. {up', kept', requested', override', failure', broken', swallowed', token',
       expired'} \subseteq BOOLEAN
  BY <1>v, Zenon DEF TaskInv, TypeOK, CancelReplies, Viewable, TaskState, CancelFrame,
    CancelGoto, clock, handle
<1>2. TypeOK'
  BY <1>v, <1>n, <1>b, <1>1, TaskAssumption DEF TaskInv, TypeOK, TimesAreOrdered,
    Time, TaskStates, Legacy, Inline, NoReply, CancelReplies, Viewable, TaskState,
    CancelFrame, CancelGoto, NoFault, Fault, clock, submit, results, handle, bounds,
    States, TerminalStates
<1>3. NothingBeforeAcceptance'
  BY <1>v DEF TaskInv, NothingBeforeAcceptance, CancelReplies, Viewable, TaskState,
    CancelFrame, CancelGoto, submit, handle, States, TerminalStates, Absent
<1>4. NonterminalNeverPurged'
  BY <1>v DEF TaskInv, NonterminalNeverPurged, NothingBeforeAcceptance, CancelReplies,
    Viewable, TaskState, CancelFrame, CancelGoto, handle, IsTerminal, States,
    TerminalStates, Absent
<1>5. PromiseIsKept'
  BY <1>v, <1>n DEF TaskInv, PromiseIsKept, NothingBeforeAcceptance, CancelReplies,
    Viewable, TaskState, CancelFrame, CancelGoto, submit, handle
<1>6. AcknowledgedHandleLivesOneTTL'
  BY <1>v, <1>n DEF TaskInv, AcknowledgedHandleLivesOneTTL, PromiseIsKept,
    TimesAreOrdered, CancelReplies, Viewable, TaskState, CancelFrame, CancelGoto,
    clock, submit, handle
<1>7. FailureComesFirst'
  BY <1>v DEF TaskInv, FailureComesFirst, NonterminalNeverPurged, CancelReplies,
    Viewable, TaskState, CancelFrame, CancelGoto, handle, IsTerminal, States,
    TerminalStates, Absent
<1>8. ResultsFollowTheEnd'
  BY <1>v DEF TaskInv, ResultsFollowTheEnd, NothingBeforeAcceptance, TypeOK,
    CancelReplies, Viewable, TaskState, CancelFrame, CancelGoto, results, IsTerminal,
    States, TerminalStates, Absent
<1>9. BrokenTaskReportsError'
  BY <1>v DEF TaskInv, BrokenTaskReportsError, FailureComesFirst, ResultsFollowTheEnd,
    TypeOK, CancelReplies, Viewable, TaskState, CancelFrame, CancelGoto, results,
    handle, IsTerminal, States, TerminalStates, Absent
<1>10. RepliesFollowTheOverride'
  BY <1>v DEF TaskInv, RepliesFollowTheOverride, TypeOK, Legacy, Inline, NoReply,
    TaskStates, CancelReplies, Viewable, TaskState, CancelFrame, CancelGoto, handle
<1> QED  BY <1>1, <1>2, <1>3, <1>4, <1>5, <1>6, <1>7, <1>8, <1>9, <1>10 DEF TaskInv

\* tasks/result looks the task up.
LEMMA ResultChecksKeeps ==
    ASSUME TaskInv, NEW r \in Results, ResultChecks(r)
    PROVE  TaskInv'
<1>n. /\ now \in Nat /\ created \in Nat /\ updated \in Nat
      /\ expires \in Nat /\ asked \in Nat /\ finishedAt \in Nat /\ TTL \in Nat
  BY TaskAssumption DEF TaskInv, TypeOK, Time
<1>v. ViewFails => /\ kept' \in BOOLEAN /\ (kept' => kept)
                   /\ kept /\ ~kept' => IsTerminal(rec) /\ expires <= now
                   /\ UNCHANGED <<created, updated, expires, requested, override, failure>>
  BY ViewFailsKeeps
<1>1. TimesAreOrdered'
  BY <1>v, <1>n DEF TaskInv, TimesAreOrdered, ResultChecks, Viewable, ResultFrame,
    ResultGoto, clock, runner, submit, handle
<1>b. {up', kept', requested', override', failure', broken', swallowed', token',
       expired'} \subseteq BOOLEAN
  BY <1>v, Zenon DEF TaskInv, TypeOK, ResultChecks, Viewable, ResultFrame, ResultGoto,
    clock, runner, handle
<1>2. TypeOK'
  BY <1>v, <1>n, <1>b, <1>1, TaskAssumption DEF TaskInv, TypeOK, TimesAreOrdered,
    Time, TaskStates, Legacy, Inline, NoReply, ResultChecks, Viewable, ResultFrame,
    ResultGoto, NoFault, clock, runner, submit, cancels, handle, bounds, States,
    TerminalStates
<1>3. NothingBeforeAcceptance'
  BY <1>v DEF TaskInv, NothingBeforeAcceptance, ResultChecks, Viewable, ResultFrame,
    ResultGoto, runner, submit, handle, States, TerminalStates, Absent
<1>4. NonterminalNeverPurged'
  BY <1>v DEF TaskInv, NonterminalNeverPurged, NothingBeforeAcceptance, ResultChecks,
    Viewable, ResultFrame, ResultGoto, runner, handle, IsTerminal, States,
    TerminalStates, Absent
<1>5. PromiseIsKept'
  BY <1>v, <1>n DEF TaskInv, PromiseIsKept, NothingBeforeAcceptance, ResultChecks,
    Viewable, ResultFrame, ResultGoto, submit, handle
<1>6. AcknowledgedHandleLivesOneTTL'
  BY <1>v, <1>n DEF TaskInv, AcknowledgedHandleLivesOneTTL, PromiseIsKept,
    TimesAreOrdered, ResultChecks, Viewable, ResultFrame, ResultGoto, clock, submit,
    handle
<1>7. FailureComesFirst'
  BY <1>v DEF TaskInv, FailureComesFirst, NonterminalNeverPurged, ResultChecks,
    Viewable, ResultFrame, ResultGoto, runner, handle, IsTerminal, States,
    TerminalStates, Absent
<1>8. ResultsFollowTheEnd'
  BY <1>v DEF TaskInv, ResultsFollowTheEnd, NothingBeforeAcceptance, TypeOK,
    ResultChecks, Viewable, ResultFrame, ResultGoto, runner, IsTerminal, States,
    TerminalStates, Absent
<1>9. BrokenTaskReportsError'
  BY <1>v DEF TaskInv, BrokenTaskReportsError, FailureComesFirst, ResultsFollowTheEnd,
    TypeOK, ResultChecks, Viewable, ResultFrame, ResultGoto, runner, handle,
    IsTerminal, States, TerminalStates, Absent
<1>10. RepliesFollowTheOverride'
  BY <1>v DEF TaskInv, RepliesFollowTheOverride, TypeOK, Legacy, Inline, NoReply,
    TaskStates, ResultChecks, Viewable, ResultFrame, ResultGoto, cancels, handle
<1> QED  BY <1>1, <1>2, <1>3, <1>4, <1>5, <1>6, <1>7, <1>8, <1>9, <1>10 DEF TaskInv

\* tasks/result waits for the end of the record.
LEMMA ResultWaitEndsKeeps ==
    ASSUME TaskInv, NEW r \in Results, ResultWaitEnds(r)
    PROVE  TaskInv'
<1>n. /\ now \in Nat /\ created \in Nat /\ updated \in Nat
      /\ expires \in Nat /\ asked \in Nat /\ finishedAt \in Nat /\ TTL \in Nat
  BY TaskAssumption DEF TaskInv, TypeOK, Time
<1>1. TimesAreOrdered'
  BY <1>n DEF TaskInv, TimesAreOrdered, ResultWaitEnds, ResultFrame, ResultGoto,
    clock, runner, submit, handle
<1>b. {up', kept', requested', override', failure', broken', swallowed', token',
       expired'} \subseteq BOOLEAN
  BY Zenon DEF TaskInv, TypeOK, ResultWaitEnds, ResultFrame, ResultGoto, clock,
    runner, handle
<1>2. TypeOK'
  BY <1>n, <1>b, <1>1, TaskAssumption DEF TaskInv, TypeOK, TimesAreOrdered, Time,
    TaskStates, Legacy, Inline, NoReply, ResultWaitEnds, ResultFrame, ResultGoto,
    NoFault, clock, runner, submit, cancels, handle, bounds, States, TerminalStates
<1>3. NothingBeforeAcceptance'
  BY DEF TaskInv, NothingBeforeAcceptance, ResultWaitEnds, ResultFrame, ResultGoto,
    runner, submit, handle, States, TerminalStates, Absent
<1>4. NonterminalNeverPurged'
  BY DEF TaskInv, NonterminalNeverPurged, NothingBeforeAcceptance, ResultWaitEnds,
    ResultFrame, ResultGoto, runner, handle, IsTerminal, States, TerminalStates,
    Absent
<1>5. PromiseIsKept'
  BY <1>n DEF TaskInv, PromiseIsKept, NothingBeforeAcceptance, ResultWaitEnds,
    ResultFrame, ResultGoto, submit, handle
<1>6. AcknowledgedHandleLivesOneTTL'
  BY <1>n DEF TaskInv, AcknowledgedHandleLivesOneTTL, PromiseIsKept, TimesAreOrdered,
    ResultWaitEnds, ResultFrame, ResultGoto, clock, submit, handle
<1>7. FailureComesFirst'
  BY DEF TaskInv, FailureComesFirst, NonterminalNeverPurged, ResultWaitEnds,
    ResultFrame, ResultGoto, runner, handle, IsTerminal, States, TerminalStates,
    Absent
<1>8. ResultsFollowTheEnd'
  BY DEF TaskInv, ResultsFollowTheEnd, NothingBeforeAcceptance, TypeOK,
    ResultWaitEnds, ResultFrame, ResultGoto, runner, IsTerminal, States,
    TerminalStates, Absent
<1>9. BrokenTaskReportsError'
  BY DEF TaskInv, BrokenTaskReportsError, FailureComesFirst, ResultsFollowTheEnd,
    TypeOK, ResultWaitEnds, ResultFrame, ResultGoto, runner, handle, IsTerminal,
    States, TerminalStates, Absent
<1>10. RepliesFollowTheOverride'
  BY DEF TaskInv, RepliesFollowTheOverride, TypeOK, Legacy, Inline, NoReply,
    TaskStates, ResultWaitEnds, ResultFrame, ResultGoto, cancels, handle
<1> QED  BY <1>1, <1>2, <1>3, <1>4, <1>5, <1>6, <1>7, <1>8, <1>9, <1>10 DEF TaskInv

\* tasks/result reports the stored failure.
LEMMA ResultReturnsKeeps ==
    ASSUME TaskInv, NEW r \in Results, ResultReturns(r)
    PROVE  TaskInv'
<1>n. /\ now \in Nat /\ created \in Nat /\ updated \in Nat
      /\ expires \in Nat /\ asked \in Nat /\ finishedAt \in Nat /\ TTL \in Nat
  BY TaskAssumption DEF TaskInv, TypeOK, Time
<1>v. ViewFails => /\ kept' \in BOOLEAN /\ (kept' => kept)
                   /\ kept /\ ~kept' => IsTerminal(rec) /\ expires <= now
                   /\ UNCHANGED <<created, updated, expires, requested, override, failure>>
  BY ViewFailsKeeps
<1>1. TimesAreOrdered'
  BY <1>v, <1>n DEF TaskInv, TimesAreOrdered, ResultReturns, Viewable, ResultFrame,
    ResultGoto, clock, runner, submit, handle
<1>b. {up', kept', requested', override', failure', broken', swallowed', token',
       expired'} \subseteq BOOLEAN
  BY <1>v, Zenon DEF TaskInv, TypeOK, ResultReturns, Viewable, ResultFrame,
    ResultGoto, clock, runner, handle
<1>2. TypeOK'
  BY <1>v, <1>n, <1>b, <1>1, TaskAssumption DEF TaskInv, TypeOK, TimesAreOrdered,
    Time, TaskStates, Legacy, Inline, NoReply, ResultReturns, Viewable, ResultFrame,
    ResultGoto, NoFault, clock, runner, submit, cancels, handle, bounds, States,
    TerminalStates
<1>3. NothingBeforeAcceptance'
  BY <1>v DEF TaskInv, NothingBeforeAcceptance, ResultReturns, Viewable, ResultFrame,
    ResultGoto, runner, submit, handle, States, TerminalStates, Absent
<1>4. NonterminalNeverPurged'
  BY <1>v DEF TaskInv, NonterminalNeverPurged, NothingBeforeAcceptance, ResultReturns,
    Viewable, ResultFrame, ResultGoto, runner, handle, IsTerminal, States,
    TerminalStates, Absent
<1>5. PromiseIsKept'
  BY <1>v, <1>n DEF TaskInv, PromiseIsKept, NothingBeforeAcceptance, ResultReturns,
    Viewable, ResultFrame, ResultGoto, submit, handle
<1>6. AcknowledgedHandleLivesOneTTL'
  BY <1>v, <1>n DEF TaskInv, AcknowledgedHandleLivesOneTTL, PromiseIsKept,
    TimesAreOrdered, ResultReturns, Viewable, ResultFrame, ResultGoto, clock, submit,
    handle
<1>7. FailureComesFirst'
  BY <1>v DEF TaskInv, FailureComesFirst, NonterminalNeverPurged, ResultReturns,
    Viewable, ResultFrame, ResultGoto, runner, handle, IsTerminal, States,
    TerminalStates, Absent
<1>8. ResultsFollowTheEnd'
  BY <1>v DEF TaskInv, ResultsFollowTheEnd, NothingBeforeAcceptance, TypeOK,
    ResultReturns, Viewable, ResultFrame, ResultGoto, runner, IsTerminal, States,
    TerminalStates, Absent
<1>9. BrokenTaskReportsError'
  BY <1>v DEF TaskInv, BrokenTaskReportsError, FailureComesFirst, ResultsFollowTheEnd,
    TypeOK, ResultReturns, Viewable, ResultFrame, ResultGoto, runner, handle,
    IsTerminal, States, TerminalStates, Absent
<1>10. RepliesFollowTheOverride'
  BY <1>v DEF TaskInv, RepliesFollowTheOverride, TypeOK, Legacy, Inline, NoReply,
    TaskStates, ResultReturns, Viewable, ResultFrame, ResultGoto, cancels, handle
<1> QED  BY <1>1, <1>2, <1>3, <1>4, <1>5, <1>6, <1>7, <1>8, <1>9, <1>10 DEF TaskInv

\* A lookup removes an expired handle.
LEMMA GetExpiredKeeps ==
    ASSUME TaskInv, GetExpired
    PROVE  TaskInv'
<1>n. /\ now \in Nat /\ created \in Nat /\ updated \in Nat
      /\ expires \in Nat /\ asked \in Nat /\ finishedAt \in Nat /\ TTL \in Nat
  BY TaskAssumption DEF TaskInv, TypeOK, Time
<1>v. ViewFails => /\ kept' \in BOOLEAN /\ (kept' => kept)
                   /\ kept /\ ~kept' => IsTerminal(rec) /\ expires <= now
                   /\ UNCHANGED <<created, updated, expires, requested, override, failure>>
  BY ViewFailsKeeps
<1>1. TimesAreOrdered'
  BY <1>v, <1>n DEF TaskInv, TimesAreOrdered, GetExpired, clock, submit, handle,
    runner, vars
<1>b. {up', kept', requested', override', failure', broken', swallowed', token',
       expired'} \subseteq BOOLEAN
  BY <1>v, Zenon DEF TaskInv, TypeOK, GetExpired, clock, handle, runner, vars
<1>2. TypeOK'
  BY <1>v, <1>n, <1>b, <1>1, TaskAssumption DEF TaskInv, TypeOK, TimesAreOrdered,
    Time, TaskStates, Legacy, Inline, NoReply, GetExpired, NoFault, clock, submit,
    cancels, results, handle, bounds, runner, vars, States, TerminalStates
<1>3. NothingBeforeAcceptance'
  BY <1>v DEF TaskInv, NothingBeforeAcceptance, GetExpired, submit, handle, runner,
    vars, States, TerminalStates, Absent
<1>4. NonterminalNeverPurged'
  BY <1>v DEF TaskInv, NonterminalNeverPurged, NothingBeforeAcceptance, GetExpired,
    handle, runner, vars, IsTerminal, States, TerminalStates, Absent
<1>5. PromiseIsKept'
  BY <1>v, <1>n DEF TaskInv, PromiseIsKept, NothingBeforeAcceptance, GetExpired,
    submit, handle, vars
<1>6. AcknowledgedHandleLivesOneTTL'
  BY <1>v, <1>n DEF TaskInv, AcknowledgedHandleLivesOneTTL, PromiseIsKept,
    TimesAreOrdered, GetExpired, clock, submit, handle, vars
<1>7. FailureComesFirst'
  BY <1>v DEF TaskInv, FailureComesFirst, NonterminalNeverPurged, GetExpired, handle,
    runner, vars, IsTerminal, States, TerminalStates, Absent
<1>8. ResultsFollowTheEnd'
  BY <1>v DEF TaskInv, ResultsFollowTheEnd, NothingBeforeAcceptance, TypeOK,
    GetExpired, results, runner, vars, IsTerminal, States, TerminalStates, Absent
<1>9. BrokenTaskReportsError'
  BY <1>v DEF TaskInv, BrokenTaskReportsError, FailureComesFirst, ResultsFollowTheEnd,
    TypeOK, GetExpired, results, handle, runner, vars, IsTerminal, States,
    TerminalStates, Absent
<1>10. RepliesFollowTheOverride'
  BY <1>v DEF TaskInv, RepliesFollowTheOverride, TypeOK, Legacy, Inline, NoReply,
    TaskStates, GetExpired, cancels, handle, vars
<1> QED  BY <1>1, <1>2, <1>3, <1>4, <1>5, <1>6, <1>7, <1>8, <1>9, <1>10 DEF TaskInv

\* Retention collects without removing.
LEMMA CollectExpiredKeeps ==
    ASSUME TaskInv, CollectExpired
    PROVE  TaskInv'
<1>n. /\ now \in Nat /\ created \in Nat /\ updated \in Nat
      /\ expires \in Nat /\ asked \in Nat /\ finishedAt \in Nat /\ TTL \in Nat
  BY TaskAssumption DEF TaskInv, TypeOK, Time
<1>1. TimesAreOrdered'
  BY <1>n DEF TaskInv, TimesAreOrdered, CollectExpired, clock, submit, handle, runner,
    vars
<1>b. {up', kept', requested', override', failure', broken', swallowed', token',
       expired'} \subseteq BOOLEAN
  BY Zenon DEF TaskInv, TypeOK, CollectExpired, clock, handle, runner, vars
<1>2. TypeOK'
  BY <1>n, <1>b, <1>1, TaskAssumption DEF TaskInv, TypeOK, TimesAreOrdered, Time,
    TaskStates, Legacy, Inline, NoReply, CollectExpired, NoFault, clock, submit,
    cancels, results, handle, bounds, runner, vars, States, TerminalStates
<1>3. NothingBeforeAcceptance'
  BY DEF TaskInv, NothingBeforeAcceptance, CollectExpired, submit, handle, runner,
    vars, States, TerminalStates, Absent
<1>4. NonterminalNeverPurged'
  BY DEF TaskInv, NonterminalNeverPurged, NothingBeforeAcceptance, CollectExpired,
    handle, runner, vars, IsTerminal, States, TerminalStates, Absent
<1>5. PromiseIsKept'
  BY <1>n DEF TaskInv, PromiseIsKept, NothingBeforeAcceptance, CollectExpired, submit,
    handle, vars
<1>6. AcknowledgedHandleLivesOneTTL'
  BY <1>n DEF TaskInv, AcknowledgedHandleLivesOneTTL, PromiseIsKept, TimesAreOrdered,
    CollectExpired, clock, submit, handle, vars
<1>7. FailureComesFirst'
  BY DEF TaskInv, FailureComesFirst, NonterminalNeverPurged, CollectExpired, handle,
    runner, vars, IsTerminal, States, TerminalStates, Absent
<1>8. ResultsFollowTheEnd'
  BY DEF TaskInv, ResultsFollowTheEnd, NothingBeforeAcceptance, TypeOK,
    CollectExpired, results, runner, vars, IsTerminal, States, TerminalStates, Absent
<1>9. BrokenTaskReportsError'
  BY DEF TaskInv, BrokenTaskReportsError, FailureComesFirst, ResultsFollowTheEnd,
    TypeOK, CollectExpired, results, handle, runner, vars, IsTerminal, States,
    TerminalStates, Absent
<1>10. RepliesFollowTheOverride'
  BY DEF TaskInv, RepliesFollowTheOverride, TypeOK, Legacy, Inline, NoReply,
    TaskStates, CollectExpired, cancels, handle, vars
<1> QED  BY <1>1, <1>2, <1>3, <1>4, <1>5, <1>6, <1>7, <1>8, <1>9, <1>10 DEF TaskInv

\* Retention removes what is still expired.
LEMMA DeleteExpiredKeeps ==
    ASSUME TaskInv, DeleteExpired
    PROVE  TaskInv'
<1>n. /\ now \in Nat /\ created \in Nat /\ updated \in Nat
      /\ expires \in Nat /\ asked \in Nat /\ finishedAt \in Nat /\ TTL \in Nat
  BY TaskAssumption DEF TaskInv, TypeOK, Time
<1>1. TimesAreOrdered'
  BY <1>n DEF TaskInv, TimesAreOrdered, DeleteExpired, IsExpired, RemoveHandle, clock,
    submit, handle, runner, vars
<1>b. {up', kept', requested', override', failure', broken', swallowed', token',
       expired'} \subseteq BOOLEAN
  BY Zenon DEF TaskInv, TypeOK, DeleteExpired, IsExpired, RemoveHandle, clock, handle,
    runner, vars
<1>2. TypeOK'
  BY <1>n, <1>b, <1>1, TaskAssumption DEF TaskInv, TypeOK, TimesAreOrdered, Time,
    TaskStates, Legacy, Inline, NoReply, DeleteExpired, IsExpired, RemoveHandle,
    NoFault, clock, submit, cancels, results, handle, bounds, runner, vars, States,
    TerminalStates
<1>3. NothingBeforeAcceptance'
  BY DEF TaskInv, NothingBeforeAcceptance, DeleteExpired, IsExpired, RemoveHandle,
    submit, handle, runner, vars, States, TerminalStates, Absent
<1>4. NonterminalNeverPurged'
  BY DEF TaskInv, NonterminalNeverPurged, NothingBeforeAcceptance, DeleteExpired,
    IsExpired, RemoveHandle, handle, runner, vars, IsTerminal, States, TerminalStates,
    Absent
<1>5. PromiseIsKept'
  BY <1>n DEF TaskInv, PromiseIsKept, NothingBeforeAcceptance, DeleteExpired,
    IsExpired, RemoveHandle, submit, handle, vars
<1>6. AcknowledgedHandleLivesOneTTL'
  BY <1>n DEF TaskInv, AcknowledgedHandleLivesOneTTL, PromiseIsKept, TimesAreOrdered,
    DeleteExpired, IsExpired, RemoveHandle, clock, submit, handle, vars
<1>7. FailureComesFirst'
  BY DEF TaskInv, FailureComesFirst, NonterminalNeverPurged, DeleteExpired,
    IsExpired, RemoveHandle, handle, runner, vars, IsTerminal, States, TerminalStates,
    Absent
<1>8. ResultsFollowTheEnd'
  BY DEF TaskInv, ResultsFollowTheEnd, NothingBeforeAcceptance, TypeOK,
    DeleteExpired, IsExpired, RemoveHandle, results, runner, vars, IsTerminal, States,
    TerminalStates, Absent
<1>9. BrokenTaskReportsError'
  BY DEF TaskInv, BrokenTaskReportsError, FailureComesFirst, ResultsFollowTheEnd,
    TypeOK, DeleteExpired, IsExpired, RemoveHandle, results, handle, runner, vars,
    IsTerminal, States, TerminalStates, Absent
<1>10. RepliesFollowTheOverride'
  BY DEF TaskInv, RepliesFollowTheOverride, TypeOK, Legacy, Inline, NoReply,
    TaskStates, DeleteExpired, IsExpired, RemoveHandle, cancels, handle, vars
<1> QED  BY <1>1, <1>2, <1>3, <1>4, <1>5, <1>6, <1>7, <1>8, <1>9, <1>10 DEF TaskInv

\* Time passes.
LEMMA TickKeeps ==
    ASSUME TaskInv, Tick
    PROVE  TaskInv'
<1>n. /\ now \in Nat /\ created \in Nat /\ updated \in Nat
      /\ expires \in Nat /\ asked \in Nat /\ finishedAt \in Nat /\ TTL \in Nat
  BY TaskAssumption DEF TaskInv, TypeOK, Time
<1>1. TimesAreOrdered'
  BY <1>n DEF TaskInv, TimesAreOrdered, Tick, clock, submit, handle, runner, vars
<1>b. {up', kept', requested', override', failure', broken', swallowed', token',
       expired'} \subseteq BOOLEAN
  BY Zenon DEF TaskInv, TypeOK, Tick, clock, handle, runner, vars
<1>2. TypeOK'
  BY <1>n, <1>b, <1>1, TaskAssumption DEF TaskInv, TypeOK, TimesAreOrdered, Time,
    TaskStates, Legacy, Inline, NoReply, Tick, NoFault, clock, submit, cancels,
    results, handle, bounds, runner, vars, States, TerminalStates
<1>3. NothingBeforeAcceptance'
  BY DEF TaskInv, NothingBeforeAcceptance, Tick, submit, handle, runner, vars,
    States, TerminalStates, Absent
<1>4. NonterminalNeverPurged'
  BY DEF TaskInv, NonterminalNeverPurged, NothingBeforeAcceptance, Tick, handle,
    runner, vars, IsTerminal, States, TerminalStates, Absent
<1>5. PromiseIsKept'
  BY <1>n DEF TaskInv, PromiseIsKept, NothingBeforeAcceptance, Tick, submit, handle,
    vars
<1>6. AcknowledgedHandleLivesOneTTL'
  BY <1>n DEF TaskInv, AcknowledgedHandleLivesOneTTL, PromiseIsKept, TimesAreOrdered,
    Tick, clock, submit, handle, vars
<1>7. FailureComesFirst'
  BY DEF TaskInv, FailureComesFirst, NonterminalNeverPurged, Tick, handle, runner,
    vars, IsTerminal, States, TerminalStates, Absent
<1>8. ResultsFollowTheEnd'
  BY DEF TaskInv, ResultsFollowTheEnd, NothingBeforeAcceptance, TypeOK, Tick,
    results, runner, vars, IsTerminal, States, TerminalStates, Absent
<1>9. BrokenTaskReportsError'
  BY DEF TaskInv, BrokenTaskReportsError, FailureComesFirst, ResultsFollowTheEnd,
    TypeOK, Tick, results, handle, runner, vars, IsTerminal, States, TerminalStates,
    Absent
<1>10. RepliesFollowTheOverride'
  BY DEF TaskInv, RepliesFollowTheOverride, TypeOK, Legacy, Inline, NoReply,
    TaskStates, Tick, cancels, handle, vars
<1> QED  BY <1>1, <1>2, <1>3, <1>4, <1>5, <1>6, <1>7, <1>8, <1>9, <1>10 DEF TaskInv

\* A crash keeps the durable record and ends every request.
LEMMA CrashKeeps ==
    ASSUME TaskInv, Crash
    PROVE  TaskInv'
<1>n. /\ now \in Nat /\ created \in Nat /\ updated \in Nat
      /\ expires \in Nat /\ asked \in Nat /\ finishedAt \in Nat /\ TTL \in Nat
  BY TaskAssumption DEF TaskInv, TypeOK, Time
<1>1. TimesAreOrdered'
  BY <1>n DEF TaskInv, TimesAreOrdered, Crash, clock, submit, handle, runner, vars
<1>b. {up', kept', requested', override', failure', broken', swallowed', token',
       expired'} \subseteq BOOLEAN
  BY Zenon DEF TaskInv, TypeOK, Crash, clock, handle, runner, vars
<1>2. TypeOK'
  BY <1>n, <1>b, <1>1, TaskAssumption DEF TaskInv, TypeOK, TimesAreOrdered, Time,
    TaskStates, Legacy, Inline, NoReply, Crash, NoFault, clock, submit, cancels,
    results, handle, bounds, runner, vars, States, TerminalStates
<1>3. NothingBeforeAcceptance'
  BY DEF TaskInv, NothingBeforeAcceptance, Crash, submit, handle, runner, vars,
    States, TerminalStates, Absent
<1>4. NonterminalNeverPurged'
  BY DEF TaskInv, NonterminalNeverPurged, NothingBeforeAcceptance, Crash, handle,
    runner, vars, IsTerminal, States, TerminalStates, Absent
<1>5. PromiseIsKept'
  BY <1>n DEF TaskInv, PromiseIsKept, NothingBeforeAcceptance, Crash, submit, handle,
    vars
<1>6. AcknowledgedHandleLivesOneTTL'
  BY <1>n DEF TaskInv, AcknowledgedHandleLivesOneTTL, PromiseIsKept, TimesAreOrdered,
    Crash, clock, submit, handle, vars
<1>7. FailureComesFirst'
  BY DEF TaskInv, FailureComesFirst, NonterminalNeverPurged, Crash, handle, runner,
    vars, IsTerminal, States, TerminalStates, Absent
<1>8. ResultsFollowTheEnd'
  BY DEF TaskInv, ResultsFollowTheEnd, NothingBeforeAcceptance, TypeOK, Crash,
    results, runner, vars, IsTerminal, States, TerminalStates, Absent
<1>9. BrokenTaskReportsError'
  BY DEF TaskInv, BrokenTaskReportsError, FailureComesFirst, ResultsFollowTheEnd,
    TypeOK, Crash, results, handle, runner, vars, IsTerminal, States, TerminalStates,
    Absent
<1>10. RepliesFollowTheOverride'
  BY DEF TaskInv, RepliesFollowTheOverride, TypeOK, Legacy, Inline, NoReply,
    TaskStates, Crash, cancels, handle, vars
<1> QED  BY <1>1, <1>2, <1>3, <1>4, <1>5, <1>6, <1>7, <1>8, <1>9, <1>10 DEF TaskInv

\* Recovery interrupts a record that has not ended.
LEMMA RestartKeeps ==
    ASSUME TaskInv, Restart
    PROVE  TaskInv'
<1>n. /\ now \in Nat /\ created \in Nat /\ updated \in Nat
      /\ expires \in Nat /\ asked \in Nat /\ finishedAt \in Nat /\ TTL \in Nat
  BY TaskAssumption DEF TaskInv, TypeOK, Time
<1>e. \A t \in States : EndInvocation(t) =>
           /\ rec' = t /\ finishedAt' = now
           /\ expires' \in Nat /\ updated' \in Nat
           /\ expires <= expires' /\ updated <= updated' /\ updated' <= now
           /\ expires' <= updated' + TTL
           /\ UNCHANGED <<kept, created, requested, override, failure>>
  BY EndingExtends
<1>1. TimesAreOrdered'
  BY <1>e, <1>n DEF TaskInv, TimesAreOrdered, Restart, clock, submit, handle, runner,
    vars, States, TerminalStates
<1>b. {up', kept', requested', override', failure', broken', swallowed', token',
       expired'} \subseteq BOOLEAN
  BY <1>e, Zenon DEF TaskInv, TypeOK, Restart, clock, handle, runner, vars, States,
    TerminalStates
<1>2. TypeOK'
  BY <1>e, <1>n, <1>b, <1>1, TaskAssumption DEF TaskInv, TypeOK, TimesAreOrdered,
    Time, TaskStates, Legacy, Inline, NoReply, Restart, NoFault, clock, submit,
    cancels, results, handle, bounds, runner, vars, States, TerminalStates
<1>3. NothingBeforeAcceptance'
  BY <1>e DEF TaskInv, NothingBeforeAcceptance, Restart, submit, handle, runner, vars,
    States, TerminalStates, Absent
<1>4. NonterminalNeverPurged'
  BY <1>e DEF TaskInv, NonterminalNeverPurged, NothingBeforeAcceptance, Restart,
    handle, runner, vars, IsTerminal, States, TerminalStates, Absent
<1>5. PromiseIsKept'
  <2>1. /\ spc' = spc /\ created' = created /\ kept' = kept
        /\ expires' \in Nat /\ expires <= expires'
    BY <1>e, <1>n DEF Restart, submit, handle, vars, States, TerminalStates
  <2> QED  BY <2>1, <1>n DEF TaskInv, PromiseIsKept
<1>6. AcknowledgedHandleLivesOneTTL'
  BY <1>e, <1>n DEF TaskInv, AcknowledgedHandleLivesOneTTL, PromiseIsKept,
    TimesAreOrdered, Restart, clock, submit, handle, vars, States, TerminalStates
<1>7. FailureComesFirst'
  BY <1>e DEF TaskInv, FailureComesFirst, NonterminalNeverPurged, Restart, handle,
    runner, vars, IsTerminal, States, TerminalStates, Absent
<1>8. ResultsFollowTheEnd'
  BY <1>e DEF TaskInv, ResultsFollowTheEnd, NothingBeforeAcceptance, TypeOK, Restart,
    results, runner, vars, IsTerminal, States, TerminalStates, Absent
<1>9. BrokenTaskReportsError'
  BY <1>e DEF TaskInv, BrokenTaskReportsError, FailureComesFirst, ResultsFollowTheEnd,
    TypeOK, Restart, results, handle, runner, vars, IsTerminal, States,
    TerminalStates, Absent
<1>10. RepliesFollowTheOverride'
  BY <1>e DEF TaskInv, RepliesFollowTheOverride, TypeOK, Legacy, Inline, NoReply,
    TaskStates, Restart, cancels, handle, vars, States, TerminalStates
<1> QED  BY <1>1, <1>2, <1>3, <1>4, <1>5, <1>6, <1>7, <1>8, <1>9, <1>10 DEF TaskInv

-----------------------------------------------------------------------------
(* The invariant holds                                                      *)

\* A task that was not submitted satisfies the invariant.
LEMMA InitEstablishesInv == Init => TaskInv
<1> SUFFICES ASSUME Init PROVE TaskInv
  OBVIOUS
<1>b. {up, kept, requested, override, failure, broken, swallowed, token, expired}
      \subseteq BOOLEAN
  BY Zenon DEF Init
<1>1. TypeOK
  BY <1>b, TaskAssumption DEF Init, TypeOK, Time, Legacy, Inline, NoReply, TaskStates, Absent
<1>2. TimesAreOrdered /\ PromiseIsKept /\ AcknowledgedHandleLivesOneTTL
  BY TaskAssumption DEF Init, TimesAreOrdered, PromiseIsKept, AcknowledgedHandleLivesOneTTL
<1>3. NothingBeforeAcceptance /\ NonterminalNeverPurged
  BY DEF Init, NothingBeforeAcceptance, NonterminalNeverPurged, States, Absent
<1>4. FailureComesFirst /\ ResultsFollowTheEnd /\ BrokenTaskReportsError
  BY DEF Init, FailureComesFirst, ResultsFollowTheEnd, BrokenTaskReportsError
<1>5. RepliesFollowTheOverride
  BY DEF Init, RepliesFollowTheOverride
<1> QED  BY <1>1, <1>2, <1>3, <1>4, <1>5 DEF TaskInv

\* A stuttering step preserves the invariant.
LEMMA StutterKeeps ==
    ASSUME TaskInv, UNCHANGED vars
    PROVE  TaskInv'
BY DEF TaskInv, vars, TypeOK, TimesAreOrdered, NothingBeforeAcceptance,
   NonterminalNeverPurged, PromiseIsKept, AcknowledgedHandleLivesOneTTL,
   FailureComesFirst, ResultsFollowTheEnd, BrokenTaskReportsError,
   RepliesFollowTheOverride

\* Every step of the task, its clients and its server preserves the invariant.
LEMMA NextKeepsInv ==
    ASSUME TaskInv, [Next]_vars
    PROVE  TaskInv'
<1>1. CASE SubmitStep
  BY <1>1, ComputeExpiryKeeps, AcceptKeeps, ViewSubmittedKeeps, ExtendSubmittedKeeps,
     ReviewSubmittedKeeps DEF SubmitStep
<1>2. CASE RunnerStep
  BY <1>2, WorkerAdvancesKeeps, WorkerFinishesKeeps, WorkerObservesEndKeeps,
     WorkerFailsKeeps, MaterializeKeeps DEF RunnerStep
<1>3. ASSUME NEW c \in Cancels,
             CancelChecks(c) \/ CancelStep(c) \/ CancelAbandoned(c) \/ Finalize(c)
      PROVE  TaskInv'
  BY <1>3, CancelChecksKeeps, CancelRecordsKeeps, CancelRunnerKeeps, CancelStoreKeeps,
     FinalizeKeeps, CancelWaitEndsKeeps, CancelAbandonedKeeps, CancelOverridesKeeps,
     CancelRepliesKeeps DEF CancelStep
<1>4. ASSUME NEW r \in Results, ResultStep(r)
      PROVE  TaskInv'
  BY <1>4, ResultChecksKeeps, ResultWaitEndsKeeps, ResultReturnsKeeps DEF ResultStep
<1>5. CASE GetExpired \/ CollectExpired \/ DeleteExpired
  BY <1>5, GetExpiredKeeps, CollectExpiredKeeps, DeleteExpiredKeeps
<1>6. CASE Tick \/ Crash \/ Restart
  BY <1>6, TickKeeps, CrashKeeps, RestartKeeps
<1>7. CASE Idle \/ UNCHANGED vars
  BY <1>7, StutterKeeps DEF Idle
<1> QED  BY <1>1, <1>2, <1>3, <1>4, <1>5, <1>6, <1>7 DEF Next

\* The inductive invariant holds of every state of the task.
THEOREM TaskInvariance == Spec => []TaskInv
BY InitEstablishesInv, NextKeepsInv, PTL DEF Spec

\* The client's handle is honest for every TTL and every number of calls: no purge takes
\* the handle of an unfinished task or one acknowledged less than a TTL ago, and a task
\* its supervisor ended is never reported as a success.
THEOREM HandlesAreHonest == Spec => []HandleIsHonest
<1>1. TaskInv => HandleIsHonest
  BY DEF TaskInv, HandleIsHonest
<1> QED  BY <1>1, TaskInvariance, PTL

\* What tasks/cancel answered in the legacy dialect stays true while the handle exists.
THEOREM CancelledStaysCancelled == Spec => []CancelledTaskStaysCancelled
<1>1. TaskInv => CancelledTaskStaysCancelled
  BY DEF TaskInv, RepliesFollowTheOverride, CancelledTaskStaysCancelled, TaskState
<1> QED  BY <1>1, TaskInvariance, PTL

-----------------------------------------------------------------------------
(* The extension's task state                                               *)

\* No step changes a record that has ended, or the dialect of the task.
LEMMA EndedRecordIsFinal ==
    ASSUME TaskInv, [Next]_vars
    PROVE  retrieval' = retrieval /\ (IsTerminal(rec) => rec' = rec)
<1>1. CASE SubmitStep
  BY <1>1 DEF TaskInv, NothingBeforeAcceptance, SubmitStep, ComputeExpiry, Accept,
     ViewSubmitted, ExtendSubmitted, ReviewSubmitted, SubmitFrame, runner, IsTerminal,
     TerminalStates, Absent
<1>2. CASE RunnerStep
  <2>1. ASSUME NEW s \in States, WorkerAdvances(s) \/ WorkerFinishes(s)
        PROVE  retrieval' = retrieval /\ ~IsTerminal(rec)
    BY <2>1 DEF WorkerAdvances, WorkerFinishes, RunnerFrame, ValidateTransition,
       IsTerminal, TerminalStates
  <2>2. CASE WorkerObservesEnd \/ WorkerFails
    BY <2>2 DEF WorkerObservesEnd, WorkerFails, RunnerFrame
  <2>3. CASE Materialize
    BY <2>3 DEF Materialize, RunnerFrame, ValidateTransition, IsTerminal, TerminalStates
  <2> QED  BY <1>2, <2>1, <2>2, <2>3 DEF RunnerStep
<1>3. ASSUME NEW c \in Cancels,
             CancelChecks(c) \/ CancelStep(c) \/ CancelAbandoned(c) \/ Finalize(c)
      PROVE  retrieval' = retrieval /\ (IsTerminal(rec) => rec' = rec)
  <2>1. CASE CancelStore(c)
    BY <2>1 DEF CancelStore, CancelFrame, ValidateTransition, IsTerminal, TerminalStates
  <2> QED
    BY <1>3, <2>1 DEF CancelStep, CancelChecks, CancelRecords, CancelRunner, Finalize,
       CancelWaitEnds, CancelAbandoned, CancelOverrides, CancelReplies, CancelFrame
<1>4. ASSUME NEW r \in Results, ResultStep(r)
      PROVE  retrieval' = retrieval /\ rec' = rec
  BY <1>4 DEF ResultStep, ResultChecks, ResultWaitEnds, ResultReturns, ResultFrame, runner
<1>5. CASE GetExpired \/ CollectExpired \/ DeleteExpired
  BY <1>5 DEF GetExpired, CollectExpired, DeleteExpired, runner
<1>6. CASE Tick \/ Crash
  BY <1>6 DEF Tick, Crash, runner
<1>7. CASE Restart
  BY <1>7 DEF Restart, IsTerminal
<1>8. CASE Idle \/ UNCHANGED vars
  BY <1>8 DEF Idle, vars
<1> QED  BY <1>1, <1>2, <1>3, <1>4, <1>5, <1>6, <1>7, <1>8 DEF Next

\* A terminal state that the extension's poll reported is what every later poll reports:
\* the state is derived from the record, which has ended, whatever the handle stores.
THEOREM ExtensionStateIsFinal == Spec => ExtensionStatusIsFinal
<1>1. ASSUME TaskInv, [Next]_vars, retrieval = Inline, TaskState \in TerminalTaskStates
      PROVE  TaskState' = TaskState
  <2>1. IsTerminal(rec)
    BY <1>1 DEF TaskState, TerminalTaskStates, Legacy, Inline, IsTerminal, TerminalStates
  <2>2. retrieval' = retrieval /\ rec' = rec
    BY <1>1, <2>1, EndedRecordIsFinal
  <2> QED  BY <1>1, <2>1, <2>2 DEF TaskState, Legacy, Inline, IsTerminal
<1>2. ASSUME TaskInv, [Next]_vars
      PROVE  [retrieval = Inline /\ kept /\ TaskState \in TerminalTaskStates
              => TaskState' = TaskState]_vars
  BY <1>1, <1>2
<1> QED  BY <1>2, TaskInvariance, PTL DEF Spec, ExtensionStatusIsFinal
=============================================================================
