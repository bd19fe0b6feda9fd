--------------------------- MODULE BuildReduction ---------------------------
(* The reduction of a build event stream to a result                         *)
(* (crates/bazel-mcp-reducer/src/build.rs): the accumulator that keeps a     *)
(* bounded part of every event as it is decoded, what it makes of that at    *)
(* the end of the stream, and the same reduction written over the whole list *)
(* of events, which the tools and the tests use.                             *)
(*                                                                           *)
(* An event is a record of all fields an event can carry. Labels, actions,   *)
(* file sets and files are numbers, 0 where there is none; a message is as   *)
(* long as its record says. A set or an argument from 10 on has a name over  *)
(* its limit (4 KiB and 64 KiB), which the accumulator cuts; file names are  *)
(* cut alike in both reductions and stand for what is left of them.          *)
EXTENDS Diagnostics

CONSTANTS STREAM_MAX_ITEMS,           \* 250,000 in the code
          STREAM_MAX_RETAINED_BYTES,  \* 64 MiB in the code
          MaxReducerEvents,           \* limits of the events kept for custom reducers
          MaxReducerBytes

BlankEvent == [kind |-> "other", label |-> NoLabel, actionLabel |-> NoLabel, ok |-> TRUE,
               code |-> 0, type |-> NoAction, reason |-> 0, status |-> 0,
               message |-> NewMessage("none", 0, {}, 0), setId |-> 0, sets |-> <<>>,
               files |-> <<>>, arguments |-> <<>>]

\* A name within its limit stands for one byte, a longer one for two, no name
\* for none.
NameBytes(name) == IF name = 0 THEN 0 ELSE IF name < 10 THEN 1 ELSE 2
SumBytes(seq, Bytes(_)) == FoldLeft(LAMBDA sum, item : sum + Bytes(item), 0, seq)

-----------------------------------------------------------------------------
(* The parts of an event.                                                    *)

\* A file is [name, source, id]; one without a source is no artifact. The kind
\* follows from the name first and the source second.
FileArtifact(file) ==
    IF file.source = "none" THEN <<>>
    ELSE <<[name |-> file.name, id |-> IF file.source = "contents" THEN 0 ELSE file.id,
            kind |-> CASE file.source \in {"symlink", "contents"} -> "file"
                       [] file.source \in {"local", "remote"}
                            /\ file.name \in {"test.log", "test.xml"} -> "testLog"
                       [] file.source \in {"local", "remote"} /\ file.name = "coverage" -> "coverage"
                       [] file.source = "local" /\ file.name = "plain" -> "file"
                       [] file.source = "remote" /\ file.name = "plain" -> "remote",
            local |-> file.source # "remote"]>>

\* A name over its limit is cut; the ellipsis tells it from every shorter one.
BoundedName(name) == IF name < 10 THEN name ELSE Beginning(name)
BoundedNames(names) == [i \in DOMAIN names |-> BoundedName(names[i])]

FileArtifacts(files) == FlattenSeq([i \in DOMAIN files |-> FileArtifact(files[i])])

AbortCategory(reason) ==
    CASE reason = 5 -> "loading" [] reason = 6 -> "analysis" [] OTHER -> "bazel"

\* Bazel's status numbers.
TestStatus(value) ==
    CASE value = 1 -> "passed" [] value = 2 -> "flaky" [] value = 3 -> "timedOut"
      [] value \in {4, 7, 8} -> "failed" [] value = 6 -> "remote" [] OTHER -> "incomplete"

StatusOf(e) == TestStatus(e.status)

Incomplete == {"timedOut", "incomplete", "remote"}

OutcomeKind == [flaky |-> "test_flaky", failed |-> "test_failed", timedOut |-> "test_timed_out",
                incomplete |-> "test_incomplete", remote |-> "test_unavailable"]

TestOutcomeDiagnostic(label, status) ==
    IF status \in {"passed", "skipped"} THEN <<>>
    ELSE <<NewDiagnostic(IF status = "flaky" THEN "warning" ELSE "error", "test",
                         NewMessage(OutcomeKind[status], label, {}, 1), NoPlace, label, NoAction)>>

AbortDiagnostic(e) ==
    NewDiagnostic("error", AbortCategory(e.reason), e.message, NoPlace, e.label, NoAction)

\* The label of the event's id, else the label the action itself carries.
ActionLabel(e) == IF e.label # NoLabel THEN e.label ELSE e.actionLabel

ActionDiagnostic(e) ==
    NewDiagnostic("error", "action", NewMessage("action_failed", 10 * e.type + e.code, {}, 1),
                  NoPlace, ActionLabel(e), e.type)

NewTest(label, status, attempts) ==
    [label |-> label, status |-> status, attempts |-> attempts, cases |-> <<>>,
     available |-> FALSE, reason |-> IF status = "passed" THEN "none" ELSE "not_snapshotted"]

-----------------------------------------------------------------------------
(* The accumulator.                                                          *)

NewAccumulator(extension) ==
    [diagnostics |-> <<>>, targets |-> <<>>, tests |-> <<>>, attempts |-> <<>>,
     namedSets |-> <<>>, roots |-> <<>>, direct |-> <<>>,
     arguments |-> <<>>,           \* an optional list of arguments
     build |-> "none", exec |-> "none", testResultSeen |-> FALSE,
     items |-> 0, bytes |-> 0, truncated |-> FALSE,
     extension |-> extension, events |-> <<>>, eventBytes |-> 0, eventsTruncated |-> FALSE,
     ordinal |-> 0]

\* reserve: what does not fit is dropped, and the result says so.
Reserve(acc, items, bytes, kept) ==
    IF acc.items + items > STREAM_MAX_ITEMS \/ acc.bytes + bytes > STREAM_MAX_RETAINED_BYTES
    THEN [acc EXCEPT !.truncated = TRUE]
    ELSE [kept EXCEPT !.items = @ + items, !.bytes = @ + bytes]

PushDiagnostic(acc, d) ==
    Reserve(acc, 1, d.message.bytes + NameBytes(d.target) + NameBytes(d.action),
            [acc EXCEPT !.diagnostics = Append(@, d)])

PushDirectArtifact(acc, artifact) ==
    Reserve(acc, 1, 1 + NameBytes(artifact.id), [acc EXCEPT !.direct = Append(@, artifact)])

PushFiles(acc, files) == FoldLeft(PushDirectArtifact, acc, FileArtifacts(files))

PushRoot(acc, id) ==
    Reserve(acc, 1, NameBytes(BoundedName(id)), [acc EXCEPT !.roots = Append(@, BoundedName(id))])

\* The events kept for custom reducers have a budget of their own.
ObserveExtensionEvent(acc, e) ==
    LET label == IF e.kind = "action" THEN ActionLabel(e) ELSE e.label
        type  == IF e.kind = "action" THEN e.type ELSE NoAction
        message == IF e.kind = "aborted" THEN <<BoundedText(e.message, DescriptionLimit)>> ELSE <<>>
        bytes == NameBytes(label) + NameBytes(type) + SumBytes(message, LAMBDA m : m.bytes)
    IN  IF ~acc.extension \/ e.kind \notin {"aborted", "action", "completed", "testSummary"}
        THEN acc
        ELSE IF Len(acc.events) >= MaxReducerEvents \/ acc.eventBytes + bytes > MaxReducerBytes
        THEN [acc EXCEPT !.eventsTruncated = TRUE]
        ELSE [acc EXCEPT !.eventBytes = @ + bytes,
                         !.events = Append(@, [ordinal |-> acc.ordinal, kind |-> e.kind,
                                               label |-> label, type |-> type,
                                               message |-> message])]

\* Mutant: the output of a failed action is forgotten.
ObserveActionWithoutOutput(acc, e) ==
    IF e.ok THEN acc ELSE PushDiagnostic(acc, ActionDiagnostic(e))

ObserveAction(acc, e) ==
    IF e.ok THEN acc ELSE PushFiles(PushDiagnostic(acc, ActionDiagnostic(e)), e.files)

ObserveCompleted(acc, e) ==
    PushFiles(FoldLeft(PushRoot,
                       Reserve(acc, 1, NameBytes(e.label),
                               [acc EXCEPT !.targets = Append(@, [label |-> e.label, ok |-> e.ok])]),
                       e.sets),
              e.files)

PushTest(acc, e) ==
    Reserve(acc, 1, NameBytes(e.label) + IF StatusOf(e) = "passed" THEN 0 ELSE 1,
            [acc EXCEPT !.tests = Append(@, NewTest(e.label, StatusOf(e), 1))])

ObserveTestSummary(acc, e) ==
    PushTest(FoldLeft(PushDiagnostic, acc, TestOutcomeDiagnostic(e.label, StatusOf(e))), e)

NoAttempts == [passed |-> FALSE, notPassed |-> FALSE, flaky |-> FALSE, attempts |-> 0]

ObserveAttempt(outcome, status) ==
    [outcome EXCEPT !.attempts = @ + 1,
                    !.passed = @ \/ status = "passed",
                    !.flaky = @ \/ status = "flaky",
                    !.notPassed = @ \/ status \notin {"passed", "flaky"}]

\* test_attempts is a list of <<label, outcome>>, one per label.
AttemptOf(attempts, label) == SelectSeq(attempts, LAMBDA entry : entry[1] = label)

ObserveAttempts(acc, e) ==
    IF e.label = NoLabel THEN acc
    ELSE IF AttemptOf(acc.attempts, e.label) # <<>>
    THEN [acc EXCEPT !.attempts = [i \in DOMAIN @ |->
            IF @[i][1] = e.label THEN <<e.label, ObserveAttempt(@[i][2], StatusOf(e))>> ELSE @[i]]]
    ELSE Reserve(acc, 1, NameBytes(e.label),
                 [acc EXCEPT !.attempts =
                    Append(@, <<e.label, ObserveAttempt(NoAttempts, StatusOf(e))>>)])

ObserveTestResult(acc, e) ==
    PushFiles(ObserveAttempts([acc EXCEPT !.testResultSeen = TRUE], e), e.files)

\* named_sets is a list of <<id, set>>; the last set of an id counts.
ObserveNamedSet(acc, e) ==
    IF e.setId = 0 THEN acc
    ELSE LET files    == FileArtifacts(e.files)
             children == BoundedNames(e.sets)
             key      == BoundedName(e.setId)
         IN  Reserve(acc, 1 + Len(files) + Len(children),
                     NameBytes(key) + SumBytes(files, LAMBDA file : 1 + NameBytes(file.id))
                       + SumBytes(children, NameBytes),
                     [acc EXCEPT !.namedSets = Append(@, <<key, [files |-> files,
                                                                 children |-> children]>>)])

ObserveOptions(acc, e) ==
    IF acc.arguments # <<>> THEN acc
    ELSE Reserve(acc, Len(e.arguments), SumBytes(BoundedNames(e.arguments), NameBytes),
                 [acc EXCEPT !.arguments = <<BoundedNames(e.arguments)>>])

YesNo(ok) == IF ok THEN "yes" ELSE "no"

ObservePayload(acc, e) ==
    CASE e.kind = "aborted"     ->
           PushDiagnostic(acc, AbortDiagnostic([e EXCEPT !.message = BoundedText(@, DescriptionLimit)]))
      [] e.kind = "action"      -> ObserveAction(acc, e)
      [] e.kind = "completed"   -> ObserveCompleted(acc, e)
      [] e.kind = "testSummary" -> ObserveTestSummary(acc, e)
      [] e.kind = "testResult"  -> ObserveTestResult(acc, e)
      [] e.kind = "namedSet"    -> ObserveNamedSet(acc, e)
      [] e.kind = "options"     -> ObserveOptions(acc, e)
      [] e.kind = "finished"    -> [acc EXCEPT !.build = YesNo(e.ok)]
      [] e.kind = "exec"        -> [acc EXCEPT !.exec = YesNo(e.ok)]
      [] OTHER                  -> acc

ObserveView(acc, e) ==
    ObservePayload([ObserveExtensionEvent(acc, e) EXCEPT !.ordinal = @ + 1], e)

-----------------------------------------------------------------------------
(* The end of the stream.                                                    *)

\* A stable sort by label, then only the first of each label.
FirstByLabel(results) ==
    LET first == SelectSeq([i \in DOMAIN results |-> i],
                           LAMBDA i : \A j \in 1..(i - 1) : results[j].label # results[i].label)
        order == SortSeq(first, LAMBDA i, j : results[i].label < results[j].label)
    IN  [k \in DOMAIN order |-> results[order[k]]]

CountOf(values, counted) == Cardinality({i \in DOMAIN values : values[i] \in counted})

TargetCounts(targets) ==
    LET ok == [i \in DOMAIN targets |-> targets[i].ok]
    IN  [requested |-> Len(targets), succeeded |-> CountOf(ok, {TRUE}),
         failed |-> CountOf(ok, {FALSE})]

TestCounts(tests) ==
    LET status == [i \in DOMAIN tests |-> tests[i].status]
    IN  [passed |-> CountOf(status, {"passed"}), failed |-> CountOf(status, {"failed"}),
         flaky |-> CountOf(status, {"flaky"}), skipped |-> CountOf(status, {"skipped"}),
         incomplete |-> CountOf(status, Incomplete)]

SuccessfulStatus(outcome) ==
    CASE outcome.flaky \/ (outcome.passed /\ outcome.notPassed) -> "flaky"
      [] outcome.passed /\ ~outcome.notPassed /\ ~outcome.flaky -> "passed"
      [] OTHER -> "none"

\* The tests Bazel reported attempts of and no summary for, in a build that
\* succeeded.
RecoveredTests(acc, tests, success) ==
    LET lost == SelectSeq(acc.attempts, LAMBDA entry :
                            /\ SuccessfulStatus(entry[2]) # "none"
                            /\ \A i \in DOMAIN tests : tests[i].label # entry[1])
    IN  IF success /\ acc.build = "yes"
        THEN [i \in DOMAIN lost |->
                [NewTest(lost[i][1], SuccessfulStatus(lost[i][2]), lost[i][2].attempts)
                   EXCEPT !.reason = "none"]]
        ELSE <<>>

\* The named sets reachable from the roots, each once, depth first from the
\* last root.
RECURSIVE WalkSets(_, _, _, _)
WalkSets(namedSets, pending, visited, artifacts) ==
    IF pending = <<>> THEN artifacts
    ELSE LET id    == Last(pending)
             rest  == Front(pending)
             found == SelectSeq(namedSets, LAMBDA entry : entry[1] = id)
         IN  IF id \in visited \/ found = <<>>
             THEN WalkSets(namedSets, rest, visited \union {id}, artifacts)
             ELSE WalkSets(namedSets, rest \o Last(found)[2].children, visited \union {id},
                           artifacts \o Last(found)[2].files)

DistinctArtifacts(artifacts) ==
    LET first == SelectSeq([i \in DOMAIN artifacts |-> i], LAMBDA i :
                   \A j \in 1..(i - 1) : \/ artifacts[j].name # artifacts[i].name
                                         \/ artifacts[j].id # artifacts[i].id)
    IN  [k \in DOMAIN first |-> artifacts[first[k]]]

ResolveArtifacts(acc) == DistinctArtifacts(WalkSets(acc.namedSets, acc.roots, {}, acc.direct))

\* The text is only searched when Bazel failed, standard error first.
TextDiagnostics(success, stdout, stderr) ==
    IF success THEN <<>> ELSE AddTextDiagnostics(stderr) \o AddTextDiagnostics(stdout)

BaseSummary(success, targets, tests, diagnostics, truncated) ==
    [success |-> success,
     headline |-> IF success THEN <<"completed">> ELSE <<"exit_code">>,
     targets |-> targets, targetCounts |-> TargetCounts(targets),
     diagnostics |-> diagnostics,
     tests |-> tests, testCounts |-> TestCounts(tests),
     coverage |-> "none", query |-> "none", queryRows |-> 0,
     truncated |-> truncated, hint |-> IF truncated THEN "diagnostics" ELSE "none"]

WithRecovered(acc, tests, recovered, stdout, stderr, success, budget) ==
    [summary |-> FinalizeDiagnostics(
                   BaseSummary(success, FirstByLabel(acc.targets),
                               FirstByLabel(tests \o recovered),
                               acc.diagnostics \o TextDiagnostics(success, stdout, stderr),
                               acc.truncated),
                   budget),
     artifacts |-> ResolveArtifacts(acc), arguments |-> acc.arguments,
     events |-> acc.events, inputTruncated |-> acc.eventsTruncated,
     build |-> acc.build, exec |-> acc.exec, testResultSeen |-> acc.testResultSeen,
     recovered |-> Len(recovered)]

FinishTests(acc, tests, stdout, stderr, success, budget) ==
    WithRecovered(acc, tests, RecoveredTests(acc, tests, success), stdout, stderr, success, budget)

Finish(acc, stdout, stderr, exitCode, budget) ==
    FinishTests(acc, FirstByLabel(acc.tests), stdout, stderr, exitCode = 0, budget)

-----------------------------------------------------------------------------
(* The same reduction over a whole list of events.                           *)

OfKind(events, kinds) == SelectSeq(events, LAMBDA e : e.kind \in kinds)

EventDiagnostic(e) ==
    CASE e.kind = "aborted" -> <<AbortDiagnostic(e)>>
      [] e.kind = "action" /\ ~e.ok -> <<ActionDiagnostic(e)>>
      [] e.kind = "testSummary" -> TestOutcomeDiagnostic(e.label, StatusOf(e))
      [] OTHER -> <<>>

ReduceInvocation(events, stdout, stderr, exitCode, budget) ==
    LET completed == OfKind(events, {"completed"})
        summaries == OfKind(events, {"testSummary"})
    IN  FinalizeDiagnostics(
          BaseSummary(exitCode = 0,
                      FirstByLabel([i \in DOMAIN completed |->
                                      [label |-> completed[i].label, ok |-> completed[i].ok]]),
                      FirstByLabel([i \in DOMAIN summaries |->
                                      NewTest(summaries[i].label, StatusOf(summaries[i]), 1)]),
                      FlattenSeq([i \in DOMAIN events |-> EventDiagnostic(events[i])])
                        \o TextDiagnostics(exitCode = 0, stdout, stderr),
                      FALSE),
          budget)

\* Artifacts straight from the events: the files of the sets are added in the
\* order of the walk, after those the events name directly.
ReduceArtifacts(events) ==
    LET direct == SelectSeq(events, LAMBDA e : \/ e.kind \in {"completed", "testResult"}
                                               \/ e.kind = "action" /\ ~e.ok)
        named  == SelectSeq(events, LAMBDA e : e.kind = "namedSet" /\ e.setId # 0)
    IN  DistinctArtifacts(WalkSets(
          [i \in DOMAIN named |-> <<named[i].setId, [files |-> FileArtifacts(named[i].files),
                                                     children |-> named[i].sets]>>],
          FlattenSeq([i \in DOMAIN events |->
                        IF events[i].kind = "completed" THEN events[i].sets ELSE <<>>]),
          {},
          FlattenSeq([i \in DOMAIN direct |-> FileArtifacts(direct[i].files)])))

ExtractCanonicalArguments(events) ==
    IF OfKind(events, {"options"}) = <<>> THEN <<>>
    ELSE <<OfKind(events, {"options"})[1].arguments>>

=============================================================================
