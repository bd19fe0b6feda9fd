------------------------- MODULE EvidenceReduction -------------------------
(* From the evidence of one Bazel process to its result                      *)
(* (crates/bazel-mcp-runner/src/execution.rs, capture_evidence and           *)
(* reduce_evidence; test_evidence.rs; artifacts.rs). Bazel emits events and  *)
(* prints lines and exits; the service then reduces the stream, copies the   *)
(* logs of failed tests, loads coverage, runs the custom reducers and cuts   *)
(* the result to its budget. Every step that touches a file may fail.        *)
EXTENDS CustomReducers

CONSTANTS Requests,          \* records [command, class, aspect]
          EventsOf(_),       \* the events a command's stream may hold, and how many
          MaxEventsOf(_),
          LinesOf(_),        \* the lines it may print, and how many
          MaxLinesOf(_),
          Exits,             \* records [code, termination]
          Patches,           \* what a custom reducer may answer
          CompleteTail,      \* lines of each log read beside a complete stream
          FallbackTail,      \* and beside a partial or missing one
          ResultBudget, NoticeBudget, BaselineBudget,
          MaxInputBytes,     \* a custom reducer's input, both logs together
          MessageLimit,      \* of a text in the result, 1,000 bytes in the code
          MaxCases,          \* cases kept of a test, 20 in the code
          RedactionGrowth    \* what "[REDACTED]" and "<workspace>" add to a text

VARIABLES phase, request, stream, bepError, acc, stdout, stderr,
          exit,       \* how Bazel ended
          reduced,    \* the StreamReductionOutput
          summary, run,
          disk,       \* the files of the test-log snapshot
          copy,       \* progress of the snapshot
          context,    \* what custom reducers are given
          report,     \* what they did
          added       \* the diagnostics their patches added

vars == <<phase, request, stream, bepError, acc, stdout, stderr, exit, reduced, summary, run,
          disk, copy, context, report, added>>

NoExit == [code |-> -1, termination |-> "none"]
NoReduction == [summary |-> BaseSummary(FALSE, <<>>, <<>>, <<>>, FALSE), artifacts |-> <<>>,
                arguments |-> <<>>, events |-> <<>>, inputTruncated |-> FALSE, build |-> "none",
                exec |-> "none", testResultSeen |-> FALSE, recovered |-> 0]
NoContext == [command |-> "none", events |-> <<>>, logs |-> <<>>, truncated |-> FALSE,
              baseline |-> NoReduction.summary]
NoCopy == [next |-> 1, copied |-> {}, diagnostics |-> <<>>]
NoFiles == [raw |-> FALSE, evidence |-> FALSE, rawTmp |-> FALSE, evidenceTmp |-> FALSE]

Init ==
    /\ phase = "running"
    /\ request \in Requests
    /\ stream = <<>> /\ bepError = FALSE
    /\ acc = NewAccumulator(Reducers # {})
    /\ stdout = <<>> /\ stderr = <<>>
    /\ exit = NoExit
    /\ reduced = NoReduction /\ summary = NoReduction.summary /\ run = <<"none">>
    /\ disk = NoFiles /\ copy = NoCopy
    /\ context = NoContext /\ report = NewReport /\ added = <<>>

later == <<exit, reduced, summary, run, disk, copy, context, report, added>>

-----------------------------------------------------------------------------
(* Bazel runs. Only a build-like command or a run has an event stream.       *)

CapturesBep(class) == class \in {"buildLike", "run"}

\* An event is decoded unless the stream is already broken.
Emit(e) ==
    /\ phase = "running" /\ CapturesBep(request.class) /\ Len(stream) < MaxEventsOf(request.command)
    /\ stream' = Append(stream, e)
    /\ acc' = IF bepError THEN acc ELSE ObserveView(acc, e)
    /\ UNCHANGED <<phase, request, bepError, stdout, stderr>> /\ UNCHANGED later

\* The stream cannot be decoded from here on.
BreakStream ==
    /\ phase = "running" /\ CapturesBep(request.class) /\ ~bepError
    /\ bepError' = TRUE
    /\ UNCHANGED <<phase, request, stream, acc, stdout, stderr>> /\ UNCHANGED later

WriteStdout(line) ==
    /\ phase = "running" /\ Len(stdout) + Len(stderr) < MaxLinesOf(request.command)
    /\ stdout' = Append(stdout, line)
    /\ UNCHANGED <<phase, request, stream, bepError, acc, stderr>> /\ UNCHANGED later

WriteStderr(line) ==
    /\ phase = "running" /\ Len(stdout) + Len(stderr) < MaxLinesOf(request.command)
    /\ stderr' = Append(stderr, line)
    /\ UNCHANGED <<phase, request, stream, bepError, acc, stdout>> /\ UNCHANGED later

ExitBazel(how) ==
    /\ phase = "running"
    /\ exit' = how
    /\ phase' = "exited"
    /\ UNCHANGED <<request, stream, bepError, acc, stdout, stderr, reduced, summary, run,
                   disk, copy, context, report, added>>

-----------------------------------------------------------------------------
(* The first summary: the reducer's, or a bounded fallback if it panics, and *)
(* what query, informational and run commands say instead.                   *)

LogTail == IF acc.ordinal > 0 /\ ~bepError THEN CompleteTail ELSE FallbackTail
LastLines(lines, limit) == SubSeq(lines, IF Len(lines) > limit THEN Len(lines) - limit + 1 ELSE 1,
                                  Len(lines))
LineBytes(lines) == SumBytes(lines, LAMBDA line : line.bytes)

FallbackDiagnostics(lines) ==
    IF exit.code = 0 \/ lines = <<>> THEN <<>>
    ELSE <<NewDiagnostic("error", "unknown", BoundedText(LineMessage(Last(lines)), MessageLimit),
                         NoPlace, NoLabel, NoAction)>>

FallbackSummary(lines) ==
    [BaseSummary(exit.code = 0, <<>>, <<>>, FallbackDiagnostics(lines), TRUE) EXCEPT
       !.headline = IF FallbackDiagnostics(lines) # <<>>
                    THEN <<"failed", FallbackDiagnostics(lines)[1].message>> ELSE @,
       !.hint = "log"]

FallbackReduction(out, err) ==
    [NoReduction EXCEPT !.summary = FallbackSummary(IF err = <<>> THEN out ELSE err)]

Excerpt(lines) ==
    <<"excerpt", BoundedText(NewMessage("text", Head(lines).id,
                                        UNION {lines[i].words : i \in DOMAIN lines},
                                        LineBytes(lines)), MessageLimit)>>

\* A query's result is its rows; an informational command's is its output.
CommandSummary(base, out, err) ==
    LET text == IF out = <<>> THEN err ELSE out IN
    CASE request.class = "query" /\ exit.code = 0 ->
           [base EXCEPT !.headline = <<"query_rows">>, !.query = "sample",
                        !.queryRows = Len(stdout),
                        !.hint = IF stdout # <<>> THEN "query_results" ELSE "none"]
      [] request.class \in {"informational", "unknown"} /\ exit.code = 0 /\ text # <<>> ->
           IF LineBytes(text) > MessageLimit
           THEN [base EXCEPT !.headline = Excerpt(text), !.truncated = TRUE, !.hint = "log"]
           ELSE [base EXCEPT !.headline = Excerpt(text)]
      [] OTHER -> base

RunOutcome(out) ==
    LET launched == out.exec = "yes"
        during(what) == IF launched THEN <<what, "program">> ELSE <<what, "build">>
    IN  CASE exit.termination = "outputLimit" -> during("output_limit")
          [] exit.termination = "cancelled"   -> during("cancelled")
          [] exit.termination = "timeout"     -> during("timed_out")
          [] OTHER -> CASE out.build = "no"               -> <<"build_failed">>
                        [] out.build # "no" /\ ~launched  -> <<"not_launched">>
                        [] out.build # "no" /\ launched /\ exit.code = 0  -> <<"succeeded">>
                        [] out.build # "no" /\ launched /\ exit.code # 0  -> <<"program_failed">>

WithRunHeadline(base, outcome) ==
    IF outcome = <<"build_failed">> THEN base ELSE [base EXCEPT !.headline = <<"run", outcome>>]

Reduce(out) ==
    /\ reduced' = out
    /\ LET base == CommandSummary(out.summary, LastLines(stdout, LogTail), LastLines(stderr, LogTail))
       IN  IF request.command = "run"
           THEN run' = RunOutcome(out) /\ summary' = WithRunHeadline(base, RunOutcome(out))
           ELSE run' = <<"none">> /\ summary' = base

\* The budget of the result applies at the end, after the evidence of failed
\* tests has been added.
ReduceBep ==
    /\ phase = "exited"
    /\ Reduce(Finish(acc, LastLines(stdout, LogTail), LastLines(stderr, LogTail), exit.code,
                     Unbounded))
    /\ phase' = "reduced"
    /\ UNCHANGED <<request, stream, bepError, acc, stdout, stderr, exit, disk, copy, context,
                   report, added>>

ReducePanics ==
    /\ phase = "exited"
    /\ Reduce(FallbackReduction(LastLines(stdout, LogTail), LastLines(stderr, LogTail)))
    /\ phase' = "reduced"
    /\ UNCHANGED <<request, stream, bepError, acc, stdout, stderr, exit, disk, copy, context,
                   report, added>>

-----------------------------------------------------------------------------
(* The logs of tests that did not pass are copied to one snapshot of two     *)
(* files, written under temporary names and published together.             *)

NotPassed(tests) == SelectSeq([i \in DOMAIN tests |-> i], LAMBDA i : tests[i].status # "passed")

Unavailable(tests, reason) ==
    [i \in DOMAIN tests |-> IF tests[i].status = "passed" THEN tests[i]
                            ELSE [tests[i] EXCEPT !.available = FALSE, !.reason = reason]]

FailSnapshot(reason) ==
    /\ summary' = [summary EXCEPT !.tests = Unavailable(@, reason)]
    /\ phase' = "enriched"

evidence == <<request, stream, bepError, acc, stdout, stderr, exit, reduced, run, context,
              report, added>>

SkipSnapshot ==
    /\ phase = "reduced" /\ NotPassed(summary.tests) = <<>>
    /\ phase' = "enriched"
    /\ UNCHANGED <<summary, disk, copy>> /\ UNCHANGED evidence

\* Both temporary files, or none. (The invocation's directory is new: neither
\* published file can be there yet.) Removing them may fail unnoticed: "left"
\* are the ones that stay.
OpenSnapshot ==
    /\ phase = "reduced" /\ NotPassed(summary.tests) # <<>>
    /\ disk' = [disk EXCEPT !.rawTmp = TRUE, !.evidenceTmp = TRUE]
    /\ phase' = "copying"
    /\ UNCHANGED <<summary, copy>> /\ UNCHANGED evidence

OpenFails(left) ==
    /\ phase = "reduced" /\ NotPassed(summary.tests) # <<>>
    /\ disk' = [disk EXCEPT !.rawTmp = "raw" \in left, !.evidenceTmp = "evidence" \in left]
    /\ FailSnapshot("snapshot_failed")
    /\ copy' = copy
    /\ UNCHANGED evidence

\* A test log's path names its test; its number is ten times the attempt plus
\* the label.
ArtifactMatchesTest(artifact, label) == artifact.id % 10 = label

TestFiles(name, label) ==
    SelectSeq(reduced.artifacts, LAMBDA artifact :
                artifact.kind = "testLog" /\ artifact.name = name
                  /\ ArtifactMatchesTest(artifact, label))

LogsOf(label) == TestFiles("test.log", label)

\* Only the first test.xml counts, and only a local one is read.
XmlReadable(label) ==
    LET xml == TestFiles("test.xml", label) IN xml # <<>> /\ xml[1].local

AnyRemoteLog == \E i \in DOMAIN reduced.artifacts :
                  /\ reduced.artifacts[i].kind = "testLog"
                  /\ reduced.artifacts[i].name = "test.log"
                  /\ ~reduced.artifacts[i].local

UnavailableReason(logs) ==
    CASE \/ \E i \in DOMAIN logs : ~logs[i].local
         \/ logs = <<>> /\ AnyRemoteLog -> "remote"
      [] logs # <<>> /\ \A i \in DOMAIN logs : logs[i].local -> "unreadable"
      [] OTHER -> "not_found"

\* What matches a pattern is replaced, which may lengthen the text; so is the
\* path of the workspace.
Redact(text) ==
    IF "secret" \notin text.words THEN text
    ELSE [text EXCEPT !.words = (@ \ {"secret"}) \union {"redacted"}, !.bytes = @ + RedactionGrowth]

\* What the log reducer (external) finds in a redacted log: structured
\* failures, or an excerpt.
LogFindings(command) ==
    {<<>>} \union
    {<<NewDiagnostic("error", "test", [Redact(LineMessage(line)) EXCEPT !.kind = kind],
                     CompactBazelPath(line.place), NoLabel, NoAction)>> :
       kind \in {"failure", "line"}, line \in LinesOf(command)}

\* The cases a test.xml reports that did not pass, each bounded and as written.
XmlCases(command) ==
    BoundedSeq({BoundedText([LineMessage(line) EXCEPT !.kind = "failure"], MessageLimit) :
                  line \in LinesOf(command)}, MaxCases)

\* The failures of the log come first, then what else the test.xml reported.
MergeCases(failures, cases) ==
    FoldLeft(LAMBDA merged, case :
               IF Len(merged) >= MaxCases \/ Contains(merged, case) THEN merged
               ELSE Append(merged, case), failures, cases)

Failures(found) == SelectSeq([i \in DOMAIN found |-> found[i].message],
                             LAMBDA message : message.kind = "failure")

\* One failed test: a log outside the allowed roots or that cannot be opened is
\* skipped, one whose copy breaks off does not count. A test.xml that cannot be
\* read or parsed has no cases.
CopyTestLogs(fates, found, xml) ==
    LET index == NotPassed(summary.tests)[copy.next]
        test  == summary.tests[index]
        logs  == LogsOf(test.label)
        copied == \E i \in DOMAIN logs : logs[i].local /\ fates[i] = "complete"
    IN  /\ phase = "copying" /\ copy.next <= Len(NotPassed(summary.tests))
        /\ fates \in [DOMAIN logs -> {"skipped", "partial", "complete"}]
        /\ copied \/ found = <<>>
        /\ xml = <<>> \/ XmlReadable(test.label)
        /\ summary' = [summary EXCEPT
             !.tests[index] =
               IF copied
               THEN [test EXCEPT !.available = TRUE, !.reason = "none",
                                 !.cases = IF Failures(found) = <<>> THEN xml
                                           ELSE MergeCases(Failures(found), xml)]
               ELSE [test EXCEPT !.available = FALSE, !.reason = UnavailableReason(logs),
                                 !.cases = xml]]
        /\ copy' = [next |-> copy.next + 1,
                    copied |-> copy.copied \union (IF copied THEN {test.label} ELSE {}),
                    diagnostics |-> copy.diagnostics
                      \o [i \in DOMAIN found |-> [found[i] EXCEPT !.target = test.label]]]
        /\ UNCHANGED <<phase, disk>> /\ UNCHANGED evidence

\* A finding from the log replaces what the console already said of it.
SameEvidence(existing, d) ==
    /\ \/ existing.category = "compilation"
       \/ existing.category = d.category /\ existing.target = NoLabel
    /\ \/ existing.message = d.message /\ existing.location \in {d.location, NoPlace}
       \/ /\ existing.location # NoPlace /\ existing.location = d.location
          /\ d.message.kind \in {"failure", "line"} /\ existing.message.kind = "line"
          /\ d.message.arg = existing.message.arg /\ d.message.words = existing.message.words

WithLogDiagnostics(diagnostics) ==
    SelectSeq(diagnostics, LAMBDA existing :
                \A i \in DOMAIN copy.diagnostics : ~SameEvidence(existing, copy.diagnostics[i]))
    \o copy.diagnostics

EndOfCopy == phase = "copying" /\ copy.next > Len(NotPassed(summary.tests))

\* Flushed and both renamed.
PublishSnapshot ==
    /\ EndOfCopy /\ copy.copied # {}
    /\ disk' = [raw |-> TRUE, evidence |-> TRUE, rawTmp |-> FALSE, evidenceTmp |-> FALSE]
    /\ summary' = [summary EXCEPT !.diagnostics = WithLogDiagnostics(@)]
    /\ phase' = "enriched"
    /\ copy' = copy
    /\ UNCHANGED evidence

\* The flush or the first rename fails, or the first rename succeeds and the
\* second fails: what is under a temporary name is removed, if it can be.
RemoveTemporaries(renamed, left) ==
    disk' = [disk EXCEPT !.raw = renamed, !.rawTmp = ~renamed /\ "raw" \in left,
                         !.evidenceTmp = "evidence" \in left]

\* Mutant: the tests keep the availability that the copy gave them.
PublishFailsSilently(renamed, left) ==
    /\ EndOfCopy /\ copy.copied # {}
    /\ RemoveTemporaries(renamed, left)
    /\ phase' = "enriched"
    /\ UNCHANGED <<summary, copy>> /\ UNCHANGED evidence

PublishFails(renamed, left) ==
    /\ EndOfCopy /\ copy.copied # {}
    /\ RemoveTemporaries(renamed, left)
    /\ FailSnapshot("snapshot_failed")
    /\ copy' = copy
    /\ UNCHANGED evidence

NothingCopied(left) ==
    /\ EndOfCopy /\ copy.copied = {}
    /\ RemoveTemporaries(FALSE, left)
    /\ phase' = "enriched"
    /\ UNCHANGED <<summary, copy>> /\ UNCHANGED evidence

-----------------------------------------------------------------------------
(* Coverage, and the custom reducers.                                        *)

CoverageFiles == {i \in DOMAIN reduced.artifacts :
                    reduced.artifacts[i].kind = "coverage" /\ reduced.artifacts[i].local}

InputLimits(out, err) ==
    LET half == MaxInputBytes \div 2
    IN  CASE out # <<>> /\ err = <<>> -> <<MaxInputBytes, 0>>
          [] out = <<>> /\ err # <<>> -> <<0, MaxInputBytes>>
          [] OTHER -> <<half, MaxInputBytes - half>>

InputTruncated(out, err) ==
    \/ reduced.inputTruncated
    \/ LineBytes(out) > InputLimits(out, err)[1] \/ LineBytes(err) > InputLimits(out, err)[2]

\* A text is redacted and then cut, and nothing says that it was.
SanitizeText(message, limit) ==
    LET redacted == Redact(message)
    IN  IF redacted.bytes <= limit THEN redacted
        ELSE [redacted EXCEPT !.arg = Beginning(@), !.bytes = limit, !.cut = TRUE]

SanitizeMessage(message) == SanitizeText(message, MessageLimit)
SanitizeDiagnostics(ds) == [i \in DOMAIN ds |-> [ds[i] EXCEPT !.message = SanitizeMessage(@)]]

\* A log is cut at a byte: the lines that fit are whole.
SanitizeLog(lines, limit) ==
    LET redacted == [i \in DOMAIN lines |-> Redact(lines[i])]
    IN  SubSeq(redacted, 1, Max({n \in 0..Len(lines) : LineBytes(SubSeq(redacted, 1, n)) <= limit}))

\* The headlines that are made of a text.
TextHeadlines == {"failed", "aspect_failed", "excerpt"}

\* Mutant: the headline keeps the message it was made of.
SanitizeDiagnosticsOnly(s) == [s EXCEPT !.diagnostics = SanitizeDiagnostics(@)]

SanitizeSummary(s) ==
    [s EXCEPT !.headline = IF @[1] \in TextHeadlines THEN <<@[1], SanitizeMessage(@[2])>> ELSE @,
              !.diagnostics = SanitizeDiagnostics(@),
              !.tests = [i \in DOMAIN @ |->
                           [@[i] EXCEPT !.cases = [j \in DOMAIN @ |-> SanitizeMessage(@[j])]]]]

SanitizeEvent(event) ==
    [event EXCEPT !.message = [i \in DOMAIN @ |-> SanitizeText(@[i], DescriptionLimit)]]

ReducerContext ==
    LET out == LastLines(stdout, LogTail)
        err == LastLines(stderr, LogTail)
    IN  [command |-> request.command,
         events |-> [i \in DOMAIN reduced.events |-> SanitizeEvent(reduced.events[i])],
         logs |-> <<SanitizeLog(out, InputLimits(out, err)[1]),
                    SanitizeLog(err, InputLimits(out, err)[2])>>,
         truncated |-> InputTruncated(out, err),
         baseline |-> SanitizeSummary(FinalizeDiagnostics(summary, BaselineBudget))]

\* Any coverage file that parses will do, the first one first.
LoadCoverage(loaded) ==
    /\ phase = "enriched"
    /\ loaded \in IF request.command = "coverage" /\ CoverageFiles # {} THEN BOOLEAN ELSE {FALSE}
    /\ summary' = [summary EXCEPT !.coverage = IF loaded THEN "loaded" ELSE @]
    /\ context' = IF Reducers = {} THEN context ELSE ReducerContext
    /\ phase' = "custom"
    /\ UNCHANGED <<request, stream, bepError, acc, stdout, stderr, exit, reduced, run, disk, copy,
                   report, added>>

fixed == <<phase, request, stream, bepError, acc, stdout, stderr, exit, reduced, run, disk, copy,
           context>>

Turn(r) == phase = "custom" /\ report.next <= Len(Pipeline) /\ r = Pipeline[report.next]

SkipReducer(r) ==
    /\ Turn(r) /\ ~Matches(r, context)
    /\ report' = [report EXCEPT !.next = @ + 1]
    /\ UNCHANGED <<summary, added>> /\ UNCHANGED fixed

CollideReducer(r) ==
    /\ Turn(r) /\ Matches(r, context) /\ Collides(report, r)
    /\ report' = [report EXCEPT !.next = @ + 1, !.collisions = Append(@, r.name)]
    /\ UNCHANGED <<summary, added>> /\ UNCHANGED fixed

FailReducer(r) ==
    /\ Turn(r) /\ Matches(r, context) /\ ~Collides(report, r)
    /\ report' = [report EXCEPT !.next = @ + 1, !.failures = Append(@, r.name)]
    /\ UNCHANGED <<summary, added>> /\ UNCHANGED fixed

ApplyReducer(r, patch) ==
    /\ Turn(r) /\ Matches(r, context) /\ ~Collides(report, r)
    /\ IF EmptyPatch(patch)
       THEN report' = [report EXCEPT !.next = @ + 1] /\ UNCHANGED <<summary, added>>
       ELSE /\ report' = PatchReport(report, r, patch)
            /\ summary' = PatchSummary(summary, report, r, context, patch)
            /\ added' = added \o patch.diagnostics
    /\ UNCHANGED fixed

\* A reducer that panics takes the whole reduction with it: what is stored is
\* that the result could not be processed.
PanicReducer(r) ==
    /\ Turn(r) /\ Matches(r, context) /\ ~Collides(report, r)
    /\ summary' = [BaseSummary(FALSE, <<>>, <<>>, <<>>, TRUE) EXCEPT
                     !.headline = <<"not_processed">>, !.hint = "log"]
    /\ run' = <<"none">>
    /\ phase' = "recovered"
    /\ UNCHANGED <<request, stream, bepError, acc, stdout, stderr, exit, reduced, disk, copy,
                   context, report, added>>

-----------------------------------------------------------------------------
(* The result: diagnostics within the budget, notices of the custom reducers *)
(* included, a headline and a hint where to look further.                    *)

Notice(kind, name) ==
    NewDiagnostic("note", "bazel", NewMessage(kind, name, {}, 1), NoPlace, NoLabel, NoAction)

CustomNotices ==
    [i \in DOMAIN report.failures |-> Notice("reducer_failed", report.failures[i])]
    \o [i \in DOMAIN report.collisions |-> Notice("reducer_collision", report.collisions[i])]

Less(limit, used) == IF used > limit THEN 0 ELSE limit - used

\* Mutant: notices are added on top of a full budget.
WithNoticesOnTop(s, kept) ==
    [FinalizeDiagnostics(s, ResultBudget) EXCEPT !.diagnostics = @ \o kept.value]

WithNotices(s, kept) ==
    LET rest == FinalizeDiagnostics(s, [items |-> Less(ResultBudget.items, Len(kept.value)),
                                        bytes |-> Less(ResultBudget.bytes, kept.used)])
    IN  [rest EXCEPT !.diagnostics = @ \o kept.value,
                     !.truncated = @ \/ kept.truncated,
                     !.hint = IF kept.truncated THEN "diagnostics" ELSE @]

FinalizeWithCustomNotices(s, notices) ==
    IF notices = <<>> THEN FinalizeDiagnostics(s, ResultBudget)
    ELSE WithNotices(s, RetainWithin(SortByPriority(DeduplicateDiagnostics(notices)), NoticeBudget))

AspectHeadline(s) ==
    CASE ~s.success /\ s.diagnostics # <<>> -> <<"aspect_failed", s.diagnostics[1].message>>
      [] s.success /\ request.class = "buildLike" -> <<"aspect_completed">>
      [] ~s.success /\ s.diagnostics = <<>> /\ s.headline[1] \in {"failed", "exit_code"} ->
           <<"aspect_exit_code">>
      [] OTHER -> s.headline

\* A reducer's headline stays whatever the finalization put in its place.
\* Mutant: the finalization's headline replaces the reducer's.
WithHeadlineReplaced(s, custom) ==
    [s EXCEPT !.headline = IF request.aspect THEN AspectHeadline(s) ELSE @]

WithHeadline(s, custom) ==
    [s EXCEPT !.headline = CASE report.headline -> custom
                             [] ~report.headline /\ request.aspect -> AspectHeadline(s)
                             [] OTHER -> @]

\* "Executed 1 out of 1 test: 1 test passes": the last such line of a log.
PassedTestTargets(lines) ==
    LET found == SelectSeq(lines, LAMBDA line : "all_passed" \in line.words)
    IN  IF found = <<>> THEN 0 ELSE Last(found).id

ConsolePassed ==
    IF PassedTestTargets(LastLines(stdout, LogTail)) > 0
    THEN PassedTestTargets(LastLines(stdout, LogTail))
    ELSE PassedTestTargets(LastLines(stderr, LogTail))

\* Mutant: attempts are not taken into account.
NoTestsSeenInSummaries(s) == reduced.build = "yes" /\ ~bepError /\ ~s.truncated

NoTestsSeen(s) == reduced.build = "yes" /\ ~bepError /\ ~reduced.testResultSeen /\ ~s.truncated

WithTestHeadline(s) ==
    IF report.headline \/ ~s.success \/ request.command \notin {"test", "coverage"} THEN s
    ELSE CASE reduced.recovered > 0 ->
                [s EXCEPT !.headline = <<"tests_recovered", reduced.recovered>>]
           [] reduced.recovered = 0 /\ s.tests = <<>> /\ ConsolePassed > 0 ->
                [s EXCEPT !.headline = <<"console_summary">>, !.testCounts.passed = ConsolePassed]
           [] reduced.recovered = 0 /\ s.tests = <<>> /\ ConsolePassed = 0 ->
                [s EXCEPT !.headline = IF NoTestsSeen(s) THEN <<"no_tests">>
                                       ELSE <<"counts_unavailable">>]
           [] OTHER -> s

WithHint(s) ==
    IF s.success \/ s.hint # "none" THEN s
    ELSE [s EXCEPT !.hint = IF \E i \in DOMAIN s.tests :
                                  s.tests[i].status # "passed" /\ s.tests[i].available
                            THEN "test_log" ELSE "log"]

Finalized(s) ==
    SanitizeSummary(WithHint(WithTestHeadline(
      WithHeadline(FinalizeWithCustomNotices(s, CustomNotices), s.headline))))

FinishReduction ==
    /\ phase = "custom" /\ report.next > Len(Pipeline)
    /\ summary' = Finalized(AfterReducers(summary, report, context))
    /\ phase' = "done"
    /\ UNCHANGED <<disk, copy>> /\ UNCHANGED evidence

Next ==
    \/ \E e \in EventsOf(request.command) : Emit(e)
    \/ BreakStream
    \/ \E line \in LinesOf(request.command) : WriteStdout(line) \/ WriteStderr(line)
    \/ \E how \in Exits : ExitBazel(how)
    \/ ReduceBep \/ ReducePanics
    \/ SkipSnapshot \/ OpenSnapshot
    \/ /\ phase = "copying"
       /\ \E found \in LogFindings(request.command), xml \in XmlCases(request.command) :
            \E fates \in UNION {[1..n -> {"skipped", "partial", "complete"}] : n \in 0..2} :
              CopyTestLogs(fates, found, xml)
    \/ PublishSnapshot
    \/ \E left \in SUBSET {"raw", "evidence"} :
         \/ OpenFails(left)
         \/ \E renamed \in BOOLEAN : PublishFails(renamed, left)
         \/ NothingCopied(left)
    \/ \E loaded \in BOOLEAN : LoadCoverage(loaded)
    \/ \E r \in Reducers : SkipReducer(r) \/ CollideReducer(r) \/ FailReducer(r) \/ PanicReducer(r)
    \/ \E r \in Reducers, patch \in Patches : ApplyReducer(r, patch)
    \/ FinishReduction

Spec == Init /\ [][Next]_vars

-----------------------------------------------------------------------------
(* Properties.                                                               *)

\* The fields of the result take the values the code gives them.
TypeOK ==
    /\ phase \in {"running", "exited", "reduced", "copying", "enriched", "custom", "done",
                "recovered"}
    /\ request \in Requests /\ bepError \in BOOLEAN
    /\ exit \in Exits \union {NoExit}
    /\ summary.hint \in {"none", "diagnostics", "log", "test_log", "query_results"}
    /\ \A i \in DOMAIN summary.diagnostics :
         /\ summary.diagnostics[i].severity \in Severities
         /\ summary.diagnostics[i].category \in Categories
         /\ summary.diagnostics[i].message.words \subseteq Marks
         /\ summary.diagnostics[i].count > 0
    /\ disk \in [raw : BOOLEAN, evidence : BOOLEAN, rawTmp : BOOLEAN, evidenceTmp : BOOLEAN]

\* An event with the texts the accumulator cuts cut to their limits: itself,
\* unless one of them is over.
CutEvent(e) ==
    [e EXCEPT !.message = BoundedText(@, DescriptionLimit), !.setId = BoundedName(@),
              !.sets = BoundedNames(@), !.arguments = BoundedNames(@)]

StreamingAgrees(out, events) ==
    /\ out.recovered = 0 =>
         out.summary = ReduceInvocation(events, stdout, stderr, exit.code, Unbounded)
    /\ out.artifacts = ReduceArtifacts(events)
    /\ out.arguments = ExtractCanonicalArguments(events)

\* Reducing events one at a time gives the result, the artifacts and the
\* arguments that reducing the whole list gives, as long as nothing had to be
\* dropped and no test was recovered from its attempts (observe_view and finish
\* against reduce_invocation, reduce_artifacts, extract_canonical_arguments). The
\* list is that of the events with their long texts cut: the accumulator cuts an
\* aborted event's description, arguments and the ids of file sets and the batch
\* reducer does not, so with a text over its limit the two may differ unsaid.
StreamingAgreesWithBatch ==
    phase = "exited" /\ ~bepError /\ ~acc.truncated =>
      StreamingAgrees(Finish(acc, stdout, stderr, exit.code, Unbounded),
                      [i \in DOMAIN stream |-> CutEvent(stream[i])])

\* The place a reported line belongs to, told from the lines alone: an inline
\* message names its own, an "Error in" line takes the one of the last line before
\* it that names a place, unless a header or another "Error in" line is in between.
OwnPlace(lines, i) ==
    LET marked == {j \in 1..(i - 1) :
                     \/ IsTracebackHeader(lines[j]) \/ IsTracebackLocation(lines[j])
                     \/ IsStarlarkError(lines[j]) \/ ParseStarlarkInline(lines[j]) # <<>>}
    IN  IF ParseStarlarkInline(lines[i]) # <<>> THEN CompactBazelPath(lines[i].place)
        ELSE IF marked = {} \/ IsTracebackHeader(lines[Max(marked)])
                \/ IsStarlarkError(lines[Max(marked)])
        THEN NoPlace ELSE CompactBazelPath(lines[Max(marked)].place)

Reports(line) == \/ IsStarlarkError(line)
                 \/ ParseStarlarkInline(line) # <<>> /\ IsStarlarkRootCause(line)

\* A Starlark error carries the innermost location of its own traceback, or that
\* of the inline message before it, which may have been reported itself: never one
\* of an earlier traceback, and never one that another "Error in" line has taken
\* (the location that StarlarkDiagnosticParser keeps between lines).
LocationOfOwnTraceback ==
    phase = "exited" =>
      LET found == FoldLeft(ObserveStarlarkLine, StarlarkStart, stderr).found
          lines == SelectSeq([i \in DOMAIN stderr |-> i], LAMBDA i : Reports(stderr[i]))
      IN  [k \in DOMAIN found |-> found[k].location]
            = [k \in DOMAIN lines |-> OwnPlace(stderr, lines[k])]

FailedActions == SelectSeq(stream, LAMBDA e : e.kind = "action" /\ ~e.ok)

\* A result that does not say it was truncated has a diagnostic for every
\* failure the stream reported, with its text redacted and cut to its limits, and
\* its repetition counts add up to the failed actions, through deduplication,
\* enrichment, custom reducers and the budget (unless a custom reducer was allowed
\* to suppress, or the stream broke). That a text was cut is not said.
UntruncatedIsComplete ==
    phase = "done" /\ ~summary.truncated /\ ~bepError /\ ~report.suppressed =>
      /\ \A i \in DOMAIN stream : \A j \in DOMAIN EventDiagnostic(CutEvent(stream[i])) :
           \E k \in DOMAIN summary.diagnostics :
             summary.diagnostics[k].message =
               SanitizeMessage(EventDiagnostic(CutEvent(stream[i]))[j].message)
      /\ Len(FailedActions) =
           MapThenSumSet(LAMBDA k : summary.diagnostics[k].count,
                         {k \in DOMAIN summary.diagnostics :
                            summary.diagnostics[k].message.kind = "action_failed"})

\* A test whose log is said to be available has it in a snapshot of which both
\* files were published, and the evidence file is published only with such a
\* test: whichever copy, flush, rename or removal failed (enrich_tests).
AvailableLogIsPublished ==
    phase \in {"enriched", "custom", "done"} =>
      /\ \A i \in DOMAIN summary.tests :
           summary.tests[i].available => /\ disk.raw /\ disk.evidence
                                         /\ summary.tests[i].label \in copy.copied
      /\ disk.evidence => \E i \in DOMAIN summary.tests : summary.tests[i].available

\* "No test targets were found" is said only of a stream that holds no event of
\* a test, though events may have been dropped or lost (reduce_evidence).
NoTestsFoundIsTrue ==
    phase = "done" /\ summary.headline[1] = "no_tests" =>
      OfKind(stream, {"testSummary", "testResult"}) = <<>>

\* The result tells the truth about its evidence: a failure is missing only from a
\* result that says it was truncated, "no tests" is said of no stream with tests, a
\* location is that of its own traceback, an available log is there.
ReportIsTrue ==
    /\ UntruncatedIsComplete
    /\ NoTestsFoundIsTrue
    /\ LocationOfOwnTraceback
    /\ AvailableLogIsPublished

RedactedDiagnostics ==
    {i \in DOMAIN summary.diagnostics : "redacted" \in summary.diagnostics[i].message.words}

\* The result keeps to its budget, notices of the custom reducers included, but
\* for what redaction adds after the budget was applied: no more than that, no
\* text over its own limit, and no more cases of a test than the limit
\* (finalize_with_custom_notices, sanitize_summary, enrich_tests).
ResultFitsBudget ==
    phase = "done" =>
      /\ Len(summary.diagnostics) <= ResultBudget.items
      /\ \A i \in DOMAIN summary.diagnostics : summary.diagnostics[i].message.bytes <= MessageLimit
      /\ SumBytes(summary.diagnostics, LAMBDA d : d.message.bytes)
           <= ResultBudget.bytes + RedactionGrowth * Cardinality(RedactedDiagnostics)
      /\ \A i \in DOMAIN summary.tests : Len(summary.tests[i].cases) <= MaxCases

HoldsNoSecret(s) ==
    /\ \A i \in DOMAIN s.diagnostics : "secret" \notin s.diagnostics[i].message.words
    /\ s.headline[1] \in TextHeadlines => "secret" \notin s.headline[2].words
    /\ \A i \in DOMAIN s.tests : \A j \in DOMAIN s.tests[i].cases :
         "secret" \notin s.tests[i].cases[j].words

\* No secret leaves in the result or reaches a custom reducer, whichever way it
\* came: an event, a log, a headline made of a diagnostic, the cases of a test.xml
\* (sanitize_summary, reducer_context).
ResultIsRedacted ==
    /\ phase = "done" => HoldsNoSecret(summary)
    /\ HoldsNoSecret(context.baseline)
    /\ \A i \in DOMAIN context.events : \A j \in DOMAIN context.events[i].message :
         "secret" \notin context.events[i].message[j].words
    /\ \A i \in DOMAIN context.logs : \A j \in DOMAIN context.logs[i] :
         "secret" \notin context.logs[i][j].words

\* The first custom headline stays, through later reducers and through a
\* finalization that would put the first diagnostic in its place (only a panic of
\* a later reducer drops it, with all the rest of the result).
CustomHeadlineIsFinal ==
    [][summary.headline[1] = "custom" /\ phase' # "recovered"
         => summary'.headline = summary.headline]_vars

Overrides(names) == {i \in DOMAIN names : \E r \in Reducers : r.name = names[i] /\ r.mode = "override"}

\* One override owns an invocation: of all overrides that match, at most one
\* patch is applied, and it is never one of lower priority than another that
\* was turned away (ReducerPipeline::apply).
OneOverrideOwns ==
    /\ Cardinality(Overrides(report.applied)) <= 1
    /\ \A i \in DOMAIN report.collisions, r1, r2 \in Reducers :
         r1.name = report.collisions[i] /\ r2.name = report.owner => RunsBefore(r2, r1)

\* Whatever custom reducers did, in whichever order they ran, the result keeps to its
\* budget, holds no secret, and is the work of one override at most.
ResultIsContained ==
    /\ TypeOK
    /\ ResultFitsBudget
    /\ ResultIsRedacted
    /\ OneOverrideOwns

\* Suppression takes away built-in diagnostics only, not what another custom
\* reducer added (docs/custom-reducers.md).
SuppressionSparesCustom ==
    phase = "custom" =>
      \A i \in DOMAIN added : \E j \in DOMAIN summary.diagnostics : summary.diagnostics[j] = added[i]

=============================================================================
