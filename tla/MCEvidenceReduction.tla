------------------------ MODULE MCEvidenceReduction ------------------------
(* Small instances of EvidenceReduction for TLC.                             *)
EXTENDS EvidenceReduction

At(n) == [inTree |-> FALSE, at |-> n]
InTree(n) == [inTree |-> TRUE, at |-> n]
Line(id, words, place, bytes) == [id |-> id, words |-> words, place |-> place, bytes |-> bytes]

MCRequests ==
    {[command |-> "build", class |-> "buildLike", aspect |-> TRUE],
     [command |-> "mobile-install", class |-> "buildLike", aspect |-> FALSE],
     [command |-> "test", class |-> "buildLike", aspect |-> FALSE],
     [command |-> "coverage", class |-> "buildLike", aspect |-> FALSE],
     [command |-> "query", class |-> "query", aspect |-> FALSE],
     [command |-> "info", class |-> "informational", aspect |-> FALSE],
     [command |-> "custom", class |-> "unknown", aspect |-> TRUE],
     [command |-> "run", class |-> "run", aspect |-> FALSE]}

File(name, source, id) == [name |-> name, source |-> source, id |-> id]

\* Descriptions: one with a secret, which redaction takes over the limit of a text
\* of the result, and two over the accumulator's limit that share their beginning.
Aborted(number, words, bytes) ==
    [BlankEvent EXCEPT !.kind = "aborted", !.label = 1, !.reason = 6,
                       !.message = NewMessage("abort", number, words, bytes)]
ActionFailed(label) ==
    [BlankEvent EXCEPT !.kind = "action", !.ok = FALSE, !.code = 1, !.type = 1,
                       !.actionLabel = label, !.files = <<File("plain", "local", 3)>>]
Completed == [BlankEvent EXCEPT !.kind = "completed", !.label = 1, !.ok = FALSE, !.sets = <<1, 11>>,
                                !.files = <<File("plain", "contents", 4), File("plain", "none", 5)>>]
Set1 == [BlankEvent EXCEPT !.kind = "namedSet", !.setId = 1, !.sets = <<12, 1>>,
                           !.files = <<File("plain", "remote", 6)>>]
\* Two sets whose long ids share their beginning.
Set11 == [BlankEvent EXCEPT !.kind = "namedSet", !.setId = 11,
                            !.files = <<File("plain", "symlink", 3), File("plain", "local", 3)>>]
Set12 == [BlankEvent EXCEPT !.kind = "namedSet", !.setId = 12, !.files = <<File("plain", "local", 8)>>]
Options == [BlankEvent EXCEPT !.kind = "options", !.arguments = <<1, 12>>]
Finished == [BlankEvent EXCEPT !.kind = "finished"]
Summarized(label, status) ==
    [BlankEvent EXCEPT !.kind = "testSummary", !.label = label, !.status = status]
Attempted(label, status, source) ==
    [BlankEvent EXCEPT !.kind = "testResult", !.label = label, !.status = status,
                       !.files = <<File("test.log", source, label), File("test.xml", source, label)>>]
Covered == [BlankEvent EXCEPT !.kind = "testResult", !.label = 1, !.status = 1,
                              !.files = <<File("coverage", "local", 7)>>]

MCEventsOf(command) ==
    CASE command = "build" -> {Aborted(1, {"secret"}, 2), Aborted(11, {}, 7), Aborted(12, {}, 8),
                               ActionFailed(1), ActionFailed(2)}
      [] command = "mobile-install" -> {Completed, Set1, Set11, Set12, Options}
      [] command = "test" -> {Summarized(1, 4), Summarized(2, 1), Attempted(1, 1, "local"),
                              Attempted(1, 4, "remote"), Finished}
      [] command = "coverage" -> {Covered, Finished}
      [] command = "run" -> {Finished, [Finished EXCEPT !.ok = FALSE],
                             [BlankEvent EXCEPT !.kind = "exec"]}
      [] OTHER -> {}

MCMaxEventsOf(command) == IF command = "coverage" THEN 2 ELSE 3

MCLinesOf(command) ==
    CASE command = "custom" ->
           {Line(1, {"traceback", "ERROR:"}, NoPlace, 1), Line(2, {"File"}, InTree(1), 1),
            Line(3, {"Error in"}, NoPlace, 1), Line(4, {"inline", "syntax"}, At(2), 1)}
      [] command = "build" -> {Line(5, {"generic", "secret"}, InTree(1), 1)}
      [] command = "test" -> {Line(5, {"generic", "secret"}, InTree(1), 1), Line(2, {"all_passed"}, NoPlace, 1)}
      [] command = "info" -> {Line(6, {"secret"}, NoPlace, 3)}
      [] command = "query" -> {Line(7, {"no_such", "error:"}, NoPlace, 1)}
      [] OTHER -> {}

MCMaxLinesOf(command) == CASE command = "custom" -> 4 [] command = "info" -> 2 [] OTHER -> 1

MCReducers == {[name |-> 1, priority |-> 2, mode |-> "augment", commands |-> {"build"},
                labels |-> {}, types |-> {}],
               [name |-> 2, priority |-> 1, mode |-> "override", commands |-> {"build"},
                labels |-> {1}, types |-> {}],
               [name |-> 3, priority |-> 1, mode |-> "override", commands |-> {}, labels |-> {},
                types |-> {1}]}

CustomDiagnostic ==
    NewDiagnostic("error", "compilation", NewMessage("patch", 1, {"secret"}, 1), NoPlace, 1, NoAction)

MCPatches == {[headline |-> 0, diagnostics |-> <<>>, suppress |-> FALSE],
              [headline |-> 1, diagnostics |-> <<>>, suppress |-> TRUE],
              [headline |-> 2, diagnostics |-> <<CustomDiagnostic>>, suppress |-> FALSE]}

MCExits == {[code |-> 0, termination |-> "exit"], [code |-> 1, termination |-> "exit"],
            [code |-> -1, termination |-> "timeout"]}

MCResultBudget == [items |-> 3, bytes |-> 4]
MCNoticeBudget == [items |-> 1, bytes |-> 1]
MCBaselineBudget == [items |-> 2, bytes |-> 3]

=============================================================================
