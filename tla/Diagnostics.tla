---------------------------- MODULE Diagnostics ----------------------------
(* The diagnostics of a Bazel result: how they are read from console text,   *)
(* and how a list of them is aggregated, ranked and cut to a budget          *)
(* (crates/bazel-mcp-reducer/src/diagnostics, and finalize_diagnostics in    *)
(* build.rs).                                                                *)
(*                                                                           *)
(* A line of text is the set of the marks the parsers look for in it, an     *)
(* identity that tells two lines apart, its length and the place it names;   *)
(* a message is a kind, a number, the marks and the length it inherits, and  *)
(* whether it was cut. The tens of a number stand for the beginning of the   *)
(* text and its units for the rest: what is cut keeps the beginning, so two  *)
(* texts may become one, and is taken to keep its marks. An optional value   *)
(* is a sequence of at most one element.                                     *)
EXTENDS Integers, Sequences, FiniteSets, SequencesExt, FiniteSetsExt

CONSTANT DescriptionLimit   \* 64 KiB in the code

NoLabel == 0
NoAction == 0
NoPlace == [inTree |-> FALSE, at |-> 0]

\* The marks a parser looks for. "error:" stands for "error:" and "error[".
Marks == {"ERROR:", "debug", "traceback", "inline", "in_rule", "syntax", "warning:",
          "File", "Error in", "lint", "lint_note", "import_go", "root_cause", "error:",
          "no_such", "visibility", "error", "analysis", "fail", "strict_deps", "test_ok",
          "incomplete", "executing", "assertion", "swc", "generic",
          "all_passed", "secret", "redacted"}

Severities == {"error", "warning", "note"}
Categories == {"loading", "visibility", "analysis", "compilation", "test", "workspace",
               "bazel", "unknown", "action"}

NewMessage(kind, arg, words, bytes) ==
    [kind |-> kind, arg |-> arg, words |-> words, bytes |-> bytes, cut |-> FALSE]

Beginning(number) == 10 * (number \div 10)

\* A text over the limit is cut there and an ellipsis follows.
BoundedText(message, limit) ==
    IF message.bytes <= limit THEN message
    ELSE [message EXCEPT !.arg = Beginning(@), !.bytes = limit + 1, !.cut = TRUE]

NewDiagnostic(severity, category, message, place, target, action) ==
    [severity |-> severity, category |-> category, message |-> message,
     location |-> place, target |-> target, action |-> action, count |-> 1]

-----------------------------------------------------------------------------
(* A location loses the part of its path that depends on the output tree.    *)

CompactBazelPath(place) == [place EXCEPT !.inTree = FALSE]

LineMessage(line) == NewMessage("line", line.id, line.words, line.bytes)

-----------------------------------------------------------------------------
(* The line parsers.                                                         *)

IsTracebackHeader(line) == "traceback" \in line.words
IsTracebackLocation(line) == "File" \in line.words
IsStarlarkError(line) == "Error in" \in line.words
IsStarlarkRootCause(message) == "syntax" \in message.words

ParseStarlarkInline(line) ==
    IF "inline" \notin line.words \/ "debug" \in line.words THEN <<>>
    ELSE <<NewDiagnostic(IF "warning:" \in line.words THEN "warning" ELSE "error",
                         IF "in_rule" \in line.words THEN "analysis" ELSE "loading",
                         LineMessage(line), CompactBazelPath(line.place), NoLabel, NoAction)>>

ParseAspectLint(line) ==
    IF "lint" \notin line.words THEN <<>>
    ELSE <<NewDiagnostic(IF "lint_note" \in line.words THEN "note"
                         ELSE IF "warning:" \in line.words THEN "warning" ELSE "error",
                         "compilation", LineMessage(line),
                         CompactBazelPath(line.place), NoLabel, NoAction)>>

ParseStrictDependency(line) ==
    IF "import_go" \notin line.words THEN <<>>
    ELSE <<NewDiagnostic("error", "compilation", NewMessage("strict", line.id, {}, line.bytes),
                         CompactBazelPath(line.place), NoLabel, NoAction)>>

\* An inline Starlark message that only wraps the cause keeps no location.
ParseStarlarkWrapper(line) ==
    LET parsed == ParseStarlarkInline(line) IN
    IF parsed = <<>> \/ IsStarlarkRootCause(LineMessage(line)) THEN <<>>
    ELSE <<[parsed[1] EXCEPT
              !.category = IF "visibility" \in line.words THEN "visibility"
                           ELSE IF "analysis" \in line.words THEN "analysis" ELSE "compilation",
              !.location = NoPlace]>>

ParseStarlarkSourceContext(line, category) ==
    IF "root_cause" \notin line.words \/ line.words \cap {"error:", "test_ok"} # {} THEN <<>>
    ELSE <<NewDiagnostic("error", category, LineMessage(line), NoPlace, NoLabel, NoAction)>>

FallbackCategory(words) ==
    IF "root_cause" \in words /\ "error:" \notin words THEN "test"
    ELSE IF "no_such" \in words THEN "loading"
    ELSE IF {"visibility", "error"} \subseteq words THEN "visibility"
    ELSE IF "analysis" \in words /\ words \cap {"error", "fail"} # {} THEN "analysis"
    ELSE IF "strict_deps" \in words THEN "compilation"
    ELSE "none"

ParseBazelFallback(line) ==
    IF "test_ok" \in line.words \/ FallbackCategory(line.words) = "none" THEN <<>>
    ELSE <<NewDiagnostic(IF "warning:" \in line.words THEN "warning" ELSE "error",
                         FallbackCategory(line.words),
                         BoundedText(LineMessage(line), DescriptionLimit),
                         NoPlace, NoLabel, NoAction)>>

IsBazelStatusLine(line) == line.words \cap {"debug", "incomplete"} # {}

IsBazelOwnedLine(line) ==
    \/ IsBazelStatusLine(line)
    \/ ParseAspectLint(line) # <<>>
    \/ ParseStrictDependency(line) # <<>>
    \/ ParseBazelFallback(line) # <<>>
    \/ ParseStarlarkInline(line) # <<>>
    \/ IsTracebackLocation(line) \/ IsTracebackHeader(line) \/ IsStarlarkError(line)

-----------------------------------------------------------------------------
(* The traceback parser: a location is remembered until the message of its   *)
(* traceback takes it; a header forgets it.                                  *)

StarlarkStart == [location |-> NoPlace, category |-> "loading", found |-> <<>>]

\* Mutant: the location is read, not taken.
ObserveStarlarkLineKeeps(parser, line) ==
    IF IsTracebackHeader(line) THEN [parser EXCEPT !.location = NoPlace]
    ELSE IF ParseStarlarkInline(line) # <<>>
    THEN [parser EXCEPT !.location = CompactBazelPath(line.place),
                        !.found = @ \o ParseStarlarkInline(line)]
    ELSE IF IsTracebackLocation(line) THEN [parser EXCEPT !.location = CompactBazelPath(line.place)]
    ELSE IF IsStarlarkError(line)
    THEN [parser EXCEPT !.found = Append(@, NewDiagnostic("error", "loading", LineMessage(line),
                                                          parser.location, NoLabel, NoAction))]
    ELSE parser

ObserveStarlarkLine(parser, line) ==
    CASE IsTracebackHeader(line) ->
           [parser EXCEPT !.location = NoPlace,
                          !.category = IF "ERROR:" \in line.words THEN "loading" ELSE @]
      [] ~IsTracebackHeader(line) /\ ParseStarlarkInline(line) # <<>> ->
           [location |-> CompactBazelPath(line.place),
            category |-> ParseStarlarkInline(line)[1].category,
            found |-> IF IsStarlarkRootCause(LineMessage(line))
                      THEN parser.found \o ParseStarlarkInline(line) ELSE parser.found]
      [] ~IsTracebackHeader(line) /\ ParseStarlarkInline(line) = <<>> /\ IsTracebackLocation(line) ->
           [parser EXCEPT !.location = CompactBazelPath(line.place)]
      [] ~IsTracebackHeader(line) /\ ParseStarlarkInline(line) = <<>>
           /\ ~IsTracebackLocation(line) /\ IsStarlarkError(line) ->
           [parser EXCEPT
              !.location = NoPlace,
              !.found = Append(@, NewDiagnostic("error", parser.category,
                                                BoundedText(LineMessage(line), DescriptionLimit),
                                                parser.location, NoLabel, NoAction))]
      [] OTHER -> parser

\* deduplicate_lines of the logcompact library: each distinct line where it
\* first stands, with the number of its occurrences.
DeduplicateLines(lines) ==
    LET first == {i \in DOMAIN lines : \A j \in 1..(i - 1) : lines[j] # lines[i]}
    IN  [k \in 1..Cardinality(first) |->
           LET i == CHOOSE i \in first : Cardinality({j \in first : j <= i}) = k
           IN  <<lines[i], Cardinality({j \in DOMAIN lines : lines[j] = lines[i]})>>]

FirstParsed(alternatives) ==
    IF \E i \in DOMAIN alternatives : alternatives[i] # <<>>
    THEN alternatives[Min({i \in DOMAIN alternatives : alternatives[i] # <<>>})]
    ELSE <<>>

\* The category of a source-context line: of the inline Starlark messages, and
\* only if the text has any Starlark context at all.
StarlarkCategory(lines) ==
    LET inline == {i \in DOMAIN lines : ParseStarlarkInline(lines[i]) # <<>>} IN
    IF inline = {} /\ ~\E i \in DOMAIN lines :
                         IsTracebackHeader(lines[i]) \/ IsTracebackLocation(lines[i])
    THEN "none"
    ELSE IF \E i \in inline : ParseStarlarkInline(lines[i])[1].category = "analysis"
         THEN "analysis" ELSE "loading"

ParseBazelLine(line, category) ==
    IF IsTracebackHeader(line) \/ IsTracebackLocation(line) \/ IsStarlarkError(line) THEN <<>>
    ELSE FirstParsed(<<ParseAspectLint(line), ParseStrictDependency(line),
                       ParseStarlarkWrapper(line),
                       IF category = "none" THEN <<>>
                       ELSE ParseStarlarkSourceContext(line, category),
                       ParseBazelFallback(line)>>)

WithCount(found, count) == [i \in DOMAIN found |-> [found[i] EXCEPT !.count = count]]

ParseDistinctLines(entries, category) ==
    FlattenSeq([i \in DOMAIN entries |->
                  WithCount(ParseBazelLine(entries[i][1], category), entries[i][2])])

AddBazelDiagnostics(lines) ==
    FoldLeft(ObserveStarlarkLine, StarlarkStart, lines).found
    \o ParseDistinctLines(DeduplicateLines(lines), StarlarkCategory(lines))

\* The generic log reducer (logcompact, external): one finding per line it
\* recognises.
Recognised(lines) == SelectSeq(lines, LAMBDA line : line.words \cap {"generic", "swc"} # {})

GenericReduction(lines) ==
    [i \in DOMAIN Recognised(lines) |->
       [class |-> "compiler", line |-> Recognised(lines)[i],
        code |-> IF "swc" \in Recognised(lines)[i].words THEN "swc.parser" ELSE "none"]]

MapDiagnostic(core) ==
    NewDiagnostic("error",
                  IF core.code \in {"starlark.loading", "tool.loading"} THEN "loading"
                  ELSE IF core.code \in {"starlark.analysis", "tool.analysis"} THEN "analysis"
                  ELSE IF core.code = "tool.visibility" THEN "visibility"
                  ELSE IF core.class \in {"compiler", "lint"} THEN "compilation"
                  ELSE IF core.class = "test" THEN "test" ELSE "unknown",
                  LineMessage(core.line), CompactBazelPath(core.line.place), NoLabel, NoAction)

\* A wrapper line about a failed command says nothing once the compiler's own
\* message has been found.
JoinTextDiagnostics(bazel, generic) ==
    (IF \E i \in DOMAIN generic : generic[i].code = "swc.parser"
     THEN SelectSeq(bazel, LAMBDA d : "executing" \notin d.message.words) ELSE bazel)
    \o [i \in DOMAIN generic |-> MapDiagnostic(generic[i])]

AddTextDiagnostics(lines) ==
    JoinTextDiagnostics(AddBazelDiagnostics(lines),
                        GenericReduction(SelectSeq(lines, LAMBDA line : ~IsBazelOwnedLine(line))))

-----------------------------------------------------------------------------
(* Aggregation. Two diagnostics are one if they say the same of the same     *)
(* place and target; failed actions are one whatever their target, which is  *)
(* then only kept if all agree. (Counts saturate at 2^32 - 1, out of reach.) *)

DiagnosticKey(d) ==
    <<d.severity, d.category, d.message, d.location,
      IF d.category = "action" THEN NoLabel ELSE d.target, d.action>>

Repeats(ds, i) == {j \in DOMAIN ds : DiagnosticKey(ds[j]) = DiagnosticKey(ds[i])}

\* Mutant: only repetitions are counted, not the first occurrence.
MergedDiagnosticRepeatsOnly(ds, i) ==
    [ds[i] EXCEPT !.count = MapThenSumSet(LAMBDA j : ds[j].count, Repeats(ds, i) \ {i})]

MergedDiagnostic(ds, i) ==
    [ds[i] EXCEPT
       !.count = MapThenSumSet(LAMBDA j : ds[j].count, Repeats(ds, i)),
       !.target = IF ds[i].category = "action" /\ \E j \in Repeats(ds, i) : ds[j].target # @
                  THEN NoLabel ELSE @]

DeduplicateDiagnostics(ds) ==
    LET first == SelectSeq([i \in DOMAIN ds |-> i], LAMBDA i : i = Min(Repeats(ds, i)))
    IN  [k \in DOMAIN first |-> MergedDiagnostic(ds, first[k])]

-----------------------------------------------------------------------------
(* Ranking: severity, then what the category says about the cause, then how  *)
(* good the evidence is. The sort is stable.                                 *)

SeverityRank == [error |-> 0, warning |-> 1, note |-> 2]

CategoryRank == [loading |-> 0, visibility |-> 0, analysis |-> 0, compilation |-> 0,
                 test |-> 1, workspace |-> 2, bazel |-> 3, unknown |-> 4, action |-> 5]

OutcomeMessages == {"test_failed", "test_timed_out", "test_incomplete", "test_unavailable"}

EvidenceQuality(d) ==
    IF \/ d.location # NoPlace
       \/ "root_cause" \in d.message.words /\ "executing" \notin d.message.words
    THEN 0
    ELSE IF d.category = "test" /\ "assertion" \in d.message.words THEN 1
    ELSE IF d.message.kind \in OutcomeMessages THEN 3
    ELSE IF "executing" \in d.message.words THEN 2
    ELSE 1

DiagnosticPriority(d) ==
    100 * SeverityRank[d.severity] + 10 * CategoryRank[d.category] + EvidenceQuality(d)

RankedBefore(ds, i, j) ==
    \/ DiagnosticPriority(ds[i]) < DiagnosticPriority(ds[j])
    \/ DiagnosticPriority(ds[i]) = DiagnosticPriority(ds[j]) /\ i < j

SortByPriority(ds) ==
    LET order == SortSeq([i \in DOMAIN ds |-> i], LAMBDA i, j : RankedBefore(ds, i, j))
    IN  [k \in DOMAIN ds |-> ds[order[k]]]

-----------------------------------------------------------------------------
(* Budgets. A diagnostic that does not fit is skipped, a later one that fits *)
(* is kept.                                                                  *)

Unbounded == [items |-> 1000, bytes |-> 1000]

\* Mutant: what exceeds the bytes is dropped without a word.
RetainWithinSilently(ds, budget) ==
    FoldLeft(LAMBDA kept, d :
               IF kept.used + d.message.bytes > budget.bytes THEN kept
               ELSE [kept EXCEPT !.used = @ + d.message.bytes, !.value = Append(@, d)],
             [used |-> 0, truncated |-> Len(ds) > budget.items, value |-> <<>>],
             SubSeq(ds, 1, Min({Len(ds), budget.items})))

RetainWithin(ds, budget) ==
    FoldLeft(LAMBDA kept, d :
               IF kept.used + d.message.bytes > budget.bytes THEN [kept EXCEPT !.truncated = TRUE]
               ELSE [used |-> kept.used + d.message.bytes, truncated |-> kept.truncated,
                     value |-> Append(kept.value, d)],
             [used |-> 0, truncated |-> Len(ds) > budget.items, value |-> <<>>],
             SubSeq(ds, 1, Min({Len(ds), budget.items})))

WithDiagnostics(summary, kept) ==
    LET truncated == summary.truncated \/ kept.truncated
    IN  [summary EXCEPT
           !.diagnostics = kept.value,
           !.truncated = truncated,
           !.hint = IF truncated THEN "diagnostics" ELSE @,
           !.headline = IF ~summary.success /\ kept.value # <<>>
                        THEN <<"failed", kept.value[1].message>> ELSE @]

FinalizeDiagnostics(summary, budget) ==
    WithDiagnostics(summary,
                    RetainWithin(SortByPriority(DeduplicateDiagnostics(summary.diagnostics)),
                                 budget))

=============================================================================
