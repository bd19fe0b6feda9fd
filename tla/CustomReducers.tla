--------------------------- MODULE CustomReducers ---------------------------
(* Custom reducers (crates/bazel-mcp-reducer/src/extension.rs): which ones   *)
(* an invocation selects, in which order they run, and what the patch of one *)
(* does to the result. What a reducer answers is external.                   *)
EXTENDS BuildReduction

CONSTANTS Reducers   \* records [name, priority, mode, commands, labels, types]

\* The higher priority first, and the name decides a tie. Names are distinct:
\* a pipeline with two reducers of one name is refused.
RunsBefore(r1, r2) == \/ r1.priority > r2.priority
                      \/ r1.priority = r2.priority /\ r1.name < r2.name

ReducersAssumption == \A r1, r2 \in Reducers : r1.name = r2.name => r1 = r2
ASSUME ReducersAssumption

Pipeline == SortSeq(SetToSeq(Reducers), RunsBefore)

-----------------------------------------------------------------------------
(* A selector's label patterns are the set of the labels they match.         *)

HasEventConstraints(r) == r.labels # {} \/ r.types # {}

MatchesEvent(r, event) == \/ event.label # NoLabel /\ event.label \in r.labels
                          \/ event.type # NoAction /\ event.type \in r.types

Matches(r, context) ==
    /\ r.commands = {} \/ context.command \in r.commands
    /\ HasEventConstraints(r) =>
         \E i \in DOMAIN context.events : MatchesEvent(r, context.events[i])

MatchedLabels(r, context) ==
    {context.events[i].label : i \in {j \in DOMAIN context.events :
                                        MatchesEvent(r, context.events[j])}} \ {NoLabel}

\* Suppression drops what is about a matched label, a label the patterns cover
\* or a selected action.
Suppressed(r, context, d) ==
    \/ d.target # NoLabel /\ d.target \in MatchedLabels(r, context) \union r.labels
    \/ d.action # NoAction /\ d.action \in r.types

SuppressMatchingDiagnostics(summary, r, context) ==
    [summary EXCEPT !.diagnostics = SelectSeq(@, LAMBDA d : ~Suppressed(r, context, d))]

-----------------------------------------------------------------------------
(* One reducer's turn. "report" is the ReducerApplyReport, with the owner of *)
(* the override, the reducer whose turn is next and whether anything was     *)
(* suppressed.                                                               *)

NewReport == [next |-> 1, owner |-> 0, applied |-> <<>>, failures |-> <<>>,
              collisions |-> <<>>, headline |-> FALSE, suppressed |-> FALSE]

EmptyPatch(patch) == patch.headline = 0 /\ patch.diagnostics = <<>> /\ ~patch.suppress

\* A matching override finds the evidence owned by another.
\* Mutant: an override runs although another already owns the evidence.
CollidesNever(report, r) == FALSE

Collides(report, r) == r.mode = "override" /\ report.owner # 0

PatchReport(report, r, patch) ==
    [report EXCEPT !.next = @ + 1,
                   !.owner = IF r.mode = "override" THEN r.name ELSE @,
                   !.applied = Append(@, r.name),
                   !.suppressed = @ \/ (r.mode = "override" /\ patch.suppress),
                   !.headline = @ \/ patch.headline # 0]

PatchSummary(summary, report, r, context, patch) ==
    LET base == IF r.mode = "override" /\ patch.suppress
                THEN SuppressMatchingDiagnostics(summary, r, context) ELSE summary
    IN  [base EXCEPT !.headline = IF ~report.headline /\ patch.headline # 0
                                  THEN <<"custom", patch.headline>> ELSE @,
                     !.diagnostics = @ \o patch.diagnostics]

\* Once all have run, a result built on truncated input says so.
AfterReducers(summary, report, context) ==
    IF report.applied # <<>> /\ context.truncated
    THEN [summary EXCEPT !.truncated = TRUE, !.hint = "log"] ELSE summary

=============================================================================
