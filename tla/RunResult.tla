----------------------------- MODULE RunResult ------------------------------
(***************************************************************************)
(* The bounded result of bazel.run (server result.rs).  A result is cut    *)
(* down item by item until its encoding fits the limit of its kind.        *)
(*                                                                         *)
(* Texts and items are their lengths in bytes; texts are ASCII, so every   *)
(* byte is a character boundary.  FixedBytes[encoding] is what the field   *)
(* names and numbers take in one copy of the encoding, and a summary's     *)
(* target the label a run was given, from which nothing is ever taken.     *)
(***************************************************************************)
EXTENDS Integers, Sequences, SequencesExt, FiniteSetsExt, Folds

CONSTANTS FixedBytes, RERUN_HINT_BYTES

Encodings == {"text", "toon", "structured", "both"}

\* build_run_summary cuts the target of a run; texts and items of a reduction are no
\* longer than the sanitizer leaves them.
TARGET_LIMIT == 1000

SUCCESS_LIMIT == 2 * 1024
FAILURE_LIMIT == 8 * 1024
ELLIPSIS == 3

Total(sizes) == FoldLeft(LAMBDA sum, size : sum + size, 0, sizes)

\* follow_up_available: there is more to see than the result itself holds.
FollowUp(summary) == summary.truncated \/ summary.tables \/ summary.hint

\* RunResultBuilder::build up to its loop, the tool error aside, which only the
\* response carries.  An attached or deferred result is
\* retained and can be inspected; an agent's is ephemeral and can be run again.
Draft(summary, retained) ==
    [excerpts |-> summary.excerpts, samples |-> summary.samples,
     diagnostics |-> summary.diagnostics, headline |-> summary.headline,
     command |-> summary.command, target |-> summary.target, truncated |-> summary.truncated,
     hint |-> retained /\ summary.hint, views |-> retained,
     more |-> retained /\ FollowUp(summary), rerun |-> ~retained /\ FollowUp(summary),
     limit |-> IF summary.success THEN SUCCESS_LIMIT ELSE FAILURE_LIMIT,
     retained |-> retained]

\* encode_value: the bytes of the text, of the structured content, or of both.
EncodedSize(encoding, draft) ==
    LET copy == FixedBytes[encoding] + draft.target + draft.headline + draft.command
                  + Total(draft.excerpts) + Total(draft.samples) + Total(draft.diagnostics)
                  + (IF draft.rerun THEN RERUN_HINT_BYTES ELSE 0)
    IN  IF encoding = "both" THEN 2 * copy ELSE copy

\* shrink_utf8: a quarter goes, down to the minimum, and an ellipsis is added.
ShrinkUtf8(length, minimum) ==
    LET kept == (length * 3) \div 4
    IN  (IF kept < minimum THEN minimum ELSE kept) + ELLIPSIS

\* What the loop takes away next: the last run excerpt, query row or diagnostic,
\* then from the headline, then from the command.
Pops == <<"excerpts", "samples", "diagnostics">>

CanShrink(draft) ==
    \/ \E field \in ToSet(Pops) : draft[field] # <<>>
    \/ draft.headline > 96
    \/ draft.command > 32

\* Seeded fault: a result whose evidence is gone suggests no other way to it.
MarkedWithoutRerun(draft) == [draft EXCEPT !.truncated = TRUE, !.more = draft.retained]

Marked(draft) ==
    [draft EXCEPT !.truncated = TRUE, !.more = draft.retained, !.rerun = @ \/ ~draft.retained]

Shrunk(draft) ==
    LET held == {k \in DOMAIN Pops : draft[Pops[k]] # <<>>}
    IN  CASE held # {} -> [Marked(draft) EXCEPT ![Pops[Min(held)]] = Front(@)]
          [] held = {} /\ draft.headline > 96 ->
                 [Marked(draft) EXCEPT !.headline = ShrinkUtf8(@, 96)]
          [] OTHER -> [Marked(draft) EXCEPT !.command = ShrinkUtf8(@, 32)]

\* The parts of the encoded result, and what build_cli prints of them.
HasText(encoding) == encoding # "structured"
HasStructured(encoding) == encoding \in {"structured", "both"}

CliPart(encoding) == IF HasText(encoding) THEN "text" ELSE "structured"
=============================================================================
