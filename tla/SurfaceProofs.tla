--------------------------- MODULE SurfaceProofs ----------------------------
(***************************************************************************)
(* Proofs about Surface, for every set of scenarios and of requests in     *)
(* flight: the version cache is sound, every bazel.run call is dispatched  *)
(* as the negotiated contract says, a result that leaves fits and says     *)
(* what was taken from it, and no two children run in one output base.     *)
(*                                                                         *)
(* A failed probe may stay in the cache as long as somebody is going to    *)
(* report it.  That is inductive only together with ProbesHaveCallers: a   *)
(* probe that is under way has a caller too, who is there when it fails.   *)
(* RequestShape lets every other step be read as a change of fields, and   *)
(* RequestOk gathers what one request promises: its dispatch stays that of *)
(* the contract, its result is fetched in its own dialect, and its draft   *)
(* is honest at every turn of the packing loop, so also when it leaves.    *)
(*                                                                         *)
(* The locks need to know what a path leads to.  Resolve goes along it one *)
(* component after the other, which is an induction over its prefixes;     *)
(* from it follows that canonicalize_with_missing_tail finds the directory *)
(* Bazel itself will use, and so that different keys are different output  *)
(* bases.                                                                  *)
(***************************************************************************)
EXTENDS Surface, FiniteSetTheorems, SequenceTheorems, WellFoundedInduction, TLAPS

\* Every slot holds a request, with the fields of an idle one.
RequestShape ==
    /\ req = [r \in Slots |-> req[r]]
    /\ \A r \in Slots : DOMAIN req[r] = DOMAIN Idle

\* Nothing happens before the process starts.
DownIsIdle ==
    /\ mode = "down" => cells = <<>> /\ cache = <<>> /\ \A r \in Slots : req[r] = Idle
    /\ mode \in {"down", "server"} => config.execution \in ExecutionPolicies

CellFields == {"probe", "state", "major"}

CellShape ==
    /\ cells \in Seq({cells[k] : k \in DOMAIN cells})
    /\ \A k \in DOMAIN cells : DOMAIN cells[k] = CellFields

\* A key's cell was made for that key.
CacheHasOwnCells ==
    \A probe \in DOMAIN cache : cache[probe] \in DOMAIN cells /\ cells[cache[probe]].probe = probe

Uncached(k) == cells[k].probe \notin DOMAIN cache \/ cache[cells[k].probe] # k

\* Only a failed probe is forgotten.
LiveCellsAreCached == \A k \in DOMAIN cells : cells[k].state # "failed" => ~Uncached(k)

\* A cell that did not answer and is still cached has a caller at it.
ProbesHaveCallers ==
    \A k \in DOMAIN cells :
        cells[k].state # "known" /\ ~Uncached(k) =>
            \E r \in Slots : At(r, "probing") /\ req[r].cell = k

\* Until its places are known a request has no cell.
FreshIsUnchecked == \A r \in Slots : At(r, "dispatched") => req[r].cell = 0

Checked == {"probing", "accepted", "running"}

\* A request past its checks looks at the cell of its own Bazel and workspace.
CallersHaveOwnCells ==
    \A r \in Slots : req[r].phase \in Checked =>
        IF req[r].cell = 0 THEN config.allowUnsupported
        ELSE /\ req[r].cell \in DOMAIN cells
             /\ cells[req[r].cell].probe = <<req[r].bazel, req[r].workspace>>

\* An accepted request has seen its version.
AcceptedIsSupported ==
    \A r \in Slots : req[r].phase \in {"accepted", "running"} /\ req[r].cell # 0 =>
        /\ cells[req[r].cell].state = "known"
        /\ cells[req[r].cell].major \in config.supported

CacheInv ==
    /\ CellShape
    /\ FreshIsUnchecked
    /\ CacheHasOwnCells
    /\ LiveCellsAreCached
    /\ ProbesHaveCallers
    /\ CallersHaveOwnCells
    /\ AcceptedIsSupported
-----------------------------------------------------------------------------
(* Requests as records of fields                                            *)

\* The request in slot r changes in no field but those of F, and no other request does.
Only(r, F) ==
    /\ \A s \in Slots \ {r} : req'[s] = req[s]
    /\ \A f \in DOMAIN Idle \ F : req'[r][f] = req[r][f]

\* What a request is replaced by leaves the others alone and keeps the shape.
LEMMA BecomeReplaces ==
    ASSUME RequestShape, NEW r \in Slots, NEW new, DOMAIN new = DOMAIN Idle, Become(r, new)
    PROVE  RequestShape' /\ req'[r] = new /\ \A s \in Slots \ {r} : req'[s] = req[s]
BY DEF RequestShape, Become

\* The fields of an answer with an error.
LEMMA AnsweredShape ==
    ASSUME RequestShape, NEW r \in Slots, NEW error
    PROVE  /\ DOMAIN Answered(r, error) = DOMAIN Idle
           /\ Answered(r, error).phase = "answered" /\ Answered(r, error).error = error
           /\ \A f \in DOMAIN Idle \ {"phase", "error"} : Answered(r, error)[f] = req[r][f]
BY DEF RequestShape, Answered, Idle

\* Receive fills an idle slot with a call and its dispatch.
LEMMA ReceiveEffect ==
    ASSUME RequestShape, NEW r \in Slots, NEW call, Receive(r, call)
    PROVE  /\ RequestShape' /\ \A s \in Slots \ {r} : req'[s] = req[s]
           /\ req'[r].phase \in {"dispatched", "answered"}
           /\ \A f \in DOMAIN Idle \ {"phase", "call", "family", "dispatch", "error"} :
                  req'[r][f] = Idle[f]
           /\ req'[r].call = <<call>> /\ req'[r].family = Family(session.version)
           /\ req'[r].dispatch = ToolCall(Family(session.version), config.execution, call)
<1> DEFINE family == Family(session.version)
           dispatch == ToolCall(family, config.execution, call)
           received == [Idle EXCEPT !.call = <<call>>, !.family = family, !.dispatch = dispatch]
           new == IF dispatch \in ProtocolErrors
                  THEN [received EXCEPT !.phase = "answered", !.error = dispatch]
                  ELSE IF call.tool # "bazel.run" THEN [received EXCEPT !.phase = "answered"]
                  ELSE DecodeRunRequest(received)
           Taken(q) == /\ DOMAIN q = DOMAIN Idle
                       /\ q.phase \in {"dispatched", "answered"}
                       /\ \A f \in DOMAIN Idle \ {"phase", "call", "family", "dispatch", "error"} :
                              q[f] = Idle[f]
                       /\ q.call = <<call>> /\ q.family = family /\ q.dispatch = dispatch
<1>1. Become(r, new)
  BY DEF Receive
<1> HIDE DEF family, dispatch
<1>2. /\ DOMAIN received = DOMAIN Idle /\ received.call = <<call>>
      /\ received.family = family /\ received.dispatch = dispatch
      /\ \A f \in DOMAIN Idle \ {"phase", "call", "family", "dispatch", "error"} :
             received[f] = Idle[f]
  BY DEF Idle
<1> HIDE DEF received
<1>3. ASSUME NEW error PROVE Taken([received EXCEPT !.phase = "answered", !.error = error])
  BY <1>2 DEF Idle
<1>4. Taken([received EXCEPT !.phase = "answered"]) /\ Taken([received EXCEPT !.phase = "dispatched"])
  BY <1>2 DEF Idle
<1>5. Taken(new)
  BY <1>3, <1>4 DEF DecodeRunRequest
<1> HIDE DEF new
<1> QED
  BY <1>1, <1>5, BecomeReplaces DEF family, dispatch

\* Cancel sets the token and nothing else.
LEMMA CancelEffect ==
    ASSUME RequestShape, NEW r \in Slots, Cancel(r)
    PROVE  RequestShape' /\ Only(r, {"cancelled"})
<1>1. /\ DOMAIN [req[r] EXCEPT !.cancelled = TRUE] = DOMAIN Idle
      /\ \A f \in DOMAIN Idle \ {"cancelled"} : [req[r] EXCEPT !.cancelled = TRUE][f] = req[r][f]
  BY DEF RequestShape, Idle
<1> QED
  BY <1>1, BecomeReplaces DEF Cancel, Only

\* Accept takes a request whose version is supported, or answers it with an error.
LEMMA AcceptEffect ==
    ASSUME RequestShape, NEW r \in Slots, Accept(r)
    PROVE  /\ RequestShape' /\ Only(r, {"phase", "error", "driver"})
           /\ req[r].phase = "probing" /\ req'[r].phase \in {"answered", "accepted"}
           /\ req[r].cell # 0 => cells[req[r].cell].state = "known"
           /\ req'[r].phase = "accepted" /\ req[r].cell # 0 =>
                  cells[req[r].cell].major \in config.supported
<1> DEFINE cell == req[r].cell
           version == Check(cell = 0 \/ cells[cell].major \in config.supported, "UnsupportedBazelVersion")
           checks == <<version, DriverOf(r).error, Check(~req[r].cancelled, "CancelledBeforeAcceptance")>>
           taken == [req[r] EXCEPT !.phase = "accepted", !.driver = DriverOf(r).driver]
           new == IF FirstError(checks) # "ok" THEN Answered(r, FirstError(checks)) ELSE taken
<1>1. At(r, "probing") /\ (cell # 0 => cells[cell].state = "known") /\ Become(r, new)
  BY DEF Accept
<1>2. FirstError(checks) = "ok" => version = "ok"
  <2>1. DOMAIN checks = {1, 2, 3} /\ checks[1] = version /\ checks[2] = DriverOf(r).error
        /\ checks[3] = Check(~req[r].cancelled, "CancelledBeforeAcceptance")
    BY DEF checks
  <2> DEFINE failed == {k \in DOMAIN checks : checks[k] # "ok"}
  <2> HIDE DEF version
  <2>2. SUFFICES ASSUME version # "ok" PROVE Min(failed) \in failed
    BY <2>1 DEF FirstError
  <2>3. failed \subseteq {1, 2, 3} /\ 1 \in failed
    BY <2>1, <2>2
  <2>4. Min(failed) = 1
    BY <2>3 DEF Min
  <2> QED
    BY <2>3, <2>4
<1>3. version = "ok" => (cell = 0 \/ cells[cell].major \in config.supported)
  BY DEF Check
<1>4. /\ DOMAIN taken = DOMAIN Idle /\ taken.phase = "accepted"
      /\ \A f \in DOMAIN Idle \ {"phase", "driver"} : taken[f] = req[r][f]
  BY DEF RequestShape, Idle
<1> HIDE DEF checks, taken, version
<1>5. /\ DOMAIN new = DOMAIN Idle /\ new.phase \in {"answered", "accepted"}
      /\ \A f \in DOMAIN Idle \ {"phase", "error", "driver"} : new[f] = req[r][f]
      /\ new.phase = "accepted" => FirstError(checks) = "ok"
  BY <1>4, AnsweredShape
<1> HIDE DEF new
<1> QED
  BY <1>1, <1>2, <1>3, <1>5, BecomeReplaces DEF At, Only

\* Forget answers a caller whose probe failed.
LEMMA ForgetEffect ==
    ASSUME RequestShape, NEW r \in Slots, Forget(r)
    PROVE  /\ RequestShape' /\ Only(r, {"phase", "error"})
           /\ req[r].phase = "probing" /\ req'[r].phase = "answered"
BY AnsweredShape, BecomeReplaces DEF Forget, Only, At

\* The draft of a result, before anything is taken from it.
WholeDraft(r, draft) ==
    \E summary \in S.summaries : draft = <<Draft(summary, req[r].dispatch # "agent")>>

\* The request in slot r ends: it is packed at once, unless it is deferred.
FinishedIn(r) ==
    /\ Only(r, {"phase", "end", "draft", "toolError"})
    /\ req'[r].phase = IF Deferred(r) THEN "ended" ELSE "packing"
    /\ req'[r].end \in S.ends
    /\ WholeDraft(r, req'[r].draft)

\* BuildRunResult changes the phase and the tool error.
LEMMA BuildRunResultShape ==
    ASSUME NEW request, NEW failed, DOMAIN request = DOMAIN Idle
    PROVE  /\ DOMAIN BuildRunResult(request, failed) = DOMAIN Idle
           /\ BuildRunResult(request, failed).phase = "packing"
           /\ \A f \in DOMAIN Idle \ {"phase", "toolError"} :
                  BuildRunResult(request, failed)[f] = request[f]
BY DEF BuildRunResult, Idle

\* A terminal invocation is packed at once, unless it is deferred: then it waits.
LEMMA FinishEffect ==
    ASSUME RequestShape, NEW r \in Slots, NEW kinds, Finish(r, kinds)
    PROVE  RequestShape' /\ FinishedIn(r)
<1>1. PICK end \in S.ends, summary \in S.summaries : Become(r, Finished(r, end, summary))
  BY DEF Finish
<1> DEFINE draft == <<Draft(summary, req[r].dispatch # "agent")>>
           ended == [req[r] EXCEPT !.phase = "ended", !.end = end, !.draft = draft]
           new == Finished(r, end, summary)
<1>2. new = IF Deferred(r) THEN ended ELSE BuildRunResult(ended, FALSE)
  BY DEF Finished
<1>3. WholeDraft(r, draft)
  BY DEF WholeDraft
<1> HIDE DEF draft, new
<1>4. /\ DOMAIN ended = DOMAIN Idle /\ ended.phase = "ended"
      /\ ended.end = end /\ ended.draft = draft
      /\ \A f \in DOMAIN Idle \ {"phase", "end", "draft"} : ended[f] = req[r][f]
  BY DEF RequestShape, Idle
<1> HIDE DEF ended
<1>5. /\ DOMAIN new = DOMAIN Idle
      /\ new.phase = IF Deferred(r) THEN "ended" ELSE "packing"
      /\ new.end = end /\ new.draft = draft
      /\ \A f \in DOMAIN Idle \ {"phase", "end", "draft", "toolError"} : new[f] = req[r][f]
  <2>1. CASE Deferred(r)
    BY <2>1, <1>2, <1>4
  <2>2. CASE ~Deferred(r)
    BY <2>2, <1>2, <1>4 DEF BuildRunResult, Idle
  <2> QED
    BY <2>1, <2>2
<1> QED
  BY <1>1, <1>3, <1>5, BecomeReplaces DEF Only, FinishedIn, new

\* Spawn ends the invocation or has it running.
LEMMA SpawnEffect ==
    ASSUME RequestShape, NEW r \in Slots, Spawn(r)
    PROVE  /\ RequestShape' /\ req[r].phase = "accepted"
           /\ \/ Only(r, {"phase", "child", "capture"}) /\ req'[r].phase = "running"
              \/ FinishedIn(r)
<1>1. CASE \E kinds \in {{"cancelled"}, {"interrupted"}, {"spawn failure"}} : Finish(r, kinds)
  BY <1>1, FinishEffect DEF Spawn, Only, At
<1>2. CASE \E child, capture : Become(r, [req[r] EXCEPT !.phase = "running", !.child = child,
                                                       !.capture = capture])
  <2>1. PICK child, capture : Become(r, [req[r] EXCEPT !.phase = "running", !.child = child,
                                                      !.capture = capture])
    BY <1>2
  <2> DEFINE new == [req[r] EXCEPT !.phase = "running", !.child = child, !.capture = capture]
  <2>2. /\ DOMAIN new = DOMAIN Idle /\ new.phase = "running"
        /\ \A f \in DOMAIN Idle \ {"phase", "child", "capture"} : new[f] = req[r][f]
    BY DEF RequestShape, Idle
  <2>3. Become(r, new)
    BY <2>1
  <2> HIDE DEF new
  <2> QED
    BY <2>2, <2>3, BecomeReplaces DEF Spawn, Only, At
<1> QED
  BY <1>1, <1>2 DEF Spawn

\* Exit ends the invocation.
LEMMA ExitEffect ==
    ASSUME RequestShape, NEW r \in Slots, Exit(r)
    PROVE  RequestShape' /\ req[r].phase = "running" /\ FinishedIn(r)
BY FinishEffect DEF Exit, At

\* A request of a task's own dialect, for its result: what TaskRequest lets through.
OwnFetch(got, dispatch) ==
    /\ got.outcome = "ok"
    /\ dispatch = "legacy task" =>
           got = [method |-> "tasks/result", family |-> "legacy", outcome |-> "ok"]
    /\ dispatch = "extension task" =>
           got = [method |-> "tasks/get", family |-> "extension", outcome |-> "ok"]

\* A task's result is given to the method of its own dialect only.
LEMMA FetchIsOwn ==
    ASSUME NEW family \in Families, NEW method, NEW capable, NEW kind,
           TaskRequest(family, method, capable, kind) = "ok",
           method = (IF family = "legacy" THEN "tasks/result" ELSE "tasks/get")
    PROVE  OwnFetch([method |-> method, family |-> family, outcome |-> "ok"], kind)
<1>1. family # "earlier" /\ kind = Retrieval(family)
  BY DEF Families, TaskRequest, UpdateRequest
<1> QED
  BY <1>1 DEF Families, OwnFetch, Retrieval

\* Every negotiated version is of one of the families.
LEMMA FamilyIsKnown ==
    ASSUME NEW version
    PROVE  Family(version) \in Families
BY DEF Family, Families

\* A task request is seen, may cancel, and of a terminal invocation may fetch the
\* result, in the task's own dialect only.
LEMMA TaskCallEffect ==
    ASSUME RequestShape, NEW r \in Slots, NEW method, NEW capable, TaskCall(r, method, capable)
    PROVE  /\ RequestShape' /\ req[r].phase \in {"accepted", "running", "ended"}
           /\ \/ Only(r, {"got", "cancelled"})
              \/ /\ Only(r, {"phase", "toolError", "got"})
                 /\ req[r].phase = "ended" /\ req'[r].phase = "packing"
                 /\ OwnFetch(req'[r].got[1], req[r].dispatch)
<1> DEFINE family == Family(session.version)
           outcome == TaskRequest(family, method, capable, req[r].dispatch)
           got == [method |-> method, family |-> family, outcome |-> outcome]
           seen == [req[r] EXCEPT !.got = <<got>>]
           fetches == outcome = "ok" /\ method = (IF family = "legacy" THEN "tasks/result"
                                                  ELSE "tasks/get")
           token == seen.cancelled \/ (outcome = "ok" /\ method = "tasks/cancel" /\ ~At(r, "ended"))
<1>1. /\ req[r].phase \in {"accepted", "running", "ended"}
      /\ IF fetches /\ At(r, "ended")
         THEN \E failed \in BOOLEAN : Become(r, BuildRunResult(seen, failed))
         ELSE Become(r, [seen EXCEPT !.cancelled = token])
  BY DEF TaskCall
<1>2. fetches => OwnFetch(got, req[r].dispatch)
  BY FamilyIsKnown, FetchIsOwn
<1> HIDE DEF fetches, got, token
<1>3. /\ DOMAIN seen = DOMAIN Idle /\ seen.got = <<got>>
      /\ \A f \in DOMAIN Idle \ {"got"} : seen[f] = req[r][f]
  BY DEF RequestShape, Idle
<1> HIDE DEF seen
<1>4. CASE fetches /\ At(r, "ended")
  <2>1. PICK failed \in BOOLEAN : Become(r, BuildRunResult(seen, failed))
    BY <1>1, <1>4
  <2> DEFINE new == BuildRunResult(seen, failed)
  <2>2. /\ DOMAIN new = DOMAIN Idle /\ new.phase = "packing" /\ new.got = <<got>>
        /\ \A f \in DOMAIN Idle \ {"phase", "toolError", "got"} : new[f] = req[r][f]
    BY <1>3 DEF BuildRunResult, Idle
  <2> HIDE DEF new
  <2>3. RequestShape' /\ req'[r] = new /\ \A s \in Slots \ {r} : req'[s] = req[s]
    BY <2>1, <2>2, BecomeReplaces DEF new
  <2> QED
    BY <2>2, <2>3, <1>1, <1>2, <1>4 DEF Only, At
<1>5. CASE ~(fetches /\ At(r, "ended"))
  <2> DEFINE new == [seen EXCEPT !.cancelled = token]
  <2>1. Become(r, new)
    BY <1>1, <1>5
  <2>2. /\ DOMAIN new = DOMAIN Idle
        /\ \A f \in DOMAIN Idle \ {"cancelled", "got"} : new[f] = req[r][f]
    BY <1>3 DEF Idle
  <2> HIDE DEF new
  <2>3. RequestShape' /\ req'[r] = new /\ \A s \in Slots \ {r} : req'[s] = req[s]
    BY <2>1, <2>2, BecomeReplaces
  <2> QED
    BY <2>2, <2>3, <1>1 DEF Only
<1> QED
  BY <1>4, <1>5

\* Packing answers a draft that fits, cuts one that does not, or gives up.
LEMMA PackEffect ==
    ASSUME RequestShape, NEW r \in Slots, Pack(r)
    PROVE  /\ RequestShape' /\ req[r].phase = "packing"
           /\ \/ Fits(req[r].draft[1]) /\ Only(r, {"phase"}) /\ req'[r].phase = "answered"
              \/ /\ Only(r, {"draft"}) /\ CanShrink(req[r].draft[1])
                 /\ req'[r].draft = <<Shrunk(req[r].draft[1])>>
              \/ /\ Only(r, {"phase", "error"}) /\ req'[r].phase = "answered"
                 /\ req'[r].error = "could not fit"
<1> DEFINE draft == req[r].draft[1]
           fit == [req[r] EXCEPT !.phase = "answered"]
           shrunk == [req[r] EXCEPT !.draft = <<Shrunk(draft)>>]
<1>1. /\ At(r, "packing")
      /\ \/ Fits(draft) /\ Become(r, fit)
         \/ CanShrink(draft) /\ Become(r, shrunk)
         \/ Become(r, Answered(r, "could not fit"))
  BY DEF Pack
<1>2. /\ DOMAIN fit = DOMAIN Idle /\ fit.phase = "answered"
      /\ \A f \in DOMAIN Idle \ {"phase"} : fit[f] = req[r][f]
  BY DEF RequestShape, Idle
<1>3. /\ DOMAIN shrunk = DOMAIN Idle /\ shrunk.draft = <<Shrunk(draft)>>
      /\ \A f \in DOMAIN Idle \ {"draft"} : shrunk[f] = req[r][f]
  BY DEF RequestShape, Idle
<1> HIDE DEF fit, shrunk
<1>4. CASE Fits(draft) /\ Become(r, fit)
  BY <1>1, <1>2, <1>4, BecomeReplaces DEF Only, At
<1>5. CASE CanShrink(draft) /\ Become(r, shrunk)
  BY <1>1, <1>3, <1>5, BecomeReplaces DEF Only, At
<1>6. CASE Become(r, Answered(r, "could not fit"))
  <2> DEFINE new == Answered(r, "could not fit")
  <2>1. /\ DOMAIN new = DOMAIN Idle /\ new.phase = "answered" /\ new.error = "could not fit"
        /\ \A f \in DOMAIN Idle \ {"phase", "error"} : new[f] = req[r][f]
    BY DEF RequestShape, Answered, Idle
  <2> HIDE DEF new
  <2>2. RequestShape' /\ req'[r] = new /\ \A s \in Slots \ {r} : req'[s] = req[s]
    BY <1>6, <2>1, BecomeReplaces DEF new
  <2> QED
    BY <1>1, <2>1, <2>2 DEF Only, At
<1> QED
  BY <1>1, <1>4, <1>5, <1>6

\* A delivered response frees its slot, or ends the agent's process.
LEMMA DeliverEffect ==
    ASSUME RequestShape, NEW r \in Slots, Deliver(r)
    PROVE  /\ RequestShape' /\ req[r].phase = "answered"
           /\ \/ req' = req
              \/ req'[r] = Idle /\ \A s \in Slots \ {r} : req'[s] = req[s]
<1>1. CASE req' = req
  BY <1>1 DEF Deliver, At, RequestShape
<1>2. CASE Become(r, Idle)
  BY <1>2, BecomeReplaces DEF Deliver, At
<1> QED
  BY <1>1, <1>2 DEF Deliver

\* The cell Prepare finds, or makes, for a probe.
Looked(probe, cell) ==
    /\ cells' = IF probe \in DOMAIN cache THEN cells
                ELSE Append(cells, [probe |-> probe, state |-> "empty", major |-> -1])
    /\ cell = IF probe \in DOMAIN cache THEN cache[probe] ELSE Len(cells) + 1
    /\ cache' = [k \in DOMAIN cache \cup {probe} |-> IF k = probe THEN cell ELSE cache[k]]

\* Prepare answers a request that is refused, and has the others at their cell.
LEMMA PrepareEffect ==
    ASSUME RequestShape, NEW r \in Slots, Prepare(r)
    PROVE  /\ RequestShape' /\ req[r].phase = "dispatched"
           /\ \/ /\ Only(r, {"phase", "error"}) /\ req'[r].phase = "answered"
                 /\ UNCHANGED <<cells, cache>>
              \/ /\ Only(r, {"phase", "workspace", "base", "key", "bazel"})
                 /\ req'[r].phase = "probing" /\ config.allowUnsupported
                 /\ UNCHANGED <<cells, cache>>
              \/ /\ Only(r, {"phase", "workspace", "base", "key", "bazel", "cell"})
                 /\ req'[r].phase = "probing"
                 /\ Looked(<<req'[r].bazel, req'[r].workspace>>, req'[r].cell)
<1> DEFINE arguments == ArgumentsError(Call(r))
           places == Placed(Call(r))
           error == FirstError(<<Check(~req[r].cancelled, "CancelledBeforeAcceptance"),
                                 arguments, places.error>>)
           probe == <<places.bazel, places.workspace>>
           cell  == IF probe \in DOMAIN cache THEN cache[probe] ELSE Len(cells) + 1
           checked == [req[r] EXCEPT !.phase = "probing", !.workspace = places.workspace,
                                     !.base = places.base, !.key = places.key,
                                     !.bazel = places.bazel]
           looking == [checked EXCEPT !.cell = cell]
<1>1. /\ At(r, "dispatched")
      /\ \/ Become(r, Answered(r, error)) /\ UNCHANGED <<cells, cache>>
         \/ config.allowUnsupported /\ Become(r, checked) /\ UNCHANGED <<cells, cache>>
         \/ Become(r, looking) /\ Looked(probe, cell)
  BY DEF Prepare, Submit, Looked
<1> HIDE DEF error, places, cell
<1>2. /\ DOMAIN checked = DOMAIN Idle /\ checked.phase = "probing"
      /\ checked.workspace = places.workspace /\ checked.bazel = places.bazel
      /\ \A f \in DOMAIN Idle \ {"phase", "workspace", "base", "key", "bazel"} :
             checked[f] = req[r][f]
  BY DEF RequestShape, Idle
<1> HIDE DEF checked
<1>3. /\ DOMAIN looking = DOMAIN Idle /\ looking.phase = "probing" /\ looking.cell = cell
      /\ looking.workspace = places.workspace /\ looking.bazel = places.bazel
      /\ \A f \in DOMAIN Idle \ {"phase", "workspace", "base", "key", "bazel", "cell"} :
             looking[f] = req[r][f]
  BY <1>2 DEF Idle
<1> HIDE DEF looking
<1>4. CASE Become(r, Answered(r, error)) /\ UNCHANGED <<cells, cache>>
  BY <1>1, <1>4, AnsweredShape, BecomeReplaces DEF Only, At
<1>5. CASE config.allowUnsupported /\ Become(r, checked) /\ UNCHANGED <<cells, cache>>
  BY <1>1, <1>2, <1>5, BecomeReplaces DEF Only, At
<1>6. CASE Become(r, looking) /\ Looked(probe, cell)
  <2>1. RequestShape' /\ req'[r] = looking /\ \A s \in Slots \ {r} : req'[s] = req[s]
    BY <1>3, <1>6, BecomeReplaces
  <2>2. Looked(<<req'[r].bazel, req'[r].workspace>>, req'[r].cell)
    BY <1>3, <1>6, <2>1
  <2> QED
    BY <1>1, <1>3, <2>1, <2>2 DEF Only, At
<1> QED
  BY <1>1, <1>4, <1>5, <1>6
-----------------------------------------------------------------------------
(* The version cache                                                        *)

\* A step that looks up no probe, ends none and leaves none that has not answered.
CacheQuiet(r) ==
    /\ UNCHANGED <<cells, cache, config>>
    /\ \A s \in Slots \ {r} : req'[s] = req[s]
    /\ req'[r].phase \in Checked =>
           /\ \A f \in {"cell", "bazel", "workspace"} : req'[r][f] = req[r][f]
           /\ req[r].phase \in Checked
           /\ \/ req'[r].phase = req[r].phase
              \/ req[r].phase = "probing" /\ req'[r].phase = "accepted"
              \/ req[r].phase = "accepted" /\ req'[r].phase = "running"
    /\ req'[r].phase = "dispatched" =>
           req'[r].cell = IF req[r].phase = "dispatched" THEN req[r].cell ELSE 0
    /\ req[r].phase = "probing" /\ req'[r].phase # "probing" /\ req[r].cell # 0 =>
           /\ cells[req[r].cell].state = "known"
           /\ req'[r].phase = "accepted" => cells[req[r].cell].major \in config.supported

\* Such a step keeps the cache sound.
LEMMA QuietKeepsCache ==
    ASSUME CacheInv, NEW r \in Slots, CacheQuiet(r)
    PROVE  CacheInv'
<1> USE DEF CacheQuiet, At
<1>1. CellShape' /\ CacheHasOwnCells' /\ LiveCellsAreCached'
  BY DEF CacheInv, CellShape, CacheHasOwnCells, LiveCellsAreCached, Uncached
<1>2. FreshIsUnchecked'
  BY DEF CacheInv, FreshIsUnchecked
<1>3. ProbesHaveCallers'
  <2>1. SUFFICES ASSUME NEW k \in DOMAIN cells, cells[k].state # "known", ~Uncached(k)
                 PROVE  \E s \in Slots : req'[s].phase = "probing" /\ req'[s].cell = k
    BY DEF ProbesHaveCallers, Uncached
  <2>2. PICK s \in Slots : req[s].phase = "probing" /\ req[s].cell = k
    BY <2>1 DEF CacheInv, ProbesHaveCallers
  <2>3. k # 0
    BY DEF CacheInv, CellShape
  <2>4. CASE s # r
    BY <2>2, <2>4
  <2>5. CASE s = r
    BY <2>1, <2>2, <2>3, <2>5 DEF Checked
  <2> QED
    BY <2>4, <2>5
<1>4. CallersHaveOwnCells'
  <2>1. SUFFICES ASSUME NEW s \in Slots, req'[s].phase \in Checked
                 PROVE  IF req'[s].cell = 0 THEN config.allowUnsupported
                        ELSE /\ req'[s].cell \in DOMAIN cells
                             /\ cells[req'[s].cell].probe = <<req'[s].bazel, req'[s].workspace>>
    BY DEF CallersHaveOwnCells, Checked
  <2>2. req[s].phase \in Checked /\ \A f \in {"cell", "bazel", "workspace"} : req'[s][f] = req[s][f]
    BY <2>1
  <2>3. req'[s].cell = req[s].cell /\ req'[s].bazel = req[s].bazel
            /\ req'[s].workspace = req[s].workspace
    BY <2>2
  <2> QED
    BY <2>2, <2>3 DEF CacheInv, CallersHaveOwnCells
<1>5. AcceptedIsSupported'
  BY DEF CacheInv, AcceptedIsSupported, Checked
<1> QED
  BY <1>1, <1>2, <1>3, <1>4, <1>5 DEF CacheInv

\* The steps of one request that neither look up nor forget a probe are such steps.
LEMMA RequestStepsAreQuiet ==
    ASSUME RequestShape, CacheInv, NEW r \in Slots,
           \/ \E call : Receive(r, call)
           \/ Cancel(r) \/ Accept(r) \/ Spawn(r) \/ Exit(r) \/ Pack(r) \/ Deliver(r)
           \/ \E method, capable : TaskCall(r, method, capable)
    PROVE  RequestShape' /\ CacheQuiet(r)
<1> USE DEF CacheQuiet, Only, Checked, Idle
<1>1. CASE \E call : Receive(r, call)
  <2>1. PICK call : Receive(r, call)
    BY <1>1
  <2>2. req[r].phase = "idle" /\ UNCHANGED <<cells, cache, config>>
    BY <2>1 DEF Receive, At
  <2> QED
    BY <2>1, <2>2, ReceiveEffect
<1>2. CASE Cancel(r)
  <2>1. UNCHANGED <<cells, cache, config>>
    BY <1>2 DEF Cancel
  <2> QED
    BY <2>1, <1>2, CancelEffect
<1>3. CASE Accept(r)
  <2>1. UNCHANGED <<cells, cache, config>>
    BY <1>3 DEF Accept
  <2> QED
    BY <2>1, <1>3, AcceptEffect
<1>4. CASE Spawn(r)
  <2>1. UNCHANGED <<cells, cache, config>>
    BY <1>4 DEF Spawn
  <2> QED
    BY <2>1, <1>4, SpawnEffect DEF FinishedIn
<1>5. CASE Exit(r)
  <2>1. UNCHANGED <<cells, cache, config>>
    BY <1>5 DEF Exit
  <2> QED
    BY <2>1, <1>5, ExitEffect DEF FinishedIn
<1>6. CASE Pack(r)
  <2>1. UNCHANGED <<cells, cache, config>>
    BY <1>6 DEF Pack
  <2> QED
    BY <2>1, <1>6, PackEffect
<1>7. CASE Deliver(r)
  <2>1. UNCHANGED <<cells, cache, config>>
    BY <1>7 DEF Deliver
  <2> QED
    BY <2>1, <1>7, DeliverEffect
<1>8. CASE \E method, capable : TaskCall(r, method, capable)
  <2>1. PICK method, capable : TaskCall(r, method, capable)
    BY <1>8
  <2>2. UNCHANGED <<cells, cache, config>>
    BY <2>1 DEF TaskCall
  <2> QED
    BY <2>1, <2>2, TaskCallEffect
<1> QED
  BY <1>1, <1>2, <1>3, <1>4, <1>5, <1>6, <1>7, <1>8

\* A caller joins the probe of its key or starts the only one there is.
LEMMA PrepareKeepsCache ==
    ASSUME RequestShape, CacheInv, NEW r \in Slots, Prepare(r)
    PROVE  RequestShape' /\ CacheInv'
<1> DEFINE probe == <<req'[r].bazel, req'[r].workspace>>
           cell == req'[r].cell
<1>1. RequestShape' /\ req[r].phase = "dispatched" /\ config' = config /\ req[r].cell = 0
  BY PrepareEffect DEF Prepare, CacheInv, FreshIsUnchecked, At
<1>2. CASE /\ Only(r, {"phase", "error"}) /\ req'[r].phase = "answered"
           /\ UNCHANGED <<cells, cache>>
  <2>1. CacheQuiet(r)
    BY <1>1, <1>2 DEF CacheQuiet, Only, Checked
  <2> QED
    BY <2>1, <1>1, QuietKeepsCache
<1>3. CASE /\ Only(r, {"phase", "workspace", "base", "key", "bazel"})
           /\ req'[r].phase = "probing" /\ config.allowUnsupported
           /\ UNCHANGED <<cells, cache>>
  <2>1. req'[r].cell = 0 /\ \A s \in Slots \ {r} : req'[s] = req[s]
    BY <1>1, <1>3 DEF Only, Idle
  <2>2. CellShape' /\ CacheHasOwnCells' /\ LiveCellsAreCached'
    BY <1>3 DEF CacheInv, CellShape, CacheHasOwnCells, LiveCellsAreCached, Uncached
  <2>3. FreshIsUnchecked' /\ CallersHaveOwnCells' /\ AcceptedIsSupported'
    BY <1>1, <1>3, <2>1
       DEF CacheInv, FreshIsUnchecked, CallersHaveOwnCells, AcceptedIsSupported, At
  <2>4. ProbesHaveCallers'
    BY <1>1, <1>3, <2>1 DEF CacheInv, ProbesHaveCallers, At, Uncached
  <2> QED
    BY <1>1, <2>2, <2>3, <2>4 DEF CacheInv
<1>4. CASE /\ Only(r, {"phase", "workspace", "base", "key", "bazel", "cell"})
           /\ req'[r].phase = "probing" /\ Looked(probe, cell)
  <2>1. \A s \in Slots \ {r} : req'[s] = req[s]
    BY <1>4 DEF Only
  <2>2. CASE probe \in DOMAIN cache
    <3>1. cells' = cells /\ cache' = [k \in DOMAIN cache |-> cache[k]] /\ cell = cache[probe]
          /\ DOMAIN cache' = DOMAIN cache /\ \A k \in DOMAIN cache : cache'[k] = cache[k]
      BY <1>4, <2>2 DEF Looked
    <3>2. cell \in DOMAIN cells /\ cells[cell].probe = probe
      BY <2>2, <3>1 DEF CacheInv, CacheHasOwnCells
    <3>3. cell # 0
      BY <3>2 DEF CacheInv, CellShape
    <3> HIDE DEF probe, cell
    <3>4. CellShape' /\ CacheHasOwnCells' /\ LiveCellsAreCached'
      BY <3>1 DEF CacheInv, CellShape, CacheHasOwnCells, LiveCellsAreCached, Uncached
    <3>5. FreshIsUnchecked' /\ AcceptedIsSupported'
      BY <1>1, <1>4, <2>1, <3>1 DEF CacheInv, FreshIsUnchecked, AcceptedIsSupported, At
    <3>6. CallersHaveOwnCells'
      BY <1>1, <1>4, <2>1, <3>1, <3>2, <3>3 DEF CacheInv, CallersHaveOwnCells, probe, cell
    <3>7. ProbesHaveCallers'
      <4>1. SUFFICES ASSUME NEW k \in DOMAIN cells, cells[k].state # "known", ~Uncached(k)
                     PROVE  \E s \in Slots : req'[s].phase = "probing" /\ req'[s].cell = k
        BY <3>1 DEF ProbesHaveCallers, Uncached, At
      <4>2. PICK s \in Slots : req[s].phase = "probing" /\ req[s].cell = k
        BY <4>1 DEF CacheInv, ProbesHaveCallers, At
      <4> QED
        BY <1>1, <2>1, <4>2
    <3> QED
      BY <1>1, <3>4, <3>5, <3>6, <3>7 DEF CacheInv
  <2>3. CASE probe \notin DOMAIN cache
    <3> DEFINE new == [probe |-> probe, state |-> "empty", major |-> -1]
               T == {cells[k] : k \in DOMAIN cells}
    <3>1. cells' = Append(cells, new) /\ cell = Len(cells) + 1
          /\ DOMAIN cache' = DOMAIN cache \cup {probe} /\ cache'[probe] = cell
          /\ \A k \in DOMAIN cache : cache'[k] = cache[k]
      BY <1>4, <2>3 DEF Looked
    <3>2. /\ new.probe = probe /\ new.state = "empty" /\ DOMAIN new = CellFields
      BY DEF CellFields
    <3> HIDE DEF probe, cell, new, T
    <3>3. cells \in Seq(T) /\ cells \in Seq(T \cup {new}) /\ Len(cells) \in Nat
          /\ DOMAIN cells = 1 .. Len(cells)
      <4>1. cells \in Seq(T)
        BY DEF CacheInv, CellShape, T
      <4> QED
        BY <4>1
    <3>4. /\ cells' \in Seq(T \cup {new}) /\ DOMAIN cells' = 1 .. Len(cells) + 1
          /\ \A k \in DOMAIN cells : cells'[k] = cells[k]
          /\ cells'[cell] = new
      BY <3>1, <3>3
    <3>5. CellShape'
      <4> DEFINE U == {cells'[k] : k \in DOMAIN cells'}
      <4>1. cells' \in Seq(U)
        <5>1. cells' = [k \in 1 .. Len(cells) + 1 |-> cells'[k]]
          BY <3>3, <3>4
        <5>2. \A k \in 1 .. Len(cells) + 1 : cells'[k] \in U
          BY <3>4
        <5>3. cells' \in [1 .. Len(cells) + 1 -> U]
          <6> HIDE DEF U
          <6> QED
            BY <5>1, <5>2
        <5> HIDE DEF U
        <5> QED
          BY <3>3, <5>3
      <4>2. \A k \in DOMAIN cells' : DOMAIN cells'[k] = CellFields
        BY <3>1, <3>2, <3>3, <3>4 DEF CacheInv, CellShape
      <4> QED
        BY <4>1, <4>2 DEF CellShape, CellFields
    <3>6. CacheHasOwnCells'
      BY <3>1, <3>2, <3>3, <3>4 DEF CacheInv, CacheHasOwnCells
    <3>7. LiveCellsAreCached'
      BY <2>3, <3>1, <3>2, <3>3, <3>4 DEF CacheInv, LiveCellsAreCached, Uncached
    <3>8. FreshIsUnchecked' /\ AcceptedIsSupported'
      <4>1. \A s \in Slots : req'[s].phase \in {"accepted", "running"} /\ req'[s].cell # 0 =>
                s # r /\ req'[s].cell \in DOMAIN cells
        BY <1>4, <2>1 DEF CacheInv, CallersHaveOwnCells, Checked
      <4> QED
        BY <1>1, <1>4, <2>1, <3>4, <4>1 DEF CacheInv, FreshIsUnchecked, AcceptedIsSupported, At
    <3>9. CallersHaveOwnCells'
      <4>1. cell # 0 /\ cell \in DOMAIN cells' /\ cells'[cell].probe = probe
        BY <3>1, <3>2, <3>3, <3>4
      <4>2. \A s \in Slots \ {r} : req[s].phase \in Checked /\ req[s].cell # 0 =>
                /\ req[s].cell \in DOMAIN cells'
                /\ cells'[req[s].cell].probe = <<req[s].bazel, req[s].workspace>>
        BY <3>3, <3>4 DEF CacheInv, CallersHaveOwnCells
      <4>3. \A s \in Slots \ {r} : req[s].phase \in Checked /\ req[s].cell = 0 => config.allowUnsupported
        BY DEF CacheInv, CallersHaveOwnCells
      <4> QED
        BY <1>1, <1>4, <2>1, <4>1, <4>2, <4>3 DEF CallersHaveOwnCells, Checked, probe, cell
    <3>10. ProbesHaveCallers'
      <4>1. SUFFICES ASSUME NEW k \in DOMAIN cells', cells'[k].state # "known", ~Uncached(k)'
                     PROVE  \E s \in Slots : req'[s].phase = "probing" /\ req'[s].cell = k
        BY DEF ProbesHaveCallers, At
      <4>2. CASE k = cell
        BY <1>4, <4>2 DEF cell
      <4>3. CASE k # cell
        <5>1. k \in DOMAIN cells /\ cells'[k] = cells[k]
          BY <3>1, <3>3, <3>4, <4>3
        <5>2. ~Uncached(k)
          BY <3>1, <4>1, <4>3, <5>1 DEF Uncached
        <5>3. PICK s \in Slots : req[s].phase = "probing" /\ req[s].cell = k
          BY <4>1, <5>1, <5>2 DEF CacheInv, ProbesHaveCallers, At
        <5> QED
          BY <1>1, <2>1, <5>3
      <4> QED
        BY <4>2, <4>3
    <3> QED
      BY <1>1, <3>5, <3>6, <3>7, <3>8, <3>9, <3>10 DEF CacheInv
  <2> QED
    BY <2>2, <2>3
<1> QED
  BY <1>2, <1>3, <1>4, PrepareEffect

\* A function on the first numbers is a sequence.
LEMMA FunctionIsSequence ==
    ASSUME NEW U, NEW n \in Nat, NEW f \in [1 .. n -> U]
    PROVE  f \in Seq(U)
OBVIOUS

\* A probe moves on.
CellMoves(k, state, major) == cells' = [cells EXCEPT ![k].state = state, ![k].major = major]

\* A cell that changes its state keeps its key, and the cells their shape.
LEMMA CellChange ==
    ASSUME CellShape, NEW k \in DOMAIN cells, NEW state, NEW major,
           CellMoves(k, state, major)
    PROVE  /\ CellShape' /\ DOMAIN cells' = DOMAIN cells
           /\ \A j \in DOMAIN cells \ {k} : cells'[j] = cells[j]
           /\ cells'[k].probe = cells[k].probe /\ cells'[k].state = state /\ cells'[k].major = major
<1> DEFINE T == {cells[j] : j \in DOMAIN cells}
           U == {cells'[j] : j \in DOMAIN cells'}
<1>1. /\ cells \in Seq(T) /\ Len(cells) \in Nat /\ DOMAIN cells = 1 .. Len(cells)
  <2>1. cells \in Seq(T)
    BY DEF CellShape
  <2> HIDE DEF T
  <2> QED
    BY <2>1
<1>2. /\ DOMAIN cells' = DOMAIN cells
      /\ \A j \in DOMAIN cells \ {k} : cells'[j] = cells[j]
      /\ cells'[k] = [cells[k] EXCEPT !.state = state, !.major = major]
  BY DEF CellMoves
<1>3. DOMAIN cells[k] = {"probe", "state", "major"}
  BY DEF CellShape, CellFields
<1>4. /\ cells'[k].probe = cells[k].probe /\ cells'[k].state = state /\ cells'[k].major = major
      /\ DOMAIN cells'[k] = CellFields
  BY <1>2, <1>3 DEF CellFields
<1>5. cells' \in [1 .. Len(cells) -> U]
  <2>1. cells' = [j \in 1 .. Len(cells) |-> cells'[j]]
    BY <1>1 DEF CellMoves
  <2>2. \A j \in 1 .. Len(cells) : cells'[j] \in U
    BY <1>1, <1>2
  <2> HIDE DEF U
  <2> QED
    BY <2>1, <2>2
<1>6. cells' \in Seq(U)
  <2> HIDE DEF T, U
  <2> QED
    BY <1>1, <1>5, FunctionIsSequence
<1>7. \A j \in DOMAIN cells' : DOMAIN cells'[j] = CellFields
  BY <1>2, <1>4 DEF CellShape
<1> QED
  BY <1>2, <1>4, <1>6, <1>7 DEF CellShape, CellFields

\* StartProbe and EndProbe move a cell on, while its caller stays.
LEMMA ProbeKeepsCache ==
    ASSUME CacheInv, NEW k \in DOMAIN cells, NEW state, NEW major,
           cells[k].state \in {"empty", "running"},
           CellMoves(k, state, major), UNCHANGED <<config, req, cache>>
    PROVE  CacheInv'
<1>1. /\ CellShape' /\ DOMAIN cells' = DOMAIN cells
      /\ \A j \in DOMAIN cells \ {k} : cells'[j] = cells[j]
      /\ cells'[k].probe = cells[k].probe /\ cells'[k].state = state
  BY CellChange DEF CacheInv
<1>2. \A j \in DOMAIN cells : cells'[j].probe = cells[j].probe
  BY <1>1
<1>3. FreshIsUnchecked' /\ CallersHaveOwnCells'
  BY <1>1, <1>2 DEF CacheInv, FreshIsUnchecked, CallersHaveOwnCells, At
<1>4. CacheHasOwnCells'
  BY <1>1, <1>2 DEF CacheInv, CacheHasOwnCells
<1>5. \A j \in DOMAIN cells : Uncached(j)' = Uncached(j)
  BY <1>2 DEF Uncached
<1>6. LiveCellsAreCached' /\ ProbesHaveCallers'
  BY <1>1, <1>5 DEF CacheInv, LiveCellsAreCached, ProbesHaveCallers, At
<1>7. AcceptedIsSupported'
  BY <1>1 DEF CacheInv, AcceptedIsSupported, CallersHaveOwnCells, Checked
<1> QED
  BY <1>1, <1>3, <1>4, <1>6, <1>7 DEF CacheInv

\* A caller that finds its cell empty starts the probe and stays at it.
LEMMA StartProbeKeepsCache ==
    ASSUME CacheInv, NEW r \in Slots, StartProbe(r)
    PROVE  CacheInv'
<1> DEFINE k == req[r].cell
<1>1. /\ req[r].phase = "probing" /\ k # 0 /\ cells[k].state = "empty"
      /\ cells' = [cells EXCEPT ![k].state = "running"] /\ UNCHANGED <<config, req, cache>>
  BY DEF StartProbe, At
<1>2. k \in DOMAIN cells
  BY <1>1 DEF CacheInv, CallersHaveOwnCells, Checked
<1> HIDE DEF k
<1>3. DOMAIN cells[k] = {"probe", "state", "major"}
  BY <1>2 DEF CacheInv, CellShape, CellFields
<1>4. PICK state, major : state = "running" /\ major = cells[k].major
  OBVIOUS
<1>5. CellMoves(k, state, major)
  <2>1. [cells[k] EXCEPT !.state = "running"] = [cells[k] EXCEPT !.state = state, !.major = major]
    BY <1>3, <1>4
  <2> QED
    BY <1>1, <1>2, <2>1 DEF CellMoves
<1> QED
  BY <1>1, <1>2, <1>5, ProbeKeepsCache

\* A probe ends, in an answer or a failure, with its callers still there.
LEMMA EndProbeKeepsCache ==
    ASSUME CacheInv, NEW k \in DOMAIN cells, NEW outcome, EndProbe(k, outcome)
    PROVE  CacheInv'
<1> DEFINE found == DetectBazelVersion(outcome)
<1>0. PICK state, major : /\ state = IF found.error = "ok" THEN "known" ELSE "failed"
                          /\ major = found.major
  OBVIOUS
<1>1. /\ cells[k].state = "running"
      /\ CellMoves(k, state, major) /\ UNCHANGED <<config, req, cache>>
  BY <1>0 DEF EndProbe, CellMoves
<1> QED
  BY <1>1, ProbeKeepsCache

\* Forget takes from the cache the failed cell of its caller and no other.
LEMMA ForgetKeepsCache ==
    ASSUME RequestShape, CacheInv, NEW r \in Slots, Forget(r)
    PROVE  RequestShape' /\ CacheInv'
<1>0. PICK cell, probe : cell = req[r].cell /\ probe = cells[cell].probe
  OBVIOUS
<1>1. /\ req[r].phase = "probing" /\ cell # 0 /\ cells[cell].state = "failed"
      /\ UNCHANGED <<config, cells>>
      /\ cache' = IF probe \in DOMAIN cache /\ cache[probe] = cell
                  THEN [k \in DOMAIN cache \ {probe} |-> cache[k]] ELSE cache
  BY <1>0 DEF Forget, At
<1>2. RequestShape' /\ req'[r].phase = "answered" /\ \A s \in Slots \ {r} : req'[s] = req[s]
  BY ForgetEffect DEF Only
<1>3. cell \in DOMAIN cells
  BY <1>0, <1>1 DEF CacheInv, CallersHaveOwnCells, Checked
<1>4. DOMAIN cache' \subseteq DOMAIN cache /\ \A k \in DOMAIN cache' : cache'[k] = cache[k]
  BY <1>1
<1>5. Uncached(cell)'
  BY <1>0, <1>1 DEF Uncached
<1>6. \A k \in DOMAIN cells \ {cell} : Uncached(k)' = Uncached(k)
  BY <1>0, <1>1 DEF Uncached
<1>7. CellShape' /\ CacheHasOwnCells'
  BY <1>1, <1>4 DEF CacheInv, CellShape, CacheHasOwnCells
<1>8. LiveCellsAreCached'
  BY <1>1, <1>6 DEF CacheInv, LiveCellsAreCached
<1>9. ProbesHaveCallers'
  <2>1. SUFFICES ASSUME NEW k \in DOMAIN cells, cells[k].state # "known", ~Uncached(k)'
                 PROVE  \E s \in Slots : req'[s].phase = "probing" /\ req'[s].cell = k
    BY <1>1 DEF ProbesHaveCallers, At
  <2>2. k # cell /\ ~Uncached(k)
    BY <1>5, <1>6, <2>1
  <2>3. PICK s \in Slots : req[s].phase = "probing" /\ req[s].cell = k
    BY <2>1, <2>2 DEF CacheInv, ProbesHaveCallers, At
  <2> QED
    BY <1>0, <1>2, <2>2, <2>3
<1>10. FreshIsUnchecked' /\ CallersHaveOwnCells' /\ AcceptedIsSupported'
  BY <1>1, <1>2 DEF CacheInv, FreshIsUnchecked, CallersHaveOwnCells, AcceptedIsSupported, At, Checked
<1> QED
  BY <1>2, <1>7, <1>8, <1>9, <1>10 DEF CacheInv

\* What the invariant says of the cache is what the property asks for.
LEMMA CacheInvIsSound ==
    ASSUME CacheInv
    PROVE  ProbeCacheIsSound
<1>1. ASSUME NEW probe \in DOMAIN cache, cells[cache[probe]].state = "failed"
      PROVE  \E r \in Slots : At(r, "probing") /\ req[r].cell = cache[probe]
  <2>1. cache[probe] \in DOMAIN cells /\ ~Uncached(cache[probe])
    BY DEF CacheInv, CacheHasOwnCells, Uncached
  <2> QED
    BY <1>1, <2>1 DEF CacheInv, ProbesHaveCallers
<1>2. \A k \in DOMAIN cells : cells[k].state # "failed" =>
          cells[k].probe \in DOMAIN cache /\ cache[cells[k].probe] = k
  BY DEF CacheInv, LiveCellsAreCached, Uncached
<1>3. \A r \in Slots : req[r].phase \in {"accepted", "running"} /\ ~config.allowUnsupported =>
          /\ cells[req[r].cell].major \in config.supported
          /\ cells[req[r].cell].probe = <<req[r].bazel, req[r].workspace>>
  BY DEF CacheInv, CallersHaveOwnCells, AcceptedIsSupported, Checked
<1> QED
  BY <1>1, <1>2, <1>3 DEF ProbeCacheIsSound
-----------------------------------------------------------------------------
(* Dispatch and drafts, request by request                                  *)

IsRun(q) == q.call # <<>> /\ q.dispatch # "agent" /\ q.call[1].tool = "bazel.run"
IsDeferred(q) == q.dispatch \in {"legacy task", "extension task"}

\* AdvertisedIsAccepted of one request.
AsAdvertised(q, execution) ==
    LET said == Advertised(q.family, execution)
    IN  /\ "task requests" \in said.capabilities /\ q.call[1].task => q.dispatch = "legacy task"
        /\ IsDeferred(q) => said.capabilities \cap {"task requests", "tasks extension"} # {}
        /\ q.family = "legacy" =>
               CASE said.run = "required" -> IsDeferred(q) <=> q.call[1].task
                 [] said.run = "none" -> q.dispatch = "call"
                 [] OTHER -> q.dispatch \in {"call", "legacy task"}

Dispatched(conf, q) ==
    IsRun(q) => /\ q.dispatch = Contract[conf.execution][ContractRow(q.family, q.call[1])]
                /\ AsAdvertised(q, conf.execution)

\* There is a draft from the end of the invocation on, and none before.
HasDraft(q) == q.phase \in {"ended", "packing"} \/ (q.phase = "answered" /\ q.draft # <<>>)

FetchedByOwn(q) ==
    IsDeferred(q) /\ HasDraft(q) /\ q.phase # "ended" => OwnFetch(q.got[1], q.dispatch)

NoDraftYet(q) == q.phase \in {"dispatched", "probing", "accepted", "running"} => q.draft = <<>>

DraftFields ==
    {"excerpts", "samples", "diagnostics", "headline", "command", "target", "truncated", "hint",
     "views", "more", "rerun", "limit", "retained"}

WholeFields == {"excerpts", "samples", "diagnostics", "headline", "command"}

HonestDraft(given, dispatch, draft) ==
    /\ DOMAIN draft = DraftFields
    /\ draft.truncated \/ \E summary \in given.summaries : \A field \in WholeFields :
           draft[field] = Draft(summary, dispatch # "agent")[field]
    /\ draft.truncated => IF draft.retained THEN draft.more ELSE draft.rerun
    /\ draft.retained => ~draft.rerun
    /\ ~draft.retained => ~(draft.more \/ draft.hint \/ draft.views)

FitsIn(conf, draft) == EncodedSize(conf.encoding, draft) <= draft.limit

Drafted(conf, given, q) ==
    /\ HasDraft(q) => HonestDraft(given, q.dispatch, q.draft[1])
    /\ q.phase = "answered" /\ q.error = "ok" /\ q.draft # <<>> => FitsIn(conf, q.draft[1])

\* What holds of every request, under a configuration and in a scenario.
RequestOk(conf, given, q) ==
    /\ Dispatched(conf, q) /\ FetchedByOwn(q) /\ NoDraftYet(q) /\ Drafted(conf, given, q)
    /\ q.end \in given.ends \cup {NoEnd}

RequestsOk == \A r \in Slots : RequestOk(config, scenario, req[r])

\* The contract's table, and what is advertised, against the dispatch of a bazel.run call.
LEMMA DispatchIsContract ==
    ASSUME NEW family \in Families, NEW policy \in ExecutionPolicies, NEW call, call.tool = "bazel.run"
    PROVE  ToolCall(family, policy, call) = Contract[policy][ContractRow(family, call)]
<1>1. /\ Contract["auto"]["capable"] = "extension task"
      /\ Contract["auto"]["modern"] = "call"
      /\ Contract["auto"]["augmented"] = "legacy task"
      /\ Contract["auto"]["legacy"] = "call"
      /\ Contract["auto"]["earlier"] = "call"
      /\ Contract["sync_only"]["capable"] = "call"
      /\ Contract["sync_only"]["modern"] = "call"
      /\ Contract["sync_only"]["augmented"] = "call"
      /\ Contract["sync_only"]["legacy"] = "call"
      /\ Contract["sync_only"]["earlier"] = "call"
      /\ Contract["tasks_required"]["capable"] = "extension task"
      /\ Contract["tasks_required"]["modern"] = "missing capability"
      /\ Contract["tasks_required"]["augmented"] = "legacy task"
      /\ Contract["tasks_required"]["legacy"] = "method not found"
      /\ Contract["tasks_required"]["earlier"] = "method not found"
  BY DEF Contract
<1>2. CASE policy = "auto"
  <2>1. CASE family = "legacy"
    BY <1>1, <1>2, <2>1 DEF ToolCall, LegacyCall, ContractRow
  <2>2. CASE family = "extension"
    BY <1>1, <1>2, <2>2 DEF ToolCall, ExtensionCall, ContractRow
  <2>3. CASE family = "earlier"
    BY <1>1, <1>2, <2>3 DEF ToolCall, EarlierCall, ContractRow
  <2> QED
    BY <2>1, <2>2, <2>3 DEF Families
<1>3. CASE policy = "sync_only"
  <2>1. CASE family = "legacy"
    BY <1>1, <1>3, <2>1 DEF ToolCall, LegacyCall, ContractRow
  <2>2. CASE family = "extension"
    BY <1>1, <1>3, <2>2 DEF ToolCall, ExtensionCall, ContractRow
  <2>3. CASE family = "earlier"
    BY <1>1, <1>3, <2>3 DEF ToolCall, EarlierCall, ContractRow
  <2> QED
    BY <2>1, <2>2, <2>3 DEF Families
<1>4. CASE policy = "tasks_required"
  <2>1. CASE family = "legacy"
    BY <1>1, <1>4, <2>1 DEF ToolCall, LegacyCall, ContractRow
  <2>2. CASE family = "extension"
    BY <1>1, <1>4, <2>2 DEF ToolCall, ExtensionCall, ContractRow
  <2>3. CASE family = "earlier"
    BY <1>1, <1>4, <2>3 DEF ToolCall, EarlierCall, ContractRow
  <2> QED
    BY <2>1, <2>2, <2>3 DEF Families
<1> QED
  BY <1>2, <1>3, <1>4 DEF ExecutionPolicies

\* A bazel.run call is taken as the capabilities and the tool list said.
LEMMA DispatchIsAdvertised ==
    ASSUME NEW q, q.family \in Families, NEW policy \in ExecutionPolicies,
           q.call[1].tool = "bazel.run", q.dispatch = ToolCall(q.family, policy, q.call[1])
    PROVE  AsAdvertised(q, policy)
<1> DEFINE call == q.call[1]
<1> HIDE DEF call
<1>1. CASE q.family = "legacy"
  <2>1. q.dispatch = LegacyCall(policy, call)
    BY <1>1 DEF ToolCall, call
  <2>2. call.tool = "bazel.run"
    BY DEF call
  <2> QED
    BY <1>1, <2>1, <2>2 DEF ExecutionPolicies, LegacyCall, AsAdvertised, Advertised, Capabilities,
                    TaskSupport, IsDeferred, call
<1>2. CASE q.family = "extension"
  BY <1>2 DEF ExecutionPolicies, ToolCall, ExtensionCall, AsAdvertised, Advertised,
              Capabilities, TaskSupport, IsDeferred
<1>3. CASE q.family = "earlier"
  BY <1>3 DEF ExecutionPolicies, ToolCall, EarlierCall, AsAdvertised, Advertised,
              Capabilities, TaskSupport, IsDeferred
<1> QED
  BY <1>1, <1>2, <1>3 DEF Families

\* The draft build starts from is honest.
LEMMA WholeIsHonest ==
    ASSUME NEW r \in Slots, NEW draft, WholeDraft(r, draft)
    PROVE  HonestDraft(scenario, req[r].dispatch, draft[1])
<1>1. PICK summary \in S.summaries : draft = <<Draft(summary, req[r].dispatch # "agent")>>
  BY DEF WholeDraft
<1>2. PICK d : d = Draft(summary, req[r].dispatch # "agent")
  OBVIOUS
<1>3. draft[1] = d
  BY <1>1, <1>2
<1>4. DOMAIN d = DraftFields
  BY <1>2 DEF Draft, DraftFields
<1>5. /\ d.truncated => IF d.retained THEN d.more ELSE d.rerun
      /\ d.retained => ~d.rerun
      /\ ~d.retained => ~(d.more \/ d.hint \/ d.views)
  BY <1>2 DEF Draft, FollowUp
<1>6. \A field \in WholeFields : d[field] = Draft(summary, req[r].dispatch # "agent")[field]
  BY <1>2
<1> QED
  BY <1>3, <1>4, <1>5, <1>6 DEF HonestDraft, S

\* What was cut is marked as cut, and leads on.
LEMMA MarkedFields ==
    ASSUME NEW d, DOMAIN d = DraftFields
    PROVE  /\ DOMAIN Marked(d) = DraftFields /\ Marked(d).truncated
           /\ Marked(d).retained = d.retained /\ Marked(d).more = d.retained
           /\ Marked(d).rerun <=> (d.rerun \/ ~d.retained)
           /\ Marked(d).hint = d.hint /\ Marked(d).views = d.views
BY DEF Marked, DraftFields

\* A turn of the packing loop leaves an honest draft.
LEMMA ShrunkIsHonest ==
    ASSUME NEW given, NEW dispatch, NEW d, HonestDraft(given, dispatch, d)
    PROVE  HonestDraft(given, dispatch, Shrunk(d))
<1> DEFINE held == {k \in DOMAIN Pops : d[Pops[k]] # <<>>}
           m == Marked(d)
           Cut(f, x) == [m EXCEPT ![f] = x]
<1>1. DOMAIN d = DraftFields
  BY DEF HonestDraft
<1>2. held # {} => Pops[Min(held)] \in {"excerpts", "samples", "diagnostics"}
  <2>1. DOMAIN Pops = {1, 2, 3} /\ Pops[1] = "excerpts" /\ Pops[2] = "samples" /\ Pops[3] = "diagnostics"
    BY DEF Pops
  <2>2. held \subseteq {1, 2, 3}
    BY <2>1
  <2> HIDE DEF held
  <2>3. held # {} => Min(held) \in held
    <3>1. SUFFICES ASSUME held # {} PROVE \E x \in held : \A y \in held : x <= y
      BY DEF Min
    <3>2. CASE 1 \in held
      BY <2>2, <3>2
    <3>3. CASE 1 \notin held /\ 2 \in held
      BY <2>2, <3>3
    <3>4. CASE held = {3}
      BY <3>4
    <3> QED
      BY <2>2, <3>1, <3>2, <3>3, <3>4
  <2> QED
    BY <2>1, <2>2, <2>3
<1>3. \E f \in {"excerpts", "samples", "diagnostics", "headline", "command"} :
          \E x : Shrunk(d) = Cut(f, x)
  BY <1>2 DEF Shrunk
<1>4. PICK f \in {"excerpts", "samples", "diagnostics", "headline", "command"} :
           \E x : Shrunk(d) = Cut(f, x)
  BY <1>3
<1>5. PICK x : Shrunk(d) = Cut(f, x)
  BY <1>4
<1> HIDE DEF m
<1>6. /\ DOMAIN Cut(f, x) = DOMAIN m
      /\ \A g \in DOMAIN m \ {f} : Cut(f, x)[g] = m[g]
  OBVIOUS
<1> HIDE DEF Cut
<1>7. \A g \in {"truncated", "retained", "more", "rerun", "hint", "views"} :
          g \in DraftFields \ {f} /\ Shrunk(d)[g] = m[g]
  BY <1>1, <1>5, <1>6, MarkedFields DEF DraftFields, m
<1>8. /\ DOMAIN Shrunk(d) = DraftFields /\ Shrunk(d).truncated = m.truncated
      /\ Shrunk(d).retained = m.retained /\ Shrunk(d).more = m.more
      /\ Shrunk(d).rerun = m.rerun /\ Shrunk(d).hint = m.hint /\ Shrunk(d).views = m.views
  BY <1>1, <1>5, <1>6, <1>7, MarkedFields DEF m
<1> QED
  BY <1>1, <1>8, MarkedFields DEF HonestDraft, m

\* Fields that stay the same keep the dispatch what it was.
LEMMA DispatchStays ==
    ASSUME NEW conf, NEW p, NEW q, Dispatched(conf, p),
           q.call = p.call /\ q.family = p.family /\ q.dispatch = p.dispatch
    PROVE  Dispatched(conf, q)
BY DEF Dispatched, IsRun, AsAdvertised, IsDeferred

\* An idle slot has nothing to answer for.
LEMMA IdleIsOk ==
    ASSUME NEW conf, NEW given
    PROVE  RequestOk(conf, given, Idle)
<1>1. Idle.call = <<>> /\ Idle.phase = "idle" /\ Idle.end = NoEnd /\ Idle.draft = <<>>
  BY DEF Idle
<1> QED
  BY <1>1 DEF RequestOk, Dispatched, IsRun, FetchedByOwn, NoDraftYet, Drafted, HasDraft

\* A step that leaves the draft, the end and the dispatch, from before the end of the
\* invocation, keeps a request honest.
LEMMA EarlyStepIsOk ==
    ASSUME NEW conf, NEW given, NEW p, NEW q, RequestOk(conf, given, p),
           p.phase \in {"dispatched", "probing", "accepted", "running"},
           q.phase \in {"dispatched", "probing", "accepted", "running", "answered"},
           q.call = p.call /\ q.family = p.family /\ q.dispatch = p.dispatch,
           q.draft = p.draft /\ q.end = p.end
    PROVE  RequestOk(conf, given, q)
<1>1. Dispatched(conf, q)
  BY DispatchStays DEF RequestOk
<1>2. q.draft = <<>>
  BY DEF RequestOk, NoDraftYet
<1> QED
  BY <1>1, <1>2 DEF RequestOk, FetchedByOwn, NoDraftYet, Drafted, HasDraft

\* The end of the invocation brings an honest draft.
LEMMA FinishIsOk ==
    ASSUME NEW r \in Slots, RequestOk(config, scenario, req[r]), FinishedIn(r)
    PROVE  RequestOk(config, scenario, req'[r])
<1> DEFINE p == req[r]
           q == req'[r]
<1>1. /\ q.call = p.call /\ q.family = p.family /\ q.dispatch = p.dispatch
      /\ q.phase = IF IsDeferred(p) THEN "ended" ELSE "packing"
      /\ q.end \in scenario.ends /\ WholeDraft(r, q.draft)
  BY DEF FinishedIn, Only, Idle, Deferred, IsDeferred, S
<1>2. HonestDraft(scenario, q.dispatch, q.draft[1])
  BY <1>1, WholeIsHonest
<1>3. RequestOk(config, scenario, p)
  OBVIOUS
<1> HIDE DEF p, q
<1>4. Dispatched(config, q)
  BY <1>1, <1>3, DispatchStays DEF RequestOk
<1>5. FetchedByOwn(q) /\ NoDraftYet(q)
  BY <1>1 DEF FetchedByOwn, NoDraftYet, IsDeferred
<1>6. Drafted(config, scenario, q)
  BY <1>1, <1>2 DEF Drafted
<1> QED
  BY <1>1, <1>4, <1>5, <1>6 DEF RequestOk, q

\* Receive dispatches a run as the contract says.
LEMMA ReceiveIsOk ==
    ASSUME RequestShape, DownIsIdle, NEW r \in Slots, NEW call, Receive(r, call)
    PROVE  RequestOk(config, scenario, req'[r])
<1> DEFINE q == req'[r]
           family == Family(session.version)
<1>1. config.execution \in ExecutionPolicies
  BY DEF Receive, DownIsIdle
<1>2. /\ q.phase \in {"dispatched", "answered"} /\ q.call = <<call>> /\ q.family = family
      /\ q.dispatch = ToolCall(family, config.execution, call)
      /\ q.draft = <<>> /\ q.end = NoEnd
  BY ReceiveEffect DEF Idle
<1>3. family \in Families
  BY FamilyIsKnown
<1> HIDE DEF q, family
<1>4. q.call[1] = call
  BY <1>2
<1>5. Dispatched(config, q)
  <2>1. SUFFICES ASSUME call.tool = "bazel.run"
                 PROVE  /\ q.dispatch = Contract[config.execution][ContractRow(q.family, q.call[1])]
                        /\ AsAdvertised(q, config.execution)
    BY <1>4 DEF Dispatched, IsRun
  <2>2. q.dispatch = Contract[config.execution][ContractRow(q.family, q.call[1])]
    BY <1>1, <1>2, <1>3, <1>4, <2>1, DispatchIsContract
  <2>3. AsAdvertised(q, config.execution)
    BY <1>1, <1>2, <1>3, <1>4, <2>1, DispatchIsAdvertised
  <2> QED
    BY <2>2, <2>3
<1> QED
  BY <1>2, <1>5 DEF RequestOk, FetchedByOwn, NoDraftYet, Drafted, HasDraft, q

\* A task request keeps a request honest, the fetch of a result included.
LEMMA TaskCallIsOk ==
    ASSUME RequestShape, NEW r \in Slots, RequestOk(config, scenario, req[r]),
           NEW method, NEW capable, TaskCall(r, method, capable)
    PROVE  RequestOk(config, scenario, req'[r])
<1> DEFINE p == req[r]
           q == req'[r]
<1>1. /\ q.call = p.call /\ q.family = p.family /\ q.dispatch = p.dispatch
      /\ q.draft = p.draft /\ q.end = p.end /\ p.phase \in {"accepted", "running", "ended"}
      /\ \/ q.phase = p.phase
         \/ p.phase = "ended" /\ q.phase = "packing" /\ OwnFetch(q.got[1], q.dispatch)
  BY TaskCallEffect DEF Only, Idle
<1>2. RequestOk(config, scenario, p)
  OBVIOUS
<1> HIDE DEF p, q
<1>3. Dispatched(config, q)
  BY <1>1, <1>2, DispatchStays DEF RequestOk
<1>4. FetchedByOwn(q)
  BY <1>1 DEF FetchedByOwn, HasDraft
<1>5. NoDraftYet(q)
  BY <1>1, <1>2 DEF RequestOk, NoDraftYet
<1>6. Drafted(config, scenario, q)
  BY <1>1, <1>2 DEF RequestOk, Drafted, HasDraft
<1> QED
  BY <1>1, <1>2, <1>3, <1>4, <1>5, <1>6 DEF RequestOk, q

\* Packing keeps a draft honest, and answers one that fits.
LEMMA PackIsOk ==
    ASSUME RequestShape, NEW r \in Slots, RequestOk(config, scenario, req[r]), Pack(r)
    PROVE  RequestOk(config, scenario, req'[r])
<1> DEFINE p == req[r]
           q == req'[r]
<1>1. /\ q.call = p.call /\ q.family = p.family /\ q.dispatch = p.dispatch /\ q.got = p.got
      /\ q.end = p.end /\ p.phase = "packing"
      /\ \/ FitsIn(config, p.draft[1]) /\ q.draft = p.draft /\ q.phase = "answered"
         \/ q.draft = <<Shrunk(p.draft[1])>> /\ q.phase = "packing"
         \/ q.draft = p.draft /\ q.phase = "answered" /\ q.error = "could not fit"
  BY PackEffect, ZenonT(60) DEF Only, Idle, Fits, FitsIn
<1>2. RequestOk(config, scenario, p)
  OBVIOUS
<1> HIDE DEF p, q
<1>3. Dispatched(config, q)
  BY <1>1, <1>2, DispatchStays DEF RequestOk
<1>4. FetchedByOwn(q) /\ NoDraftYet(q)
  BY <1>1, <1>2 DEF RequestOk, FetchedByOwn, NoDraftYet, HasDraft, IsDeferred
<1>5. HonestDraft(scenario, p.dispatch, p.draft[1])
  BY <1>1, <1>2 DEF RequestOk, Drafted, HasDraft
<1>6. HonestDraft(scenario, q.dispatch, q.draft[1])
  <2>1. HonestDraft(scenario, p.dispatch, Shrunk(p.draft[1]))
    BY <1>5, ShrunkIsHonest
  <2>2. CASE q.draft = <<Shrunk(p.draft[1])>>
    <3>1. PICK d : d = Shrunk(p.draft[1])
      OBVIOUS
    <3>2. q.draft[1] = d
      BY <2>2, <3>1
    <3> QED
      BY <1>1, <2>1, <3>1, <3>2
  <2>3. CASE q.draft = p.draft
    BY <1>1, <1>5, <2>3
  <2> QED
    BY <1>1, <2>2, <2>3
<1>7. Drafted(config, scenario, q)
  BY <1>1, <1>6 DEF Drafted
<1> QED
  BY <1>1, <1>2, <1>3, <1>4, <1>7 DEF RequestOk, q

\* The steps of one request.
RequestStep(r) ==
    \/ \E call : Receive(r, call)
    \/ Cancel(r) \/ Accept(r) \/ Spawn(r) \/ Exit(r) \/ Pack(r) \/ Deliver(r)
    \/ \E method, capable : TaskCall(r, method, capable)
    \/ Prepare(r) \/ Forget(r)

\* A step of one request leaves the others alone.
LEMMA RequestStepIsLocal ==
    ASSUME RequestShape, NEW r \in Slots, RequestStep(r)
    PROVE  \A s \in Slots \ {r} : req'[s] = req[s]
<1>1. CASE \E call : Receive(r, call)
  BY <1>1, ReceiveEffect DEF Only
<1>2. CASE Cancel(r) \/ Accept(r) \/ Prepare(r) \/ Forget(r)
  BY <1>2, CancelEffect, AcceptEffect, PrepareEffect, ForgetEffect DEF Only
<1>3. CASE Spawn(r) \/ Exit(r)
  BY <1>3, SpawnEffect, ExitEffect DEF Only, FinishedIn
<1>4. CASE Pack(r) \/ Deliver(r)
  BY <1>4, PackEffect, DeliverEffect DEF Only
<1>5. CASE \E method, capable : TaskCall(r, method, capable)
  BY <1>5, TaskCallEffect DEF Only
<1> QED
  BY <1>1, <1>2, <1>3, <1>4, <1>5 DEF RequestStep

\* They keep every request honest.
LEMMA RequestStepIsOk ==
    ASSUME RequestShape, DownIsIdle, RequestsOk, NEW r \in Slots, RequestStep(r)
    PROVE  RequestsOk'
<1>1. UNCHANGED <<scenario, config>>
  BY DEF RequestStep, Receive, Cancel, Accept, Spawn, Exit, Pack, Deliver, TaskCall, Prepare, Forget
<1>2. \A s \in Slots \ {r} : req'[s] = req[s]
  BY RequestStepIsLocal
<1>3. RequestOk(config, scenario, req[r])
  BY DEF RequestsOk
<1>4. RequestOk(config, scenario, req'[r])
  <2>1. CASE \E call : Receive(r, call)
    BY <2>1, ReceiveIsOk
  <2>2. CASE Cancel(r)
    <3>1. req[r].phase \in {"dispatched", "probing", "accepted", "running"}
      BY <2>2 DEF Cancel, Cancellable
    <3>2. \A f \in {"phase", "call", "family", "dispatch", "draft", "end"} : req'[r][f] = req[r][f]
      BY <2>2, CancelEffect DEF Only, Idle
    <3> QED
      BY <1>3, <3>1, <3>2, EarlyStepIsOk
  <2>3. CASE Accept(r) \/ Prepare(r) \/ Forget(r)
    <3>1. /\ req[r].phase \in {"dispatched", "probing"}
          /\ req'[r].phase \in {"probing", "accepted", "answered"}
      BY <2>3, AcceptEffect, PrepareEffect, ForgetEffect
    <3>2. \A f \in {"call", "family", "dispatch", "draft", "end"} : req'[r][f] = req[r][f]
      <4>1. CASE Accept(r)
        BY <4>1, AcceptEffect DEF Only, Idle
      <4>2. CASE Prepare(r)
        BY <4>2, PrepareEffect DEF Only, Idle
      <4>3. CASE Forget(r)
        BY <4>3, ForgetEffect DEF Only, Idle
      <4> QED
        BY <2>3, <4>1, <4>2, <4>3
    <3> QED
      BY <1>3, <3>1, <3>2, EarlyStepIsOk
  <2>4. CASE Spawn(r)
    <3>1. CASE Only(r, {"phase", "child", "capture"}) /\ req'[r].phase = "running"
      <4>1. req[r].phase = "accepted"
        BY <2>4, SpawnEffect
      <4>2. \A f \in {"call", "family", "dispatch", "draft", "end"} : req'[r][f] = req[r][f]
        BY <3>1 DEF Only, Idle
      <4> QED
        BY <1>3, <3>1, <4>1, <4>2, EarlyStepIsOk
    <3>2. CASE FinishedIn(r)
      BY <1>3, <3>2, FinishIsOk
    <3> QED
      BY <2>4, <3>1, <3>2, SpawnEffect
  <2>5. CASE Exit(r)
    BY <1>3, <2>5, ExitEffect, FinishIsOk
  <2>6. CASE Pack(r)
    BY <1>3, <2>6, PackIsOk
  <2>7. CASE Deliver(r)
    BY <1>3, <2>7, DeliverEffect, IdleIsOk
  <2>8. CASE \E method, capable : TaskCall(r, method, capable)
    BY <1>3, <2>8, TaskCallIsOk
  <2> QED
    BY <2>1, <2>2, <2>3, <2>4, <2>5, <2>6, <2>7, <2>8 DEF RequestStep
<1> QED
  BY <1>1, <1>2, <1>4 DEF RequestsOk
-----------------------------------------------------------------------------
(* The process and its exit code                                            *)

Modes == {"down", "server", "agent", "unfiltered", "refused", "exited"}

\* An agent that exited with success has delivered a successful build.
ExitIsEarned ==
    /\ scenario \in Scenarios
    /\ mode \in Modes /\ exit \in -1 .. 255
    /\ mode = "unfiltered" => AgentRaw
    /\ mode = "exited" /\ exit = 0 /\ ~AgentRaw =>
           \E r \in Slots : /\ At(r, "answered") /\ req[r].error = "ok"
                            /\ req[r].end = [kind |-> "exit", code |-> 0]

SurfaceInv ==
    /\ RequestShape
    /\ DownIsIdle
    /\ CacheInv
    /\ RequestsOk
    /\ ExitIsEarned

\* Exit code 0 is that of a process that exited with 0.
LEMMA ZeroIsSuccess ==
    ASSUME NEW given \in Scenarios, NEW end \in given.ends \cup {NoEnd}
    PROVE  /\ ProcessExitCode(InvocationExitCode(end)) \in 0 .. 255
           /\ ProcessExitCode(InvocationExitCode(end)) = 0 => end = [kind |-> "exit", code |-> 0]
<1>1. end = [kind |-> end.kind, code |-> end.code] /\ end.code \in Nat
  <2>1. given.ends \subseteq [kind : STRING, code : Nat]
    BY SurfaceAssumption
  <2>2. CASE end \in given.ends
    BY <2>1, <2>2
  <2>3. CASE end = NoEnd
    BY <2>3 DEF NoEnd
  <2> QED
    BY <2>2, <2>3
<1>2. ProcessExitCode(InvocationExitCode(end)) \in 0 .. 255
  BY DEF ProcessExitCode
<1>3. ProcessExitCode(InvocationExitCode(end)) = 0 => end.kind = "exit" /\ end.code = 0
  BY <1>1 DEF ProcessExitCode, InvocationExitCode
<1> QED
  BY <1>1, <1>2, <1>3

\* Steps that leave the process and the answered requests alone.
LEMMA ExitStays ==
    ASSUME ExitIsEarned, UNCHANGED <<scenario, mode, exit>>,
           mode = "exited" => \A r \in Slots : At(r, "answered") => req'[r] = req[r]
    PROVE  ExitIsEarned'
<1>1. AgentRaw' = AgentRaw
  BY DEF AgentRaw, Launch, S
<1> QED
  BY <1>1 DEF ExitIsEarned, At

\* The steps of a request, the agent's delivery included, keep the process honest.
LEMMA RequestStepKeepsExit ==
    ASSUME RequestShape, DownIsIdle, RequestsOk, ExitIsEarned, NEW r \in Slots, RequestStep(r)
    PROVE  DownIsIdle' /\ ExitIsEarned'
<1>1. \A s \in Slots \ {r} : req'[s] = req[s]
  BY RequestStepIsLocal
<1>2. UNCHANGED <<scenario, config>>
  BY DEF RequestStep, Receive, Cancel, Accept, Spawn, Exit, Pack, Deliver, TaskCall, Prepare, Forget
<1>3. mode # "down"
  <2>1. SUFFICES ASSUME mode = "down" PROVE FALSE
    OBVIOUS
  <2>2. req[r].phase = "idle"
    BY <2>1 DEF DownIsIdle, Idle
  <2> QED
    BY <2>1, <2>2 DEF RequestStep, Receive, Cancel, Cancellable, Accept, Spawn, Exit, Pack, Deliver,
                      TaskCall, Prepare, Forget, At
<1>4. CASE ~Deliver(r)
  <2>1. UNCHANGED <<mode, exit>>
    BY <1>4 DEF RequestStep, Receive, Cancel, Accept, Spawn, Exit, Pack, TaskCall, Prepare, Forget
  <2>2. req[r].phase # "answered"
    BY <1>4 DEF RequestStep, Receive, Cancel, Cancellable, Accept, Spawn, Exit, Pack,
                TaskCall, Prepare, Forget, At
  <2>3. ExitIsEarned'
    BY <1>1, <1>2, <2>1, <2>2, ExitStays DEF At
  <2> QED
    BY <1>2, <1>3, <2>1, <2>3 DEF DownIsIdle
<1>5. CASE Deliver(r)
  <2>1. At(r, "answered") /\ mode # "exited"
    BY <1>5 DEF Deliver
  <2>2. CASE mode = "agent"
    <3>1. /\ mode' = "exited" /\ req' = req
          /\ exit' = IF req[r].error = "ok"
                     THEN ProcessExitCode(InvocationExitCode(req[r].end)) ELSE 2
      BY <1>5, <2>2 DEF Deliver
    <3>2. req[r].end \in scenario.ends \cup {NoEnd}
      BY DEF RequestsOk, RequestOk
    <3>3. exit' \in 0 .. 255 /\ (exit' = 0 => /\ req[r].error = "ok"
                                             /\ req[r].end = [kind |-> "exit", code |-> 0])
      BY <3>1, <3>2, ZeroIsSuccess DEF ExitIsEarned
    <3>4. ExitIsEarned'
      BY <1>2, <2>1, <3>1, <3>3 DEF ExitIsEarned, At, Modes
    <3> QED
      BY <3>1, <3>4 DEF DownIsIdle
  <2>3. CASE mode # "agent"
    <3>1. UNCHANGED <<mode, exit>>
      BY <1>5, <2>3 DEF Deliver
    <3>2. ExitIsEarned'
      BY <1>2, <2>1, <3>1, ExitStays
    <3> QED
      BY <1>2, <1>3, <3>1, <3>2 DEF DownIsIdle
  <2> QED
    BY <2>2, <2>3
<1> QED
  BY <1>4, <1>5
-----------------------------------------------------------------------------
(* The whole specification                                                  *)

\* Nothing has happened yet.
LEMMA InitEstablishes ==
    ASSUME Init
    PROVE  SurfaceInv
<1>1. RequestShape
  BY DEF Init, RequestShape
<1>2. config.execution \in ExecutionPolicies
  BY SurfaceAssumption DEF Init, Load, ConfigOf, S
<1>3. \A r \in Slots : req[r] = Idle
  BY DEF Init
<1>4. DownIsIdle
  BY <1>2, <1>3 DEF Init, DownIsIdle
<1>5. CacheInv
  <2>1. cells = <<>> /\ DOMAIN cells = {} /\ cache = <<>> /\ DOMAIN cache = {}
    BY DEF Init
  <2>2. \A r \in Slots : req[r].phase = "idle"
    BY <1>3 DEF Idle
  <2>3. CellShape
    BY <2>1 DEF CellShape
  <2> QED
    BY <2>1, <2>2, <2>3 DEF CacheInv, FreshIsUnchecked, CacheHasOwnCells, LiveCellsAreCached,
                ProbesHaveCallers, CallersHaveOwnCells, AcceptedIsSupported, At, Checked
<1>6. RequestsOk
  BY <1>3, IdleIsOk DEF RequestsOk
<1>7. ExitIsEarned
  BY DEF Init, ExitIsEarned, Modes
<1> QED
  BY <1>1, <1>4, <1>5, <1>6, <1>7 DEF SurfaceInv

\* An agent's start puts its one request into a slot.
LEMMA StartAgentKeeps ==
    ASSUME SurfaceInv, StartAgent
    PROVE  SurfaceInv'
<1> DEFINE workspace == DiscoverWorkspace(fs, LaunchDirectory)
           parsed == ParseBazelArguments(AgentArguments, config.policy)
           error == AgentError(workspace, parsed)
           new == [Idle EXCEPT !.phase = "dispatched", !.dispatch = "agent",
                               !.call = <<AgentCall(workspace, parsed)>>]
           m == Min(Slots)
<1>1. /\ mode = "down" /\ UNCHANGED <<scenario, cells, cache>>
      /\ mode' = IF error # "ok" THEN "exited" ELSE IF AgentRaw THEN "unfiltered" ELSE "agent"
      /\ exit' = IF error = "ok" THEN -1 ELSE 2
      /\ req' = req \/ Become(m, new)
  BY DEF StartAgent
<1> HIDE DEF error, workspace, parsed, m
<1>2. \A r \in Slots : req[r] = Idle
  BY <1>1 DEF SurfaceInv, DownIsIdle
<1>3. /\ DOMAIN new = DOMAIN Idle /\ new.phase = "dispatched" /\ new.dispatch = "agent"
      /\ new.draft = <<>> /\ new.end = NoEnd /\ new.cell = 0
  BY DEF Idle
<1> HIDE DEF new
<1>4. RequestShape' /\ \A r \in Slots : req'[r] \in {Idle, new}
  BY <1>1, <1>2, <1>3 DEF SurfaceInv, RequestShape, Become
<1>5. DownIsIdle'
  BY <1>1 DEF DownIsIdle
<1>6. \A r \in Slots : req'[r].phase \in {"idle", "dispatched"}
          /\ (req'[r].phase = "dispatched" => req'[r].cell = 0)
  BY <1>3, <1>4 DEF Idle
<1>7. CacheInv'
  <2>1. cells = <<>> /\ DOMAIN cells = {} /\ cache = <<>> /\ DOMAIN cache = {}
    BY <1>1 DEF SurfaceInv, DownIsIdle
  <2>2. CellShape'
    BY <1>1 DEF SurfaceInv, CacheInv, CellShape
  <2> QED
    BY <1>1, <1>6, <2>1, <2>2
       DEF CacheInv, FreshIsUnchecked, CacheHasOwnCells, LiveCellsAreCached,
           ProbesHaveCallers, CallersHaveOwnCells, AcceptedIsSupported, At, Checked
<1>8. RequestsOk'
  <2>1. RequestOk(config', scenario', new)
    BY <1>3 DEF RequestOk, Dispatched, IsRun, FetchedByOwn, NoDraftYet, Drafted, HasDraft
  <2> QED
    BY <1>4, <2>1, IdleIsOk DEF RequestsOk
<1>9. ExitIsEarned'
  <2>1. AgentRaw' = AgentRaw
    BY <1>1 DEF AgentRaw, Launch, S
  <2> QED
    BY <1>1, <2>1 DEF SurfaceInv, ExitIsEarned, Modes
<1> QED
  BY <1>4, <1>5, <1>7, <1>8, <1>9 DEF SurfaceInv

\* A step that touches neither the requests, the probes nor the process.
LEMMA OutsideStepKeeps ==
    ASSUME SurfaceInv, UNCHANGED <<scenario, mode, config, req, cells, cache, exit>>
    PROVE  SurfaceInv'
<1>1. RequestShape' /\ DownIsIdle' /\ RequestsOk'
  BY DEF SurfaceInv, RequestShape, DownIsIdle, RequestsOk
<1>2. CacheInv'
  BY DEF SurfaceInv, CacheInv, CellShape, FreshIsUnchecked, CacheHasOwnCells, LiveCellsAreCached,
         ProbesHaveCallers, CallersHaveOwnCells, AcceptedIsSupported, Uncached, At
<1>3. ExitIsEarned'
  BY ExitStays DEF SurfaceInv
<1> QED
  BY <1>1, <1>2, <1>3 DEF SurfaceInv

\* The server starts or is refused, and an unfiltered Bazel ends: the mode and the
\* exit code change, and no request.
LEMMA ModeStepKeeps ==
    ASSUME SurfaceInv, StartServer \/ RunUnfiltered
    PROVE  SurfaceInv'
<1>1. /\ UNCHANGED <<scenario, config, req, cells, cache>>
      /\ mode' # "down" /\ (mode' = "server" => mode = "down")
  BY DEF StartServer, Serve, RunUnfiltered
<1>2. RequestShape' /\ DownIsIdle' /\ RequestsOk'
  BY <1>1 DEF SurfaceInv, RequestShape, DownIsIdle, RequestsOk
<1>3. CacheInv'
  BY <1>1 DEF SurfaceInv, CacheInv, CellShape, FreshIsUnchecked, CacheHasOwnCells,
              LiveCellsAreCached, ProbesHaveCallers, CallersHaveOwnCells, AcceptedIsSupported,
              Uncached, At
<1>4. AgentRaw' = AgentRaw
  BY <1>1 DEF AgentRaw, Launch, S
<1>5. CASE StartServer
  <2>1. mode' \in {"refused", "server"} /\ exit' \in {-1, 1}
    BY <1>5 DEF StartServer, Serve
  <2>2. ExitIsEarned'
    BY <1>1, <2>1 DEF SurfaceInv, ExitIsEarned, Modes
  <2> QED
    BY <1>2, <1>3, <2>2 DEF SurfaceInv
<1>6. CASE RunUnfiltered
  <2>1. PICK end \in scenario.ends : exit' = ProcessExitCode(InvocationExitCode(end))
    BY <1>6 DEF RunUnfiltered, S
  <2>2. exit' \in 0 .. 255
    BY <2>1, ZeroIsSuccess DEF SurfaceInv, ExitIsEarned
  <2>3. mode' = "exited" /\ AgentRaw
    BY <1>6 DEF RunUnfiltered, SurfaceInv, ExitIsEarned
  <2>4. ExitIsEarned'
    BY <1>1, <1>4, <2>2, <2>3 DEF SurfaceInv, ExitIsEarned, Modes
  <2> QED
    BY <1>2, <1>3, <2>4 DEF SurfaceInv
<1> QED
  BY <1>5, <1>6

\* The steps of a request.
LEMMA RequestStepKeeps ==
    ASSUME SurfaceInv, NEW r \in Slots, RequestStep(r)
    PROVE  SurfaceInv'
<1>1. RequestShape' /\ CacheInv'
  <2>1. CASE Prepare(r)
    BY <2>1, PrepareKeepsCache DEF SurfaceInv
  <2>2. CASE Forget(r)
    BY <2>2, ForgetKeepsCache DEF SurfaceInv
  <2>3. CASE \/ \E call : Receive(r, call)
             \/ Cancel(r) \/ Accept(r) \/ Spawn(r) \/ Exit(r) \/ Pack(r) \/ Deliver(r)
             \/ \E method, capable : TaskCall(r, method, capable)
    BY <2>3, RequestStepsAreQuiet, QuietKeepsCache DEF SurfaceInv
  <2> QED
    BY <2>1, <2>2, <2>3 DEF RequestStep
<1>2. RequestsOk'
  BY RequestStepIsOk DEF SurfaceInv
<1>3. DownIsIdle' /\ ExitIsEarned'
  BY RequestStepKeepsExit DEF SurfaceInv
<1> QED
  BY <1>1, <1>2, <1>3 DEF SurfaceInv

\* The steps of a probe.
LEMMA ProbeStepKeeps ==
    ASSUME SurfaceInv,
           \/ \E r \in Slots : StartProbe(r)
           \/ \E k \in DOMAIN cells, outcome \in S.probes : EndProbe(k, outcome)
    PROVE  SurfaceInv'
<1>1. UNCHANGED <<scenario, mode, config, req, cache, exit>>
  BY DEF StartProbe, EndProbe
<1>2. CacheInv'
  BY StartProbeKeepsCache, EndProbeKeepsCache DEF SurfaceInv
<1>3. mode # "down"
  <2>1. SUFFICES ASSUME mode = "down" PROVE FALSE
    OBVIOUS
  <2>2. DOMAIN cells = {} /\ \A r \in Slots : req[r].phase = "idle"
    BY <2>1 DEF SurfaceInv, DownIsIdle, Idle
  <2> QED
    BY <2>2 DEF StartProbe, At
<1>4. RequestShape' /\ DownIsIdle' /\ RequestsOk'
  BY <1>1, <1>3 DEF SurfaceInv, RequestShape, DownIsIdle, RequestsOk
<1>5. ExitIsEarned'
  BY <1>1, ExitStays DEF SurfaceInv
<1> QED
  BY <1>2, <1>4, <1>5 DEF SurfaceInv

\* The invariant is inductive.
LEMMA NextKeeps ==
    ASSUME SurfaceInv, [Next]_vars
    PROVE  SurfaceInv'
<1>1. CASE StartServer \/ RunUnfiltered
  BY <1>1, ModeStepKeeps
<1>2. CASE StartAgent
  BY <1>2, StartAgentKeeps
<1>3. CASE \E version \in S.versions : Initialize(version)
  BY <1>3, OutsideStepKeeps DEF Initialize
<1>4. CASE \E r \in Slots : RequestStep(r)
  BY <1>4, RequestStepKeeps
<1>5. CASE \E r \in Slots : CreateOutputBase(r)
  BY <1>5, OutsideStepKeeps DEF CreateOutputBase
<1>6. CASE \/ \E r \in Slots : StartProbe(r)
           \/ \E k \in DOMAIN cells, outcome \in S.probes : EndProbe(k, outcome)
  BY <1>6, ProbeStepKeeps
<1>7. CASE UNCHANGED vars
  BY <1>7, OutsideStepKeeps DEF vars
<1> QED
  BY <1>1, <1>2, <1>3, <1>4, <1>5, <1>6, <1>7 DEF Next, RequestStep

(***************************************************************************)
(* The inductive invariant holds of every behaviour: the version cache,    *)
(* the requests and the process's exit code (service.rs, handler.rs,       *)
(* result.rs, agent.rs).                                                   *)
(***************************************************************************)
THEOREM SurfaceInvariance == Spec => []SurfaceInv
<1>1. Init => SurfaceInv
  BY InitEstablishes
<1>2. SurfaceInv /\ [Next]_vars => SurfaceInv'
  BY NextKeeps
<1> QED
  BY <1>1, <1>2, PTL DEF Spec

(***************************************************************************)
(* The version cache is sound: a key has one probe at a time, a failed one *)
(* is kept only while a caller is still to report it, and no request is    *)
(* accepted whose Bazel has not answered with a supported version          *)
(* (service.rs validate_bazel_version), however many callers race.         *)
(***************************************************************************)
THEOREM VersionCacheIsSound == Spec => []ProbeCacheIsSound
<1>1. SurfaceInv => ProbeCacheIsSound
  BY CacheInvIsSound DEF SurfaceInv
<1> QED
  BY <1>1, SurfaceInvariance, PTL

(***************************************************************************)
(* Every bazel.run call is executed as the contract's table and the        *)
(* advertised capabilities say, and a task's result is given only to its   *)
(* own dialect, over any re-initializations (handler.rs call_tool_request  *)
(* and handle_request).                                                    *)
(***************************************************************************)
THEOREM RunsAreDispatchedByContract == Spec => []DispatchFollowsContract
<1>1. ASSUME SurfaceInv PROVE DispatchFollowsContract
  <2>1. \A r \in ServerRuns : IsRun(req[r]) /\ RequestOk(config, scenario, req[r])
    BY <1>1 DEF SurfaceInv, RequestsOk, ServerRuns, IsRun, Call
  <2>2. RunsFollowContract
    BY <2>1 DEF RunsFollowContract, RequestOk, Dispatched, Call
  <2>3. AdvertisedIsAccepted
    BY <2>1 DEF AdvertisedIsAccepted, RequestOk, Dispatched, AsAdvertised, IsDeferred, Deferred, Call
  <2>4. DialectIsKept
    <3>1. SUFFICES ASSUME NEW r \in ServerRuns, Deferred(r), At(r, "packing") \/ At(r, "answered"),
                          req[r].draft # <<>>
                   PROVE  OwnFetch(req[r].got[1], req[r].dispatch)
      BY DEF DialectIsKept, OwnFetch, Deferred
    <3> QED
      BY <2>1, <3>1 DEF RequestOk, FetchedByOwn, HasDraft, IsDeferred, Deferred, At
  <2> QED
    BY <2>2, <2>3, <2>4 DEF DispatchFollowsContract
<1> QED
  BY <1>1, SurfaceInvariance, PTL

(***************************************************************************)
(* A result that leaves fits its limit, what was taken from it is flagged  *)
(* and leads on, and an agent exits with success only if Bazel did         *)
(* (result.rs build, agent.rs).                                            *)
(***************************************************************************)
THEOREM ResultsArePackedHonestly == Spec => []PackedResultIsHonest
<1>1. ASSUME SurfaceInv PROVE PackedResultIsHonest
  <2>1. ASSUME NEW r \in Slots, At(r, "answered"), req[r].error = "ok", req[r].draft # <<>>
        PROVE  LET draft == req[r].draft[1]
               IN  /\ Fits(draft)
                   /\ draft.truncated \/ Complete(r)
                   /\ draft.truncated => IF draft.retained THEN draft.more ELSE draft.rerun
                   /\ draft.retained => ~draft.rerun
                   /\ ~draft.retained => ~(draft.more \/ draft.hint \/ draft.views)
    <3>1. Drafted(config, scenario, req[r])
      BY <1>1 DEF SurfaceInv, RequestsOk, RequestOk
    <3>2. FitsIn(config, req[r].draft[1]) /\ HonestDraft(scenario, req[r].dispatch, req[r].draft[1])
      BY <2>1, <3>1 DEF Drafted, HasDraft, At
    <3> QED
      BY <3>2 DEF Fits, FitsIn, HonestDraft, Complete, WholeFields, S
  <2>2. mode = "exited" /\ exit = 0 /\ ~AgentRaw =>
            \E r \in Slots : req[r].end = [kind |-> "exit", code |-> 0] /\ req[r].error = "ok"
    BY <1>1 DEF SurfaceInv, ExitIsEarned
  <2>3. /\ mode \in {"down", "server", "agent", "unfiltered", "refused", "exited"}
        /\ exit \in -1 .. 255
    BY <1>1 DEF SurfaceInv, ExitIsEarned, Modes
  <2> QED
    BY <2>1, <2>2, <2>3 DEF PackedResultIsHonest
<1> QED
  BY <1>1, SurfaceInvariance, PTL

\* A set of numbers has a least one.
LEMMA LeastNumber ==
    ASSUME NEW T, T \subseteq Nat, T # {}
    PROVE  \E x \in T : \A y \in T : x <= y
<1> DEFINE R == {ss \in Nat \X Nat : ss[1] < ss[2]}
<1>1. IsWellFoundedOn(R, Nat)
  BY NatLessThanWellFounded DEF OpToRel
<1> HIDE DEF R
<1>2. \E x \in T : \A y \in T : ~(<<y, x>> \in R)
  BY <1>1, WFMin
<1>3. PICK x \in T : \A y \in T : ~(<<y, x>> \in R)
  BY <1>2
<1>4. \A y \in T : ~(y < x)
  <2>1. TAKE y \in T
  <2>2. <<y, x>> \notin R /\ y \in Nat /\ x \in Nat
    BY <1>3
  <2> QED
    BY <2>2 DEF R
<1>5. \A y \in T : x <= y
  BY <1>4
<1> QED
  BY <1>5

\* The resolution of a path up to its m-th component, step by step.
IsWalk(at, links, path, m) ==
    at = [n \in 0 .. m |-> IF n = 0 THEN <<>> ELSE Follow(links, at[n - 1], path[n])]

\* There is a walk along every path.
LEMMA WalkExists ==
    ASSUME NEW links, NEW path, NEW m \in Nat
    PROVE  \E at : IsWalk(at, links, path, m)
<1> DEFINE Bad == {k \in Nat : ~\E at : IsWalk(at, links, path, k)}
<1>1. SUFFICES ASSUME Bad # {} PROVE FALSE
  OBVIOUS
<1>2. PICK k \in Bad : \A j \in Bad : k <= j
  BY <1>1, LeastNumber
<1>3. CASE k = 0
  <2>1. IsWalk([n \in 0 .. 0 |-> <<>>], links, path, 0)
    BY DEF IsWalk
  <2> QED
    BY <1>2, <1>3, <2>1
<1>4. CASE k # 0
  <2>1. k - 1 \in Nat /\ k - 1 \notin Bad
    BY <1>2, <1>4
  <2>2. PICK f : IsWalk(f, links, path, k - 1)
    BY <2>1
  <2> DEFINE g == [n \in 0 .. k |-> IF n = k THEN Follow(links, f[k - 1], path[k]) ELSE f[n]]
  <2>3. \A n \in 0 .. k - 1 : g[n] = f[n] /\ f[n] = IF n = 0 THEN <<>> ELSE Follow(links, f[n - 1], path[n])
    BY <2>1, <2>2 DEF IsWalk
  <2>4. \A n \in 0 .. k : g[n] = IF n = 0 THEN <<>> ELSE Follow(links, g[n - 1], path[n])
    <3>1. TAKE n \in 0 .. k
    <3>2. CASE n = k
      BY <1>4, <2>1, <2>3, <3>2
    <3>3. CASE n # k /\ n # 0
      <4>1. n - 1 \in 0 .. k - 1 /\ n \in 0 .. k - 1
        BY <3>3
      <4> QED
        BY <2>3, <3>3, <4>1
    <3>4. CASE n # k /\ n = 0
      <4>1. 0 \in 0 .. k - 1 /\ n = 0
        BY <2>1, <3>4
      <4>2. g[0] = f[0] /\ f[0] = <<>>
        BY <2>3, <4>1
      <4> QED
        BY <4>1, <4>2
    <3> QED
      BY <3>2, <3>3, <3>4
  <2>5. g = [n \in 0 .. k |-> g[n]]
    OBVIOUS
  <2> HIDE DEF g
  <2>6. IsWalk(g, links, path, k)
    BY <2>4, <2>5 DEF IsWalk
  <2> QED
    BY <1>2, <2>6
<1> QED
  BY <1>3, <1>4

\* Walks along paths agree as long as the paths do.
LEMMA WalkAgrees ==
    ASSUME NEW links, NEW p, NEW q, NEW f, NEW g, NEW a \in Nat, NEW b \in Nat, NEW m \in Nat,
           m <= a /\ m <= b, IsWalk(f, links, p, a), IsWalk(g, links, q, b),
           \A n \in 1 .. m : p[n] = q[n]
    PROVE  f[m] = g[m]
<1> DEFINE Bad == {k \in 0 .. m : f[k] # g[k]}
<1>1. SUFFICES ASSUME Bad # {} PROVE FALSE
  OBVIOUS
<1>2. PICK k \in Bad : \A j \in Bad : k <= j
  <2>1. Bad \subseteq Nat
    OBVIOUS
  <2> QED
    BY <1>1, <2>1, LeastNumber
<1>3. k \in 0 .. m /\ f[k] # g[k] /\ k \in 0 .. a /\ k \in 0 .. b
  BY <1>2
<1>4. /\ f[k] = IF k = 0 THEN <<>> ELSE Follow(links, f[k - 1], p[k])
      /\ g[k] = IF k = 0 THEN <<>> ELSE Follow(links, g[k - 1], q[k])
  BY <1>3 DEF IsWalk
<1>5. CASE k = 0
  BY <1>3, <1>4, <1>5
<1>6. CASE k # 0
  <2>1. k - 1 \in 0 .. m /\ ~(k <= k - 1) /\ k \in 1 .. m
    BY <1>3, <1>6
  <2>2. f[k - 1] = g[k - 1]
    BY <1>2, <2>1
  <2> QED
    BY <1>3, <1>4, <1>6, <2>1, <2>2
<1> QED
  BY <1>5, <1>6

\* Resolve goes such a walk.
LEMMA ResolveIsWalk ==
    ASSUME NEW links, NEW path, Len(path) \in Nat
    PROVE  \E at : IsWalk(at, links, path, Len(path)) /\ Resolve(links, path) = at[Len(path)]
<1> DEFINE at == CHOOSE f : IsWalk(f, links, path, Len(path))
<1>1. IsWalk(at, links, path, Len(path))
  BY WalkExists
<1>2. Resolve(links, path) = at[Len(path)]
  BY DEF Resolve, IsWalk
<1> QED
  BY <1>1, <1>2

\* The first components of a path.
Prefix(path, n) == SubSeq(path, 1, n)

\* A path is resolved one component after the other.
LEMMA ResolveSteps ==
    ASSUME NEW links, NEW path \in Seq(STRING)
    PROVE  /\ Resolve(links, Prefix(path, 0)) = <<>>
           /\ Resolve(links, Prefix(path, Len(path))) = Resolve(links, path)
           /\ \A n \in 1 .. Len(path) :
                  Resolve(links, Prefix(path, n))
                    = Follow(links, Resolve(links, Prefix(path, n - 1)), path[n])
<1>1. PICK at : IsWalk(at, links, path, Len(path)) /\ Resolve(links, path) = at[Len(path)]
  BY ResolveIsWalk
<1>2. \A n \in 0 .. Len(path) : Resolve(links, Prefix(path, n)) = at[n]
  <2>1. TAKE n \in 0 .. Len(path)
  <2>2. /\ Len(Prefix(path, n)) = n /\ n \in Nat /\ Len(path) \in Nat /\ n <= Len(path)
        /\ \A k \in 1 .. n : path[k] = Prefix(path, n)[k]
    BY DEF Prefix
  <2>3. PICK f : IsWalk(f, links, Prefix(path, n), n) /\ Resolve(links, Prefix(path, n)) = f[n]
    BY <2>2, ResolveIsWalk
  <2>4. at[n] = f[n]
    BY <1>1, <2>2, <2>3, WalkAgrees
  <2> QED
    BY <2>3, <2>4
<1>4. \A n \in 1 .. Len(path) : n \in 0 .. Len(path) /\ n - 1 \in 0 .. Len(path) /\ n # 0
  OBVIOUS
<1>6. \A n \in 0 .. Len(path) : at[n] = IF n = 0 THEN <<>> ELSE Follow(links, at[n - 1], path[n])
  BY <1>1 DEF IsWalk
<1>3. at[0] = <<>> /\ \A n \in 1 .. Len(path) : at[n] = Follow(links, at[n - 1], path[n])
  BY <1>4, <1>6
<1>5. 0 \in 0 .. Len(path) /\ Len(path) \in 0 .. Len(path)
  OBVIOUS
<1> QED
  BY <1>1, <1>2, <1>3, <1>4, <1>5

\* The empty list is a list of anything.
LEMMA EmptyIsSeq ==
    ASSUME NEW T, NEW s, s = <<>>
    PROVE  s \in Seq(T)
  OBVIOUS

\* What Append holds where.
LEMMA AppendAt ==
    ASSUME NEW T, NEW s \in Seq(T), NEW e \in T
    PROVE  /\ Append(s, e) \in Seq(T) /\ Len(Append(s, e)) = Len(s) + 1
           /\ Append(s, e)[Len(s) + 1] = e
           /\ \A i \in 1 .. Len(s) : Append(s, e)[i] = s[i]
  OBVIOUS

\* A path without its last component is a path.
LEMMA FrontIsSeq ==
    ASSUME NEW T, NEW s \in Seq(T)
    PROVE  Front2(s) \in Seq(T)
<1>1. CASE s = <<>>
  BY <1>1 DEF Front2
<1>2. CASE s # <<>>
  <2>1. Len(s) - 1 \in 0 .. Len(s)
    BY <1>2
  <2>2. SubSeq(s, 1, Len(s) - 1) \in Seq(T)
    BY <2>1
  <2> QED
    BY <1>2, <2>2 DEF Front2, Front
<1> QED
  BY <1>1, <1>2

\* A slice grows by the next element.
LEMMA SliceGrows ==
    ASSUME NEW T, NEW head \in Seq(T), NEW path \in Seq(T), NEW low \in Nat,
           NEW n \in low + 1 .. Len(path)
    PROVE  Append(head \o SubSeq(path, low + 1, n - 1), path[n]) = head \o SubSeq(path, low + 1, n)
<1> DEFINE t == SubSeq(path, low + 1, n - 1)
           x == path[n]
<1>1. t \in Seq(T) /\ x \in T /\ <<x>> \in Seq(T) /\ head \in Seq(T)
  OBVIOUS
<1>2. low + 1 \in 1 .. Len(path) /\ n \in low + 1 .. Len(path)
  OBVIOUS
<1>3. SubSeq(path, low + 1, n) = t \o <<x>>
  BY <1>2, SubSeqRecursiveSecond
<1> HIDE DEF t, x
<1>4. (head \o t) \o <<x>> = head \o (t \o <<x>>)
  BY <1>1, ConcatAssociative
<1>5. head \o t \in Seq(T)
  BY <1>1
<1>6. Append(head \o t, x) = (head \o t) \o <<x>>
  BY <1>1, <1>5, AppendIsConcat
<1> QED
  BY <1>3, <1>4, <1>6 DEF t, x

\* What a component can be once the dots are gone.
Names == STRING \ {".", ".."}

\* A path without dots is a path.
LEMMA NamesAreStrings ==
    ASSUME NEW path \in Seq(Names)
    PROVE  path \in Seq(STRING)
  BY DEF Names

\* Induction over the prefixes of a path: what holds of the empty one and of the next.
LEMMA Reached ==
    ASSUME NEW G, NEW low \in Nat, NEW m \in Nat, low <= m, low \in G,
           \A n \in low + 1 .. m : n - 1 \in G => n \in G
    PROVE  \A n \in low .. m : n \in G
<1> DEFINE Bad == {k \in low .. m : k \notin G}
<1>1. SUFFICES ASSUME Bad # {} PROVE FALSE
  OBVIOUS
<1>2. PICK k \in Bad : \A j \in Bad : k <= j
  <2>1. Bad \subseteq Nat
    OBVIOUS
  <2> QED
    BY <1>1, <2>1, LeastNumber
<1>3. k # low /\ k \in low + 1 .. m
  BY <1>2
<1>4. k - 1 \in low .. m /\ ~(k <= k - 1)
  BY <1>3
<1>5. k - 1 \in G
  BY <1>2, <1>4
<1> QED
  BY <1>2, <1>3, <1>5

\* Where links lead to paths, a path resolves to one.
LEMMA ResolveIsPath ==
    ASSUME NEW links, \A l \in DOMAIN links : links[l] \in Seq(STRING), NEW path \in Seq(STRING)
    PROVE  Resolve(links, path) \in Seq(STRING)
<1> DEFINE G == {n \in 0 .. Len(path) : Resolve(links, Prefix(path, n)) \in Seq(STRING)}
<1>1. 0 \in G
  <2>1. Resolve(links, Prefix(path, 0)) = <<>>
    BY ResolveSteps
  <2>2. Resolve(links, Prefix(path, 0)) \in Seq(STRING)
    BY <2>1, EmptyIsSeq
  <2>3. 0 \in 0 .. Len(path)
    OBVIOUS
  <2> QED
    BY <2>2, <2>3
<1>2. \A n \in 0 + 1 .. Len(path) : n - 1 \in G => n \in G
  <2>1. SUFFICES ASSUME NEW n \in 1 .. Len(path), n - 1 \in G PROVE n \in G
    OBVIOUS
  <2> DEFINE a == Resolve(links, Prefix(path, n - 1))
  <2>2. Resolve(links, Prefix(path, n)) = Follow(links, a, path[n])
    BY <2>1, ResolveSteps
  <2>3. a \in Seq(STRING) /\ path[n] \in STRING
    BY <2>1
  <2> HIDE DEF a
  <2>4. Front2(a) \in Seq(STRING) /\ Append(a, path[n]) \in Seq(STRING)
    BY <2>3, FrontIsSeq
  <2>5. Follow(links, a, path[n]) \in Seq(STRING)
    BY <2>3, <2>4 DEF Follow
  <2> QED
    BY <2>2, <2>5
<1>3. Len(path) \in G
  <2>1. \A n \in 0 .. Len(path) : n \in G
    <3>0. PICK low \in Nat : low = 0
      OBVIOUS
    <3>1. Len(path) \in Nat /\ low <= Len(path)
      BY <3>0
    <3> HIDE DEF G
    <3> QED
      BY <1>1, <1>2, <3>0, <3>1, Reached
  <2> QED
    BY <2>1
<1> QED
  BY <1>3, ResolveSteps

\* normalize_absolute leaves no dots.
LEMMA NormalizedHasNoDots ==
    ASSUME NEW path \in Seq(STRING)
    PROVE  NormalizeAbsolute(path) \in Seq(Names)
<1> DEFINE none == <<>>
           G == {n \in 0 .. Len(path) : Resolve(none, Prefix(path, n)) \in Seq(Names)}
<1>0. DOMAIN none = {}
  OBVIOUS
<1> HIDE DEF none
<1>1. 0 \in G
  <2>1. Resolve(none, Prefix(path, 0)) = <<>>
    BY ResolveSteps
  <2>2. Resolve(none, Prefix(path, 0)) \in Seq(Names)
    BY <2>1, EmptyIsSeq
  <2>3. 0 \in 0 .. Len(path)
    OBVIOUS
  <2> QED
    BY <2>2, <2>3
<1>2. \A n \in 0 + 1 .. Len(path) : n - 1 \in G => n \in G
  <2>1. SUFFICES ASSUME NEW n \in 1 .. Len(path), n - 1 \in G PROVE n \in G
    OBVIOUS
  <2> DEFINE a == Resolve(none, Prefix(path, n - 1))
  <2>2. Resolve(none, Prefix(path, n)) = Follow(none, a, path[n])
    BY <2>1, ResolveSteps
  <2>3. a \in Seq(Names) /\ path[n] \in STRING
    BY <2>1
  <2> HIDE DEF a
  <2>4. Front2(a) \in Seq(Names)
    BY <2>3, FrontIsSeq
  <2>5. path[n] \notin {".", ".."} => Append(a, path[n]) \in Seq(Names)
    BY <2>3 DEF Names
  <2>6. Follow(none, a, path[n]) \in Seq(Names)
    BY <1>0, <2>3, <2>4, <2>5 DEF Follow
  <2> QED
    BY <2>2, <2>6
<1>3. Len(path) \in G
  <2>1. \A n \in 0 .. Len(path) : n \in G
    <3>0. PICK low \in Nat : low = 0
      OBVIOUS
    <3>1. Len(path) \in Nat /\ low <= Len(path)
      BY <3>0
    <3> HIDE DEF G
    <3> QED
      BY <1>1, <1>2, <3>0, <3>1, Reached
  <2> QED
    BY <2>1
<1> QED
  BY <1>3, ResolveSteps DEF NormalizeAbsolute, none

\* The components behind a prefix that are no links are kept as they are.
LEMMA TailIsKept ==
    ASSUME NEW links, NEW path \in Seq(Names), NEW known \in 0 .. Len(path), NEW head \in Seq(STRING),
           Resolve(links, Prefix(path, known)) = head,
           \A n \in known + 1 .. Len(path) :
               Append(Resolve(links, Prefix(path, n - 1)), path[n]) \notin DOMAIN links
    PROVE  \A n \in known .. Len(path) :
               Resolve(links, Prefix(path, n)) = head \o SubSeq(path, known + 1, n)
<1> DEFINE G == {n \in known .. Len(path) :
                     Resolve(links, Prefix(path, n)) = head \o SubSeq(path, known + 1, n)}
<1>1. known \in G
  BY DEF Prefix
<1>2. ASSUME NEW n \in known + 1 .. Len(path), n - 1 \in G PROVE n \in G
  <2> DEFINE a == Resolve(links, Prefix(path, n - 1))
  <2>1. n \in 1 .. Len(path) /\ path[n] \in Names
    OBVIOUS
  <2>2. Resolve(links, Prefix(path, n)) = Follow(links, a, path[n])
    BY <2>1, NamesAreStrings, ResolveSteps
  <2>3. Append(a, path[n]) \notin DOMAIN links /\ a = head \o SubSeq(path, known + 1, n - 1)
    BY <1>2
  <2> HIDE DEF a
  <2>4. Follow(links, a, path[n]) = Append(a, path[n])
    BY <2>1, <2>3 DEF Follow, Names
  <2>5. Append(head \o SubSeq(path, known + 1, n - 1), path[n]) = head \o SubSeq(path, known + 1, n)
    <3>1. path \in Seq(STRING) /\ known \in Nat /\ n \in known + 1 .. Len(path)
      BY <1>2, NamesAreStrings
    <3> HIDE DEF G
    <3> QED
      BY ONLY <3>1, head \in Seq(STRING), SliceGrows
  <2>6. n \in known .. Len(path)
    OBVIOUS
  <2>7. Resolve(links, Prefix(path, n)) = head \o SubSeq(path, known + 1, n)
    BY <2>2, <2>3, <2>4, <2>5
  <2> QED
    BY <2>6, <2>7
<1> HIDE DEF G
<1>3. known \in Nat /\ Len(path) \in Nat /\ known <= Len(path)
  OBVIOUS
<1>4. \A n \in known .. Len(path) : n \in G
  BY <1>1, <1>2, <1>3, Reached
<1> QED
  BY <1>4 DEF G

\* A path without links in it is its own resolution.
LEMMA RealIsItself ==
    ASSUME NEW links, NEW path \in Seq(Names),
           \A n \in 1 .. Len(path) : Prefix(path, n) \notin DOMAIN links
    PROVE  \A n \in 0 .. Len(path) : Resolve(links, Prefix(path, n)) = Prefix(path, n)
<1> DEFINE G == {n \in 0 .. Len(path) : Resolve(links, Prefix(path, n)) = Prefix(path, n)}
<1>1. 0 \in G
  <2>0. path \in Seq(STRING)
    BY NamesAreStrings
  <2>1. Resolve(links, Prefix(path, 0)) = <<>>
    BY <2>0, ResolveSteps
  <2>2. Prefix(path, 0) = <<>> /\ 0 \in 0 .. Len(path)
    BY DEF Prefix
  <2> QED
    BY <2>1, <2>2
<1>2. \A n \in 0 + 1 .. Len(path) : n - 1 \in G => n \in G
  <2>1. SUFFICES ASSUME NEW n \in 1 .. Len(path), n - 1 \in G PROVE n \in G
    OBVIOUS
  <2>2. Resolve(links, Prefix(path, n)) = Follow(links, Prefix(path, n - 1), path[n])
    <3>1. path \in Seq(STRING)
      BY NamesAreStrings
    <3> QED
      BY <2>1, <3>1, ResolveSteps
  <2>3. Append(Prefix(path, n - 1), path[n]) = Prefix(path, n) /\ path[n] \in Names
    BY <2>1 DEF Prefix
  <2>4. Follow(links, Prefix(path, n - 1), path[n]) = Prefix(path, n)
    BY <2>1, <2>3 DEF Follow, Names
  <2> QED
    BY <2>2, <2>4
<1>3. \A n \in 0 .. Len(path) : n \in G
  <2>0. PICK low \in Nat : low = 0
    OBVIOUS
  <2>1. Len(path) \in Nat /\ low <= Len(path)
    BY <2>0
  <2> HIDE DEF G
  <2> QED
    BY <1>1, <1>2, <2>0, <2>1, Reached
<1> QED
  BY <1>3

\* Min and Max of numbers are what their names say.
LEMMA LeastIs ==
    ASSUME NEW T, T \subseteq Nat, T # {}
    PROVE  Min(T) \in T /\ \A y \in T : Min(T) <= y
<1>1. \E x \in T : \A y \in T : x <= y
  BY LeastNumber
<1> QED
  BY <1>1 DEF Min

\* Max of numbers up to a bound is the greatest of them.
LEMMA GreatestIs ==
    ASSUME NEW m \in Nat, NEW T, T \subseteq 0 .. m, T # {}
    PROVE  Max(T) \in T /\ \A y \in T : y <= Max(T)
<1> DEFINE U == {n \in Nat : m - n \in T}
<1>1. PICK e \in T : TRUE
  OBVIOUS
<1>2. m - e \in Nat /\ m - (m - e) = e
  OBVIOUS
<1>3. U \subseteq Nat /\ U # {}
  BY <1>2
<1>4. PICK n \in U : \A y \in U : n <= y
  BY <1>3, LeastNumber
<1>5. ASSUME NEW y \in T PROVE y <= m - n
  <2>1. m - y \in Nat /\ m - (m - y) = y
    OBVIOUS
  <2>2. n <= m - y
    BY <1>4, <2>1
  <2> QED
    BY <2>2
<1>6. m - n \in T
  BY <1>4
<1>7. \A y \in T : m - n >= y
  BY <1>5
<1>8. \E x \in T : \A y \in T : x >= y
  BY <1>6, <1>7
<1> QED
  BY <1>8 DEF Max

\* Checks without an error have none of them.
LEMMA NoError ==
    ASSUME NEW checks, DOMAIN checks \subseteq Nat, FirstError(checks) = "ok"
    PROVE  \A k \in DOMAIN checks : checks[k] = "ok"
<1> DEFINE failed == {k \in DOMAIN checks : checks[k] # "ok"}
<1>1. SUFFICES ASSUME failed # {} PROVE FALSE
  OBVIOUS
<1>2. Min(failed) \in failed
  BY <1>1, LeastIs
<1> QED
  BY <1>1, <1>2 DEF FirstError

\* The links of a file system lead to paths.
LinksOk(links) == \A l \in DOMAIN links : links[l] \in Seq(STRING)

\* A prefix and what comes before its last component.
LEMMA PrefixFront ==
    ASSUME NEW path \in Seq(STRING), NEW n \in 1 .. Len(path)
    PROVE  /\ Prefix(path, n) # <<>> /\ Last(Prefix(path, n)) = path[n]
           /\ Front2(Prefix(path, n)) = Prefix(path, n - 1)
<1> DEFINE p == Prefix(path, n)
<1>1. Len(p) = n /\ p \in Seq(STRING) /\ p[n] = path[n]
  BY DEF Prefix
<1>2. p # <<>> /\ Last(p) = path[n]
  BY <1>1 DEF Last
<1>3. Front(p) = SubSeq(p, 1, n - 1)
  BY <1>1 DEF Front
<1>4. SubSeq(p, 1, n - 1) = Prefix(path, n - 1)
  BY DEF Prefix
<1> QED
  BY <1>2, <1>3, <1>4 DEF Front2

(***************************************************************************)
(* canonicalize_with_missing_tail finds where the normalized path leads,   *)
(* whether or not its last components are there.                           *)
(***************************************************************************)
LEMMA CanonicalIsReal ==
    ASSUME NEW f, LinksOk(f.links), NEW parts \in Seq(STRING),
           CanonicalizeWithMissingTail(f, parts) # NotFound
    PROVE  CanonicalizeWithMissingTail(f, parts) = Resolve(f.links, NormalizeAbsolute(parts))
<1> DEFINE path == NormalizeAbsolute(parts)
           K == {n \in 0 .. Len(path) : Present(f, Prefix(path, n))}
           known == Max(K)
           links == f.links
           head == Canonicalize(f, Prefix(path, known))
<1>1. path \in Seq(Names)
  BY NormalizedHasNoDots
<1>2. path \in Seq(STRING) /\ Len(path) \in Nat
  BY <1>1, NamesAreStrings
<1>3. head # NotFound /\ CanonicalizeWithMissingTail(f, parts) = head \o SubSeq(path, known + 1, Len(path))
  BY DEF CanonicalizeWithMissingTail, Prefix
<1> HIDE DEF path
<1>4. Prefix(path, 0) = <<>> /\ 0 \in 0 .. Len(path)
  BY <1>2 DEF Prefix
<1>5. 0 \in K
  BY <1>4 DEF Present
<1>6. known \in K /\ \A n \in K : n <= known
  <2>1. K \subseteq 0 .. Len(path) /\ K # {}
    BY <1>5
  <2> HIDE DEF K
  <2> QED
    BY <1>2, <2>1, GreatestIs
<1>7. known \in 0 .. Len(path)
  BY <1>6
<1>8. \A n \in known + 1 .. Len(path) : ~Present(f, Prefix(path, n))
  BY <1>6, <1>7
<1> HIDE DEF K, known
<1>9. ASSUME NEW n \in known + 1 .. Len(path)
      PROVE  Append(Resolve(links, Prefix(path, n - 1)), path[n]) \notin DOMAIN links
  <2>1. n \in 1 .. Len(path)
    BY <1>7
  <2>2. ~Present(f, Prefix(path, n))
    BY <1>8
  <2> QED
    BY <1>2, <2>1, <2>2, PrefixFront DEF Present, Real
<1>10. head = Resolve(links, Prefix(path, known))
  BY <1>3 DEF Canonicalize, Real
<1>11. Prefix(path, known) \in Seq(STRING)
  BY <1>2, <1>7 DEF Prefix
<1>12. head \in Seq(STRING)
  BY <1>10, <1>11, ResolveIsPath DEF LinksOk
<1> HIDE DEF links, head
<1>13. Len(path) \in known .. Len(path)
  BY <1>2, <1>7
<1>14. Resolve(links, Prefix(path, Len(path))) = head \o SubSeq(path, known + 1, Len(path))
  BY <1>1, <1>7, <1>9, <1>10, <1>12, <1>13, TailIsKept
<1>15. Resolve(links, Prefix(path, Len(path))) = Resolve(links, path)
  BY <1>2, ResolveSteps
<1> QED
  BY <1>3, <1>14, <1>15 DEF links, path

\* Three checks that passed.
LEMMA NoError3 ==
    ASSUME NEW a, NEW b, NEW c, FirstError(<<a, b, c>>) = "ok"
    PROVE  a = "ok" /\ b = "ok" /\ c = "ok"
<1> DEFINE checks == <<a, b, c>>
<1>1. DOMAIN checks = {1, 2, 3} /\ checks[1] = a /\ checks[2] = b /\ checks[3] = c
      /\ FirstError(checks) = "ok"
  OBVIOUS
<1> HIDE DEF checks
<1>2. DOMAIN checks \subseteq Nat
  BY <1>1
<1> QED
  BY <1>1, <1>2, NoError

\* Four checks that passed.
LEMMA NoError4 ==
    ASSUME NEW a, NEW b, NEW c, NEW d, FirstError(<<a, b, c, d>>) = "ok"
    PROVE  a = "ok" /\ b = "ok" /\ c = "ok" /\ d = "ok"
<1> DEFINE checks == <<a, b, c, d>>
<1>1. DOMAIN checks = {1, 2, 3, 4} /\ checks[1] = a /\ checks[2] = b /\ checks[3] = c
      /\ checks[4] = d /\ FirstError(checks) = "ok"
  OBVIOUS
<1> HIDE DEF checks
<1>2. DOMAIN checks \subseteq Nat
  BY <1>1
<1> QED
  BY <1>1, <1>2, NoError

\* What a value spells is a path.
LEMMA ValueIsPath ==
    ASSUME NEW arguments \in Seq(Arguments), NEW flag, NEW k \in DOMAIN arguments,
           NEW base \in Seq(STRING)
    PROVE  Absolute(PathFrom(ValueAt(arguments, flag, k)), base) \in Seq(STRING)
<1>1. arguments[k] \in Arguments
  OBVIOUS
<1>2. arguments[k].flag \in STRING /\ arguments[k].value \in STRING
  BY <1>1 DEF Arguments
<1>3. ValueAt(arguments, flag, k) \in STRING
  BY <1>2 DEF ValueAt
<1> DEFINE value == ValueAt(arguments, flag, k)
<1> HIDE DEF value
<1>4. PathFrom(value).parts \in Seq(STRING)
  <2>1. CASE value \in DOMAIN PathOf
    BY <2>1, PolicyAssumption DEF PathFrom
  <2>2. CASE value \notin DOMAIN PathOf
    <3>1. <<value>> \in Seq(STRING)
      BY <1>3 DEF value
    <3> QED
      BY <2>2, <3>1 DEF PathFrom
  <2> QED
    BY <2>1, <2>2
<1>5. base \o PathFrom(value).parts \in Seq(STRING)
  BY <1>4
<1> QED
  BY <1>4, <1>5 DEF Absolute, value

\* The option that selects an output base.
OutputBase == "--output_base"

\* The output base that Bazel works in, when its startup options name one.
NamedBase(links, startup, workspace) ==
    Resolve(links, NormalizeAbsolute(
        Absolute(PathFrom(ValueAt(startup, OutputBase, Max(OptionAt(startup, OutputBase)))),
                 workspace)))

(***************************************************************************)
(* effective_output_base returns the directory Bazel's own reading of the  *)
(* option leads to: the option is given once, so the first is the last.    *)
(***************************************************************************)
LEMMA BaseIsReal ==
    ASSUME NEW f, LinksOk(f.links), NEW workspace \in Seq(STRING), NEW startup \in Seq(Arguments),
           EffectiveOutputBase(f, workspace, startup).error = "ok"
    PROVE  EffectiveOutputBase(f, workspace, startup).base
             = IF OptionAt(startup, OutputBase) = {} THEN <<>>
               ELSE <<NamedBase(f.links, startup, workspace)>>
<1> DEFINE at == OptionAt(startup, OutputBase)
           given == PathFrom(ValueAt(startup, OutputBase, Min(at)))
           base == SelectedBase(f, workspace, given)
<1>1. CASE at = {}
  BY <1>1 DEF EffectiveOutputBase, OutputBase
<1>2. CASE at # {}
  <2>1. /\ EffectiveOutputBase(f, workspace, startup).base = <<base>>
        /\ EffectiveOutputBase(f, workspace, startup).error
             = FirstError(<<Check(base # NotFound, "Io"),
                            Check(Cardinality(at) = 1, "RepeatedOutputBase"),
                            Check(~MissingValue(startup, OutputBase), "MissingOutputBaseValue")>>)
    BY <1>2 DEF EffectiveOutputBase, OutputBase
  <2>2. base # NotFound /\ Cardinality(at) = 1
    <3> HIDE DEF base, at
    <3>1. /\ Check(base # NotFound, "Io") = "ok"
          /\ Check(Cardinality(at) = 1, "RepeatedOutputBase") = "ok"
      BY <2>1, NoError3
    <3> QED
      BY <3>1 DEF Check
  <2>3. at \subseteq DOMAIN startup
    BY DEF OptionAt, ValuePositions
  <2>4. DOMAIN startup = 1 .. Len(startup) /\ Len(startup) \in Nat
    OBVIOUS
  <2>5. IsFiniteSet(at)
    <3>1. IsFiniteSet(1 .. Len(startup))
      BY <2>4, FS_Interval
    <3> HIDE DEF at
    <3> QED
      BY <2>3, <2>4, <3>1, FS_Subset
  <2>6. PICK k : at = {k}
    BY <2>2, <2>5, FS_Singleton
  <2>7. k \in DOMAIN startup /\ k \in Nat
    BY <2>3, <2>4, <2>6
  <2>8. Min(at) = k /\ Max(at) = k
    <3> HIDE DEF at
    <3> QED
      BY <2>6, <2>7 DEF Min, Max
  <2>9. Absolute(given, workspace) \in Seq(STRING)
    BY <2>7, <2>8, ValueIsPath
  <2> HIDE DEF at
  <2>10. base = Resolve(f.links, NormalizeAbsolute(Absolute(given, workspace)))
    BY <2>2, <2>9, CanonicalIsReal DEF SelectedBase
  <2>11. base = NamedBase(f.links, startup, workspace)
    BY <2>8, <2>10 DEF NamedBase, at
  <2> QED
    BY <1>2, <2>1, <2>11 DEF at
<1> QED
  BY <1>1, <1>2

\* A workspace that was validated is where its path leads.
LEMMA WorkspaceIsReal ==
    ASSUME NEW f, LinksOk(f.links), NEW given, given.parts \in Seq(STRING), NEW roots,
           ValidateWorkspace(f, given, roots).error = "ok"
    PROVE  /\ ValidateWorkspace(f, given, roots).workspace \in Seq(STRING)
           /\ roots = {} \/ \E root \in roots : Canonicalize(f, root) # NotFound
                  /\ Within(ValidateWorkspace(f, given, roots).workspace, Canonicalize(f, root))
<1> DEFINE real == Canonicalize(f, given.parts)
           allowed == roots = {} \/ \E root \in roots :
                          Canonicalize(f, root) # NotFound /\ Within(real, Canonicalize(f, root))
<1>1. /\ ValidateWorkspace(f, given, roots).workspace = real
      /\ ValidateWorkspace(f, given, roots).error = FirstError(<<
            Check(given.abs, "WorkspaceNotAbsolute"),
            Check(real # NotFound, "Io"),
            Check(allowed, "WorkspaceNotAllowed"),
            Check(IsWorkspace(f, real), "NotBazelWorkspace")>>)
  BY DEF ValidateWorkspace
<1> HIDE DEF real, allowed
<1>2. Check(real # NotFound, "Io") = "ok" /\ Check(allowed, "WorkspaceNotAllowed") = "ok"
  BY <1>1, NoError4
<1>3. real # NotFound /\ allowed
  BY <1>2 DEF Check
<1>4. real \in Seq(STRING)
  BY <1>3, ResolveIsPath DEF real, Canonicalize, Real, LinksOk
<1> QED
  BY <1>1, <1>3, <1>4 DEF allowed

\* Whatever a path resolves to is a real path.
LEMMA ResolvedIsReal ==
    ASSUME NEW links, \A l \in DOMAIN links : IsRealPath(links, links[l]), NEW path \in Seq(STRING)
    PROVE  IsRealPath(links, Resolve(links, path))
<1> DEFINE G == {n \in 0 .. Len(path) : IsRealPath(links, Resolve(links, Prefix(path, n)))}
<1>1. 0 \in G
  <2>1. Resolve(links, Prefix(path, 0)) = <<>>
    BY ResolveSteps
  <2>2. IsRealPath(links, <<>>)
    BY DEF IsRealPath
  <2> QED
    BY <2>1, <2>2
<1>2. \A n \in 0 + 1 .. Len(path) : n - 1 \in G => n \in G
  <2>1. SUFFICES ASSUME NEW n \in 1 .. Len(path), n - 1 \in G PROVE n \in G
    OBVIOUS
  <2> DEFINE a == Resolve(links, Prefix(path, n - 1))
             x == path[n]
  <2>2. Resolve(links, Prefix(path, n)) = Follow(links, a, x)
    BY <2>1, ResolveSteps
  <2>3. IsRealPath(links, a) /\ x \in STRING
    BY <2>1
  <2> HIDE DEF a, x
  <2>4. IsRealPath(links, Front2(a))
    <3>1. CASE a = <<>>
      BY <2>3, <3>1 DEF Front2
    <3>2. CASE a # <<>>
      <4>0. a \in Seq(STRING) /\ Len(a) \in Nat /\ Len(a) >= 1
        BY <2>3, <3>2 DEF IsRealPath
      <4>1. Front2(a) = SubSeq(a, 1, Len(a) - 1)
        BY <3>2 DEF Front2, Front
      <4>2. PICK m \in Nat : m = Len(a) - 1
        BY <4>0
      <4>3. SubSeq(a, 1, m) \in Seq(STRING) /\ Len(SubSeq(a, 1, m)) = m
        BY <4>0, <4>2
      <4>4. ASSUME NEW i \in 1 .. m
            PROVE  SubSeq(SubSeq(a, 1, m), 1, i) = SubSeq(a, 1, i) /\ SubSeq(a, 1, m)[i] = a[i]
        BY <4>0, <4>2
      <4>5. \A i \in 1 .. m : i \in 1 .. Len(a)
        BY <4>0, <4>2
      <4> QED
        BY <2>3, <4>1, <4>2, <4>3, <4>4, <4>5 DEF IsRealPath
    <3> QED
      BY <3>1, <3>2
  <2>5. x \notin {".", ".."} /\ Append(a, x) \notin DOMAIN links => IsRealPath(links, Append(a, x))
    <3>1. a \in Seq(STRING) /\ Len(a) \in Nat
      BY <2>3 DEF IsRealPath
    <3>2. Append(a, x) \in Seq(STRING) /\ Len(Append(a, x)) = Len(a) + 1
          /\ Append(a, x)[Len(a) + 1] = x /\ \A i \in 1 .. Len(a) : Append(a, x)[i] = a[i]
      <4>1. a \in Seq(STRING) /\ x \in STRING
        BY <2>3, <3>1
      <4>2. PICK T : T = STRING
        OBVIOUS
      <4>3. a \in Seq(T) /\ x \in T
        BY <4>1, <4>2
      <4>4. /\ Append(a, x) \in Seq(T) /\ Len(Append(a, x)) = Len(a) + 1
            /\ Append(a, x)[Len(a) + 1] = x
            /\ \A i \in 1 .. Len(a) : Append(a, x)[i] = a[i]
        BY ONLY <4>3, AppendAt
      <4> QED
        BY <4>2, <4>4
    <3> DEFINE b == Append(a, x)
    <3> HIDE DEF b
    <3>3. ASSUME NEW i \in 1 .. Len(a)
          PROVE  SubSeq(b, 1, i) = SubSeq(a, 1, i) /\ b[i] = a[i]
      <4>1. b \in Seq(STRING) /\ Len(b) = Len(a) + 1 /\ \A k \in 1 .. Len(a) : b[k] = a[k]
        BY <3>2 DEF b
      <4> QED
        BY ONLY <3>1, <4>1, i \in 1 .. Len(a)
    <3>4. SubSeq(b, 1, Len(a) + 1) = b /\ b[Len(a) + 1] = x
      <4>1. b \in Seq(STRING) /\ Len(b) = Len(a) + 1 /\ b[Len(a) + 1] = x
        BY <3>2 DEF b
      <4> QED
        BY ONLY <4>1, SubSeqFull
    <3>5. \A i \in 1 .. Len(a) + 1 : i \in 1 .. Len(a) \/ i = Len(a) + 1
      BY <3>1
    <3> QED
      BY <2>3, <3>2, <3>3, <3>4, <3>5 DEF IsRealPath, b
  <2>6. IsRealPath(links, Follow(links, a, x))
    BY <2>3, <2>4, <2>5 DEF Follow
  <2> QED
    BY <2>2, <2>6
<1>3. Len(path) \in G
  <2>1. \A n \in 0 .. Len(path) : n \in G
    <3>0. PICK low \in Nat : low = 0
      OBVIOUS
    <3>1. Len(path) \in Nat /\ low <= Len(path)
      BY <3>0
    <3> HIDE DEF G
    <3> QED
      BY <1>1, <1>2, <3>0, <3>1, Reached
  <2> QED
    BY <2>1
<1> QED
  BY <1>3, ResolveSteps

\* A real path leads to itself.
LEMMA RealStays ==
    ASSUME NEW links, NEW path, IsRealPath(links, path)
    PROVE  Resolve(links, path) = path
<1>1. path \in Seq(STRING) /\ Len(path) \in Nat
  BY DEF IsRealPath
<1>2. path \in Seq(Names)
  <2>1. \A n \in 1 .. Len(path) : path[n] \in Names
    BY <1>1 DEF IsRealPath, Names
  <2> QED
    BY <1>1, <2>1
<1>3. \A n \in 1 .. Len(path) : Prefix(path, n) \notin DOMAIN links
  BY DEF IsRealPath, Prefix
<1>4. Resolve(links, Prefix(path, Len(path))) = Prefix(path, Len(path))
  BY <1>1, <1>2, <1>3, RealIsItself
<1>5. Prefix(path, Len(path)) = path
  BY <1>1 DEF Prefix
<1> QED
  BY <1>4, <1>5

\* A configuration that loaded.
RootsOf(f, raw) == {Canonicalize(f, Absolute(root, LaunchDirectory)) : root \in raw.allowedRoots}

\* What the checks of a configuration that loaded say.
LEMMA LoadedOk ==
    ASSUME NEW f, NEW raw, Load(f, raw).error = "ok"
    PROVE  /\ GivenCanonical(f, raw.cacheRoot) # NotFound
           /\ NotFound \notin RootsOf(f, raw)
           /\ \A root \in RootsOf(f, raw) : ~Within(GivenCanonical(f, raw.cacheRoot), root)
           /\ ValidateRunner(raw) = "ok"
<1> DEFINE roots == RootsOf(f, raw)
           cacheRoot == GivenCanonical(f, raw.cacheRoot)
           found == cacheRoot # NotFound
           rooted == NotFound \notin roots
           apart == \A root \in roots : ~Within(cacheRoot, root)
           starlark == ValidateStarlarkFiles(f, raw.starlarkFiles, raw.configDirectory)
           checks == <<UnknownField(raw), starlark, Check(found, "cache root"),
                       Check(rooted, "allowed root"), Check(raw.executablesLead, "executable path"),
                       Check(apart, "cache root inside"), Check(raw.redactionValid, "redaction pattern"),
                       Check(raw.starlarkLimitsValid, "reducer limits"), ValidateRunner(raw),
                       Check(raw.retentionValid, "retention"), ValidateMcp(raw)>>
<1>1. FirstError(checks) = "ok"
  BY DEF Load, ConfigOf, LoadError, RootsOf
<1> HIDE DEF found, rooted, apart, starlark
<1>2. DOMAIN checks = 1 .. 11
  OBVIOUS
<1>7. /\ checks[3] = Check(found, "cache root") /\ checks[4] = Check(rooted, "allowed root")
      /\ checks[6] = Check(apart, "cache root inside") /\ checks[9] = ValidateRunner(raw)
  OBVIOUS
<1> HIDE DEF checks
<1>3. DOMAIN checks \subseteq Nat
  BY ONLY <1>2
<1>4. \A k \in DOMAIN checks : checks[k] = "ok"
  BY <1>1, <1>3, NoError
<1>5. checks[3] = "ok" /\ checks[4] = "ok" /\ checks[6] = "ok" /\ checks[9] = "ok"
  BY ONLY <1>2, <1>4
<1>6. found /\ rooted /\ apart /\ ValidateRunner(raw) = "ok"
  BY <1>7, <1>5 DEF Check
<1> QED
  BY <1>6 DEF found, rooted, apart

(***************************************************************************)
(* The cache root is in no allowed root, wherever their spellings lead.    *)
(***************************************************************************)
LEMMA CacheRootIsApart ==
    ASSUME NEW f, IsFileSystem(f), NEW raw, raw.cacheRoot.parts \in Seq(STRING),
           \A root \in raw.allowedRoots : root.parts \in Seq(STRING), Load(f, raw).error = "ok"
    PROVE  \A root \in raw.allowedRoots :
               ~Within(Real(f, Load(f, raw).cacheRoot), Real(f, Absolute(root, LaunchDirectory)))
<1>1. SUFFICES ASSUME NEW root \in raw.allowedRoots
               PROVE  ~Within(Real(f, Load(f, raw).cacheRoot), Real(f, Absolute(root, LaunchDirectory)))
  OBVIOUS
<1> DEFINE home == GivenCanonical(f, raw.cacheRoot)
           real == Canonicalize(f, Absolute(root, LaunchDirectory))
           parts == Absolute(raw.cacheRoot, LaunchDirectory)
<1>2. Load(f, raw).cacheRoot = home
  BY DEF Load, ConfigOf
<1>3. real \in RootsOf(f, raw)
  BY DEF RootsOf
<1>4. home # NotFound /\ real # NotFound /\ ~Within(home, real)
  BY <1>3, LoadedOk
<1>5. real = Real(f, Absolute(root, LaunchDirectory))
  BY <1>4 DEF Canonicalize
<1>6. parts \in Seq(STRING)
  <2>1. LaunchDirectory \o raw.cacheRoot.parts \in Seq(STRING)
    BY LaunchAssumption
  <2> QED
    BY <2>1 DEF Absolute
<1>7. LinksOk(f.links) /\ \A l \in DOMAIN f.links : IsRealPath(f.links, f.links[l])
  BY DEF IsFileSystem, LinksOk, IsRealPath
<1>8. NormalizeAbsolute(parts) \in Seq(STRING)
  BY <1>6, NormalizedHasNoDots, NamesAreStrings
<1>9. home = Resolve(f.links, NormalizeAbsolute(parts))
  BY <1>4, <1>6, <1>7, CanonicalIsReal DEF GivenCanonical
<1>10. IsRealPath(f.links, home)
  BY <1>7, <1>8, <1>9, ResolvedIsReal
<1>11. Real(f, home) = home
  BY <1>10, RealStays DEF Real
<1> QED
  BY <1>2, <1>4, <1>5, <1>11

\* Slices of a list of arguments.
LEMMA SliceIsSeq ==
    ASSUME NEW T, NEW s \in Seq(T), NEW a \in Nat \ {0}, NEW b \in 0 .. Len(s)
    PROVE  SubSeq(s, a, b) \in Seq(T)
<1>1. CASE a <= b
  BY <1>1
<1>2. CASE a > b
  BY <1>2
<1> QED
  BY <1>1, <1>2

\* First finds the first position that holds what is wanted, one past the end if none does.
LEMMA FirstIn ==
    ASSUME NEW T, NEW s \in Seq(T), NEW wanted
    PROVE  /\ First(s, wanted) \in 1 .. Len(s) + 1
           /\ First(s, wanted) \in DOMAIN s => s[First(s, wanted)] \in wanted
           /\ \A k \in DOMAIN s : k < First(s, wanted) => s[k] \notin wanted
<1> DEFINE M == {k \in DOMAIN s : s[k] \in wanted} \cup {Len(s) + 1}
<1>1. M \subseteq Nat /\ M # {} /\ M \subseteq 1 .. Len(s) + 1
  OBVIOUS
<1>2. First(s, wanted) = Min(M)
  BY DEF First
<1>3. Len(s) + 1 \notin DOMAIN s
  OBVIOUS
<1>4. \A k \in DOMAIN s : k \in M <=> s[k] \in wanted
  BY <1>3
<1> HIDE DEF M
<1>5. Min(M) \in M /\ \A y \in M : Min(M) <= y
  BY <1>1, LeastIs
<1>6. \A k \in DOMAIN s : k < Min(M) => k \notin M
  <2>1. \A y \in M : ~(y < Min(M))
    <3>1. TAKE y \in M
    <3>2. y \in Nat /\ Min(M) \in Nat /\ Min(M) <= y
      BY <1>1, <1>5
    <3> QED
      BY <3>2
  <2> QED
    BY <2>1
<1> QED
  BY <1>1, <1>2, <1>4, <1>5, <1>6

\* The tail of a list is one.
LEMMA TailIsSeq ==
    ASSUME NEW T, NEW s \in Seq(T), s # <<>>
    PROVE  Tail(s) \in Seq(T)
  OBVIOUS

\* What an agent passes on is a list of arguments.
LEMMA AgentArgumentsAre ==
    ASSUME S.launch.arguments \in Seq(Arguments)
    PROVE  AgentArguments \in Seq(Arguments)
<1> DEFINE given == S.launch.arguments
           explicit == given # <<>> /\ Head(given) = Word("passthrough")
           rest == IF explicit THEN Tail(given) ELSE given
           cut == IF explicit /\ rest # <<>> /\ Head(rest) = Delimiter THEN Tail(rest) ELSE rest
<1>1. rest \in Seq(Arguments)
  <2> HIDE DEF given
  <2>1. given \in Seq(Arguments)
    BY DEF given
  <2>2. given # <<>> => Tail(given) \in Seq(Arguments)
    BY <2>1, TailIsSeq
  <2> QED
    BY <2>1, <2>2
<1>2. cut \in Seq(Arguments)
  <2> HIDE DEF rest, explicit
  <2>2. rest # <<>> => Tail(rest) \in Seq(Arguments)
    BY <1>1, TailIsSeq
  <2> QED
    BY <1>1, <2>2
<1>3. Launch.arguments \in {<<>>, cut}
  BY DEF Launch, DetectLaunch
<1> HIDE DEF cut
<1>4. Launch.arguments \in Seq(Arguments)
  BY <1>2, <1>3, EmptyIsSeq
<1>5. Launch.arguments # <<>> => Tail(Launch.arguments) \in Seq(Arguments)
  BY <1>4, TailIsSeq
<1> QED
  BY <1>4, <1>5 DEF AgentArguments, AgentRaw

\* What the parsing of arguments gives: lists of arguments and at most one target.
IsParsed(parsed) ==
    /\ parsed.startup \in Seq(Arguments) /\ parsed.arguments \in Seq(Arguments)
    /\ parsed.target \in Seq(Arguments) /\ parsed.program \in Seq(Arguments)
    /\ Len(parsed.target) <= 1

\* Parsed puts such a result together.
LEMMA ParsedOf ==
    ASSUME NEW a \in Seq(Arguments), NEW b \in Seq(Arguments), NEW c \in Seq(Arguments),
           NEW d \in Seq(Arguments), NEW command, Len(c) <= 1
    PROVE  IsParsed(Parsed(a, command, b, c, d))
  BY DEF Parsed, IsParsed

\* Parsing the arguments of run gives such a result.
LEMMA RunIsParsed ==
    ASSUME NEW startup \in Seq(Arguments), NEW arguments \in Seq(Arguments)
    PROVE  IsParsed(ParseRun(startup, arguments))
<1> DEFINE delimiter == First(arguments, {Delimiter})
           own == SubSeq(arguments, 1, delimiter - 1)
           target == First(own, Words(own))
<1>1. delimiter \in 1 .. Len(arguments) + 1
  BY FirstIn
<1> HIDE DEF delimiter
<1>2. delimiter - 1 \in 0 .. Len(arguments) /\ delimiter + 1 \in Nat \ {0} /\ Len(arguments) \in 0 .. Len(arguments)
  BY <1>1
<1>0. PICK one \in Nat \ {0} : one = 1
  OBVIOUS
<1>3. own \in Seq(Arguments)
  BY <1>0, <1>2, SliceIsSeq
<1>4. From(arguments, delimiter + 1) \in Seq(Arguments)
  BY <1>2, SliceIsSeq DEF From
<1> HIDE DEF own
<1>5. target \in 1 .. Len(own) + 1
  BY <1>3, FirstIn
<1> HIDE DEF target
<1>6. /\ Len(own) \in Nat
      /\ target - 1 \in 0 .. Len(own) /\ target + 1 \in Nat \ {0} /\ Len(own) \in 0 .. Len(own)
      /\ target \in Nat \ {0}
  BY <1>3, <1>5
<1>7. Min({target, Len(own)}) \in 0 .. Len(own)
  <2>1. {target, Len(own)} \subseteq Nat /\ {target, Len(own)} # {}
    BY <1>6
  <2>2. Min({target, Len(own)}) \in {target, Len(own)} /\ Min({target, Len(own)}) <= Len(own)
    BY <2>1, LeastIs
  <2> QED
    BY <1>6, <2>2
<1>8. SubSeq(own, 1, target - 1) \in Seq(Arguments)
  BY <1>0, <1>3, <1>6, SliceIsSeq
<1>9. From(own, target + 1) \in Seq(Arguments)
  BY <1>3, <1>6, SliceIsSeq DEF From
<1>10. SubSeq(own, target, Min({target, Len(own)})) \in Seq(Arguments)
  BY <1>3, <1>6, <1>7, SliceIsSeq
<1>13. Len(SubSeq(own, target, Min({target, Len(own)}))) <= 1
  <2>1. PICK b \in 0 .. Len(own) : b = Min({target, Len(own)}) /\ b <= target
    <3>1. {target, Len(own)} \subseteq Nat /\ {target, Len(own)} # {}
      BY <1>6
    <3>2. Min({target, Len(own)}) <= target
      BY <3>1, LeastIs
    <3> QED
      BY <1>7, <3>2
  <2>2. CASE target <= b
    BY <1>3, <1>6, <2>1, <2>2
  <2>3. CASE target > b
    BY <1>3, <1>6, <2>1, <2>3
  <2> QED
    BY <1>6, <2>1, <2>2, <2>3
<1>11. SubSeq(own, 1, target - 1) \o From(own, target + 1) \in Seq(Arguments)
  BY <1>8, <1>9
<1>12. ParseRun(startup, arguments)
         = Parsed(startup, "run", SubSeq(own, 1, target - 1) \o From(own, target + 1),
                  SubSeq(own, target, Min({target, Len(own)})), From(arguments, delimiter + 1))
  BY DEF ParseRun, own, target, delimiter
<1> QED
  BY <1>4, <1>10, <1>11, <1>12, <1>13, ParsedOf

\* Parsing any arguments does.
LEMMA ArgumentsAreParsed ==
    ASSUME NEW arguments \in Seq(Arguments), NEW policy
    PROVE  IsParsed(ParseBazelArguments(arguments, policy))
<1> DEFINE wanted == {Word(name) : name \in policy.allowed \cup policy.denied}
           at == First(arguments, wanted)
           startup == SubSeq(arguments, 1, at - 1)
           rest == From(arguments, at + 1)
           failed(error) == [Parsed(<<>>, "help", <<>>, <<>>, <<>>) EXCEPT !.error = error]
<1>1. at \in 1 .. Len(arguments) + 1
  BY FirstIn
<1> HIDE DEF at
<1>2. at - 1 \in 0 .. Len(arguments) /\ at + 1 \in Nat \ {0} /\ Len(arguments) \in 0 .. Len(arguments)
  BY <1>1
<1>0. PICK one \in Nat \ {0} : one = 1
  OBVIOUS
<1>3. startup \in Seq(Arguments) /\ rest \in Seq(Arguments)
  BY <1>0, <1>2, SliceIsSeq DEF From
<1>4. PICK none \in Seq(Arguments) : none = <<>> /\ Len(none) <= 1
  BY EmptyIsSeq
<1>5. \A command : IsParsed(Parsed(<<>>, command, <<>>, <<>>, <<>>))
  BY <1>4, ParsedOf
<1>6. \A error : IsParsed(failed(error))
  <2>1. TAKE error
  <2>2. IsParsed(Parsed(<<>>, "help", <<>>, <<>>, <<>>))
    BY <1>5
  <2> QED
    BY <2>2 DEF Parsed, IsParsed
<1> HIDE DEF startup, rest, failed
<1>7. IsParsed(ParseRun(startup, rest))
  BY <1>3, RunIsParsed
<1>8. \A command : IsParsed(Parsed(startup, command, rest, <<>>, <<>>))
  BY <1>3, <1>4, ParsedOf
<1>9. \/ \E command : ParseBazelArguments(arguments, policy) = Parsed(<<>>, command, <<>>, <<>>, <<>>)
      \/ \E error : ParseBazelArguments(arguments, policy) = failed(error)
      \/ ParseBazelArguments(arguments, policy) = ParseRun(startup, rest)
      \/ \E command : ParseBazelArguments(arguments, policy) = Parsed(startup, command, rest, <<>>, <<>>)
  BY DEF ParseBazelArguments, startup, rest, failed, at
<1> QED
  BY <1>5, <1>6, <1>7, <1>8, <1>9

\* An agent's workspace is a path.
LEMMA DiscoveredIsPath ==
    ASSUME NEW f, LinksOk(f.links), DiscoverWorkspace(f, LaunchDirectory) # NotFound
    PROVE  DiscoverWorkspace(f, LaunchDirectory) \in Seq(STRING)
<1> DEFINE real == Canonicalize(f, LaunchDirectory)
           roots == {n \in 0 .. Len(real) : IsWorkspace(f, SubSeq(real, 1, n))}
<1>2. real # NotFound => real \in Seq(STRING)
  BY LaunchAssumption, ResolveIsPath DEF Canonicalize, Real, LinksOk
<1>3. CASE real = NotFound \/ roots = {}
  BY <1>3 DEF DiscoverWorkspace
<1>4. CASE real # NotFound /\ roots # {}
  <2>1. DiscoverWorkspace(f, LaunchDirectory) = SubSeq(real, 1, Max(roots))
    BY <1>4 DEF DiscoverWorkspace
  <2>2. real \in Seq(STRING) /\ Len(real) \in Nat /\ roots \subseteq 0 .. Len(real)
    BY <1>2, <1>4
  <2> HIDE DEF real, roots
  <2>3. Max(roots) \in 0 .. Len(real)
    BY <1>4, <2>2, GreatestIs
  <2>0. PICK one \in Nat \ {0} : one = 1
    OBVIOUS
  <2> QED
    BY <2>0, <2>1, <2>2, <2>3, SliceIsSeq
<1> QED
  BY <1>3, <1>4

\* A request that goes on from Prepare has passed its checks and has its places.
LEMMA PreparePasses ==
    ASSUME RequestShape, NEW r \in Slots, Prepare(r), req'[r].phase = "probing"
    PROVE  /\ ArgumentsError(Call(r)) = "ok" /\ Placed(Call(r)).error = "ok"
           /\ req'[r].workspace = Placed(Call(r)).workspace /\ req'[r].key = Placed(Call(r)).key
           /\ req'[r].bazel = Placed(Call(r)).bazel
           /\ \A f \in DOMAIN Idle \ {"phase", "workspace", "base", "key", "bazel", "cell"} :
                  req'[r][f] = req[r][f]
<1> DEFINE arguments == ArgumentsError(Call(r))
           places == Placed(Call(r))
           uncancelled == Check(~req[r].cancelled, "CancelledBeforeAcceptance")
           error == FirstError(<<uncancelled, arguments, places.error>>)
           probe == <<places.bazel, places.workspace>>
           cell  == IF probe \in DOMAIN cache THEN cache[probe] ELSE Len(cells) + 1
           checked == [req[r] EXCEPT !.phase = "probing", !.workspace = places.workspace,
                                     !.base = places.base, !.key = places.key,
                                     !.bazel = places.bazel]
           looking == [checked EXCEPT !.cell = cell]
<1>1. \/ Become(r, Answered(r, error))
      \/ error = "ok" /\ (Become(r, checked) \/ Become(r, looking))
  BY DEF Prepare, Submit
<1> HIDE DEF arguments, uncancelled, places
<1>2. error = "ok" => arguments = "ok" /\ places.error = "ok"
  BY NoError3
<1> HIDE DEF error, cell
<1>3. /\ DOMAIN checked = DOMAIN Idle
      /\ checked.workspace = places.workspace /\ checked.bazel = places.bazel
      /\ checked.key = places.key
      /\ \A f \in DOMAIN Idle \ {"phase", "workspace", "base", "key", "bazel", "cell"} :
             checked[f] = req[r][f]
  BY DEF RequestShape, Idle
<1> HIDE DEF checked
<1>4. /\ DOMAIN looking = DOMAIN Idle
      /\ looking.workspace = places.workspace /\ looking.bazel = places.bazel
      /\ looking.key = places.key
      /\ \A f \in DOMAIN Idle \ {"phase", "workspace", "base", "key", "bazel", "cell"} :
             looking[f] = req[r][f]
  BY <1>3 DEF Idle
<1> HIDE DEF looking
<1>5. CASE Become(r, Answered(r, error))
  BY <1>5, AnsweredShape, BecomeReplaces
<1>6. CASE error = "ok" /\ Become(r, checked)
  BY <1>2, <1>3, <1>6, BecomeReplaces DEF arguments, places
<1>7. CASE error = "ok" /\ Become(r, looking)
  BY <1>2, <1>4, <1>7, BecomeReplaces DEF arguments, places
<1> QED
  BY <1>1, <1>5, <1>6, <1>7

\* The steps of a request that was received and is not at its checks.
LaterStep(r) ==
    \/ Cancel(r) \/ Accept(r) \/ Spawn(r) \/ Exit(r) \/ Pack(r) \/ Forget(r)
    \/ \E method, capable : TaskCall(r, method, capable)

\* They keep the call and its places, and only Spawn starts a child.
LEMMA LaterStepEffect ==
    ASSUME RequestShape, NEW r \in Slots, LaterStep(r)
    PROVE  /\ \A f \in {"call", "workspace", "key", "bazel", "dispatch"} : req'[r][f] = req[r][f]
           /\ req'[r].phase \in Checked => req[r].phase \in Checked \cup {"dispatched"}
           /\ req'[r].phase \in Checked /\ req[r].phase = "dispatched" => FALSE
           /\ req'[r].phase = "dispatched" => req[r].phase = "dispatched"
           /\ req'[r].phase = "running" => req[r].phase = "running" \/ Spawn(r)
<1>1. CASE Cancel(r)
  BY <1>1, CancelEffect DEF Only, Idle, Checked
<1>2. CASE Accept(r)
  BY <1>2, AcceptEffect DEF Only, Idle, Checked
<1>3. CASE Spawn(r)
  BY <1>3, SpawnEffect DEF Only, Idle, Checked, FinishedIn
<1>4. CASE Exit(r)
  BY <1>4, ExitEffect DEF Only, Idle, Checked, FinishedIn
<1>5. CASE Pack(r)
  BY <1>5, PackEffect DEF Only, Idle, Checked
<1>6. CASE Forget(r)
  BY <1>6, ForgetEffect DEF Only, Idle, Checked
<1>7. CASE \E method, capable : TaskCall(r, method, capable)
  BY <1>7, TaskCallEffect DEF Only, Idle, Checked
<1> QED
  BY <1>1, <1>2, <1>3, <1>4, <1>5, <1>6, <1>7 DEF LaterStep

\* What is known of a request's call, and of the key of its lock.
CallOk(q) == q.phase \in Checked \cup {"dispatched"} => IsCall(q.call[1])

\* The key is the output base that was named, or else the workspace.
KeyOk(links, q) ==
    q.phase \in Checked =>
        /\ q.workspace \in Seq(STRING)
        /\ q.key = IF OptionAt(q.call[1].startup, OutputBase) = {} THEN q.workspace
                   ELSE NamedBase(links, q.call[1].startup, q.workspace)

\* Links come and go with nothing the server does, and a configuration is loaded once.
WorldOk ==
    /\ scenario \in Scenarios /\ sent \in Nat
    /\ fs.links = S.fs.links /\ DOMAIN fs = {"dirs", "links", "files"}

\* A server runs on the configuration that was loaded.
ConfigLoaded ==
    /\ mode \in {"down", "server"} => config = Load(S.fs, S.raw)
    /\ mode = "server" => config.error = "ok"

\* No two children run under one key.
KeysDiffer ==
    \A r, s \in Slots : r # s /\ At(r, "running") /\ At(s, "running") => req[r].key # req[s].key

\* The invariant of the locks.
LockInv ==
    /\ WorldOk /\ ConfigLoaded
    /\ \A r \in Slots : CallOk(req[r]) /\ KeyOk(fs.links, req[r])
    /\ KeysDiffer

\* The lock's key of a request whose places were found.
LEMMA PlacedKey ==
    ASSUME NEW r \in Slots, LinksOk(fs.links), IsCall(Call(r)), Placed(Call(r)).error = "ok"
    PROVE  /\ Placed(Call(r)).workspace \in Seq(STRING)
           /\ Placed(Call(r)).key
                = IF OptionAt(Call(r).startup, OutputBase) = {} THEN Placed(Call(r)).workspace
                  ELSE NamedBase(fs.links, Call(r).startup, Placed(Call(r)).workspace)
<1> DEFINE call == Call(r)
           workspace == ValidateWorkspace(fs, call.workspace, config.policy.roots)
           selected == EffectiveOutputBase(fs, workspace.workspace, call.startup)
           bazel == ResolveBazelExecutable(S.host, workspace.workspace, config.policy.bazel, "none")
<1>1. /\ Placed(call).error = FirstError(<<workspace.error, selected.error, bazel.error>>)
      /\ Placed(call).workspace = workspace.workspace
      /\ Placed(call).key = IF selected.base = <<>> THEN workspace.workspace ELSE selected.base[1]
  BY DEF Placed, Places
<1> HIDE DEF call
<1>2. call.workspace.parts \in Seq(STRING) /\ call.startup \in Seq(Arguments)
  BY DEF IsCall, call
<1>3. workspace.error = "ok" /\ selected.error = "ok"
  <2> HIDE DEF workspace, selected, bazel
  <2> QED
    BY <1>1, NoError3 DEF call
<1>4. workspace.workspace \in Seq(STRING)
  BY <1>2, <1>3, WorkspaceIsReal
<1> HIDE DEF workspace, bazel
<1>5. selected.base = IF OptionAt(call.startup, OutputBase) = {} THEN <<>>
                      ELSE <<NamedBase(fs.links, call.startup, workspace.workspace)>>
  BY <1>2, <1>3, <1>4, BaseIsReal
<1> HIDE DEF selected
<1> QED
  BY <1>1, <1>4, <1>5 DEF call

\* The links of the file system lead to paths.
LEMMA LinksLead ==
    ASSUME WorldOk
    PROVE  LinksOk(fs.links)
  BY SurfaceAssumption DEF WorldOk, S, IsFileSystem, IsRealPath, LinksOk

\* The invariant of the locks holds at the start.
LEMMA LockInit ==
    ASSUME Init
    PROVE  LockInv
<1>1. \A r \in Slots : req[r] = Idle
  BY DEF Init
<1>2. WorldOk
  BY SurfaceAssumption DEF Init, WorldOk, S, IsFileSystem
<1>3. ConfigLoaded
  BY DEF Init, ConfigLoaded
<1>4. \A r \in Slots : req[r].phase = "idle"
  BY <1>1 DEF Idle
<1> QED
  BY <1>2, <1>3, <1>4 DEF LockInv, CallOk, KeyOk, KeysDiffer, At, Checked

\* A step of one request that keeps it as it has to be, and does not start it while
\* another one with its key is running.
LEMMA OneStepKeepsLocks ==
    ASSUME LockInv, NEW r \in Slots, UNCHANGED <<scenario, mode, config, fs>>, sent' \in Nat,
           \A s \in Slots \ {r} : req'[s] = req[s],
           CallOk(req'[r]), KeyOk(fs.links, req'[r]),
           req'[r].phase = "running" =>
               /\ req'[r].key = req[r].key
               /\ \/ req[r].phase = "running"
                  \/ \A s \in Slots : At(s, "running") => req[s].key # req[r].key
    PROVE  LockInv'
<1>1. WorldOk' /\ ConfigLoaded'
  BY DEF LockInv, WorldOk, ConfigLoaded, S
<1>2. \A s \in Slots : CallOk(req'[s]) /\ KeyOk(fs'.links, req'[s])
  BY DEF LockInv
<1>3. ASSUME NEW a \in Slots, NEW b \in Slots, a # b, req'[a].phase = "running",
             req'[b].phase = "running"
      PROVE  req'[a].key # req'[b].key
  BY <1>3 DEF LockInv, KeysDiffer, At
<1>4. KeysDiffer'
  BY <1>3 DEF KeysDiffer, At
<1> QED
  BY <1>1, <1>2, <1>4 DEF LockInv

\* A call that arrives is a call, and runs nothing yet.
LEMMA ReceiveKeepsLocks ==
    ASSUME RequestShape, LockInv, NEW r \in Slots, sent < Len(S.calls),
           NEW call \in S.calls[sent + 1], Receive(r, call)
    PROVE  LockInv'
<1>1. UNCHANGED <<scenario, mode, config, fs>> /\ sent' = sent + 1
  BY DEF Receive
<1>2. /\ \A s \in Slots \ {r} : req'[s] = req[s]
      /\ req'[r].phase \in {"dispatched", "answered"} /\ req'[r].call = <<call>>
  BY ReceiveEffect
<1>3. IsCall(call)
  <2>1. scenario \in Scenarios /\ sent \in Nat
    BY DEF LockInv, WorldOk
  <2>2. scenario.calls \in Seq(ToSet(scenario.calls))
    BY <2>1, SurfaceAssumption
  <2>3. sent + 1 \in DOMAIN scenario.calls
    BY <2>1, <2>2 DEF S
  <2> QED
    BY <2>1, <2>3, SurfaceAssumption DEF S
<1>4. CallOk(req'[r]) /\ KeyOk(fs.links, req'[r]) /\ req'[r].phase # "running"
  BY <1>2, <1>3 DEF CallOk, KeyOk, Checked
<1>5. sent' \in Nat
  BY <1>1 DEF LockInv, WorldOk
<1> QED
  BY <1>1, <1>2, <1>4, <1>5, OneStepKeepsLocks

\* A request that is prepared has the key of its places.
LEMMA PrepareKeepsLocks ==
    ASSUME RequestShape, LockInv, NEW r \in Slots, Prepare(r)
    PROVE  LockInv'
<1>1. UNCHANGED <<scenario, mode, config, fs, sent>>
  BY DEF Prepare
<1>2. /\ \A s \in Slots \ {r} : req'[s] = req[s]
      /\ req[r].phase = "dispatched" /\ req'[r].phase \in {"answered", "probing"}
      /\ req'[r].call = req[r].call
  BY PrepareEffect DEF Only, Idle
<1>3. CallOk(req[r]) /\ LinksOk(fs.links)
  BY LinksLead DEF LockInv
<1>4. CallOk(req'[r]) /\ IsCall(Call(r))
  BY <1>2, <1>3 DEF CallOk, Call
<1>5. KeyOk(fs.links, req'[r])
  <2>1. SUFFICES ASSUME req'[r].phase = "probing" PROVE KeyOk(fs.links, req'[r])
    BY <1>2 DEF KeyOk, Checked
  <2>2. /\ Placed(Call(r)).error = "ok" /\ req'[r].workspace = Placed(Call(r)).workspace
        /\ req'[r].key = Placed(Call(r)).key
    BY <2>1, PreparePasses
  <2>3. Call(r) = req'[r].call[1]
    BY <1>2 DEF Call
  <2> QED
    BY <1>3, <1>4, <2>2, <2>3, PlacedKey DEF KeyOk
<1>6. sent' \in Nat /\ req'[r].phase # "running"
  BY <1>1, <1>2 DEF LockInv, WorldOk
<1> QED
  BY <1>1, <1>2, <1>4, <1>5, <1>6, OneStepKeepsLocks

\* The steps after it keep its call, workspace and key; Spawn waits for the key.
LEMMA LaterStepKeepsLocks ==
    ASSUME RequestShape, LockInv, NEW r \in Slots, LaterStep(r)
    PROVE  LockInv'
<1>1. UNCHANGED <<scenario, mode, config, fs, sent>>
  BY DEF LaterStep, Cancel, Accept, Spawn, Exit, Pack, Forget, TaskCall
<1>2. \A s \in Slots \ {r} : req'[s] = req[s]
  BY RequestStepIsLocal DEF LaterStep, RequestStep
<1>3. /\ req'[r].call = req[r].call /\ req'[r].workspace = req[r].workspace
      /\ req'[r].key = req[r].key
      /\ req'[r].phase \in Checked => req[r].phase \in Checked
      /\ req'[r].phase = "dispatched" => req[r].phase = "dispatched"
      /\ req'[r].phase = "running" => req[r].phase = "running" \/ Spawn(r)
  BY LaterStepEffect
<1>4. CallOk(req[r]) /\ KeyOk(fs.links, req[r])
  BY DEF LockInv
<1>5. CallOk(req'[r])
  BY <1>3, <1>4 DEF CallOk
<1>6. KeyOk(fs.links, req'[r])
  BY <1>3, <1>4 DEF KeyOk
<1>7. Spawn(r) => \A s \in Slots : At(s, "running") => req[s].key # req[r].key
  BY DEF Spawn
<1>8. sent' \in Nat
  BY <1>1 DEF LockInv, WorldOk
<1> QED
  BY <1>1, <1>2, <1>3, <1>5, <1>6, <1>7, <1>8, OneStepKeepsLocks

\* A request that was delivered is idle.
LEMMA DeliverKeepsLocks ==
    ASSUME RequestShape, LockInv, NEW r \in Slots, Deliver(r)
    PROVE  LockInv'
<1>1. UNCHANGED <<scenario, config, fs, sent>> /\ mode' \in {mode, "exited"}
  BY DEF Deliver
<1>2. /\ req[r].phase = "answered"
      /\ \/ req' = req
         \/ req'[r] = Idle /\ \A s \in Slots \ {r} : req'[s] = req[s]
  BY DeliverEffect
<1>3. WorldOk' /\ ConfigLoaded'
  BY <1>1 DEF LockInv, WorldOk, ConfigLoaded, S
<1>4. \A s \in Slots : req'[s] = req[s] \/ req'[s].phase = "idle"
  BY <1>2 DEF Idle
<1>5. \A s \in Slots : CallOk(req'[s]) /\ KeyOk(fs'.links, req'[s])
  BY <1>1, <1>4 DEF LockInv, CallOk, KeyOk, Checked
<1>6. KeysDiffer'
  BY <1>4 DEF LockInv, KeysDiffer, At
<1> QED
  BY <1>3, <1>5, <1>6 DEF LockInv

\* The agent's own request is a call.
LEMMA StartAgentKeepsLocks ==
    ASSUME RequestShape, DownIsIdle, LockInv, StartAgent
    PROVE  LockInv'
<1> DEFINE workspace == DiscoverWorkspace(fs, LaunchDirectory)
           parsed == ParseBazelArguments(AgentArguments, config.policy)
           error == AgentError(workspace, parsed)
           new == [Idle EXCEPT !.phase = "dispatched", !.dispatch = "agent",
                               !.call = <<AgentCall(workspace, parsed)>>]
           m == Min(Slots)
<1>1. /\ mode = "down" /\ UNCHANGED <<scenario, fs, sent>> /\ mode' \notin {"down", "server"}
      /\ req' = req \/ (error = "ok" /\ ~AgentRaw /\ Become(m, new))
  BY DEF StartAgent
<1>2. LinksOk(fs.links)
  BY LinksLead DEF LockInv
<1>3. \A s \in Slots : req[s] = Idle
  BY <1>1 DEF DownIsIdle
<1>4. error = "ok" /\ ~AgentRaw => IsCall(AgentCall(workspace, parsed))
  <2>1. SUFFICES ASSUME error = "ok", ~AgentRaw PROVE IsCall(AgentCall(workspace, parsed))
    OBVIOUS
  <2>2. AgentArguments \in Seq(Arguments)
    BY SurfaceAssumption, AgentArgumentsAre DEF LockInv, WorldOk, S
  <2>3. IsParsed(parsed)
    BY <2>2, ArgumentsAreParsed
  <2>4. workspace # NotFound
    <3> DEFINE located == AgentRaw \/ workspace # NotFound
    <3>1. error = FirstError(<<Check(config.error = "ok", "configuration"),
                               AgentBazel(workspace).error, Check(located, "no workspace"),
                               IF AgentRaw THEN "ok" ELSE parsed.error>>)
      BY DEF AgentError
    <3> HIDE DEF located, workspace, parsed, error
    <3>2. Check(located, "no workspace") = "ok"
      <4>1. PICK a, b, c, d :
                /\ a = Check(config.error = "ok", "configuration") /\ b = AgentBazel(workspace).error
                /\ c = Check(located, "no workspace") /\ d = IF AgentRaw THEN "ok" ELSE parsed.error
        OBVIOUS
      <4>2. FirstError(<<a, b, c, d>>) = "ok"
        BY <2>1, <3>1, <4>1
      <4>3. c = "ok"
        BY <4>2, NoError4
      <4> QED
        BY <4>1, <4>3
    <3> QED
      BY <2>1, <3>2 DEF located, Check
  <2>5. workspace \in Seq(STRING)
    BY <1>2, <2>4, DiscoveredIsPath
  <2> HIDE DEF workspace, parsed
  <2>6. <<>> \in Seq(Nat)
    OBVIOUS
  <2> QED
    BY <2>3, <2>5, <2>6 DEF AgentCall, IsCall, IsParsed
<1> HIDE DEF workspace, parsed, error
<1>5. DOMAIN new = DOMAIN Idle /\ new.phase = "dispatched" /\ new.call = <<AgentCall(workspace, parsed)>>
  BY DEF Idle
<1> HIDE DEF new, m
<1>6. \A s \in Slots : req'[s].phase = "idle" \/ (req'[s] = new /\ error = "ok" /\ ~AgentRaw)
  <2>1. CASE req' = req
    BY <1>3, <2>1 DEF Idle
  <2>2. CASE error = "ok" /\ ~AgentRaw /\ Become(m, new)
    BY <1>3, <2>2 DEF Become, RequestShape, Idle
  <2> QED
    BY <1>1, <2>1, <2>2
<1>7. WorldOk' /\ ConfigLoaded'
  BY <1>1 DEF LockInv, WorldOk, ConfigLoaded, S
<1>8. \A s \in Slots : CallOk(req'[s]) /\ KeyOk(fs'.links, req'[s])
  BY <1>4, <1>5, <1>6 DEF CallOk, KeyOk, Checked
<1>9. KeysDiffer'
  BY <1>5, <1>6 DEF KeysDiffer, At
<1> QED
  BY <1>7, <1>8, <1>9 DEF LockInv

\* Steps that change no request.
LEMMA OutsideStepKeepsLocks ==
    ASSUME LockInv, UNCHANGED <<scenario, req, config, sent>>,
           fs'.links = fs.links, DOMAIN fs' = DOMAIN fs,
           mode' = mode \/ (mode = "down" /\ mode' = "server" /\ config.error = "ok")
               \/ mode' \notin {"down", "server"}
    PROVE  LockInv'
<1>1. WorldOk' /\ ConfigLoaded'
  BY DEF LockInv, WorldOk, ConfigLoaded, S
<1>2. \A s \in Slots : CallOk(req'[s]) /\ KeyOk(fs'.links, req'[s])
  BY DEF LockInv
<1>3. KeysDiffer'
  BY DEF LockInv, KeysDiffer, At
<1> QED
  BY <1>1, <1>2, <1>3 DEF LockInv

\* Every step keeps the invariant of the locks.
LEMMA NextKeepsLocks ==
    ASSUME RequestShape, DownIsIdle, LockInv, [Next]_vars
    PROVE  LockInv'
<1>1. CASE StartServer
  <2>1. /\ UNCHANGED <<scenario, req, config, sent, fs>> /\ mode = "down"
        /\ mode' = "refused" \/ (mode' = "server" /\ config.error = "ok")
    BY <1>1 DEF StartServer, Serve
  <2> QED
    BY <2>1, OutsideStepKeepsLocks
<1>2. CASE RunUnfiltered
  BY <1>2, OutsideStepKeepsLocks DEF RunUnfiltered
<1>3. CASE StartAgent
  BY <1>3, StartAgentKeepsLocks
<1>4. CASE \E version \in S.versions : Initialize(version)
  BY <1>4, OutsideStepKeepsLocks DEF Initialize
<1>5. CASE \E r \in Slots : sent < Len(S.calls) /\ \E call \in S.calls[sent + 1] : Receive(r, call)
  BY <1>5, ReceiveKeepsLocks
<1>6. CASE \E r \in Slots : LaterStep(r)
  BY <1>6, LaterStepKeepsLocks
<1>7. CASE \E r \in Slots : Prepare(r)
  BY <1>7, PrepareKeepsLocks
<1>8. CASE \E r \in Slots : Deliver(r)
  BY <1>8, DeliverKeepsLocks
<1>9. CASE \E r \in Slots : CreateOutputBase(r)
  <2>1. PICK r \in Slots : CreateOutputBase(r)
    BY <1>9
  <2>2. UNCHANGED <<scenario, mode, req, config, sent>> /\ fs' = MakeDirectories(fs, BazelOutputBase(r))
    BY <2>1 DEF CreateOutputBase
  <2>3. DOMAIN fs = {"dirs", "links", "files"}
    BY DEF LockInv, WorldOk
  <2>4. fs'.links = fs.links /\ DOMAIN fs' = DOMAIN fs
    BY <2>2, <2>3 DEF MakeDirectories
  <2> QED
    BY <2>2, <2>4, OutsideStepKeepsLocks
<1>10. CASE \/ \E r \in Slots : StartProbe(r)
            \/ \E k \in DOMAIN cells, outcome \in S.probes : EndProbe(k, outcome)
  BY <1>10, OutsideStepKeepsLocks DEF StartProbe, EndProbe
<1>11. CASE UNCHANGED vars
  BY <1>11, OutsideStepKeepsLocks DEF vars
<1> QED
  BY <1>1, <1>2, <1>3, <1>4, <1>5, <1>6, <1>7, <1>8, <1>9, <1>10, <1>11 DEF Next, LaterStep

\* No running child's --output_base leads to the base Bazel would choose by itself
\* for another one's workspace.
DefaultsAreNotNamed ==
    \A r, s \in Slots :
        /\ At(r, "running") /\ OptionAt(Call(r).startup, OutputBase) # {}
        /\ At(s, "running") /\ OptionAt(Call(s).startup, OutputBase) = {}
        => BazelOutputBase(r) # BazelOutputBase(s)

\* Different keys are different output bases, unless one names a default.
LEMMA LocksAreBases ==
    ASSUME LockInv, DefaultsAreNotNamed
    PROVE  OneLockPerOutputBase
<1>1. ASSUME NEW r \in Slots, NEW s \in Slots, r # s, At(r, "running"), At(s, "running")
      PROVE  BazelOutputBase(r) # BazelOutputBase(s)
  <2> DEFINE named(q) == OptionAt(Call(q).startup, OutputBase) # {}
  <2>1. KeyOk(fs.links, req[r]) /\ KeyOk(fs.links, req[s]) /\ req[r].key # req[s].key
    BY <1>1 DEF LockInv, KeysDiffer
  <2>2. "running" \in Checked
    BY DEF Checked
  <2>3. /\ req[r].workspace \in Seq(STRING)
        /\ req[r].key = IF named(r) THEN BazelOutputBase(r) ELSE req[r].workspace
        /\ ~named(r) => BazelOutputBase(r) = <<"outputs">> \o req[r].workspace
    BY <1>1, <2>1, <2>2 DEF KeyOk, At, Call, BazelOutputBase, NamedBase, OutputBase, Real
  <2>4. /\ req[s].workspace \in Seq(STRING)
        /\ req[s].key = IF named(s) THEN BazelOutputBase(s) ELSE req[s].workspace
        /\ ~named(s) => BazelOutputBase(s) = <<"outputs">> \o req[s].workspace
    BY <1>1, <2>1, <2>2 DEF KeyOk, At, Call, BazelOutputBase, NamedBase, OutputBase, Real
  <2>5. (named(r) /\ ~named(s)) \/ (named(s) /\ ~named(r)) => BazelOutputBase(r) # BazelOutputBase(s)
    BY <1>1 DEF DefaultsAreNotNamed
  <2>6. CASE ~named(r) /\ ~named(s)
    <3>1. req[r].workspace # req[s].workspace
      BY <2>1, <2>3, <2>4, <2>6
    <3>2. \A u \in Seq(STRING) : \A v \in Seq(STRING) : <<"outputs">> \o u = <<"outputs">> \o v => u = v
      <4>1. TAKE u \in Seq(STRING)
      <4>2. TAKE v \in Seq(STRING)
      <4>3. PICK x : x = "outputs"
        OBVIOUS
      <4> DEFINE T == STRING \cup {x}
      <4>4. <<x>> \in Seq(T) /\ u \in Seq(T) /\ v \in Seq(T)
        OBVIOUS
      <4> HIDE DEF T
      <4>5. <<x>> \o u = <<x>> \o v => u = v
        BY <4>4, ConcatSimplifications
      <4> QED
        BY <4>3, <4>5
    <3> QED
      BY <2>3, <2>4, <2>6, <3>1, <3>2
  <2>7. CASE named(r) /\ named(s)
    BY <2>1, <2>3, <2>4, <2>7
  <2> QED
    BY <2>5, <2>6, <2>7
<1>2. ASSUME mode = "server", NEW root \in S.raw.allowedRoots
      PROVE  ~Within(Real(fs, config.cacheRoot), Real(fs, Absolute(root, LaunchDirectory)))
  <2>1. config = Load(S.fs, S.raw) /\ config.error = "ok" /\ scenario \in Scenarios
        /\ fs.links = S.fs.links
    BY <1>2 DEF LockInv, ConfigLoaded, WorldOk
  <2>2. /\ IsFileSystem(S.fs) /\ S.raw.cacheRoot.parts \in Seq(STRING)
        /\ \A given \in S.raw.allowedRoots : given.parts \in Seq(STRING)
    BY <2>1, SurfaceAssumption DEF S
  <2>3. ~Within(Real(S.fs, config.cacheRoot), Real(S.fs, Absolute(root, LaunchDirectory)))
    BY <1>2, <2>1, <2>2, CacheRootIsApart
  <2> QED
    BY <2>1, <2>3 DEF Real
<1> QED
  BY <1>1, <1>2 DEF OneLockPerOutputBase

(***************************************************************************)
(* No two children run in one output base, wherever links and dots lead,   *)
(* and the cache root is in no allowed root: the lock is taken on the key  *)
(* that Places computed, and that key is the directory Bazel finds.  Where *)
(* no --output_base is given the key is the workspace, so a caller who     *)
(* names the base that Bazel chooses for another workspace is not seen;    *)
(* that is the hypothesis.                                                 *)
(***************************************************************************)
THEOREM OutputBasesAreLocked == Spec => [](DefaultsAreNotNamed => OneLockPerOutputBase)
<1>1. Init => LockInv
  BY LockInit
<1>2. SurfaceInv /\ LockInv /\ [Next]_vars => LockInv'
  BY NextKeepsLocks DEF SurfaceInv
<1>3. LockInv => (DefaultsAreNotNamed => OneLockPerOutputBase)
  BY LocksAreBases
<1> QED
  BY <1>1, <1>2, <1>3, SurfaceInvariance, PTL DEF Spec
=============================================================================
