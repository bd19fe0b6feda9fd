------------------------------ MODULE BesStream ------------------------------
(***************************************************************************)
(* The loopback Build Event Service (bazel-mcp-bes/src/server.rs) and the  *)
(* capture that consumes it (BesBepCapture and read_bes_bep of             *)
(* bazel-mcp-runner/src/capture.rs), for one registered invocation.        *)
(*                                                                         *)
(* Each element of Streams is an RPC that Bazel may open; its ingest_stream *)
(* task validates requests, collects events into a batch, hands the batch  *)
(* over a bounded channel and answers Bazel only when the consumer has     *)
(* acknowledged it.  The consumer thread writes the evidence.  The runner  *)
(* finishes the capture after a grace period.  A frame is the pair of its  *)
(* stream and sequence number.  A retried attempt inside the stream is     *)
(* part of CapturePipeline, not of this module.                            *)
(***************************************************************************)
EXTENDS Integers, Sequences, FiniteSets

CONSTANTS
    Streams,
    MaxSeq,             \* requests of a stream
    MaxInFlight,        \* requests on the wire
    BatchEvents,        \* CAPTURE_BATCH_MAX_EVENTS
    ChannelCapacity,    \* CAPTURE_CHANNEL_CAPACITY
    MaxStreamEvents,    \* DEFAULT_MAX_STREAM_EVENTS
    MaxFaults           \* broken connections, bad requests and failed writes

ASSUME BesAssumption ==
    /\ IsFiniteSet(Streams) /\ Streams # {}
    /\ MaxSeq \in Nat /\ MaxInFlight \in Nat \ {0} /\ BatchEvents \in Nat \ {0}
    /\ ChannelCapacity \in Nat \ {0} /\ MaxStreamEvents \in Nat /\ MaxFaults \in Nat

VARIABLES
    line, net, next,    \* the connection, its requests, Bazel's next sequence number
    rpc,                \* "unopened", "first", "loop", "completing" or "done"
    todo,               \* what the loop still does for its request
    expected, events,   \* next sequence number accepted, events accepted
    pending, batch,     \* frames collected, and those handed to the consumer
    finished,           \* saw_finished
    ack,                \* the oneshot: "none", "waiting", "ok", "error" or "closed"
    outcome,            \* of capture_stream
    answered,           \* frames acknowledged to Bazel
    registered, active, completion,     \* the registry entry and CaptureState
    channel, consumer, ingesting, sender,   \* the event channel and its reader
    evidence,
    control, reduction, \* BesCapture in the runner's hands, and what finish() gave
    faults

wire == <<line, net, next>>
task == <<rpc, todo, expected, events, pending, batch, finished, outcome>>
reader == <<channel, consumer, ingesting, sender, evidence>>
runner == <<registered, control, reduction>>
vars == <<wire, task, ack, answered, registered, active, completion, reader, control,
          reduction, faults>>

Frames == Streams \X (1 .. MaxSeq)
Entries == {evidence[n] : n \in DOMAIN evidence}
Kinds == {"event", "empty", "finished", "invalid"}
Open == control # "dropped" \/ registered \/ \E s \in Streams : rpc[s] \in {"loop", "completing"}

Init ==
    /\ line = [s \in Streams |-> "unopened"] /\ net = [s \in Streams |-> << >>]
    /\ next = [s \in Streams |-> 1]
    /\ rpc = [s \in Streams |-> "unopened"] /\ todo = [s \in Streams |-> << >>]
    /\ expected = [s \in Streams |-> 1] /\ events = [s \in Streams |-> 0]
    /\ pending = [s \in Streams |-> << >>] /\ batch = [s \in Streams |-> << >>]
    /\ finished = [s \in Streams |-> FALSE] /\ ack = [s \in Streams |-> "none"]
    /\ outcome = [s \in Streams |-> "none"] /\ answered = {}
    /\ registered = TRUE /\ active = FALSE /\ completion = "none"
    /\ channel = << >> /\ consumer = "receiving" /\ ingesting = << >>
    /\ sender = (CHOOSE s \in Streams : TRUE) /\ evidence = << >>
    /\ control = "held" /\ reduction = << >> /\ faults = 0

Fault == faults < MaxFaults /\ faults' = faults + 1
NoFault == UNCHANGED faults

-----------------------------------------------------------------------------
(* Bazel (external), and the service its calls reach. *)

\* BuildToolStreamService::call: every accepted RPC gets an ingest_stream task of its own.
\* One whose metadata is refused has none, which is as if it was never opened.
OpenStream(s) ==
    /\ line[s] = "unopened"
    /\ line' = [line EXCEPT ![s] = "open"] /\ rpc' = [rpc EXCEPT ![s] = "first"]
    /\ UNCHANGED <<net, next, todo, expected, events, pending, batch, finished, outcome, ack,
                   answered, runner, active, completion, reader, faults>>

Send(s, seq, kind) ==
    /\ line[s] = "open" /\ next[s] <= MaxSeq /\ Len(net[s]) < MaxInFlight
    /\ net' = [net EXCEPT ![s] = Append(@, [seq |-> seq, kind |-> kind])]
    /\ next' = [next EXCEPT ![s] = @ + 1]
    /\ UNCHANGED <<line, task, ack, answered, runner, active, completion, reader>>

SendRequest(s) == \E k \in Kinds \ {"invalid"} : Send(s, next[s], k) /\ NoFault

\* A request of another stream, without a field, too large, of an unknown type, or out of
\* order.
SendBadRequest(s) == Fault /\ (Send(s, next[s], "invalid") \/ Send(s, next[s] + 1, "event"))

CloseStream(s) ==
    /\ line[s] = "open" /\ line' = [line EXCEPT ![s] = "closed"]
    /\ UNCHANGED <<net, next, task, ack, answered, runner, active, completion, reader, faults>>

BreakStream(s) ==
    /\ line[s] = "open" /\ Fault
    /\ line' = [line EXCEPT ![s] = "broken"] /\ net' = [net EXCEPT ![s] = << >>]
    /\ UNCHANGED <<next, task, ack, answered, runner, active, completion, reader>>

-----------------------------------------------------------------------------
(* ingest_stream. *)

\* No first request: the task answers with a status and ends.
FirstRequestFails(s) ==
    /\ rpc[s] = "first" /\ net[s] = << >> /\ line[s] \in {"closed", "broken"}
    /\ rpc' = [rpc EXCEPT ![s] = "done"]
    /\ UNCHANGED <<wire, todo, expected, events, pending, batch, finished, outcome, ack,
                   answered, runner, active, completion, reader, faults>>

\* The first request names no invocation or is not one: the task answers with a status
\* and ends, the capture is not touched.
Unidentified(s) ==
    /\ rpc[s] = "first" /\ net[s] # << >> /\ Head(net[s]).kind = "invalid"
    /\ rpc' = [rpc EXCEPT ![s] = "done"]
    /\ UNCHANGED <<wire, todo, expected, events, pending, batch, finished, outcome, ack,
                   answered, runner, active, completion, reader, faults>>

\* Seeded fault: a second stream is ingested beside the first.
LookupCaptureTwice(s) ==
    /\ rpc[s] = "first" /\ net[s] # << >>
    /\ active' = TRUE /\ rpc' = [rpc EXCEPT ![s] = IF registered THEN "loop" ELSE "done"]
    /\ UNCHANGED <<wire, todo, expected, events, pending, batch, finished, outcome, ack,
                   answered, runner, completion, reader, faults>>

\* The registry lookup and active.swap; a second stream completes the capture with
\* an error and ends.
LookupCapture(s) ==
    /\ rpc[s] = "first" /\ net[s] # << >>
    /\ active' = (active \/ registered)
    /\ rpc' = [rpc EXCEPT ![s] = IF registered /\ ~active THEN "loop" ELSE "done"]
    /\ completion' = IF registered /\ active THEN "error" ELSE completion
    /\ UNCHANGED <<wire, todo, expected, events, pending, batch, finished, outcome, ack,
                   answered, runner, reader, faults>>

Idle(s) == rpc[s] = "loop" /\ todo[s] = << >>

Fail(s) ==
    /\ outcome' = [outcome EXCEPT ![s] = "error"] /\ rpc' = [rpc EXCEPT ![s] = "completing"]
    /\ todo' = [todo EXCEPT ![s] = << >>]

\* ordered_event, StreamIdentity::from_view and validate: the request has its fields, they
\* are short enough and name the stream of the first request.
SameStream(r) == r.kind # "invalid"

\* Seeded fault: one event over the limit is taken.
WithinLimitsOffByOne(s, r) ==
    /\ r.seq <= MaxStreamEvents + 1
    /\ r.kind = "event" => events[s] <= MaxStreamEvents

\* The request count, and the limits of frame_bep_payload.  A frame or a stream of too
\* many bytes is a bad request like any other.
WithinLimits(s, r) ==
    /\ r.seq <= MaxStreamEvents + 1
    /\ r.kind = "event" => events[s] < MaxStreamEvents

\* One request of the stream, in sequence and not after its end.
Accepted(s, r) ==
    /\ SameStream(r) /\ r.seq = expected[s] /\ ~finished[s]
    /\ WithinLimits(s, r)

\* Seeded fault: a component stream's end is handed over before the collected events.
StepsFinishFirst(s, kind) ==
    CASE kind = "finished" -> <<"finish", "flush", "reply">>
      [] kind = "empty" -> <<"flush", "reply">>
      [] kind = "event" -> IF Len(pending[s]) + 1 >= BatchEvents THEN <<"flush">> ELSE << >>

\* What the loop still does with an accepted request.
Steps(s, kind) ==
    CASE kind = "finished" -> <<"flush", "finish", "reply">>
      [] kind = "empty" -> <<"flush", "reply">>
      [] kind = "event" -> IF Len(pending[s]) + 1 >= BatchEvents THEN <<"flush">> ELSE << >>

TakeRequest(s) ==
    /\ Idle(s) /\ net[s] # << >>
    /\ net' = [net EXCEPT ![s] = Tail(@)]
    /\ LET r == Head(net[s])
       IN  IF Accepted(s, r)
           THEN /\ expected' = [expected EXCEPT ![s] = @ + 1]
                /\ IF r.kind = "event"
                   THEN /\ pending' = [pending EXCEPT ![s] = Append(@, <<s, r.seq>>)]
                        /\ events' = [events EXCEPT ![s] = @ + 1]
                   ELSE UNCHANGED <<pending, events>>
                /\ finished' = [finished EXCEPT ![s] = r.kind = "finished"]
                /\ todo' = [todo EXCEPT ![s] = Steps(s, r.kind)]
                /\ UNCHANGED <<rpc, outcome>>
           ELSE Fail(s) /\ UNCHANGED <<expected, events, pending, finished>>
    /\ UNCHANGED <<line, next, batch, ack, answered, runner, active, completion, reader, faults>>

\* Seeded fault: a partial batch waits for more events.
YieldWaits(s) == Idle(s) /\ net[s] = << >> /\ Len(pending[s]) >= BatchEvents /\ UNCHANGED vars

\* The biased select: no request is ready after one yield, so a partial batch goes.
Yield(s) ==
    /\ Idle(s) /\ net[s] = << >> /\ line[s] = "open" /\ pending[s] # << >>
    /\ todo' = [todo EXCEPT ![s] = <<"flush">>]
    /\ UNCHANGED <<wire, rpc, expected, events, pending, batch, finished, outcome, ack, answered,
                   runner, active, completion, reader, faults>>

EndOfInput(s) ==
    /\ Idle(s) /\ net[s] = << >>
    /\ \/ /\ line[s] = "closed"
          /\ todo' = [todo EXCEPT ![s] = <<"flush", "end">>] /\ UNCHANGED <<rpc, outcome>>
       \/ line[s] = "broken" /\ Fail(s)
    /\ UNCHANGED <<wire, expected, events, pending, batch, finished, ack, answered,
                   runner, active, completion, reader, faults>>

Doing(s, step) == rpc[s] = "loop" /\ todo[s] # << >> /\ Head(todo[s]) = step
Did(s) == todo' = [todo EXCEPT ![s] = Tail(@)]

\* flush_capture_batch with nothing to send.
FlushNothing(s) ==
    /\ Doing(s, "flush") /\ ack[s] = "none" /\ pending[s] = << >>
    /\ Did(s)
    /\ UNCHANGED <<wire, rpc, expected, events, pending, batch, finished, outcome, ack, answered,
                   runner, active, completion, reader, faults>>

\* forward_capture_event: the send waits for room and fails if the reader is gone.
Forward(s) ==
    /\ ack[s] = "none"
    /\ \/ Doing(s, "flush") /\ pending[s] # << >>
       \/ Doing(s, "finish")
    /\ LET item == IF Doing(s, "flush") THEN pending[s] ELSE << >>
       IN  IF consumer \in {"done", "failed"}
           THEN Fail(s) /\ UNCHANGED <<pending, batch, ack, channel>>
           ELSE /\ Len(channel) < ChannelCapacity
                /\ channel' = Append(channel, [from |-> s, frames |-> item])
                /\ batch' = [batch EXCEPT ![s] = item]
                /\ pending' = [pending EXCEPT ![s] = << >>]
                /\ ack' = [ack EXCEPT ![s] = "waiting"]
                /\ UNCHANGED <<rpc, todo, outcome>>
    /\ UNCHANGED <<wire, expected, events, finished, answered, runner, active, completion,
                   consumer, ingesting, sender, evidence, faults>>

\* The acknowledgement arrived: frames of the batch are answered one by one, and the
\* end of the stream goes on to its reply.
Answer(s) ==
    /\ Doing(s, "flush") /\ ack[s] = "ok" /\ line[s] # "broken"
    /\ IF batch[s] # << >>
       THEN /\ answered' = answered \cup {Head(batch[s])}
            /\ batch' = [batch EXCEPT ![s] = Tail(@)]
            /\ UNCHANGED <<todo, ack>>
       ELSE /\ Did(s) /\ ack' = [ack EXCEPT ![s] = "none"]
            /\ UNCHANGED <<answered, batch>>
    /\ UNCHANGED <<wire, rpc, expected, events, pending, finished, outcome, runner, active,
                   completion, reader, faults>>

FinishAccepted(s) ==
    /\ Doing(s, "finish") /\ ack[s] = "ok"
    /\ Did(s) /\ ack' = [ack EXCEPT ![s] = "none"]
    /\ UNCHANGED <<wire, rpc, expected, events, pending, batch, finished, outcome, answered,
                   runner, active, completion, reader, faults>>

Reply(s) ==
    /\ Doing(s, "reply")
    /\ IF line[s] = "broken" THEN Fail(s) ELSE Did(s) /\ UNCHANGED <<rpc, outcome>>
    /\ UNCHANGED <<wire, expected, events, pending, batch, finished, ack, answered, runner, active,
                   completion, reader, faults>>

\* The consumer refused the batch, went away, or Bazel stopped taking answers.
ForwardFails(s) ==
    /\ rpc[s] = "loop"
    /\ \/ ack[s] \in {"error", "closed"}
       \/ ack[s] = "ok" /\ Doing(s, "flush") /\ line[s] = "broken"
    /\ Fail(s) /\ ack' = [ack EXCEPT ![s] = "none"]
    /\ UNCHANGED <<wire, expected, events, pending, batch, finished, answered, runner, active,
                   completion, reader, faults>>

EndStream(s) ==
    /\ Doing(s, "end")
    /\ outcome' = [outcome EXCEPT ![s] = IF finished[s] THEN "ok" ELSE "error"]
    /\ rpc' = [rpc EXCEPT ![s] = "completing"] /\ Did(s)
    /\ UNCHANGED <<wire, expected, events, pending, batch, finished, ack, answered, runner, active,
                   completion, reader, faults>>

Complete(s) ==
    /\ rpc[s] = "completing"
    /\ completion' = outcome[s] /\ rpc' = [rpc EXCEPT ![s] = "done"]
    /\ UNCHANGED <<wire, todo, expected, events, pending, batch, finished, outcome, ack, answered,
                   runner, active, reader, faults>>

-----------------------------------------------------------------------------
(* read_bes_bep. *)

\* The thread returned: the receiver is dropped with what is queued in it.
ReaderReturns(state, acks) ==
    /\ consumer' = state /\ channel' = << >>
    /\ ack' = [s \in Streams |-> IF \E n \in 1 .. Len(channel) : channel[n].from = s /\ acks[s] = "waiting"
                                 THEN "closed" ELSE acks[s]]

ReceiveFrames ==
    /\ consumer = "receiving" /\ channel # << >> /\ Head(channel).frames # << >>
    /\ ingesting' = Head(channel).frames /\ sender' = Head(channel).from
    /\ channel' = Tail(channel) /\ consumer' = "ingesting"
    /\ UNCHANGED <<wire, task, ack, answered, runner, active, completion, evidence, faults>>

\* pipeline.ingest of one frame.
IngestFrame ==
    /\ consumer = "ingesting" /\ ingesting # << >>
    /\ evidence' = Append(evidence, Head(ingesting))
    /\ ingesting' = Tail(ingesting)
    /\ UNCHANGED <<wire, task, ack, answered, runner, active, completion, channel, consumer, sender,
                   faults>>

\* Seeded fault: a batch is acknowledged before its last frame is written.
AcknowledgeEarly ==
    /\ consumer = "ingesting" /\ Len(ingesting) <= 1
    /\ ack' = [ack EXCEPT ![sender] = "ok"]
    /\ consumer' = IF ingesting = << >> THEN "receiving" ELSE consumer
    /\ UNCHANGED <<wire, task, answered, runner, active, completion, channel, ingesting, sender,
                   evidence, faults>>

AcknowledgeBatch ==
    /\ consumer = "ingesting" /\ ingesting = << >>
    /\ ack' = [ack EXCEPT ![sender] = "ok"]
    /\ consumer' = "receiving"
    /\ UNCHANGED <<wire, task, answered, runner, active, completion, channel, ingesting, sender,
                   evidence, faults>>

\* Seeded fault: the error of a write is dropped.
IngestFailsSilently ==
    /\ consumer = "ingesting" /\ ingesting # << >> /\ Fault
    /\ ingesting' = Tail(ingesting)
    /\ UNCHANGED <<wire, task, ack, answered, runner, active, completion, channel, consumer,
                   sender, evidence>>

\* A write fails: the batch is refused, frames already written stay.
IngestFails ==
    /\ consumer = "ingesting" /\ ingesting # << >> /\ Fault
    /\ ReaderReturns("failed", [ack EXCEPT ![sender] = "error"])
    /\ ingesting' = << >>
    /\ UNCHANGED <<wire, task, answered, runner, active, completion, sender, evidence>>

\* The end of the stream: the pipeline finishes, well or not, before it is acknowledged.
ReceiveFinished ==
    /\ consumer = "receiving" /\ channel # << >> /\ Head(channel).frames = << >>
    /\ \/ NoFault /\ ReaderReturns("done", [ack EXCEPT ![Head(channel).from] = "ok"])
       \/ Fault /\ ReaderReturns("failed", [ack EXCEPT ![Head(channel).from] = "error"])
    /\ UNCHANGED <<wire, task, answered, runner, active, completion, ingesting, sender, evidence>>

\* Every sender is gone.
ChannelCloses ==
    /\ consumer = "receiving" /\ channel = << >> /\ ~Open
    /\ consumer' = "done"
    /\ UNCHANGED <<wire, task, ack, answered, runner, active, completion, channel, ingesting,
                   sender, evidence, faults>>

-----------------------------------------------------------------------------
(* BesBepCapture::finish and drop. *)

\* The child has exited; finish() waits for the completion.
BeginFinish ==
    /\ control = "held" /\ control' = "finishing"
    /\ UNCHANGED <<wire, task, ack, answered, registered, reduction, active, completion, reader, faults>>

\* Seeded fault: the capture stays in the registry.
FinishControlKeepsEntry ==
    /\ control = "finishing" /\ control' = "dropped"
    /\ UNCHANGED <<wire, task, ack, answered, registered, reduction, active, completion, reader, faults>>

\* A completion or the end of the grace period: the capture is unregistered.
FinishControl ==
    /\ control = "finishing" /\ control' = "dropped" /\ registered' = FALSE
    /\ UNCHANGED <<wire, task, ack, answered, reduction, active, completion, reader, faults>>

DropCapture ==
    /\ control = "held" /\ control' = "dropped" /\ registered' = FALSE
    /\ UNCHANGED <<wire, task, ack, answered, reduction, active, completion, reader, faults>>

\* Seeded fault: finish() does not wait for the reader after the grace period.
TakeReductionEarly ==
    /\ control = "dropped" /\ reduction = << >>
    /\ reduction' = <<evidence>>
    /\ UNCHANGED <<wire, task, ack, answered, registered, control, active, completion, reader, faults>>

\* The reader's reduction, or that of the retained prefix if it failed.
TakeReduction ==
    /\ control = "dropped" /\ reduction = << >> /\ consumer \in {"done", "failed"}
    /\ reduction' = <<evidence>>
    /\ UNCHANGED <<wire, task, ack, answered, registered, control, active, completion, reader, faults>>

Rest ==
    /\ reduction # << >> /\ \A s \in Streams : rpc[s] \in {"unopened", "done"}
    /\ UNCHANGED vars

-----------------------------------------------------------------------------
StreamStep(s) ==
    \/ FirstRequestFails(s) \/ Unidentified(s) \/ LookupCapture(s) \/ TakeRequest(s) \/ Yield(s) \/ EndOfInput(s)
    \/ FlushNothing(s) \/ Forward(s) \/ Answer(s) \/ FinishAccepted(s) \/ Reply(s)
    \/ ForwardFails(s) \/ EndStream(s) \/ Complete(s)

ReaderStep ==
    ReceiveFrames \/ IngestFrame \/ AcknowledgeBatch \/ IngestFails \/ ReceiveFinished \/ ChannelCloses

Next ==
    \/ \E s \in Streams :
          \/ OpenStream(s) \/ SendRequest(s) \/ SendBadRequest(s) \/ CloseStream(s) \/ BreakStream(s)
          \/ StreamStep(s)
    \/ ReaderStep
    \/ BeginFinish \/ FinishControl \/ DropCapture \/ TakeReduction \/ Rest

Spec == Init /\ [][Next]_vars

\* Tasks and the reader thread run and the grace period ends.  Nothing makes Bazel send
\* or close while it runs; once it has exited its connections end.
FairSpec ==
    /\ Spec
    /\ \A s \in Streams : WF_vars(StreamStep(s)) /\ WF_vars(control # "held" /\ CloseStream(s))
    /\ WF_vars(ReaderStep) /\ WF_vars(FinishControl) /\ WF_vars(TakeReduction)
-----------------------------------------------------------------------------
TypeOK ==
    /\ line \in [Streams -> {"unopened", "open", "closed", "broken"}]
    /\ net \in [Streams -> Seq([seq : Nat, kind : Kinds])] /\ next \in [Streams -> Nat]
    /\ rpc \in [Streams -> {"unopened", "first", "loop", "completing", "done"}]
    /\ todo \in [Streams -> Seq({"flush", "finish", "reply", "end"})]
    /\ expected \in [Streams -> Nat] /\ events \in [Streams -> 0 .. MaxStreamEvents]
    /\ pending \in [Streams -> Seq(Streams \X Nat)] /\ batch \in [Streams -> Seq(Streams \X Nat)]
    /\ finished \in [Streams -> BOOLEAN]
    /\ ack \in [Streams -> {"none", "waiting", "ok", "error", "closed"}]
    /\ outcome \in [Streams -> {"none", "ok", "error"}]
    /\ answered \subseteq Streams \X Nat
    /\ registered \in BOOLEAN /\ active \in BOOLEAN /\ completion \in {"none", "ok", "error"}
    /\ channel \in Seq([from : Streams, frames : Seq(Streams \X Nat)])
    /\ Len(channel) <= ChannelCapacity
    /\ consumer \in {"receiving", "ingesting", "done", "failed"}
    /\ sender \in Streams /\ ingesting \in Seq(Streams \X Nat) /\ evidence \in Seq(Streams \X Nat)
    /\ control \in {"held", "finishing", "dropped"}
    /\ faults \in Nat

\* Bazel receives no acknowledgement until the frame is in the evidence, whichever of
\* the batch, the channel, the reader or the connection fails in between.
AcknowledgedIsDurable == answered \subseteq Entries

\* The evidence holds the frames of one stream in sequence: a second stream for the
\* invocation adds nothing, batches are neither reordered nor repeated.
EvidenceIsOneOrderedStream ==
    \A m, n \in DOMAIN evidence :
        m < n => evidence[m][1] = evidence[n][1] /\ evidence[m][2] < evidence[n][2]

\* What finish() reduces holds every acknowledged event, although the capture may have
\* been completed early by a second stream or by the end of the grace period.
ReductionHoldsAcknowledged ==
    reduction # << >> => \A f \in answered : \E n \in DOMAIN reduction[1] : reduction[1][n] = f

\* The evidence is one ordered stream that holds whatever was acknowledged, and so does
\* the reduction (ingest_stream, capture_stream, BesCapture::finish).
AcknowledgementsAreHonest ==
    /\ TypeOK
    /\ AcknowledgedIsDurable
    /\ EvidenceIsOneOrderedStream
    /\ ReductionHoldsAcknowledged

\* A stream that reports success left all its accepted events in the evidence.
SuccessMeansWholeStream ==
    \A s \in Streams : outcome[s] = "ok" =>
        Cardinality({n \in DOMAIN evidence : evidence[n][1] = s}) = events[s]

\* A stop-and-wait client cannot deadlock: events that were taken are answered, or
\* their stream fails, without Bazel sending or closing anything.
Unanswered(s) == events[s] # Cardinality({n \in 1 .. MaxSeq : <<s, n>> \in answered})
TakenIsAnswered ==
    \A s \in Streams :
        (rpc[s] = "loop" /\ Unanswered(s)) ~> (~Unanswered(s) \/ rpc[s] \in {"completing", "done"})

\* finish() returns once Bazel's streams end: the reader it waits for does not outlive
\* every sender.
FinishReturns == (control # "held") ~> (reduction # << >>)

\* Nobody waits for ever: neither Bazel for an answer nor the runner for the capture.
CaptureProgresses == TakenIsAnswered /\ FinishReturns

Log == INSTANCE DurableLog WITH log <- evidence, acked <- answered, Event <- Frames
\* Capture implements the durable log.
LogSpec == Log!Spec
=============================================================================
