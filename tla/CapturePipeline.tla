--------------------------- MODULE CapturePipeline ---------------------------
(***************************************************************************)
(* Live capture of Bazel's event stream from a file or a named pipe        *)
(* (bazel-mcp-runner/src/capture.rs) over the decoder of BepFraming.       *)
(*                                                                         *)
(* The pipeline p is a decoder with what its visitor keeps: the evidence   *)
(* it made durable, the events the reduction has seen, the attempt saved   *)
(* when Bazel announced a retry.  A reader thread feeds it chunks of any   *)
(* size while Bazel writes; when Bazel has exited the runner asks it to    *)
(* finish.  An event is the payload of its frame; the first byte of the    *)
(* payload stands for its kind.                                            *)
(***************************************************************************)
EXTENDS BepFraming

CONSTANTS
    Transports,     \* subset of {"tail", "fifo"}
    Streams,        \* byte sequences that Bazel may write
    Capacities,     \* bytes the evidence file may accept before writes fail
    Truncations,    \* whether the evidence file can be emptied for a retry
    MaxRewrites     \* times Bazel truncates its own file

VARIABLES
    transport, capacity,
    stream, written,    \* what Bazel writes, and how much of it is written
    client,             \* the invocation client: "none", "alive" or "exited"
    rewrites,
    source,             \* bytes in Bazel's file (tail) or in the pipe (fifo)
    offset,             \* bytes of the file the tail has read
    fed,                \* bytes given to the pipeline so far
    p,                  \* the pipeline
    finishing,          \* the flag that finish() sets
    fifo,               \* the named pipe exists
    dropped,            \* the runner gave the capture up
    rpc,                \* "setup", "prepared", then the reader: "read", "check",
                        \* "failed" or "done"; "gone" when Bazel was never started
    result              \* the reduction returned by finish()

vars == <<transport, capacity, stream, written, client, rewrites, source, offset,
          fed, p, finishing, fifo, dropped, rpc, result>>
bazel == <<stream, written, client, rewrites>>
fixed == <<transport, capacity, dropped>>
pipe == <<source, offset, fed>>

NoAttempt == "no attempt"
NoResult == "no result"

Kind(event) ==
    IF event = << >> THEN "other"
    ELSE CASE event[1] = 1 -> "started"
           [] event[1] = 2 -> "evicted"       \* finished with exit code 39
           [] event[1] = 3 -> "undecodable"
           [] OTHER -> "other"

TotalBytes(events) ==
    LET t[i \in 0 .. Len(events)] == IF i = 0 THEN 0 ELSE t[i - 1] + Len(events[i])
    IN  t[Len(events)]

\* CapturePipeline::new with a writer that appends to the evidence file, or one
\* that only accounts for bytes Bazel wrote itself.
NewPipeline(append, cap, truncates) ==
    NewDecoder @@ [append |-> append, cap |-> cap, truncates |-> truncates, durable |-> << >>, seen |-> << >>,
                   saved |-> NoAttempt, expecting |-> FALSE, raw |-> << >>, failed |-> FALSE]

\* DurableBepWriter::commit: a write that fails may have written some bytes.
Commit(q, raw) ==
    IF q.append /\ Len(q.durable) + Len(raw) > q.cap
    THEN [q EXCEPT !.durable = SubSeq(q.durable \o raw, 1, q.cap), !.failed = TRUE]
    ELSE [q EXCEPT !.durable = @ \o raw]

\* Seeded fault: the evidence of the abandoned attempt stays.
BeginRetryKeepsEvidence(q) == q

\* DurableBepWriter::begin_retry: only a file of ours is truncated, if it can be.
BeginRetry(q) ==
    CASE ~q.append -> q
      [] q.append /\ q.truncates -> [q EXCEPT !.durable = << >>]
      [] OTHER -> [q EXCEPT !.failed = TRUE]

\* Seeded fault: the saved attempt is forgotten as soon as a retry is announced.
EvictedForgetsAttempt(q) == [q EXCEPT !.seen = << >>, !.expecting = TRUE, !.bytes = 0, !.count = 0]

\* Exit code 39: the attempt is saved until a retry shows, accounting starts anew.
Evicted(q) ==
    [q EXCEPT !.saved = q.seen, !.seen = << >>, !.expecting = TRUE, !.bytes = 0, !.count = 0]

\* Seeded fault: the reduction sees an event before its bytes are written.
ObserveBeforeCommit(q, framed, event) ==
    LET seen == [q EXCEPT !.seen = Append(@, event), !.raw = Drop(@, Len(framed)), !.count = @ + 1]
    IN  IF q.failed THEN [q EXCEPT !.count = @ + 1] ELSE Commit(seen, framed)

\* The visitor of ingest: raw bytes become durable before the reduction sees them.
Retried(q, event) ==
    CASE ~(q.expecting /\ Kind(event) = "started") -> q
      [] BeginRetry(q).failed -> BeginRetry(q)
      [] OTHER -> [BeginRetry(q) EXCEPT !.saved = NoAttempt, !.expecting = FALSE]
Stored(retried, framed) == IF retried.failed THEN retried ELSE Commit(retried, framed)
Reduce(stored, framed, event) ==
    CASE stored.failed -> [stored EXCEPT !.count = @ + 1]
      [] ~stored.failed /\ Kind(event) = "evicted" ->
            Evicted([stored EXCEPT !.seen = Append(@, event), !.raw = Drop(@, Len(framed))])
      [] OTHER -> [stored EXCEPT !.seen = Append(@, event), !.raw = Drop(@, Len(framed)),
                                 !.count = @ + 1]
Observe(q, framed, event) ==
    CASE q.failed -> [q EXCEPT !.count = @ + 1]
      [] ~q.failed /\ ~IsPrefix(framed, q.raw) -> [q EXCEPT !.failed = TRUE, !.count = @ + 1]
      [] OTHER -> Reduce(Stored(Retried(q, event), framed), framed, event)

\* visit_decoded_frame: limits, then decoding, then the visitor.
VisitEvent(q, framed, event, limit) ==
    CASE limit # "none" -> [q EXCEPT !.error = limit]
      [] limit = "none" /\ Kind(event) = "undecodable" ->
            [q EXCEPT !.bytes = @ + Len(event), !.error = "decode"]
      [] OTHER -> Observe([q EXCEPT !.bytes = @ + Len(event)], framed, event)
Visit(q, framed, prefix) ==
    VisitEvent(q, framed, Drop(framed, prefix), FrameLimit(q, Len(framed) - prefix))

RECURSIVE PushFrames(_, _)
\* push_frames: rounds until the chunk is used up or the stream is in error.
AfterRound(r) ==
    CASE r.do = "decode" -> PushFrames(Visit(r.d, r.framed, r.prefix), r.rest)
      [] r.do = "take" -> PushFrames(r.d, r.rest)
      [] r.do = "return" -> r.d
PushFrames(q, input) == AfterRound(PushRound(q, input))

\* CapturePipeline::ingest.  After a decoding error bytes are only kept.
KeepOnError(q) ==
    IF ~q.failed /\ IsTerminal(q) THEN [Commit(q, q.raw) EXCEPT !.raw = << >>] ELSE q
Ingest(q, input) ==
    CASE input = << >> -> q
      [] input # << >> /\ IsTerminal(q) -> Commit(q, input)
      [] OTHER -> KeepOnError(PushFrames([q EXCEPT !.raw = @ \o input], input))

Outcome(events, count, bytes, error) ==
    [events |-> events, count |-> count, bytes |-> bytes, error |-> error]

\* CapturePipeline::finish: what is left becomes durable; an announced retry that
\* never came falls back to the saved attempt.
FlushRaw(q) == [Commit(q, q.raw) EXCEPT !.raw = << >>]
LastAttempt(q) == IF q.saved = NoAttempt THEN q.seen ELSE q.saved
Reduction(q) ==
    IF q.expecting /\ q.seen = << >>
    THEN Outcome(LastAttempt(q), Len(LastAttempt(q)), TotalBytes(LastAttempt(q)), "none")
    ELSE Outcome(q.seen, q.count, q.bytes, FinishDecoder(q).error)

\* reduce_bep_file: the same pipeline over bytes that are already on disk.
PostHoc(file) == Reduction(FlushRaw(Ingest(NewPipeline(FALSE, 0, TRUE), file)))

-----------------------------------------------------------------------------
Init ==
    /\ transport \in Transports
    /\ IF transport = "fifo" THEN capacity \in Capacities ELSE capacity = 0
    /\ stream \in Streams /\ written = 0
    /\ client = "none" /\ rewrites = 0
    /\ source = << >> /\ offset = 0 /\ fed = << >>
    /\ IF transport = "fifo"
       THEN \E truncates \in Truncations : p = NewPipeline(TRUE, capacity, truncates)
       ELSE p = NewPipeline(FALSE, 0, TRUE)
    /\ finishing = FALSE /\ fifo = FALSE /\ dropped = FALSE
    /\ rpc = "setup" /\ result = NoResult

\* PreparedFifoBepCapture::prepare.
Prepare ==
    /\ transport = "fifo" /\ rpc = "setup"
    /\ fifo' = TRUE /\ rpc' = "prepared"
    /\ UNCHANGED <<fixed, bazel, pipe, p, finishing, result>>

\* Seeded fault: a pipe that cannot be used stays behind.
FallBackToTailLeavesPipe ==
    /\ transport = "fifo" /\ rpc \in {"setup", "prepared"}
    /\ transport' = "tail" /\ capacity' = 0 /\ p' = NewPipeline(FALSE, 0, TRUE) /\ rpc' = "setup"
    /\ UNCHANGED <<dropped, bazel, pipe, finishing, fifo, result>>

\* The pipe cannot be made or opened, or the server that would write to it is not
\* found: it is removed again and Bazel's own file is tailed.
FallBackToTail ==
    /\ transport = "fifo" /\ rpc \in {"setup", "prepared"}
    /\ transport' = "tail" /\ capacity' = 0 /\ p' = NewPipeline(FALSE, 0, TRUE)
    /\ fifo' = FALSE /\ rpc' = "setup"
    /\ UNCHANGED <<dropped, bazel, pipe, finishing, result>>

\* Cancelled before the spawn, or the spawn fails: what was prepared is dropped.
NeverSpawned ==
    /\ rpc \in {"setup", "prepared"}
    /\ fifo' = FALSE /\ rpc' = "gone"
    /\ UNCHANGED <<fixed, bazel, pipe, p, finishing, result>>

\* Bazel is spawned and the reader of its events started.
Spawn ==
    /\ rpc = IF transport = "fifo" THEN "prepared" ELSE "setup"
    /\ client' = "alive" /\ rpc' = "read"
    /\ UNCHANGED <<fixed, stream, written, rewrites, pipe, p, finishing, fifo, result>>

\* Drop of either capture: the runner could not record that Bazel runs, or is gone.
Abandon ==
    /\ rpc \in {"read", "check", "failed"} /\ ~finishing
    /\ dropped' = TRUE /\ finishing' = TRUE /\ fifo' = FALSE
    /\ UNCHANGED <<transport, capacity, bazel, pipe, p, rpc, result>>

\* Bazel, its server and its client (external): it writes, may truncate its own file
\* to retry, and exits.
BazelWrites ==
    /\ client = "alive"
    /\ \E n \in 1 .. Len(stream) - written :
          /\ source' = source \o SubSeq(stream, written + 1, written + n)
          /\ written' = written + n
    /\ UNCHANGED <<fixed, stream, client, rewrites, offset, fed, p, finishing, fifo, rpc, result>>

BazelRewrites ==
    /\ transport = "tail" /\ client = "alive" /\ rewrites < MaxRewrites
    /\ source' = << >> /\ rewrites' = rewrites + 1
    /\ UNCHANGED <<fixed, stream, written, client, offset, fed, p, finishing, fifo, rpc, result>>

BazelExits ==
    /\ client = "alive" /\ client' = "exited"
    /\ UNCHANGED <<fixed, stream, written, rewrites, source, offset, fed, p, finishing, fifo, rpc, result>>

\* finish() of either capture, called once the child has been waited for.  The pipe
\* is unlinked as soon as the flag is set and the reader has ended.
BeginFinish ==
    /\ client = "exited" /\ ~finishing /\ finishing' = TRUE
    /\ fifo' = (fifo /\ rpc # "done")
    /\ UNCHANGED <<fixed, bazel, source, offset, fed, p, rpc, result>>

Feed(chunk) ==
    /\ \E q \in {Ingest(p, chunk)} : p' = q /\ rpc' = IF q.failed THEN "failed" ELSE "read"
    /\ fed' = fed \o chunk

\* tail_bep and read_fifo_bep: a read of up to a buffer ...
TailRead ==
    /\ transport = "tail" /\ rpc = "read" /\ offset < Len(source)
    /\ \E n \in 1 .. Len(source) - offset :
          /\ Feed(SubSeq(source, offset + 1, offset + n))
          /\ offset' = offset + n
    /\ UNCHANGED <<fixed, bazel, source, finishing, fifo, result>>

FifoRead ==
    /\ transport = "fifo" /\ rpc = "read" /\ source # << >>
    /\ \E n \in 1 .. Len(source) :
          /\ Feed(SubSeq(source, 1, n))
          /\ source' = Drop(source, n)
    /\ UNCHANGED <<fixed, bazel, offset, finishing, fifo, result>>

\* ... or one that finds nothing, after which the flag is read.
ReadsNothing ==
    /\ rpc = "read"
    /\ IF transport = "tail" THEN offset >= Len(source) ELSE source = << >>
    /\ rpc' = "check"
    /\ UNCHANGED <<fixed, bazel, source, offset, fed, p, finishing, fifo, result>>

PollAgain ==
    /\ rpc = "check" /\ ~finishing
    /\ transport = "fifo" => client = "alive"
    /\ rpc' = "read"
    /\ UNCHANGED <<fixed, bazel, source, offset, fed, p, finishing, fifo, result>>

\* Seeded fault: the tail trusts what it read.
TailFinishUnverified ==
    /\ transport = "tail" /\ rpc = "check" /\ finishing
    /\ p' = FlushRaw(p) /\ rpc' = "done" /\ result' = Reduction(FlushRaw(p))
    /\ UNCHANGED <<fixed, bazel, source, offset, fed, finishing, fifo>>

\* hash_file: the retained file has the bytes that were tailed.
Verified(tailed) == tailed.durable = source

\* tail_bep: what was tailed must be the retained file, or the file is decoded.
TailFinish ==
    /\ transport = "tail" /\ rpc = "check" /\ finishing
    /\ p' = FlushRaw(p)
    /\ rpc' = "done"
    /\ result' = IF Verified(p') THEN Reduction(p') ELSE PostHoc(source)
    /\ UNCHANGED <<fixed, bazel, source, offset, fed, finishing, fifo>>

\* read_fifo_bep ends when asked to or when the client is gone; the last write or the
\* reading of the evidence that is to verify it may fail.
FifoFinish ==
    /\ transport = "fifo" /\ rpc = "check" /\ (finishing \/ client = "exited")
    /\ \E failed \in {FlushRaw(p).failed, TRUE} :
          /\ p' = [FlushRaw(p) EXCEPT !.failed = failed]
          /\ rpc' = IF failed THEN "failed" ELSE "done"
          /\ result' = IF failed THEN result ELSE Reduction(p')
          /\ fifo' = (fifo /\ (failed \/ ~finishing))
    /\ UNCHANGED <<fixed, bazel, source, offset, fed, finishing>>

\* A reader that returned an error: finish() decodes the retained prefix.
FinishAfterError ==
    /\ rpc = "failed" /\ finishing
    /\ result' = IF dropped THEN result ELSE PostHoc(p.durable)
    /\ rpc' = "done" /\ fifo' = FALSE
    /\ UNCHANGED <<fixed, bazel, source, offset, fed, p, finishing>>

Done ==
    /\ rpc \in {"gone", "done"} /\ rpc = "done" => finishing
    /\ UNCHANGED vars

Next ==
    \/ Prepare \/ FallBackToTail \/ NeverSpawned \/ Spawn \/ Abandon
    \/ BazelWrites \/ BazelRewrites \/ BazelExits
    \/ BeginFinish \/ FinishAfterError \/ Done
    \/ TailRead \/ FifoRead \/ ReadsNothing \/ PollAgain \/ TailFinish \/ FifoFinish

Spec == Init /\ [][Next]_vars
-----------------------------------------------------------------------------
Retained == IF transport = "tail" THEN source ELSE p.durable

NewAttempt(retried, straggler) ==
    NewDecoder @@ [seen |-> << >>, retried |-> retried, straggler |-> straggler]

ReadEvent(q, event, limit) ==
    CASE limit # "none" -> [q EXCEPT !.error = limit]
      [] limit = "none" /\ Kind(event) = "undecodable" -> [q EXCEPT !.error = "decode"]
      [] limit = "none" /\ Kind(event) = "evicted" -> NewAttempt(TRUE, q.straggler)
      [] OTHER -> [q EXCEPT !.seen = Append(@, event), !.count = @ + 1,
                     !.bytes = @ + Len(event), !.retried = FALSE,
                     !.straggler = @ \/ (q.retried /\ Kind(event) # "started")]

RECURSIVE WholeStream(_, _)
\* The frames of s read one by one: reference for the incremental decoder.
NextFrame(q, s, f) ==
    CASE f.result = "end" \/ IsTerminal(q) -> q
      [] f.result = "frame" /\ ~IsTerminal(q) ->
            WholeStream(ReadEvent(q, SubSeq(s, f.prefix + 1, f.total),
                                  FrameLimit(q, f.total - f.prefix)),
                        Drop(s, f.total))
      [] OTHER -> [q EXCEPT !.error = f.result]
WholeStream(q, s) == NextFrame(q, s, ReadFrame(s))

\* An event of the abandoned attempt follows its eviction.
HasStraggler(s) == WholeStream(NewAttempt(FALSE, FALSE), s).straggler

TypeOK ==
    /\ p.seen \in Seq(Seq(Byte)) /\ p.bytes \in 0 .. MaxStreamBytes /\ p.count \in 0 .. MaxEvents
    /\ rpc \in {"setup", "prepared", "gone", "read", "check", "failed", "done"} /\ offset \in 0 .. Len(stream)
    /\ p.failed => transport = "fifo"

\* push_frames sees the same events, error and retained bytes however reads cut the
\* stream: a prefix or a payload may be split anywhere between two chunks.
ChunkingIsInvisible ==
    ~p.failed /\ rpc # "done" =>
        [p EXCEPT !.pending = IF IsTerminal(p) THEN << >> ELSE @]
      = [Ingest(NewPipeline(transport = "fifo", capacity, p.truncates), fed)
            EXCEPT !.pending = IF IsTerminal(p) THEN << >> ELSE @]

\* The incremental decoder agrees with read_frame over everything it was fed, in
\* events, limits and errors.
AgreesWithReadFrame ==
    ~p.failed =>
        \E w \in {WholeStream(NewAttempt(FALSE, FALSE), fed)} :
            p.seen = w.seen /\ p.count = w.count /\ FinishDecoder(p).error = w.error

\* A crash at any moment loses no event the reduction saw: the evidence on disk
\* decodes to the reduction's events (the security boundary of ingest), also across
\* a retry that replaces the evidence.
EvidenceCoversReduction ==
    p.append /\ ~HasStraggler(fed) =>
        IsPrefix(IF p.expecting /\ p.seen = << >> THEN p.saved ELSE p.seen,
                 PostHoc(p.durable).events)

\* finish() returns what decoding the retained evidence gives, although the file may
\* be rewritten while it is tailed, bytes arrive after the last read, or writes fail.
ResultIsRetainedEvidence ==
    rpc = "done" /\ ~dropped /\ ~HasStraggler(fed) => result = PostHoc(Retained)

\* No way out of a capture (fall back, cancellation, failed spawn, dropped runner,
\* reader error, normal end) leaves the named pipe in the invocation's directory.
PipeIsUnlinked == fifo => ~dropped /\ (rpc \in {"prepared", "read", "check", "failed"} \/ ~finishing)

\* The incremental decoder (push_frames, next_frame) is the decoder of the whole
\* stream: neither the cuts between reads nor its limits and errors tell them apart.
DecoderIsFaithful ==
    /\ TypeOK
    /\ ChunkingIsInvisible
    /\ AgreesWithReadFrame

\* The capture's three accounts agree: what was reduced is on disk at every moment,
\* what finish() returns is what the retained evidence decodes to, and no way out
\* leaves the pipe behind.
EvidenceAgrees ==
    /\ EvidenceCoversReduction
    /\ ResultIsRetainedEvidence
    /\ PipeIsUnlinked

\* The same without the exception: durable raw evidence is authoritative.
EvidenceIsAuthoritative == ~dropped /\ rpc = "done" => result = PostHoc(Retained)

\* All that Bazel wrote to the pipe is in the evidence when the capture ends.
FifoKeepsEveryByte ==
    rpc = "done" /\ transport = "fifo" /\ ~p.failed => fed = SubSeq(stream, 1, written)
=============================================================================
