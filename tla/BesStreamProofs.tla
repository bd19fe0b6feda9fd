--------------------------- MODULE BesStreamProofs ---------------------------
(***************************************************************************)
(* Proofs about BesStream, for every number of streams, requests and       *)
(* faults and every batch size and channel capacity: acknowledgements are  *)
(* honest, success means the whole stream, and the capture implements the  *)
(* durable log.                                                            *)
(*                                                                         *)
(* None is inductive.  Two facts carry them: one stream at most was ever   *)
(* captured (OneCapture), and it has at most one item between itself and   *)
(* the evidence (OneItem), because ingest_stream waits for the oneshot of  *)
(* the item before it collects again.  So the evidence, that item and the  *)
(* collected frames are in sequence (FramesAreOrdered), and their lengths  *)
(* add up to the accepted events (NothingIsLost).                          *)
(***************************************************************************)
EXTENDS BesStream, SequenceTheorems, FiniteSetTheorems, TLAPS

\* The stream took part in the capture.
Captured(s) == rpc[s] \in {"loop", "completing"} \/ expected[s] > 1

\* Bazel's sequence numbers are ahead of those accepted, these ahead of the events.
NumbersAreOrdered ==
    \A s \in Streams :
        /\ expected[s] >= 1 /\ events[s] < expected[s]
        /\ expected[s] + Len(net[s]) <= next[s] /\ next[s] <= MaxSeq + 1

\* One stream at most was captured, and none before active was set.
OneCapture ==
    /\ \A s, t \in Streams : Captured(s) /\ Captured(t) => s = t
    /\ \A s \in Streams : Captured(s) => active

\* A stream whose first request was not looked up has done nothing.
FreshIsEmpty ==
    \A s \in Streams :
        /\ line[s] = "unopened" => rpc[s] = "unopened"
        /\ rpc[s] \in {"unopened", "first"} =>
              expected[s] = 1 /\ pending[s] = << >> /\ todo[s] = << >>

\* A task that waits for an answer or works off its request's end collects nothing.
CollectsWhenIdle ==
    \A s \in Streams :
        /\ ack[s] # "none" =>
              /\ rpc[s] = "loop" /\ pending[s] = << >>
              /\ todo[s] # << >> /\ Head(todo[s]) \in {"flush", "finish"}
        /\ rpc[s] = "loop" /\ todo[s] # << >> /\ Head(todo[s]) # "flush" => pending[s] = << >>

\* At most one item is on its way: in the channel or with the reader.
OneItem ==
    /\ channel # << >> =>
          /\ Len(channel) = 1 /\ consumer = "receiving"
          /\ ack[channel[1].from] = "waiting"
          /\ batch[channel[1].from] = channel[1].frames
    /\ consumer = "ingesting" => channel = << >> /\ ack[sender] = "waiting"
    /\ consumer # "ingesting" => ingesting = << >>

\* Frames of stream s that were accepted and follow the evidence, in sequence.
Follows(q, s) ==
    /\ \A n \in DOMAIN q : q[n][1] = s /\ 1 <= q[n][2] /\ q[n][2] < expected[s]
    /\ \A m, n \in DOMAIN q : m < n => q[m][2] < q[n][2]
    /\ \A m \in DOMAIN evidence, n \in DOMAIN q : evidence[m][2] < q[n][2]

\* Whatever was collected, sent or received follows the evidence.
FramesAreOrdered ==
    /\ \A s \in Streams : Follows(pending[s], s)
    /\ channel # << >> => Follows(channel[1].frames, channel[1].from)
    /\ Follows(ingesting, sender)

\* The evidence holds accepted frames.
EvidenceWasAccepted ==
    \A n \in DOMAIN evidence : 1 <= evidence[n][2] /\ evidence[n][2] < expected[evidence[n][1]]

\* A frame of stream s's last batch is in the evidence.
Written(s, n) == \E m \in DOMAIN evidence : evidence[m] = batch[s][n]

\* What the reader acknowledged is in the evidence; what it has of a batch will be.
BatchesAreWritten ==
    /\ \A s \in Streams : ack[s] = "ok" => \A n \in DOMAIN batch[s] : Written(s, n)
    /\ consumer = "ingesting" =>
          \A n \in DOMAIN batch[sender] :
              Written(sender, n) \/ \E m \in DOMAIN ingesting : ingesting[m] = batch[sender][n]

\* The reduction is that of the final evidence.
ReductionIsFinal ==
    reduction # << >> => reduction = <<evidence>> /\ consumer \in {"done", "failed"}

InFlight == Len(ingesting) + (IF channel = << >> THEN 0 ELSE Len(channel[1].frames))

\* The events a stream accepted are in the evidence, on their way or collected, unless
\* the reader refused them; a stream that succeeded has them all in the evidence.
NothingIsLost ==
    \A s \in Streams :
        /\ rpc[s] = "loop" /\ ack[s] \notin {"error", "closed"} =>
              events[s] = Len(evidence) + InFlight + Len(pending[s])
        /\ finished[s] => expected[s] > 1
        /\ outcome[s] = "ok" =>
              /\ rpc[s] \in {"completing", "done"} /\ expected[s] > 1
              /\ events[s] = Len(evidence)

CaptureInv ==
    /\ OneCapture
    /\ FreshIsEmpty
    /\ CollectsWhenIdle
    /\ OneItem
    /\ FramesAreOrdered
    /\ EvidenceWasAccepted
    /\ EvidenceIsOneOrderedStream
    /\ BatchesAreWritten
    /\ AcknowledgedIsDurable
    /\ ReductionIsFinal
    /\ NothingIsLost

BesInv == TypeOK /\ NumbersAreOrdered /\ CaptureInv
-----------------------------------------------------------------------------
(* Sequences of frames                                                      *)

FrameSeq == Seq(Streams \X Nat)

\* What an entry of a sequence of frames is.
LEMMA FrameTypes ==
    ASSUME NEW q \in FrameSeq
    PROVE  /\ Len(q) \in Nat /\ DOMAIN q = 1 .. Len(q)
           /\ q = << >> <=> Len(q) = 0
           /\ \A n \in DOMAIN q : q[n][1] \in Streams /\ q[n][2] \in Nat
                                  /\ q[n] = <<q[n][1], q[n][2]>>
BY DEF FrameSeq

\* What appending a frame does.
LEMMA AppendFrame ==
    ASSUME NEW q \in FrameSeq, NEW e \in Streams \X Nat
    PROVE  /\ Append(q, e) \in FrameSeq
           /\ Len(Append(q, e)) = Len(q) + 1
           /\ \A n \in DOMAIN Append(q, e) :
                 \/ n \in DOMAIN q /\ Append(q, e)[n] = q[n]
                 \/ n = Len(q) + 1 /\ Append(q, e)[n] = e
           /\ DOMAIN q \subseteq DOMAIN Append(q, e)
           /\ Len(q) + 1 \in DOMAIN Append(q, e)
BY AppendProperties DEF FrameSeq

\* What taking the first frame does.
LEMMA TailFrames ==
    ASSUME NEW q \in FrameSeq, q # << >>
    PROVE  /\ Tail(q) \in FrameSeq /\ Head(q) = q[1] /\ 1 \in DOMAIN q
           /\ Len(Tail(q)) = Len(q) - 1
           /\ \A n \in DOMAIN Tail(q) : n + 1 \in DOMAIN q /\ Tail(q)[n] = q[n + 1]
           /\ \A n \in DOMAIN q : n = 1 \/ (n - 1 \in DOMAIN Tail(q) /\ Tail(q)[n - 1] = q[n])
BY HeadTailProperties DEF FrameSeq

Request == [seq : Nat, kind : Kinds]
Work == {"flush", "finish", "reply", "end"}
Item == [from : Streams, frames : FrameSeq]

\* The type invariant, read at one stream.
LEMMA StateTypes ==
    ASSUME TypeOK
    PROVE  /\ \A t \in Streams :
                 /\ net[t] \in Seq(Request) /\ todo[t] \in Seq(Work)
                 /\ next[t] \in Nat /\ expected[t] \in Nat /\ events[t] \in Nat
                 /\ pending[t] \in FrameSeq /\ batch[t] \in FrameSeq
                 /\ Len(net[t]) \in Nat /\ Len(pending[t]) \in Nat
           /\ channel \in Seq(Item) /\ Len(channel) \in Nat
           /\ channel # << >> => /\ Len(channel) >= 1 /\ Head(channel) = channel[1]
                                 /\ channel[1] \in Item
                                 /\ channel[1].from \in Streams
                                 /\ channel[1].frames \in FrameSeq
                                 /\ Len(channel[1].frames) \in Nat
           /\ sender \in Streams /\ ingesting \in FrameSeq /\ evidence \in FrameSeq
           /\ Len(ingesting) \in Nat /\ Len(evidence) \in Nat
           /\ MaxSeq \in Nat /\ MaxStreamEvents \in Nat
           /\ net \in [Streams -> Seq(Request)] /\ todo \in [Streams -> Seq(Work)]
           /\ pending \in [Streams -> FrameSeq] /\ batch \in [Streams -> FrameSeq]
<1>1. /\ net \in [Streams -> Seq(Request)] /\ todo \in [Streams -> Seq(Work)]
      /\ pending \in [Streams -> FrameSeq] /\ batch \in [Streams -> FrameSeq]
  BY DEF TypeOK, Request, Work, FrameSeq
<1>2. \A t \in Streams : /\ next[t] \in Nat /\ expected[t] \in Nat
                         /\ events[t] \in 0 .. MaxStreamEvents
  BY DEF TypeOK
<1>6. \A t \in Streams : Len(net[t]) \in Nat
  BY <1>1
<1>3. /\ channel \in Seq(Item) /\ sender \in Streams
      /\ ingesting \in FrameSeq /\ evidence \in FrameSeq
  BY DEF TypeOK, Item, FrameSeq
<1>4. channel # << >> => /\ Len(channel) >= 1 /\ Head(channel) = channel[1]
                         /\ channel[1] \in Item
  BY <1>3
<1>5. channel # << >> => channel[1].from \in Streams /\ channel[1].frames \in FrameSeq
  BY <1>4 DEF Item
<1> QED  BY <1>1, <1>2, <1>3, <1>4, <1>5, <1>6, FrameTypes, BesAssumption

\* A stream that fails, and is not waited for, disturbs nothing of the capture.
LEMMA FailKeeps ==
    ASSUME BesInv, NEW s \in Streams,
           rpc[s] = "loop", ack[s] # "waiting",
           rpc'[s] = "completing", \A t \in Streams \ {s} : rpc'[t] = rpc[t],
           outcome'[s] = "error", \A t \in Streams \ {s} : outcome'[t] = outcome[t],
           todo'[s] = << >>, \A t \in Streams \ {s} : todo'[t] = todo[t],
           ack'[s] = "none", \A t \in Streams \ {s} : ack'[t] = ack[t],
           UNCHANGED <<line, expected, events, pending, batch, finished, answered,
              active, channel, consumer, ingesting, sender, evidence, reduction>>
    PROVE  CaptureInv'
<1>1. OneCapture'
  BY StateTypes DEF BesInv, CaptureInv, OneCapture, Captured
<1>2. FreshIsEmpty'
  BY StateTypes DEF BesInv, CaptureInv, FreshIsEmpty
<1>3. CollectsWhenIdle'
  BY StateTypes DEF BesInv, CaptureInv, CollectsWhenIdle
<1>4. OneItem'
  BY StateTypes DEF BesInv, CaptureInv, OneItem, OneCapture, Captured
<1>5. FramesAreOrdered'
  BY DEF BesInv, CaptureInv, FramesAreOrdered, Follows
<1>6. EvidenceWasAccepted'
  BY DEF BesInv, CaptureInv, EvidenceWasAccepted
<1>7. EvidenceIsOneOrderedStream'
  BY DEF BesInv, CaptureInv, EvidenceIsOneOrderedStream
<1>8. BatchesAreWritten'
  <2>1. \A t \in Streams : \A n : Written(t, n)' <=> Written(t, n)
    BY DEF Written
  <2> QED BY <2>1, StateTypes DEF BesInv, CaptureInv, BatchesAreWritten
<1>9. AcknowledgedIsDurable'
  <2>1. answered' = answered /\ Entries' = Entries
    BY DEF Entries
  <2> QED BY <2>1 DEF BesInv, CaptureInv, AcknowledgedIsDurable
<1>10. ReductionIsFinal'
  BY DEF BesInv, CaptureInv, ReductionIsFinal
<1>11. NothingIsLost'
  BY StateTypes DEF BesInv, CaptureInv, NothingIsLost, InFlight, OneCapture, Captured
<1> QED  BY <1>1, <1>2, <1>3, <1>4, <1>5, <1>6, <1>7, <1>8, <1>9, <1>10, <1>11 DEF
   CaptureInv

\* A stream with nothing collected goes on to its next step.
LEMMA DidKeeps ==
    ASSUME BesInv, NEW s \in Streams,
           rpc[s] = "loop", pending[s] = << >>, ack[s] \in {"none", "ok"},
           \A t \in Streams \ {s} : todo'[t] = todo[t],
           ack'[s] = "none", \A t \in Streams \ {s} : ack'[t] = ack[t],
           UNCHANGED <<line, rpc, expected, events, pending, batch, finished, outcome,
              answered, active, channel, consumer, ingesting, sender, evidence,
              reduction>>
    PROVE  CaptureInv'
<1>1. OneCapture'
  BY DEF BesInv, CaptureInv, OneCapture, Captured
<1>2. FreshIsEmpty'
  BY StateTypes DEF BesInv, CaptureInv, FreshIsEmpty
<1>3. CollectsWhenIdle'
  BY StateTypes DEF BesInv, CaptureInv, CollectsWhenIdle
<1>4. OneItem'
  BY StateTypes DEF BesInv, CaptureInv, OneItem, OneCapture, Captured
<1>5. FramesAreOrdered'
  BY DEF BesInv, CaptureInv, FramesAreOrdered, Follows
<1>6. EvidenceWasAccepted'
  BY DEF BesInv, CaptureInv, EvidenceWasAccepted
<1>7. EvidenceIsOneOrderedStream'
  BY DEF BesInv, CaptureInv, EvidenceIsOneOrderedStream
<1>8. BatchesAreWritten'
  <2>1. \A t \in Streams : \A n : Written(t, n)' <=> Written(t, n)
    BY DEF Written
  <2> QED BY <2>1, StateTypes DEF BesInv, CaptureInv, BatchesAreWritten
<1>9. AcknowledgedIsDurable'
  <2>1. answered' = answered /\ Entries' = Entries
    BY DEF Entries
  <2> QED BY <2>1 DEF BesInv, CaptureInv, AcknowledgedIsDurable
<1>10. ReductionIsFinal'
  BY DEF BesInv, CaptureInv, ReductionIsFinal
<1>11. NothingIsLost'
  BY StateTypes DEF BesInv, CaptureInv, NothingIsLost, InFlight, OneCapture, Captured
<1> QED  BY <1>1, <1>2, <1>3, <1>4, <1>5, <1>6, <1>7, <1>8, <1>9, <1>10, <1>11 DEF
   CaptureInv

\* A stream begins to hand over what it collected.
LEMMA BeginKeeps ==
    ASSUME BesInv, NEW s \in Streams,
           rpc[s] = "loop", ack[s] = "none",
           todo'[s] # << >>, Head(todo'[s]) = "flush",
           \A t \in Streams \ {s} : todo'[t] = todo[t],
           UNCHANGED <<line, rpc, expected, events, pending, batch, finished, ack,
              outcome, answered, active, channel, consumer, ingesting, sender, evidence,
              reduction>>
    PROVE  CaptureInv'
<1>1. OneCapture'
  BY DEF BesInv, CaptureInv, OneCapture, Captured
<1>2. FreshIsEmpty'
  BY StateTypes DEF BesInv, CaptureInv, FreshIsEmpty
<1>3. CollectsWhenIdle'
  BY StateTypes DEF BesInv, CaptureInv, CollectsWhenIdle
<1>4. OneItem'
  BY DEF BesInv, CaptureInv, OneItem
<1>5. FramesAreOrdered'
  BY DEF BesInv, CaptureInv, FramesAreOrdered, Follows
<1>6. EvidenceWasAccepted'
  BY DEF BesInv, CaptureInv, EvidenceWasAccepted
<1>7. EvidenceIsOneOrderedStream'
  BY DEF BesInv, CaptureInv, EvidenceIsOneOrderedStream
<1>8. BatchesAreWritten'
  BY DEF BesInv, CaptureInv, BatchesAreWritten, Written
<1>9. AcknowledgedIsDurable'
  <2>1. answered' = answered /\ Entries' = Entries
    BY DEF Entries
  <2> QED BY <2>1 DEF BesInv, CaptureInv, AcknowledgedIsDurable
<1>10. ReductionIsFinal'
  BY DEF BesInv, CaptureInv, ReductionIsFinal
<1>11. NothingIsLost'
  BY DEF BesInv, CaptureInv, NothingIsLost, InFlight
<1> QED  BY <1>1, <1>2, <1>3, <1>4, <1>5, <1>6, <1>7, <1>8, <1>9, <1>10, <1>11 DEF
   CaptureInv

\* A new RPC starts a task that has done nothing.
LEMMA OpenStreamKeeps ==
    ASSUME BesInv, NEW s \in Streams, OpenStream(s)
    PROVE  BesInv'
<1>f. UNCHANGED <<net, next, todo, expected, events, pending, batch, finished, ack,
                 outcome, answered, registered, active, completion, channel, consumer, ingesting,
                 sender, evidence, control, reduction, faults>>
  BY DEF OpenStream, wire, task, reader, runner
<1>g. line[s] = "unopened"
  BY DEF OpenStream
<1>e. /\ line'[s] = "open" /\ \A t \in Streams \ {s} : line'[t] = line[t]
      /\ rpc'[s] = "first" /\ \A t \in Streams \ {s} : rpc'[t] = rpc[t]
  BY StateTypes DEF BesInv, TypeOK, OpenStream
<1>1. TypeOK'
  BY <1>f, BesAssumption DEF BesInv, TypeOK, OpenStream
<1>2. NumbersAreOrdered'
  BY <1>f DEF BesInv, NumbersAreOrdered
<1>3. CaptureInv'
  <2>1. OneCapture'
    BY <1>f, <1>g, <1>e, StateTypes DEF BesInv, CaptureInv, OneCapture, Captured,
       FreshIsEmpty
  <2>2. FreshIsEmpty'
    BY <1>f, <1>g, <1>e, StateTypes DEF BesInv, CaptureInv, FreshIsEmpty
  <2>3. CollectsWhenIdle'
    BY <1>f, <1>g, <1>e, StateTypes DEF BesInv, CaptureInv, CollectsWhenIdle, FreshIsEmpty
  <2>4. OneItem'
    BY <1>f DEF BesInv, CaptureInv, OneItem
  <2>5. FramesAreOrdered'
    BY <1>f DEF BesInv, CaptureInv, FramesAreOrdered, Follows
  <2>6. EvidenceWasAccepted'
    BY <1>f DEF BesInv, CaptureInv, EvidenceWasAccepted
  <2>7. EvidenceIsOneOrderedStream'
    BY <1>f DEF BesInv, CaptureInv, EvidenceIsOneOrderedStream
  <2>8. BatchesAreWritten'
    BY <1>f DEF BesInv, CaptureInv, BatchesAreWritten, Written
  <2>9. AcknowledgedIsDurable'
    BY <1>f DEF BesInv, CaptureInv, AcknowledgedIsDurable, Entries
  <2>10. ReductionIsFinal'
    BY <1>f DEF BesInv, CaptureInv, ReductionIsFinal
  <2>11. NothingIsLost'
    BY <1>f, <1>g, <1>e, StateTypes DEF BesInv, CaptureInv, NothingIsLost, InFlight,
       FreshIsEmpty
  <2> QED  BY <2>1, <2>2, <2>3, <2>4, <2>5, <2>6, <2>7, <2>8, <2>9, <2>10, <2>11 DEF
     CaptureInv
<1> QED  BY <1>1, <1>2, <1>3 DEF BesInv

\* A request on the wire raises Bazel's next number with the requests in flight.
LEMMA SendKeeps ==
    ASSUME BesInv, NEW s \in Streams, NEW seq \in Nat, NEW kind \in Kinds,
           Send(s, seq, kind), faults' \in Nat
    PROVE  BesInv'
<1>f. UNCHANGED <<line, rpc, todo, expected, events, pending, batch, finished, ack,
                 outcome, answered, registered, active, completion, channel, consumer, ingesting,
                 sender, evidence, control, reduction>>
  BY DEF Send, wire, task, reader, runner
<1>g. next[s] <= MaxSeq
  BY DEF Send
<1>e. /\ next'[s] = next[s] + 1 /\ \A t \in Streams \ {s} : next'[t] = next[t]
      /\ Len(net'[s]) = Len(net[s]) + 1 /\ \A t \in Streams \ {s} : net'[t] = net[t]
  <2>1. Len(Append(net[s], [seq |-> seq, kind |-> kind])) = Len(net[s]) + 1
    BY StateTypes, AppendProperties DEF BesInv, Request
  <2> QED  BY <2>1 DEF BesInv, TypeOK, Send
<1>1. TypeOK'
  <2>1. Append(net[s], [seq |-> seq, kind |-> kind]) \in Seq(Request)
    BY StateTypes, AppendProperties DEF BesInv, Request
  <2>2. net' \in [Streams -> Seq(Request)] /\ next' \in [Streams -> Nat]
    <3>1. net \in [Streams -> Seq(Request)] /\ next \in [Streams -> Nat]
      BY StateTypes DEF BesInv, TypeOK
    <3> QED  BY <2>1, <3>1 DEF Send
  <2> QED  BY <1>f, <2>2 DEF BesInv, TypeOK, Request
<1>2. NumbersAreOrdered'
  <2> SUFFICES ASSUME NEW t \in Streams
                PROVE  /\ expected[t] + Len(net'[t]) <= next'[t] /\ next'[t] <= MaxSeq + 1
    BY <1>f DEF BesInv, NumbersAreOrdered
  <2>1. CASE t = s
    <3>1. /\ expected[s] \in Nat /\ next[s] \in Nat /\ Len(net[s]) \in Nat /\ MaxSeq \in Nat
          /\ expected[s] + Len(net[s]) <= next[s] /\ next[s] <= MaxSeq + 1
      BY StateTypes DEF BesInv, NumbersAreOrdered
    <3> QED  BY <2>1, <3>1, <1>f, <1>g, <1>e
  <2>2. CASE t # s
    BY <2>2, <1>f, <1>e DEF BesInv, NumbersAreOrdered
  <2> QED  BY <2>1, <2>2
<1>3. CaptureInv'
  <2>1. OneCapture'
    BY <1>f DEF BesInv, CaptureInv, OneCapture, Captured
  <2>2. FreshIsEmpty'
    BY <1>f DEF BesInv, CaptureInv, FreshIsEmpty
  <2>3. CollectsWhenIdle'
    BY <1>f DEF BesInv, CaptureInv, CollectsWhenIdle
  <2>4. OneItem'
    BY <1>f DEF BesInv, CaptureInv, OneItem
  <2>5. FramesAreOrdered'
    BY <1>f DEF BesInv, CaptureInv, FramesAreOrdered, Follows
  <2>6. EvidenceWasAccepted'
    BY <1>f DEF BesInv, CaptureInv, EvidenceWasAccepted
  <2>7. EvidenceIsOneOrderedStream'
    BY <1>f DEF BesInv, CaptureInv, EvidenceIsOneOrderedStream
  <2>8. BatchesAreWritten'
    BY <1>f DEF BesInv, CaptureInv, BatchesAreWritten, Written
  <2>9. AcknowledgedIsDurable'
    BY <1>f DEF BesInv, CaptureInv, AcknowledgedIsDurable, Entries
  <2>10. ReductionIsFinal'
    BY <1>f DEF BesInv, CaptureInv, ReductionIsFinal
  <2>11. NothingIsLost'
    BY <1>f DEF BesInv, CaptureInv, NothingIsLost, InFlight
  <2> QED  BY <2>1, <2>2, <2>3, <2>4, <2>5, <2>6, <2>7, <2>8, <2>9, <2>10, <2>11 DEF
     CaptureInv
<1> QED  BY <1>1, <1>2, <1>3 DEF BesInv

\* Bazel's next request keeps the invariant.
LEMMA SendRequestKeeps ==
    ASSUME BesInv, NEW s \in Streams, SendRequest(s)
    PROVE  BesInv'
<1>1. PICK k \in Kinds : Send(s, next[s], k) /\ NoFault
  BY DEF SendRequest
<1>2. faults' \in Nat
  BY <1>1 DEF NoFault, BesInv, TypeOK
<1>3. next[s] \in Nat
  BY DEF BesInv, TypeOK
<1> QED  BY <1>1, <1>2, <1>3, SendKeeps

\* So does a request that ingest_stream will refuse.
LEMMA SendBadRequestKeeps ==
    ASSUME BesInv, NEW s \in Streams, SendBadRequest(s)
    PROVE  BesInv'
<1>1. next[s] \in Nat /\ next[s] + 1 \in Nat
  BY DEF BesInv, TypeOK
<1>2. faults' \in Nat
  BY DEF SendBadRequest, Fault, BesInv, TypeOK
<1>3. "invalid" \in Kinds /\ "event" \in Kinds
  BY DEF Kinds
<1> QED  BY <1>1, <1>2, <1>3, SendKeeps DEF SendBadRequest

\* Bazel closes the stream.
LEMMA CloseStreamKeeps ==
    ASSUME BesInv, NEW s \in Streams, CloseStream(s)
    PROVE  BesInv'
<1>f. UNCHANGED <<net, next, rpc, todo, expected, events, pending, batch, finished, ack,
                 outcome, answered, registered, active, completion, channel, consumer, ingesting,
                 sender, evidence, control, reduction, faults>>
  BY DEF CloseStream, wire, task, reader, runner
<1>g. line[s] = "open"
  BY DEF CloseStream
<1>e. /\ line'[s] = "closed" /\ \A t \in Streams \ {s} : line'[t] = line[t]
  BY StateTypes DEF BesInv, TypeOK, CloseStream
<1>1. TypeOK'
  BY <1>f, BesAssumption DEF BesInv, TypeOK, CloseStream
<1>2. NumbersAreOrdered'
  BY <1>f DEF BesInv, NumbersAreOrdered
<1>3. CaptureInv'
  <2>1. OneCapture'
    BY <1>f DEF BesInv, CaptureInv, OneCapture, Captured
  <2>2. FreshIsEmpty'
    BY <1>f, <1>g, <1>e, StateTypes DEF BesInv, CaptureInv, FreshIsEmpty
  <2>3. CollectsWhenIdle'
    BY <1>f DEF BesInv, CaptureInv, CollectsWhenIdle
  <2>4. OneItem'
    BY <1>f DEF BesInv, CaptureInv, OneItem
  <2>5. FramesAreOrdered'
    BY <1>f DEF BesInv, CaptureInv, FramesAreOrdered, Follows
  <2>6. EvidenceWasAccepted'
    BY <1>f DEF BesInv, CaptureInv, EvidenceWasAccepted
  <2>7. EvidenceIsOneOrderedStream'
    BY <1>f DEF BesInv, CaptureInv, EvidenceIsOneOrderedStream
  <2>8. BatchesAreWritten'
    BY <1>f DEF BesInv, CaptureInv, BatchesAreWritten, Written
  <2>9. AcknowledgedIsDurable'
    BY <1>f DEF BesInv, CaptureInv, AcknowledgedIsDurable, Entries
  <2>10. ReductionIsFinal'
    BY <1>f DEF BesInv, CaptureInv, ReductionIsFinal
  <2>11. NothingIsLost'
    BY <1>f DEF BesInv, CaptureInv, NothingIsLost, InFlight
  <2> QED  BY <2>1, <2>2, <2>3, <2>4, <2>5, <2>6, <2>7, <2>8, <2>9, <2>10, <2>11 DEF
     CaptureInv
<1> QED  BY <1>1, <1>2, <1>3 DEF BesInv

\* A broken connection loses what was in flight.
LEMMA BreakStreamKeeps ==
    ASSUME BesInv, NEW s \in Streams, BreakStream(s)
    PROVE  BesInv'
<1>f. UNCHANGED <<next, rpc, todo, expected, events, pending, batch, finished, ack,
                 outcome, answered, registered, active, completion, channel, consumer, ingesting,
                 sender, evidence, control, reduction>>
  BY DEF BreakStream, Fault, wire, task, reader, runner
<1>g. line[s] = "open"
  BY DEF BreakStream, Fault
<1>e. /\ line'[s] = "broken" /\ \A t \in Streams \ {s} : line'[t] = line[t]
      /\ net'[s] = << >> /\ \A t \in Streams \ {s} : net'[t] = net[t] /\ Len(net'[s]) = 0
  BY StateTypes DEF BesInv, TypeOK, BreakStream, Fault
<1>1. TypeOK'
  <2>1. << >> \in Seq(Request)
    OBVIOUS
  <2>2. net' \in [Streams -> Seq(Request)]
    BY <2>1, StateTypes DEF BesInv, BreakStream
  <2>3. line' \in [Streams -> {"unopened", "open", "closed", "broken"}] /\ faults' \in Nat
    BY DEF BesInv, TypeOK, BreakStream, Fault
  <2> QED  BY <1>f, <2>2, <2>3 DEF BesInv, TypeOK, Request
<1>2. NumbersAreOrdered'
  <2> SUFFICES ASSUME NEW t \in Streams
                PROVE  /\ expected[t] + Len(net'[t]) <= next'[t] /\ next'[t] <= MaxSeq + 1
    BY <1>f DEF BesInv, NumbersAreOrdered
  <2>1. CASE t = s
    <3>1. /\ expected[s] \in Nat /\ next[s] \in Nat /\ Len(net[s]) \in Nat /\ MaxSeq \in Nat
          /\ expected[s] + Len(net[s]) <= next[s] /\ next[s] <= MaxSeq + 1
      BY StateTypes DEF BesInv, NumbersAreOrdered
    <3> QED  BY <2>1, <3>1, <1>f, <1>g, <1>e
  <2>2. CASE t # s
    BY <2>2, <1>f, <1>e DEF BesInv, NumbersAreOrdered
  <2> QED  BY <2>1, <2>2
<1>3. CaptureInv'
  <2>1. OneCapture'
    BY <1>f DEF BesInv, CaptureInv, OneCapture, Captured
  <2>2. FreshIsEmpty'
    BY <1>f, <1>g, <1>e, StateTypes DEF BesInv, CaptureInv, FreshIsEmpty
  <2>3. CollectsWhenIdle'
    BY <1>f DEF BesInv, CaptureInv, CollectsWhenIdle
  <2>4. OneItem'
    BY <1>f DEF BesInv, CaptureInv, OneItem
  <2>5. FramesAreOrdered'
    BY <1>f DEF BesInv, CaptureInv, FramesAreOrdered, Follows
  <2>6. EvidenceWasAccepted'
    BY <1>f DEF BesInv, CaptureInv, EvidenceWasAccepted
  <2>7. EvidenceIsOneOrderedStream'
    BY <1>f DEF BesInv, CaptureInv, EvidenceIsOneOrderedStream
  <2>8. BatchesAreWritten'
    BY <1>f DEF BesInv, CaptureInv, BatchesAreWritten, Written
  <2>9. AcknowledgedIsDurable'
    BY <1>f DEF BesInv, CaptureInv, AcknowledgedIsDurable, Entries
  <2>10. ReductionIsFinal'
    BY <1>f DEF BesInv, CaptureInv, ReductionIsFinal
  <2>11. NothingIsLost'
    BY <1>f DEF BesInv, CaptureInv, NothingIsLost, InFlight
  <2> QED  BY <2>1, <2>2, <2>3, <2>4, <2>5, <2>6, <2>7, <2>8, <2>9, <2>10, <2>11 DEF
     CaptureInv
<1> QED  BY <1>1, <1>2, <1>3 DEF BesInv

\* Without a first request the task ends, untouched.
LEMMA FirstRequestFailsKeeps ==
    ASSUME BesInv, NEW s \in Streams, FirstRequestFails(s)
    PROVE  BesInv'
<1>f. UNCHANGED <<line, net, next, todo, expected, events, pending, batch, finished,
                 ack, outcome, answered, registered, active, completion, channel, consumer, ingesting,
                 sender, evidence, control, reduction, faults>>
  BY DEF FirstRequestFails, wire, task, reader, runner
<1>g. rpc[s] = "first"
  BY DEF FirstRequestFails
<1>e. /\ rpc'[s] = "done" /\ \A t \in Streams \ {s} : rpc'[t] = rpc[t]
  BY StateTypes DEF BesInv, TypeOK, FirstRequestFails
<1>1. TypeOK'
  BY <1>f, BesAssumption DEF BesInv, TypeOK, FirstRequestFails
<1>2. NumbersAreOrdered'
  BY <1>f DEF BesInv, NumbersAreOrdered
<1>3. CaptureInv'
  <2>1. OneCapture'
    BY <1>f, <1>g, <1>e, StateTypes DEF BesInv, CaptureInv, OneCapture, Captured,
       FreshIsEmpty
  <2>2. FreshIsEmpty'
    BY <1>f, <1>g, <1>e, StateTypes DEF BesInv, CaptureInv, FreshIsEmpty
  <2>3. CollectsWhenIdle'
    BY <1>f, <1>g, <1>e, StateTypes DEF BesInv, CaptureInv, CollectsWhenIdle, FreshIsEmpty
  <2>4. OneItem'
    BY <1>f DEF BesInv, CaptureInv, OneItem
  <2>5. FramesAreOrdered'
    BY <1>f DEF BesInv, CaptureInv, FramesAreOrdered, Follows
  <2>6. EvidenceWasAccepted'
    BY <1>f DEF BesInv, CaptureInv, EvidenceWasAccepted
  <2>7. EvidenceIsOneOrderedStream'
    BY <1>f DEF BesInv, CaptureInv, EvidenceIsOneOrderedStream
  <2>8. BatchesAreWritten'
    BY <1>f DEF BesInv, CaptureInv, BatchesAreWritten, Written
  <2>9. AcknowledgedIsDurable'
    BY <1>f DEF BesInv, CaptureInv, AcknowledgedIsDurable, Entries
  <2>10. ReductionIsFinal'
    BY <1>f DEF BesInv, CaptureInv, ReductionIsFinal
  <2>11. NothingIsLost'
    BY <1>f, <1>g, <1>e, StateTypes DEF BesInv, CaptureInv, NothingIsLost, InFlight,
       FreshIsEmpty
  <2> QED  BY <2>1, <2>2, <2>3, <2>4, <2>5, <2>6, <2>7, <2>8, <2>9, <2>10, <2>11 DEF
     CaptureInv
<1> QED  BY <1>1, <1>2, <1>3 DEF BesInv

\* So it does when the first request names no invocation.
LEMMA UnidentifiedKeeps ==
    ASSUME BesInv, NEW s \in Streams, Unidentified(s)
    PROVE  BesInv'
<1>f. UNCHANGED <<line, net, next, todo, expected, events, pending, batch, finished,
                 ack, outcome, answered, registered, active, completion, channel, consumer, ingesting,
                 sender, evidence, control, reduction, faults>>
  BY DEF Unidentified, wire, task, reader, runner
<1>g. rpc[s] = "first"
  BY DEF Unidentified
<1>e. /\ rpc'[s] = "done" /\ \A t \in Streams \ {s} : rpc'[t] = rpc[t]
  BY StateTypes DEF BesInv, TypeOK, Unidentified
<1>1. TypeOK'
  BY <1>f, BesAssumption DEF BesInv, TypeOK, Unidentified
<1>2. NumbersAreOrdered'
  BY <1>f DEF BesInv, NumbersAreOrdered
<1>3. CaptureInv'
  <2>1. OneCapture'
    BY <1>f, <1>g, <1>e, StateTypes DEF BesInv, CaptureInv, OneCapture, Captured,
       FreshIsEmpty
  <2>2. FreshIsEmpty'
    BY <1>f, <1>g, <1>e, StateTypes DEF BesInv, CaptureInv, FreshIsEmpty
  <2>3. CollectsWhenIdle'
    BY <1>f, <1>g, <1>e, StateTypes DEF BesInv, CaptureInv, CollectsWhenIdle, FreshIsEmpty
  <2>4. OneItem'
    BY <1>f DEF BesInv, CaptureInv, OneItem
  <2>5. FramesAreOrdered'
    BY <1>f DEF BesInv, CaptureInv, FramesAreOrdered, Follows
  <2>6. EvidenceWasAccepted'
    BY <1>f DEF BesInv, CaptureInv, EvidenceWasAccepted
  <2>7. EvidenceIsOneOrderedStream'
    BY <1>f DEF BesInv, CaptureInv, EvidenceIsOneOrderedStream
  <2>8. BatchesAreWritten'
    BY <1>f DEF BesInv, CaptureInv, BatchesAreWritten, Written
  <2>9. AcknowledgedIsDurable'
    BY <1>f DEF BesInv, CaptureInv, AcknowledgedIsDurable, Entries
  <2>10. ReductionIsFinal'
    BY <1>f DEF BesInv, CaptureInv, ReductionIsFinal
  <2>11. NothingIsLost'
    BY <1>f, <1>g, <1>e, StateTypes DEF BesInv, CaptureInv, NothingIsLost, InFlight,
       FreshIsEmpty
  <2> QED  BY <2>1, <2>2, <2>3, <2>4, <2>5, <2>6, <2>7, <2>8, <2>9, <2>10, <2>11 DEF
     CaptureInv
<1> QED  BY <1>1, <1>2, <1>3 DEF BesInv

\* The lookup admits the first stream only, and then nothing was captured before.
LEMMA LookupCaptureKeeps ==
    ASSUME BesInv, NEW s \in Streams, LookupCapture(s)
    PROVE  BesInv'
<1>f. UNCHANGED <<line, net, next, todo, expected, events, pending, batch, finished,
                 ack, outcome, answered, registered, channel, consumer, ingesting, sender, evidence,
                 control, reduction, faults>>
  BY DEF LookupCapture, wire, task, reader, runner
<1>g. rpc[s] = "first"
  BY DEF LookupCapture
<1>e. /\ \A t \in Streams \ {s} : rpc'[t] = rpc[t]
      /\ \/ rpc'[s] = "done" /\ (active => active')
         \/ rpc'[s] = "loop" /\ ~active /\ active'
  BY StateTypes DEF BesInv, TypeOK, LookupCapture
<1>1. TypeOK'
  BY <1>f, BesAssumption DEF BesInv, TypeOK, LookupCapture
<1>2. NumbersAreOrdered'
  BY <1>f DEF BesInv, NumbersAreOrdered
<1>3. CaptureInv'
  <2>1. OneCapture'
    <3>1. CASE rpc'[s] = "done" /\ (active => active')
      BY <3>1, <1>f, <1>g, <1>e DEF BesInv, CaptureInv, OneCapture, Captured
    <3>2. CASE rpc'[s] = "loop" /\ ~active /\ active'
      <4>1. \A t \in Streams : Captured(t)' => t = s
        BY <3>2, <1>f, <1>e DEF BesInv, CaptureInv, OneCapture, Captured
      <4> QED  BY <3>2, <4>1 DEF OneCapture
    <3> QED  BY <3>1, <3>2, <1>e
  <2>2. FreshIsEmpty'
    BY <1>f, <1>g, <1>e, StateTypes DEF BesInv, CaptureInv, FreshIsEmpty
  <2>3. CollectsWhenIdle'
    BY <1>f, <1>g, <1>e, StateTypes DEF BesInv, CaptureInv, CollectsWhenIdle, FreshIsEmpty
  <2>4. OneItem'
    BY <1>f DEF BesInv, CaptureInv, OneItem
  <2>5. FramesAreOrdered'
    BY <1>f DEF BesInv, CaptureInv, FramesAreOrdered, Follows
  <2>6. EvidenceWasAccepted'
    BY <1>f DEF BesInv, CaptureInv, EvidenceWasAccepted
  <2>7. EvidenceIsOneOrderedStream'
    BY <1>f DEF BesInv, CaptureInv, EvidenceIsOneOrderedStream
  <2>8. BatchesAreWritten'
    BY <1>f DEF BesInv, CaptureInv, BatchesAreWritten, Written
  <2>9. AcknowledgedIsDurable'
    BY <1>f DEF BesInv, CaptureInv, AcknowledgedIsDurable, Entries
  <2>10. ReductionIsFinal'
    BY <1>f DEF BesInv, CaptureInv, ReductionIsFinal
  <2>11. NothingIsLost'
    <3>a. ASSUME rpc'[s] = "loop", ~active
          PROVE  /\ events[s] = 0 /\ Len(pending[s]) = 0
                 /\ Len(evidence) = 0 /\ Len(ingesting) = 0 /\ channel = << >>
      <4>1. \A t \in Streams : ~Captured(t)
        BY <3>a DEF BesInv, CaptureInv, OneCapture
      <4>2. channel = << >> /\ consumer # "ingesting"
        BY <4>1, StateTypes DEF BesInv, CaptureInv, OneItem, CollectsWhenIdle, Captured
      <4>3. evidence = << >>
        <5> SUFFICES ASSUME evidence # << >> PROVE FALSE
          OBVIOUS
        <5>1. 1 \in DOMAIN evidence
          BY StateTypes, FrameTypes DEF BesInv
        <5>2. evidence[1][1] \in Streams /\ evidence[1][2] \in Nat
          BY <5>1, StateTypes, FrameTypes DEF BesInv
        <5>3. expected[evidence[1][1]] \in Nat
          BY <5>2, StateTypes DEF BesInv
        <5>4. expected[evidence[1][1]] > 1
          BY <5>1, <5>2, <5>3 DEF BesInv, CaptureInv, EvidenceWasAccepted
        <5> QED  BY <5>2, <5>4, <4>1 DEF Captured
      <4>4. events[s] = 0 /\ pending[s] = << >>
        <5>1. events[s] \in Nat /\ expected[s] = 1 /\ events[s] < expected[s]
          BY <1>g, StateTypes DEF BesInv, NumbersAreOrdered, CaptureInv, FreshIsEmpty
        <5> QED  BY <5>1, <1>g DEF BesInv, CaptureInv, FreshIsEmpty
      <4> QED  BY <4>2, <4>3, <4>4 DEF BesInv, CaptureInv, OneItem
    <3>b. rpc'[s] # "loop" \/ (rpc'[s] = "loop" /\ ~active)
      BY <1>e
    <3>c. ASSUME NEW t \in Streams, t # s PROVE rpc'[t] = rpc[t]
      BY <3>c, <1>e
    <3>d. rpc'[s] = "loop" => events[s] = Len(evidence) + InFlight + Len(pending[s])
      BY <3>a, <3>b DEF InFlight
    <3>e. outcome[s] # "ok" /\ (finished[s] => expected[s] > 1)
      BY <1>g DEF BesInv, CaptureInv, NothingIsLost
    <3> QED
      BY <3>c, <3>d, <3>e, <1>f DEF BesInv, CaptureInv, NothingIsLost, InFlight
  <2> QED  BY <2>1, <2>2, <2>3, <2>4, <2>5, <2>6, <2>7, <2>8, <2>9, <2>10, <2>11 DEF
     CaptureInv
<1> QED  BY <1>1, <1>2, <1>3 DEF BesInv

\* While the captured stream waits for nothing, no item is on its way.
LEMMA NothingOnItsWay ==
    ASSUME BesInv, NEW s \in Streams, Captured(s), ack[s] # "waiting"
    PROVE  channel = << >> /\ consumer # "ingesting" /\ ingesting = << >> /\ InFlight = 0
<1>1. \A t \in Streams : ack[t] = "waiting" => t = s
  BY DEF BesInv, CaptureInv, OneCapture, CollectsWhenIdle, Captured
<1>2. channel = << >> /\ consumer # "ingesting"
  BY <1>1, StateTypes DEF BesInv, CaptureInv, OneItem
<1>3. ingesting = << >>
  BY <1>2 DEF BesInv, CaptureInv, OneItem
<1>4. Len(ingesting) = 0
  BY <1>3
<1> QED  BY <1>2, <1>3, <1>4 DEF InFlight

\* A task between two requests waits for no answer.
LEMMA IdleWaitsForNothing ==
    ASSUME BesInv, NEW s \in Streams, todo[s] = << >> \/ rpc[s] # "loop"
    PROVE  ack[s] = "none"
BY DEF BesInv, CaptureInv, CollectsWhenIdle

\* What failing a stream changes.
LEMMA FailEffect ==
    ASSUME BesInv, NEW s \in Streams, Fail(s)
    PROVE  /\ rpc'[s] = "completing" /\ \A t \in Streams \ {s} : rpc'[t] = rpc[t]
           /\ outcome'[s] = "error" /\ \A t \in Streams \ {s} : outcome'[t] = outcome[t]
           /\ todo'[s] = << >> /\ \A t \in Streams \ {s} : todo'[t] = todo[t]
           /\ todo' \in [Streams -> Seq(Work)]
           /\ rpc' \in [Streams -> {"unopened", "first", "loop", "completing", "done"}]
           /\ outcome' \in [Streams -> {"none", "ok", "error"}]
<1>1. /\ rpc \in [Streams -> {"unopened", "first", "loop", "completing", "done"}]
      /\ outcome \in [Streams -> {"none", "ok", "error"}]
      /\ todo \in [Streams -> Seq(Work)]
  BY StateTypes DEF BesInv, TypeOK
<1>2. << >> \in Seq(Work)
  OBVIOUS
<1> QED  BY <1>1, <1>2 DEF Fail

\* A request that is refused fails its stream.
LEMMA TakeRefusedKeeps ==
    ASSUME BesInv, NEW s \in Streams, TakeRequest(s), ~Accepted(s, Head(net[s]))
    PROVE  BesInv'
<1>f. UNCHANGED <<line, next, expected, events, pending, batch, finished, ack, answered,
                 registered, active, completion, channel, consumer, ingesting, sender, evidence,
                 control, reduction, faults>>
  BY DEF TakeRequest, Idle, Fail, wire, task, reader, runner
<1>g. rpc[s] = "loop" /\ todo[s] = << >> /\ net[s] # << >>
  BY DEF TakeRequest, Idle, Fail
<1>e. /\ rpc'[s] = "completing" /\ \A t \in Streams \ {s} : rpc'[t] = rpc[t]
      /\ outcome'[s] = "error" /\ \A t \in Streams \ {s} : outcome'[t] = outcome[t]
      /\ todo'[s] = << >> /\ \A t \in Streams \ {s} : todo'[t] = todo[t]
      /\ Len(net'[s]) = Len(net[s]) - 1 /\ \A t \in Streams \ {s} : net'[t] = net[t]
  <2>1. Len(Tail(net[s])) = Len(net[s]) - 1
    BY <1>g, StateTypes, HeadTailProperties DEF BesInv
  <2>2. Fail(s) /\ net' = [net EXCEPT ![s] = Tail(net[s])] /\ net \in [Streams -> Seq(Request)]
    BY StateTypes DEF BesInv, TakeRequest
  <2> QED  BY <2>1, <2>2, FailEffect
<1>1. TypeOK'
  <2>1. Fail(s)
    BY DEF TakeRequest
  <2>4. Tail(net[s]) \in Seq(Request)
    BY <1>g, StateTypes, HeadTailProperties DEF BesInv
  <2>5. net' \in [Streams -> Seq(Request)]
    BY <2>4, StateTypes DEF BesInv, TakeRequest
  <2> QED  BY <1>f, <2>1, FailEffect, <2>5 DEF BesInv, TypeOK, Work, Request
<1>2. NumbersAreOrdered'
  <2> SUFFICES ASSUME NEW t \in Streams
                PROVE  expected[t] + Len(net'[t]) <= next[t]
    BY <1>f DEF BesInv, NumbersAreOrdered
  <2>1. CASE t = s
    <3>1. /\ expected[s] \in Nat /\ next[s] \in Nat /\ Len(net[s]) \in Nat
          /\ expected[s] + Len(net[s]) <= next[s]
      BY StateTypes DEF BesInv, NumbersAreOrdered
    <3> QED  BY <2>1, <3>1, <1>f, <1>e
  <2>2. CASE t # s
    BY <2>2, <1>f, <1>e DEF BesInv, NumbersAreOrdered
  <2> QED  BY <2>1, <2>2
<1>3. CaptureInv'
  <2>1. ack[s] = "none"
    BY <1>g, IdleWaitsForNothing
  <2> QED  BY <2>1, <1>f, <1>g, <1>e, FailKeeps
<1> QED  BY <1>1, <1>2, <1>3 DEF BesInv

\* What the loop still does with an accepted request starts with a flush.
LEMMA StepsBeginWithFlush ==
    ASSUME NEW s \in Streams, NEW kind \in {"event", "empty", "finished"}
    PROVE  /\ Steps(s, kind) \in Seq(Work)
           /\ Steps(s, kind) # << >> => Head(Steps(s, kind)) = "flush"
<1>1. /\ << >> \in Seq(Work) /\ <<"flush">> \in Seq(Work)
      /\ <<"flush", "reply">> \in Seq(Work) /\ <<"flush", "finish", "reply">> \in Seq(Work)
  BY DEF Work
<1>2. CASE kind = "event"
  <2>1. Steps(s, kind) = << >> \/ Steps(s, kind) = <<"flush">>
    BY <1>2 DEF Steps
  <2>2. CASE Steps(s, kind) = << >>
    BY <1>1, <2>2
  <2>3. CASE Steps(s, kind) = <<"flush">>
    BY <1>1, <2>3
  <2> QED  BY <2>1, <2>2, <2>3
<1>3. CASE kind = "empty"
  <2>1. Steps(s, kind) = <<"flush", "reply">>
    BY <1>3 DEF Steps
  <2> QED  BY <1>1, <2>1
<1>4. CASE kind = "finished"
  <2>1. Steps(s, kind) = <<"flush", "finish", "reply">>
    BY <1>4 DEF Steps
  <2> QED  BY <1>1, <2>1
<1> QED  BY <1>2, <1>3, <1>4

\* An accepted event is collected behind the evidence.
LEMMA TakeEventKeeps ==
    ASSUME BesInv, NEW s \in Streams, TakeRequest(s), Accepted(s, Head(net[s])),
           Head(net[s]).kind = "event"
    PROVE  BesInv'
<1>f. UNCHANGED <<line, next, rpc, batch, ack, outcome, answered, registered, active,
                 completion, channel, consumer, ingesting, sender, evidence, control, reduction,
                 faults>>
  BY DEF TakeRequest, Idle, Accepted, SameStream, WithinLimits, wire, task, reader,
     runner
<1>g. /\ rpc[s] = "loop" /\ todo[s] = << >> /\ net[s] # << >> /\ Head(net[s]).kind = "event"
      /\ Head(net[s]).seq = expected[s] /\ events[s] < MaxStreamEvents
  BY DEF TakeRequest, Idle, Accepted, SameStream, WithinLimits
<1>r. /\ net' = [net EXCEPT ![s] = Tail(net[s])]
      /\ expected' = [expected EXCEPT ![s] = expected[s] + 1]
      /\ finished' = [finished EXCEPT ![s] = Head(net[s]).kind = "finished"]
      /\ todo' = [todo EXCEPT ![s] = Steps(s, Head(net[s]).kind)]
      /\ events' = [events EXCEPT ![s] = events[s] + 1]
      /\ pending' = [pending EXCEPT ![s] = Append(pending[s], <<s, expected[s]>>)]
  BY <1>g DEF TakeRequest
<1>e. /\ expected'[s] = expected[s] + 1 /\ \A t \in Streams \ {s} : expected'[t] = expected[t]
      /\ Len(net'[s]) = Len(net[s]) - 1 /\ \A t \in Streams \ {s} : net'[t] = net[t]
      /\ todo'[s] # << >> => Head(todo'[s]) = "flush"
      /\ \A t \in Streams \ {s} : todo'[t] = todo[t] /\ finished'[t] = finished[t]
      /\ events'[s] = events[s] + 1 /\ \A t \in Streams \ {s} : events'[t] = events[t]
      /\ pending'[s] = Append(pending[s], <<s, expected[s]>>) /\ \A t \in Streams \ {s} : pending'[t] = pending[t]
  <2>1. Len(Tail(net[s])) = Len(net[s]) - 1
    BY <1>g, StateTypes, HeadTailProperties DEF BesInv
  <2>2. Steps(s, Head(net[s]).kind) # << >> => Head(Steps(s, Head(net[s]).kind)) = "flush"
    BY <1>g, StepsBeginWithFlush
  <2>3. /\ net \in [Streams -> Seq(Request)] /\ todo \in [Streams -> Seq(Work)]
        /\ expected \in [Streams -> Nat] /\ finished \in [Streams -> BOOLEAN]
        /\ events \in [Streams -> 0 .. MaxStreamEvents] /\ pending \in [Streams -> FrameSeq]
    BY StateTypes DEF BesInv, TypeOK
  <2> QED  BY <1>r, <2>1, <2>2, <2>3
<1>1. TypeOK'
  <2>1. Tail(net[s]) \in Seq(Request)
    BY <1>g, StateTypes, HeadTailProperties DEF BesInv
  <2>2. net' \in [Streams -> Seq(Request)]
    BY <2>1, <1>r, StateTypes DEF BesInv
  <2>3. todo' \in [Streams -> Seq(Work)]
    BY <1>g, <1>r, StateTypes, StepsBeginWithFlush DEF BesInv
  <2>4. expected' \in [Streams -> Nat]
    <3>1. expected \in [Streams -> Nat]
      BY DEF BesInv, TypeOK
    <3> QED  BY <1>r, <3>1
  <2>5. finished' \in [Streams -> BOOLEAN]
    BY <1>r, Zenon DEF BesInv, TypeOK
  <2>6. events' \in [Streams -> 0 .. MaxStreamEvents]
    <3>1. events[s] + 1 \in 0 .. MaxStreamEvents
      <4>1. events[s] \in Nat /\ MaxStreamEvents \in Nat
        BY StateTypes DEF BesInv
      <4> QED  BY <4>1, <1>g
    <3> QED  BY <1>r, <3>1 DEF BesInv, TypeOK
  <2>7. Append(pending[s], <<s, expected[s]>>) \in FrameSeq
    BY StateTypes, AppendFrame DEF BesInv
  <2>8. pending' \in [Streams -> FrameSeq]
    BY <1>r, <2>7, StateTypes DEF BesInv
  <2> QED  BY <1>f, <2>2, <2>3, <2>4, <2>5, <2>6, <2>8 DEF BesInv, TypeOK, Work, Request, FrameSeq
<1>2. NumbersAreOrdered'
  <2> SUFFICES ASSUME NEW t \in Streams
                PROVE  /\ expected'[t] >= 1 /\ events'[t] < expected'[t]
                       /\ expected'[t] + Len(net'[t]) <= next[t]
    BY <1>f DEF BesInv, NumbersAreOrdered
  <2>1. CASE t = s
    <3>1. /\ expected[s] \in Nat /\ next[s] \in Nat /\ Len(net[s]) \in Nat /\ events[s] \in Nat
          /\ expected[s] + Len(net[s]) <= next[s] /\ events[s] < expected[s]
      BY StateTypes DEF BesInv, NumbersAreOrdered
    <3>2. /\ expected'[s] = expected[s] + 1 /\ Len(net'[s]) = Len(net[s]) - 1
          /\ events'[s] = events[s] \/ events'[s] = events[s] + 1
      BY <1>e, <1>f
    <3>3. expected[s] + 1 >= 1 /\ expected[s] + 1 + (Len(net[s]) - 1) <= next[s]
      BY <3>1
    <3>4. events'[s] < expected'[s]
      BY <3>1, <3>2
    <3> QED  BY <2>1, <3>2, <3>3, <3>4
  <2>2. CASE t # s
    BY <2>2, <1>f, <1>e DEF BesInv, NumbersAreOrdered
  <2> QED  BY <2>1, <2>2
<1>3. CaptureInv'
  <2>1. OneCapture'
    <3>1. \A t \in Streams : Captured(t)' => Captured(t)
      BY <1>f, <1>g, <1>e DEF Captured
    <3> QED  BY <3>1, <1>f DEF BesInv, CaptureInv, OneCapture
  <2>2. FreshIsEmpty'
    BY <1>f, <1>g, <1>e, StateTypes DEF BesInv, CaptureInv, FreshIsEmpty
  <2>3. CollectsWhenIdle'
    <3>1. ack[s] = "none"
      BY <1>g, IdleWaitsForNothing
    <3> QED  BY <3>1, <1>f, <1>g, <1>e DEF BesInv, CaptureInv, CollectsWhenIdle
  <2>4. OneItem'
    BY <1>f DEF BesInv, CaptureInv, OneItem
  <2>5. FramesAreOrdered'
    <3>1. \A t \in Streams : expected[t] \in Nat /\ expected'[t] \in Nat /\ expected[t] <= expected'[t]
      <4>1. \A t \in Streams : expected[t] \in Nat
        BY StateTypes DEF BesInv
      <4>2. ASSUME NEW t \in Streams
            PROVE  expected'[t] = expected[t] \/ expected'[t] = expected[t] + 1
        BY <1>e
      <4> QED  BY <4>1, <4>2
    <3>2. ASSUME NEW t \in Streams, NEW q \in FrameSeq, Follows(q, t)
          PROVE  /\ \A n \in DOMAIN q : q[n][1] = t /\ 1 <= q[n][2] /\ q[n][2] < expected'[t]
                 /\ \A m, n \in DOMAIN q : m < n => q[m][2] < q[n][2]
                 /\ \A m \in DOMAIN evidence, n \in DOMAIN q : evidence[m][2] < q[n][2]
      BY <3>1, <3>2, FrameTypes DEF Follows
    <3>3. channel = << >> /\ ingesting = << >>
      BY <1>g, IdleWaitsForNothing, NothingOnItsWay DEF Captured
    <3>4. ASSUME NEW t \in Streams, t # s PROVE Follows(pending[t], t)'
      <4>1. pending[t] \in FrameSeq /\ Follows(pending[t], t) /\ pending'[t] = pending[t]
        BY <3>4, <1>e, StateTypes DEF BesInv, CaptureInv, FramesAreOrdered
      <4> QED  BY <3>2, <4>1, <1>f DEF Follows
    <3>5. Follows(pending[s], s)'
      <4> DEFINE q == Append(pending[s], <<s, expected[s]>>)
      <4>1. pending[s] \in FrameSeq /\ Follows(pending[s], s) /\ expected[s] \in Nat
        BY StateTypes DEF BesInv, CaptureInv, FramesAreOrdered
      <4>2. \A n \in DOMAIN q : (n \in DOMAIN pending[s] /\ q[n] = pending[s][n])
                                \/ (n = Len(pending[s]) + 1 /\ q[n] = <<s, expected[s]>>)
        <5>1. <<s, expected[s]>> \in Streams \X Nat
          BY <4>1
        <5> QED  BY <4>1, <5>1, AppendFrame
      <4>3. \A n \in DOMAIN pending[s] : n <= Len(pending[s]) /\ n \in Nat /\ pending[s][n][2] \in Nat
        BY <4>1, FrameTypes
      <4>4. \A m \in DOMAIN evidence : evidence[m][2] \in Nat /\ evidence[m][2] < expected[s]
        <5> SUFFICES ASSUME NEW m \in DOMAIN evidence
                     PROVE  evidence[m][2] \in Nat /\ evidence[m][2] < expected[s]
          OBVIOUS
        <5>1. evidence[m][1] \in Streams /\ evidence[m][2] \in Nat
          BY StateTypes, FrameTypes DEF BesInv
        <5>2. 1 <= evidence[m][2] /\ evidence[m][2] < expected[evidence[m][1]]
          BY DEF BesInv, CaptureInv, EvidenceWasAccepted
        <5>3. expected[evidence[m][1]] \in Nat
          BY <5>1, StateTypes DEF BesInv
        <5>4. Captured(evidence[m][1]) /\ Captured(s)
          BY <1>g, <5>1, <5>2, <5>3 DEF Captured
        <5> QED  BY <5>1, <5>2, <5>4 DEF BesInv, CaptureInv, OneCapture
      <4>5. expected[s] >= 1 /\ Len(pending[s]) \in Nat
        BY StateTypes DEF BesInv, NumbersAreOrdered
      <4>6. \A n \in DOMAIN q : q[n][1] = s /\ 1 <= q[n][2] /\ q[n][2] < expected'[s]
        BY <4>1, <4>2, <4>3, <4>5, <1>e DEF Follows
      <4>7. \A m, n \in DOMAIN q : m < n => q[m][2] < q[n][2]
        BY <4>1, <4>2, <4>3, <4>5 DEF Follows
      <4>8. \A m \in DOMAIN evidence, n \in DOMAIN q : evidence[m][2] < q[n][2]
        BY <4>1, <4>2, <4>3, <4>4 DEF Follows
      <4> QED  BY <4>6, <4>7, <4>8, <1>e, <1>f DEF Follows
    <3>6. Follows(ingesting, sender)'
      BY <3>3, <1>f DEF Follows
    <3> QED  BY <3>3, <3>4, <3>5, <3>6, <1>f DEF FramesAreOrdered
  <2>6. EvidenceWasAccepted'
    <3>1. \A t \in Streams : expected[t] \in Nat /\ expected'[t] \in Nat /\ expected[t] <= expected'[t]
      <4>1. \A t \in Streams : expected[t] \in Nat
        BY StateTypes DEF BesInv
      <4>2. ASSUME NEW t \in Streams
            PROVE  expected'[t] = expected[t] \/ expected'[t] = expected[t] + 1
        BY <1>e
      <4> QED  BY <4>1, <4>2
    <3>2. \A n \in DOMAIN evidence : evidence[n][1] \in Streams /\ evidence[n][2] \in Nat
      BY StateTypes, FrameTypes DEF BesInv
    <3> QED  BY <3>1, <3>2, <1>f DEF BesInv, CaptureInv, EvidenceWasAccepted
  <2>7. EvidenceIsOneOrderedStream'
    BY <1>f DEF BesInv, CaptureInv, EvidenceIsOneOrderedStream
  <2>8. BatchesAreWritten'
    BY <1>f DEF BesInv, CaptureInv, BatchesAreWritten, Written
  <2>9. AcknowledgedIsDurable'
    BY <1>f DEF BesInv, CaptureInv, AcknowledgedIsDurable, Entries
  <2>10. ReductionIsFinal'
    BY <1>f DEF BesInv, CaptureInv, ReductionIsFinal
  <2>11. NothingIsLost'
    <3>1. ack[s] = "none" /\ InFlight' = InFlight
      BY <1>f, <1>g, IdleWaitsForNothing DEF InFlight
    <3>2. ASSUME NEW t \in Streams, t # s
          PROVE  /\ events'[t] = events[t] /\ pending'[t] = pending[t]
                 /\ finished'[t] = finished[t] /\ expected'[t] = expected[t]
      BY <3>2, <1>e, <1>f
    <3>3. expected'[s] > 1 /\ outcome[s] # "ok"
      <4>1. expected[s] \in Nat /\ expected[s] >= 1
        BY StateTypes DEF BesInv, NumbersAreOrdered
      <4>2. expected'[s] > 1
        BY <4>1, <1>e
      <4> QED  BY <4>2, <1>g DEF BesInv, CaptureInv, NothingIsLost
    <3>4. events'[s] = Len(evidence) + InFlight + Len(pending'[s])
      <4>1. Len(pending'[s]) = Len(pending[s]) + 1
        BY <1>e, StateTypes, AppendFrame DEF BesInv
      <4>2. events[s] = Len(evidence) + InFlight + Len(pending[s])
        BY <3>1, <1>g DEF BesInv, CaptureInv, NothingIsLost
      <4>3. /\ Len(evidence) \in Nat /\ Len(pending[s]) \in Nat
            /\ InFlight = 0
        BY <1>g, StateTypes, IdleWaitsForNothing, NothingOnItsWay DEF BesInv, Captured
      <4> QED  BY <4>1, <4>2, <4>3, <1>e
    <3> QED  BY <3>1, <3>2, <3>3, <3>4, <1>f DEF BesInv, CaptureInv, NothingIsLost
  <2> QED  BY <2>1, <2>2, <2>3, <2>4, <2>5, <2>6, <2>7, <2>8, <2>9, <2>10, <2>11 DEF
     CaptureInv
<1> QED  BY <1>1, <1>2, <1>3 DEF BesInv

\* Any other accepted request raises the expected number.
LEMMA TakeMarkerKeeps ==
    ASSUME BesInv, NEW s \in Streams, TakeRequest(s), Accepted(s, Head(net[s])),
           Head(net[s]).kind \in {"empty", "finished"}
    PROVE  BesInv'
<1>f. UNCHANGED <<line, next, rpc, events, pending, batch, ack, outcome, answered,
                 registered, active, completion, channel, consumer, ingesting, sender, evidence,
                 control, reduction, faults>>
  BY DEF TakeRequest, Idle, Accepted, SameStream, WithinLimits, wire, task, reader,
     runner
<1>g. /\ rpc[s] = "loop" /\ todo[s] = << >> /\ net[s] # << >> /\ Head(net[s]).kind \in {"empty", "finished"}
      /\ Head(net[s]).seq = expected[s]
  BY DEF TakeRequest, Idle, Accepted, SameStream, WithinLimits
<1>r. /\ net' = [net EXCEPT ![s] = Tail(net[s])]
      /\ expected' = [expected EXCEPT ![s] = expected[s] + 1]
      /\ finished' = [finished EXCEPT ![s] = Head(net[s]).kind = "finished"]
      /\ todo' = [todo EXCEPT ![s] = Steps(s, Head(net[s]).kind)]
  BY <1>g DEF TakeRequest
<1>e. /\ expected'[s] = expected[s] + 1 /\ \A t \in Streams \ {s} : expected'[t] = expected[t]
      /\ Len(net'[s]) = Len(net[s]) - 1 /\ \A t \in Streams \ {s} : net'[t] = net[t]
      /\ todo'[s] # << >> => Head(todo'[s]) = "flush"
      /\ \A t \in Streams \ {s} : todo'[t] = todo[t] /\ finished'[t] = finished[t]
  <2>1. Len(Tail(net[s])) = Len(net[s]) - 1
    BY <1>g, StateTypes, HeadTailProperties DEF BesInv
  <2>2. Steps(s, Head(net[s]).kind) # << >> => Head(Steps(s, Head(net[s]).kind)) = "flush"
    BY <1>g, StepsBeginWithFlush
  <2>3. /\ net \in [Streams -> Seq(Request)] /\ todo \in [Streams -> Seq(Work)]
        /\ expected \in [Streams -> Nat] /\ finished \in [Streams -> BOOLEAN]
        /\ events \in [Streams -> 0 .. MaxStreamEvents] /\ pending \in [Streams -> FrameSeq]
    BY StateTypes DEF BesInv, TypeOK
  <2> QED  BY <1>r, <2>1, <2>2, <2>3
<1>1. TypeOK'
  <2>1. Tail(net[s]) \in Seq(Request)
    BY <1>g, StateTypes, HeadTailProperties DEF BesInv
  <2>2. net' \in [Streams -> Seq(Request)]
    BY <2>1, <1>r, StateTypes DEF BesInv
  <2>3. todo' \in [Streams -> Seq(Work)]
    BY <1>g, <1>r, StateTypes, StepsBeginWithFlush DEF BesInv
  <2>4. expected' \in [Streams -> Nat]
    <3>1. expected \in [Streams -> Nat]
      BY DEF BesInv, TypeOK
    <3> QED  BY <1>r, <3>1
  <2>5. finished' \in [Streams -> BOOLEAN]
    BY <1>r, Zenon DEF BesInv, TypeOK
  <2> QED  BY <1>f, <2>2, <2>3, <2>4, <2>5 DEF BesInv, TypeOK, Work, Request, FrameSeq
<1>2. NumbersAreOrdered'
  <2> SUFFICES ASSUME NEW t \in Streams
                PROVE  /\ expected'[t] >= 1 /\ events'[t] < expected'[t]
                       /\ expected'[t] + Len(net'[t]) <= next[t]
    BY <1>f DEF BesInv, NumbersAreOrdered
  <2>1. CASE t = s
    <3>1. /\ expected[s] \in Nat /\ next[s] \in Nat /\ Len(net[s]) \in Nat /\ events[s] \in Nat
          /\ expected[s] + Len(net[s]) <= next[s] /\ events[s] < expected[s]
      BY StateTypes DEF BesInv, NumbersAreOrdered
    <3>2. /\ expected'[s] = expected[s] + 1 /\ Len(net'[s]) = Len(net[s]) - 1
          /\ events'[s] = events[s] \/ events'[s] = events[s] + 1
      BY <1>e, <1>f
    <3>3. expected[s] + 1 >= 1 /\ expected[s] + 1 + (Len(net[s]) - 1) <= next[s]
      BY <3>1
    <3>4. events'[s] < expected'[s]
      BY <3>1, <3>2
    <3> QED  BY <2>1, <3>2, <3>3, <3>4
  <2>2. CASE t # s
    BY <2>2, <1>f, <1>e DEF BesInv, NumbersAreOrdered
  <2> QED  BY <2>1, <2>2
<1>3. CaptureInv'
  <2>1. OneCapture'
    <3>1. \A t \in Streams : Captured(t)' => Captured(t)
      BY <1>f, <1>g, <1>e DEF Captured
    <3> QED  BY <3>1, <1>f DEF BesInv, CaptureInv, OneCapture
  <2>2. FreshIsEmpty'
    BY <1>f, <1>g, <1>e, StateTypes DEF BesInv, CaptureInv, FreshIsEmpty
  <2>3. CollectsWhenIdle'
    <3>1. ack[s] = "none"
      BY <1>g, IdleWaitsForNothing
    <3> QED  BY <3>1, <1>f, <1>g, <1>e DEF BesInv, CaptureInv, CollectsWhenIdle
  <2>4. OneItem'
    BY <1>f DEF BesInv, CaptureInv, OneItem
  <2>5. FramesAreOrdered'
    <3>1. \A t \in Streams : expected[t] \in Nat /\ expected'[t] \in Nat /\ expected[t] <= expected'[t]
      <4>1. \A t \in Streams : expected[t] \in Nat
        BY StateTypes DEF BesInv
      <4>2. ASSUME NEW t \in Streams
            PROVE  expected'[t] = expected[t] \/ expected'[t] = expected[t] + 1
        BY <1>e
      <4> QED  BY <4>1, <4>2
    <3>2. ASSUME NEW t \in Streams, NEW q \in FrameSeq, Follows(q, t)
          PROVE  /\ \A n \in DOMAIN q : q[n][1] = t /\ 1 <= q[n][2] /\ q[n][2] < expected'[t]
                 /\ \A m, n \in DOMAIN q : m < n => q[m][2] < q[n][2]
                 /\ \A m \in DOMAIN evidence, n \in DOMAIN q : evidence[m][2] < q[n][2]
      BY <3>1, <3>2, FrameTypes DEF Follows
    <3>3. channel = << >> /\ ingesting = << >>
      BY <1>g, IdleWaitsForNothing, NothingOnItsWay DEF Captured
    <3>4. ASSUME NEW t \in Streams PROVE Follows(pending[t], t)'
      <4>1. pending[t] \in FrameSeq /\ Follows(pending[t], t)
        BY StateTypes DEF BesInv, CaptureInv, FramesAreOrdered
      <4> QED  BY <3>2, <4>1, <1>f DEF Follows
    <3>5. Follows(pending[s], s)'
      BY <3>4
    <3>6. Follows(ingesting, sender)'
      BY <3>3, <1>f DEF Follows
    <3> QED  BY <3>3, <3>4, <3>5, <3>6, <1>f DEF FramesAreOrdered
  <2>6. EvidenceWasAccepted'
    <3>1. \A t \in Streams : expected[t] \in Nat /\ expected'[t] \in Nat /\ expected[t] <= expected'[t]
      <4>1. \A t \in Streams : expected[t] \in Nat
        BY StateTypes DEF BesInv
      <4>2. ASSUME NEW t \in Streams
            PROVE  expected'[t] = expected[t] \/ expected'[t] = expected[t] + 1
        BY <1>e
      <4> QED  BY <4>1, <4>2
    <3>2. \A n \in DOMAIN evidence : evidence[n][1] \in Streams /\ evidence[n][2] \in Nat
      BY StateTypes, FrameTypes DEF BesInv
    <3> QED  BY <3>1, <3>2, <1>f DEF BesInv, CaptureInv, EvidenceWasAccepted
  <2>7. EvidenceIsOneOrderedStream'
    BY <1>f DEF BesInv, CaptureInv, EvidenceIsOneOrderedStream
  <2>8. BatchesAreWritten'
    BY <1>f DEF BesInv, CaptureInv, BatchesAreWritten, Written
  <2>9. AcknowledgedIsDurable'
    BY <1>f DEF BesInv, CaptureInv, AcknowledgedIsDurable, Entries
  <2>10. ReductionIsFinal'
    BY <1>f DEF BesInv, CaptureInv, ReductionIsFinal
  <2>11. NothingIsLost'
    <3>1. ack[s] = "none" /\ InFlight' = InFlight
      BY <1>f, <1>g, IdleWaitsForNothing DEF InFlight
    <3>2. ASSUME NEW t \in Streams, t # s
          PROVE  /\ events'[t] = events[t] /\ pending'[t] = pending[t]
                 /\ finished'[t] = finished[t] /\ expected'[t] = expected[t]
      BY <3>2, <1>e, <1>f
    <3>3. expected'[s] > 1 /\ outcome[s] # "ok"
      <4>1. expected[s] \in Nat /\ expected[s] >= 1
        BY StateTypes DEF BesInv, NumbersAreOrdered
      <4>2. expected'[s] > 1
        BY <4>1, <1>e
      <4> QED  BY <4>2, <1>g DEF BesInv, CaptureInv, NothingIsLost
    <3>4. events'[s] = Len(evidence) + InFlight + Len(pending'[s])
      BY <3>1, <1>f, <1>g DEF BesInv, CaptureInv, NothingIsLost
    <3> QED  BY <3>1, <3>2, <3>3, <3>4, <1>f DEF BesInv, CaptureInv, NothingIsLost
  <2> QED  BY <2>1, <2>2, <2>3, <2>4, <2>5, <2>6, <2>7, <2>8, <2>9, <2>10, <2>11 DEF
     CaptureInv
<1> QED  BY <1>1, <1>2, <1>3 DEF BesInv

\* TakeRequest, whatever the request is.
LEMMA TakeRequestKeeps ==
    ASSUME BesInv, NEW s \in Streams, TakeRequest(s)
    PROVE  BesInv'
<1>1. CASE ~Accepted(s, Head(net[s]))
  BY <1>1, TakeRefusedKeeps
<1>2. CASE Accepted(s, Head(net[s]))
  <2>1. Head(net[s]).kind \in {"event", "empty", "finished"}
    <3>1. net[s] # << >>
      BY DEF TakeRequest
    <3>2. Head(net[s]) \in Request
      BY <3>1, StateTypes, HeadTailProperties DEF BesInv
    <3> QED  BY <1>2, <3>2 DEF Request, Kinds, Accepted, SameStream
  <2> QED  BY <1>2, <2>1, TakeEventKeeps, TakeMarkerKeeps
<1> QED  BY <1>1, <1>2

\* A partial batch goes when no request is ready.
LEMMA YieldKeeps ==
    ASSUME BesInv, NEW s \in Streams, Yield(s)
    PROVE  BesInv'
<1>f. UNCHANGED <<line, net, next, rpc, expected, events, pending, batch, finished, ack,
                 outcome, answered, registered, active, completion, channel, consumer, ingesting,
                 sender, evidence, control, reduction, faults>>
  BY DEF Yield, Idle, wire, task, reader, runner
<1>g. rpc[s] = "loop" /\ todo[s] = << >>
  BY DEF Yield, Idle
<1>e. /\ todo'[s] # << >> /\ Head(todo'[s]) = "flush"
      /\ \A t \in Streams \ {s} : todo'[t] = todo[t]
  <2>1. todo \in [Streams -> Seq(Work)]
    BY StateTypes DEF BesInv
  <2>2. todo' = [todo EXCEPT ![s] = <<"flush">>]
    BY DEF Yield
  <2>3. todo'[s] = <<"flush">>
    BY <2>1, <2>2
  <2> QED  BY <2>1, <2>2, <2>3
<1>1. TypeOK'
  <2>1. <<"flush">> \in Seq(Work)
    BY DEF Work
  <2>2. todo' \in [Streams -> Seq(Work)]
    BY <2>1, StateTypes DEF BesInv, Yield
  <2> QED  BY <1>f, <2>2 DEF BesInv, TypeOK, Work
<1>2. NumbersAreOrdered'
  BY <1>f DEF BesInv, NumbersAreOrdered
<1>3. CaptureInv'
  <2>1. ack[s] = "none"
    BY <1>g, IdleWaitsForNothing
  <2> QED  BY <2>1, <1>f, <1>g, <1>e, BeginKeeps
<1> QED  BY <1>1, <1>2, <1>3 DEF BesInv

\* The end of the input hands over what was collected.
LEMMA EndOfOpenInputKeeps ==
    ASSUME BesInv, NEW s \in Streams, EndOfInput(s), line[s] # "broken"
    PROVE  BesInv'
<1>f. UNCHANGED <<line, net, next, rpc, expected, events, pending, batch, finished, ack,
                 outcome, answered, registered, active, completion, channel, consumer, ingesting,
                 sender, evidence, control, reduction, faults>>
  BY DEF EndOfInput, Idle, wire, task, reader, runner
<1>g. rpc[s] = "loop" /\ todo[s] = << >>
  BY DEF EndOfInput, Idle
<1>e. /\ todo'[s] # << >> /\ Head(todo'[s]) = "flush"
      /\ \A t \in Streams \ {s} : todo'[t] = todo[t]
  <2>1. todo \in [Streams -> Seq(Work)]
    BY StateTypes DEF BesInv
  <2>2. todo' = [todo EXCEPT ![s] = <<"flush", "end">>]
    BY DEF EndOfInput
  <2>3. todo'[s] = <<"flush", "end">>
    BY <2>1, <2>2
  <2> QED  BY <2>1, <2>2, <2>3
<1>1. TypeOK'
  <2>1. <<"flush", "end">> \in Seq(Work)
    BY DEF Work
  <2>2. todo' \in [Streams -> Seq(Work)]
    BY <2>1, StateTypes DEF BesInv, EndOfInput
  <2> QED  BY <1>f, <2>2 DEF BesInv, TypeOK, Work
<1>2. NumbersAreOrdered'
  BY <1>f DEF BesInv, NumbersAreOrdered
<1>3. CaptureInv'
  <2>1. ack[s] = "none"
    BY <1>g, IdleWaitsForNothing
  <2> QED  BY <2>1, <1>f, <1>g, <1>e, BeginKeeps
<1> QED  BY <1>1, <1>2, <1>3 DEF BesInv

\* A broken connection fails the stream.
LEMMA EndOfBrokenInputKeeps ==
    ASSUME BesInv, NEW s \in Streams, EndOfInput(s), line[s] = "broken"
    PROVE  BesInv'
<1>f. UNCHANGED <<line, net, next, expected, events, pending, batch, finished, ack,
                 answered, registered, active, completion, channel, consumer, ingesting, sender,
                 evidence, control, reduction, faults>>
  BY DEF EndOfInput, Idle, Fail, wire, task, reader, runner
<1>g. rpc[s] = "loop" /\ todo[s] = << >>
  BY DEF EndOfInput, Idle, Fail
<1>e. /\ rpc'[s] = "completing" /\ \A t \in Streams \ {s} : rpc'[t] = rpc[t]
      /\ outcome'[s] = "error" /\ \A t \in Streams \ {s} : outcome'[t] = outcome[t]
      /\ todo'[s] = << >> /\ \A t \in Streams \ {s} : todo'[t] = todo[t]
  <2>1. Fail(s)
    BY DEF EndOfInput
  <2> QED  BY <2>1, FailEffect
<1>1. TypeOK'
  <2>1. Fail(s)
    BY DEF EndOfInput
  <2> QED  BY <1>f, <2>1, FailEffect DEF BesInv, TypeOK, Work
<1>2. NumbersAreOrdered'
  BY <1>f DEF BesInv, NumbersAreOrdered
<1>3. CaptureInv'
  <2>1. ack[s] = "none"
    BY <1>g, IdleWaitsForNothing
  <2> QED  BY <2>1, <1>f, <1>g, <1>e, FailKeeps
<1> QED  BY <1>1, <1>2, <1>3 DEF BesInv

\* An empty flush goes on.
LEMMA FlushNothingKeeps ==
    ASSUME BesInv, NEW s \in Streams, FlushNothing(s)
    PROVE  BesInv'
<1>f. UNCHANGED <<line, net, next, rpc, expected, events, pending, batch, finished, ack,
                 outcome, answered, registered, active, completion, channel, consumer, ingesting,
                 sender, evidence, control, reduction, faults>>
  BY DEF FlushNothing, Doing, Did, wire, task, reader, runner
<1>g. /\ rpc[s] = "loop" /\ todo[s] # << >> /\ pending[s] = << >> /\ ack[s] = "none"
  BY DEF FlushNothing, Doing, Did
<1>e. /\ \A t \in Streams \ {s} : todo'[t] = todo[t]
  BY StateTypes DEF BesInv, TypeOK, FlushNothing, Doing, Did
<1>1. TypeOK'
  <2>1. Tail(todo[s]) \in Seq(Work)
    BY <1>g, StateTypes, HeadTailProperties DEF BesInv
  <2>2. todo' \in [Streams -> Seq(Work)]
    BY <2>1, StateTypes DEF BesInv, FlushNothing, Did
  <2> QED  BY <1>f, <2>2 DEF BesInv, TypeOK, Work
<1>2. NumbersAreOrdered'
  BY <1>f DEF BesInv, NumbersAreOrdered
<1>3. CaptureInv'
  BY <1>f, <1>g, <1>e, DidKeeps
<1> QED  BY <1>1, <1>2, <1>3 DEF BesInv

\* A send to a reader that is gone fails the stream.
LEMMA ForwardToNobodyKeeps ==
    ASSUME BesInv, NEW s \in Streams, Forward(s), consumer \in {"done", "failed"}
    PROVE  BesInv'
<1>f. UNCHANGED <<line, net, next, expected, events, pending, batch, finished, ack,
                 answered, registered, active, completion, channel, consumer, ingesting, sender,
                 evidence, control, reduction, faults>>
  BY DEF Forward, Doing, Fail, wire, task, reader, runner
<1>g. rpc[s] = "loop" /\ ack[s] = "none"
  BY DEF Forward, Doing, Fail
<1>e. /\ rpc'[s] = "completing" /\ \A t \in Streams \ {s} : rpc'[t] = rpc[t]
      /\ outcome'[s] = "error" /\ \A t \in Streams \ {s} : outcome'[t] = outcome[t]
      /\ todo'[s] = << >> /\ \A t \in Streams \ {s} : todo'[t] = todo[t]
  <2>1. Fail(s)
    BY DEF Forward
  <2> QED  BY <2>1, FailEffect
<1>1. TypeOK'
  <2>1. Fail(s)
    BY DEF Forward
  <2> QED  BY <1>f, <2>1, FailEffect DEF BesInv, TypeOK, Work
<1>2. NumbersAreOrdered'
  BY <1>f DEF BesInv, NumbersAreOrdered
<1>3. CaptureInv'
  BY <1>f, <1>g, <1>e, FailKeeps
<1> QED  BY <1>1, <1>2, <1>3 DEF BesInv

\* What was collected becomes the one item on its way.
LEMMA ForwardItemKeeps ==
    ASSUME BesInv, NEW s \in Streams, Forward(s), consumer \notin {"done", "failed"}
    PROVE  BesInv'
<1>f. UNCHANGED <<line, net, next, rpc, todo, expected, events, finished, outcome,
                 answered, registered, active, completion, consumer, ingesting, sender, evidence,
                 control, reduction, faults>>
  BY DEF Forward, Doing, wire, task, reader, runner
<1>g. /\ rpc[s] = "loop" /\ ack[s] = "none" /\ todo[s] # << >>
      /\ Head(todo[s]) \in {"flush", "finish"}
  BY DEF Forward, Doing
<1>c. /\ channel' = Append(channel, [from |-> s, frames |-> pending[s]])
      /\ batch' = [batch EXCEPT ![s] = pending[s]]
      /\ pending' = [pending EXCEPT ![s] = << >>]
      /\ ack' = [ack EXCEPT ![s] = "waiting"]
  <2>1. Head(todo[s]) # "flush" => pending[s] = << >>
    BY <1>g DEF BesInv, CaptureInv, CollectsWhenIdle
  <2> QED  BY <2>1 DEF Forward, Doing
<1>e. /\ channel = << >> /\ consumer = "receiving" /\ ingesting = << >>
      /\ Len(channel') = 1 /\ channel'[1].from = s /\ channel'[1].frames = pending[s]
      /\ channel' # << >> /\ Len(channel'[1].frames) = Len(pending[s])
      /\ batch'[s] = pending[s] /\ \A t \in Streams \ {s} : batch'[t] = batch[t]
      /\ pending'[s] = << >> /\ \A t \in Streams \ {s} : pending'[t] = pending[t] /\ Len(pending'[s]) = 0
      /\ ack'[s] = "waiting" /\ \A t \in Streams \ {s} : ack'[t] = ack[t]
  <2>1. channel = << >> /\ consumer # "ingesting" /\ ingesting = << >>
    BY <1>g, NothingOnItsWay DEF Captured
  <2>2. consumer = "receiving"
    BY <2>1 DEF BesInv, TypeOK
  <2>3. channel' = <<[from |-> s, frames |-> pending[s]]>>
    BY <1>c, <2>1
  <2>4. pending \in [Streams -> FrameSeq] /\ batch \in [Streams -> FrameSeq]
    BY StateTypes DEF BesInv
  <2>5. ack \in [Streams -> {"none", "waiting", "ok", "error", "closed"}]
    BY DEF BesInv, TypeOK
  <2> QED  BY <1>c, <2>1, <2>2, <2>3, <2>4, <2>5
<1>1. TypeOK'
  <2>1. [from |-> s, frames |-> pending[s]] \in Item
    BY StateTypes DEF BesInv, Item
  <2>2. channel' \in Seq(Item)
    BY <2>1, <1>c, StateTypes, AppendProperties DEF BesInv
  <2>3. Len(channel') <= ChannelCapacity
    BY <1>e, BesAssumption
  <2>4. << >> \in FrameSeq /\ pending[s] \in FrameSeq
    BY StateTypes DEF BesInv, FrameSeq
  <2>5. pending' \in [Streams -> FrameSeq] /\ batch' \in [Streams -> FrameSeq]
    BY <2>4, <1>c, StateTypes DEF BesInv
  <2>6. ack' \in [Streams -> {"none", "waiting", "ok", "error", "closed"}]
    BY <1>c DEF BesInv, TypeOK
  <2> QED  BY <1>f, <2>2, <2>3, <2>5, <2>6 DEF BesInv, TypeOK, Item, FrameSeq
<1>2. NumbersAreOrdered'
  BY <1>f DEF BesInv, NumbersAreOrdered
<1>3. CaptureInv'
  <2>1. OneCapture'
    BY <1>f DEF BesInv, CaptureInv, OneCapture, Captured
  <2>2. FreshIsEmpty'
    BY <1>f, <1>g, <1>e, StateTypes DEF BesInv, CaptureInv, FreshIsEmpty
  <2>3. CollectsWhenIdle'
    BY <1>f, <1>g, <1>e, StateTypes DEF BesInv, CaptureInv, CollectsWhenIdle
  <2>4. OneItem'
    BY <1>f, <1>g, <1>e, StateTypes DEF BesInv, CaptureInv, OneItem
  <2>5. FramesAreOrdered'
    <3>1. Follows(pending[s], s) /\ \A t \in Streams : Follows(pending[t], t)
      BY DEF BesInv, CaptureInv, FramesAreOrdered
    <3>2. Follows(channel[1].frames, channel[1].from)'
      BY <3>1, <1>f, <1>e DEF Follows
    <3>3. ASSUME NEW t \in Streams PROVE Follows(pending[t], t)'
      <4>1. CASE t = s
        BY <4>1, <1>e DEF Follows
      <4>2. CASE t # s
        BY <4>2, <3>1, <1>e, <1>f DEF Follows
      <4> QED  BY <4>1, <4>2
    <3>4. Follows(ingesting, sender)'
      BY <1>e, <1>f DEF Follows
    <3> QED  BY <3>2, <3>3, <3>4 DEF FramesAreOrdered
  <2>6. EvidenceWasAccepted'
    BY <1>f DEF BesInv, CaptureInv, EvidenceWasAccepted
  <2>7. EvidenceIsOneOrderedStream'
    BY <1>f DEF BesInv, CaptureInv, EvidenceIsOneOrderedStream
  <2>8. BatchesAreWritten'
    <3>1. ASSUME NEW t \in Streams, t # s, ack[t] = "ok", NEW n \in DOMAIN batch[t]
          PROVE  Written(t, n)'
      BY <3>1, <1>e, <1>f DEF BesInv, CaptureInv, BatchesAreWritten, Written
    <3> QED  BY <3>1, <1>e, <1>f DEF BatchesAreWritten
  <2>9. AcknowledgedIsDurable'
    BY <1>f DEF BesInv, CaptureInv, AcknowledgedIsDurable, Entries
  <2>10. ReductionIsFinal'
    BY <1>f DEF BesInv, CaptureInv, ReductionIsFinal
  <2>11. NothingIsLost'
    <3>1. Len(ingesting) = 0 /\ InFlight = 0
      BY <1>e DEF InFlight
    <3>2. Len(pending[s]) \in Nat /\ Len(evidence) \in Nat
      BY StateTypes DEF BesInv
    <3>3. InFlight' = Len(pending[s])
      BY <1>e, <1>f, <3>1, <3>2 DEF InFlight
    <3>4. ASSUME NEW t \in Streams, t # s PROVE rpc[t] # "loop"
      BY <3>4, <1>g DEF BesInv, CaptureInv, OneCapture, Captured
    <3>5. events[s] = Len(evidence) + InFlight + Len(pending[s])
      BY <1>g DEF BesInv, CaptureInv, NothingIsLost
    <3>6. events[s] = Len(evidence) + InFlight' + Len(pending'[s])
      BY <3>1, <3>2, <3>3, <3>5, <1>e
    <3> QED  BY <3>4, <3>6, <1>f DEF BesInv, CaptureInv, NothingIsLost
  <2> QED  BY <2>1, <2>2, <2>3, <2>4, <2>5, <2>6, <2>7, <2>8, <2>9, <2>10, <2>11 DEF
     CaptureInv
<1> QED  BY <1>1, <1>2, <1>3 DEF BesInv

\* A frame is answered that is in the evidence.
LEMMA AnswerFrameKeeps ==
    ASSUME BesInv, NEW s \in Streams, Answer(s), batch[s] # << >>
    PROVE  BesInv'
<1>f. UNCHANGED <<line, net, next, rpc, todo, expected, events, pending, finished, ack,
                 outcome, registered, active, completion, channel, consumer, ingesting, sender,
                 evidence, control, reduction, faults>>
  BY DEF Answer, Doing, wire, task, reader, runner
<1>g. /\ rpc[s] = "loop" /\ ack[s] = "ok" /\ batch[s] # << >>
  BY DEF Answer, Doing
<1>e. /\ answered' = answered \cup {batch[s][1]} /\ 1 \in DOMAIN batch[s]
      /\ \A n \in DOMAIN batch'[s] : n + 1 \in DOMAIN batch[s] /\ batch'[s][n] = batch[s][n + 1]
      /\ \A t \in Streams \ {s} : batch'[t] = batch[t]
  <2>1. /\ answered' = answered \cup {Head(batch[s])}
        /\ batch' = [batch EXCEPT ![s] = Tail(batch[s])]
    BY DEF Answer
  <2>2. batch \in [Streams -> FrameSeq] /\ batch[s] \in FrameSeq
    BY StateTypes DEF BesInv
  <2>3. Head(batch[s]) = batch[s][1] /\ 1 \in DOMAIN batch[s]
    BY <1>g, <2>2, TailFrames
  <2>4. \A n \in DOMAIN Tail(batch[s]) :
           n + 1 \in DOMAIN batch[s] /\ Tail(batch[s])[n] = batch[s][n + 1]
    BY <1>g, <2>2, TailFrames
  <2>5. batch'[s] = Tail(batch[s]) /\ \A t \in Streams \ {s} : batch'[t] = batch[t]
    BY <2>1, <2>2
  <2> QED  BY <2>1, <2>3, <2>4, <2>5
<1>1. TypeOK'
  <2>1. batch \in [Streams -> FrameSeq] /\ batch[s] \in FrameSeq
    BY StateTypes DEF BesInv
  <2>2. Tail(batch[s]) \in FrameSeq
    BY <1>g, <2>1, TailFrames
  <2>3. batch' \in [Streams -> FrameSeq]
    BY <1>g, <2>1, <2>2 DEF Answer
  <2>4. batch[s][1] \in Streams \X Nat
    BY <1>e, <2>1, FrameTypes
  <2>5. answered' \subseteq Streams \X Nat
    BY <1>e, <2>4 DEF BesInv, TypeOK
  <2> QED  BY <1>f, <2>3, <2>5 DEF BesInv, TypeOK, FrameSeq
<1>2. NumbersAreOrdered'
  BY <1>f DEF BesInv, NumbersAreOrdered
<1>3. CaptureInv'
  <2>1. OneCapture'
    BY <1>f DEF BesInv, CaptureInv, OneCapture, Captured
  <2>2. FreshIsEmpty'
    BY <1>f DEF BesInv, CaptureInv, FreshIsEmpty
  <2>3. CollectsWhenIdle'
    BY <1>f DEF BesInv, CaptureInv, CollectsWhenIdle
  <2>4. OneItem'
    <3>1. channel = << >> /\ consumer # "ingesting" /\ ingesting = << >>
      BY <1>g, NothingOnItsWay DEF Captured
    <3> QED  BY <3>1, <1>f DEF OneItem
  <2>5. FramesAreOrdered'
    BY <1>f DEF BesInv, CaptureInv, FramesAreOrdered, Follows
  <2>6. EvidenceWasAccepted'
    BY <1>f DEF BesInv, CaptureInv, EvidenceWasAccepted
  <2>7. EvidenceIsOneOrderedStream'
    BY <1>f DEF BesInv, CaptureInv, EvidenceIsOneOrderedStream
  <2>8. BatchesAreWritten'
    <3>1. consumer # "ingesting"
      BY <1>g, NothingOnItsWay DEF Captured
    <3>2. ASSUME NEW n \in DOMAIN batch'[s] PROVE Written(s, n)'
      BY <3>2, <1>e, <1>f, <1>g DEF BesInv, CaptureInv, BatchesAreWritten, Written
    <3>3. ASSUME NEW t \in Streams, t # s, ack[t] = "ok", NEW n \in DOMAIN batch[t]
          PROVE  Written(t, n)'
      BY <3>3, <1>e, <1>f DEF BesInv, CaptureInv, BatchesAreWritten, Written
    <3> QED  BY <3>1, <3>2, <3>3, <1>e, <1>f DEF BatchesAreWritten
  <2>9. AcknowledgedIsDurable'
    <3>1. Written(s, 1)
      BY <1>e, <1>g DEF BesInv, CaptureInv, BatchesAreWritten
    <3> QED  BY <3>1, <1>e, <1>f DEF BesInv, CaptureInv, AcknowledgedIsDurable, Entries, Written
  <2>10. ReductionIsFinal'
    BY <1>f DEF BesInv, CaptureInv, ReductionIsFinal
  <2>11. NothingIsLost'
    BY <1>f DEF BesInv, CaptureInv, NothingIsLost, InFlight
  <2> QED  BY <2>1, <2>2, <2>3, <2>4, <2>5, <2>6, <2>7, <2>8, <2>9, <2>10, <2>11 DEF
     CaptureInv
<1> QED  BY <1>1, <1>2, <1>3 DEF BesInv

\* When every frame is answered the loop goes on.
LEMMA AnswerEndKeeps ==
    ASSUME BesInv, NEW s \in Streams, Answer(s), batch[s] = << >>
    PROVE  BesInv'
<1>f. UNCHANGED <<line, net, next, rpc, expected, events, pending, batch, finished,
                 outcome, answered, registered, active, completion, channel, consumer, ingesting,
                 sender, evidence, control, reduction, faults>>
  BY DEF Answer, Doing, Did, wire, task, reader, runner
<1>g. /\ rpc[s] = "loop" /\ todo[s] # << >> /\ ack[s] = "ok"
  BY DEF Answer, Doing, Did
<1>e. /\ \A t \in Streams \ {s} : todo'[t] = todo[t]
      /\ ack'[s] = "none" /\ \A t \in Streams \ {s} : ack'[t] = ack[t]
  BY StateTypes DEF BesInv, TypeOK, Answer, Doing, Did
<1>1. TypeOK'
  <2>1. Tail(todo[s]) \in Seq(Work)
    BY <1>g, StateTypes, HeadTailProperties DEF BesInv
  <2>2. todo' \in [Streams -> Seq(Work)]
    BY <2>1, StateTypes DEF BesInv, Answer, Did
  <2>3. ack' \in [Streams -> {"none", "waiting", "ok", "error", "closed"}]
    BY DEF BesInv, TypeOK, Answer
  <2> QED  BY <1>f, <2>2, <2>3 DEF BesInv, TypeOK, Work
<1>2. NumbersAreOrdered'
  BY <1>f DEF BesInv, NumbersAreOrdered
<1>3. CaptureInv'
  <2>1. pending[s] = << >>
    BY <1>g DEF BesInv, CaptureInv, CollectsWhenIdle
  <2> QED  BY <2>1, <1>f, <1>g, <1>e, DidKeeps
<1> QED  BY <1>1, <1>2, <1>3 DEF BesInv

\* The acknowledged end goes on to its reply.
LEMMA FinishAcceptedKeeps ==
    ASSUME BesInv, NEW s \in Streams, FinishAccepted(s)
    PROVE  BesInv'
<1>f. UNCHANGED <<line, net, next, rpc, expected, events, pending, batch, finished,
                 outcome, answered, registered, active, completion, channel, consumer, ingesting,
                 sender, evidence, control, reduction, faults>>
  BY DEF FinishAccepted, Doing, Did, wire, task, reader, runner
<1>g. /\ rpc[s] = "loop" /\ todo[s] # << >> /\ ack[s] = "ok"
  BY DEF FinishAccepted, Doing, Did
<1>e. /\ \A t \in Streams \ {s} : todo'[t] = todo[t]
      /\ ack'[s] = "none" /\ \A t \in Streams \ {s} : ack'[t] = ack[t]
  BY StateTypes DEF BesInv, TypeOK, FinishAccepted, Doing, Did
<1>1. TypeOK'
  <2>1. Tail(todo[s]) \in Seq(Work)
    BY <1>g, StateTypes, HeadTailProperties DEF BesInv
  <2>2. todo' \in [Streams -> Seq(Work)]
    BY <2>1, StateTypes DEF BesInv, FinishAccepted, Did
  <2>3. ack' \in [Streams -> {"none", "waiting", "ok", "error", "closed"}]
    BY DEF BesInv, TypeOK, FinishAccepted
  <2> QED  BY <1>f, <2>2, <2>3 DEF BesInv, TypeOK, Work
<1>2. NumbersAreOrdered'
  BY <1>f DEF BesInv, NumbersAreOrdered
<1>3. CaptureInv'
  <2>1. pending[s] = << >>
    BY <1>g DEF BesInv, CaptureInv, CollectsWhenIdle
  <2> QED  BY <2>1, <1>f, <1>g, <1>e, DidKeeps
<1> QED  BY <1>1, <1>2, <1>3 DEF BesInv

\* The reply is sent when nothing is collected.
LEMMA ReplySentKeeps ==
    ASSUME BesInv, NEW s \in Streams, Reply(s), line[s] # "broken"
    PROVE  BesInv'
<1>f. UNCHANGED <<line, net, next, rpc, expected, events, pending, batch, finished, ack,
                 outcome, answered, registered, active, completion, channel, consumer, ingesting,
                 sender, evidence, control, reduction, faults>>
  BY DEF Reply, Doing, Did, wire, task, reader, runner
<1>g. /\ rpc[s] = "loop" /\ todo[s] # << >> /\ Head(todo[s]) = "reply"
  BY DEF Reply, Doing, Did
<1>e. /\ \A t \in Streams \ {s} : todo'[t] = todo[t]
  BY StateTypes DEF BesInv, TypeOK, Reply, Doing, Did
<1>1. TypeOK'
  <2>1. Tail(todo[s]) \in Seq(Work)
    BY <1>g, StateTypes, HeadTailProperties DEF BesInv
  <2>2. todo' \in [Streams -> Seq(Work)]
    BY <2>1, StateTypes DEF BesInv, Reply, Did
  <2> QED  BY <1>f, <2>2 DEF BesInv, TypeOK, Work
<1>2. NumbersAreOrdered'
  BY <1>f DEF BesInv, NumbersAreOrdered
<1>3. CaptureInv'
  <2>1. ack[s] = "none" /\ pending[s] = << >>
    BY <1>g DEF BesInv, CaptureInv, CollectsWhenIdle
  <2> QED  BY <2>1, <1>f, <1>g, <1>e, DidKeeps
<1> QED  BY <1>1, <1>2, <1>3 DEF BesInv

\* A reply nobody takes fails the stream.
LEMMA ReplyLostKeeps ==
    ASSUME BesInv, NEW s \in Streams, Reply(s), line[s] = "broken"
    PROVE  BesInv'
<1>f. UNCHANGED <<line, net, next, expected, events, pending, batch, finished, ack,
                 answered, registered, active, completion, channel, consumer, ingesting, sender,
                 evidence, control, reduction, faults>>
  BY DEF Reply, Doing, wire, task, reader, runner
<1>g. /\ rpc[s] = "loop" /\ todo[s] # << >> /\ Head(todo[s]) = "reply"
  BY DEF Reply, Doing
<1>e. /\ rpc'[s] = "completing" /\ \A t \in Streams \ {s} : rpc'[t] = rpc[t]
      /\ outcome'[s] = "error" /\ \A t \in Streams \ {s} : outcome'[t] = outcome[t]
      /\ todo'[s] = << >> /\ \A t \in Streams \ {s} : todo'[t] = todo[t]
  <2>1. Fail(s)
    BY DEF Reply
  <2> QED  BY <2>1, FailEffect
<1>1. TypeOK'
  <2>1. Fail(s)
    BY DEF Reply
  <2> QED  BY <1>f, <2>1, FailEffect DEF BesInv, TypeOK, Work
<1>2. NumbersAreOrdered'
  BY <1>f DEF BesInv, NumbersAreOrdered
<1>3. CaptureInv'
  <2>1. ack[s] = "none" /\ pending[s] = << >>
    BY <1>g DEF BesInv, CaptureInv, CollectsWhenIdle
  <2> QED  BY <2>1, <1>f, <1>g, <1>e, FailKeeps
<1> QED  BY <1>1, <1>2, <1>3 DEF BesInv

\* A refused or unanswered item fails the stream.
LEMMA ForwardFailsKeeps ==
    ASSUME BesInv, NEW s \in Streams, ForwardFails(s)
    PROVE  BesInv'
<1>f. UNCHANGED <<line, net, next, expected, events, pending, batch, finished, answered,
                 registered, active, completion, channel, consumer, ingesting, sender, evidence,
                 control, reduction, faults>>
  BY DEF ForwardFails, Doing, wire, task, reader, runner
<1>g. rpc[s] = "loop" /\ ack[s] # "waiting"
  BY DEF ForwardFails, Doing
<1>e. /\ rpc'[s] = "completing" /\ \A t \in Streams \ {s} : rpc'[t] = rpc[t]
      /\ outcome'[s] = "error" /\ \A t \in Streams \ {s} : outcome'[t] = outcome[t]
      /\ todo'[s] = << >> /\ \A t \in Streams \ {s} : todo'[t] = todo[t]
      /\ ack'[s] = "none" /\ \A t \in Streams \ {s} : ack'[t] = ack[t]
  <2>1. Fail(s)
    BY DEF ForwardFails
  <2>2. ack'[s] = "none" /\ \A t \in Streams \ {s} : ack'[t] = ack[t]
    BY DEF ForwardFails, BesInv, TypeOK
  <2> QED  BY <2>1, <2>2, FailEffect
<1>1. TypeOK'
  <2>1. Fail(s)
    BY DEF ForwardFails
  <2>6. ack' \in [Streams -> {"none", "waiting", "ok", "error", "closed"}]
    BY DEF BesInv, TypeOK, ForwardFails
  <2> QED  BY <1>f, <2>1, FailEffect, <2>6 DEF BesInv, TypeOK, Work
<1>2. NumbersAreOrdered'
  BY <1>f DEF BesInv, NumbersAreOrdered
<1>3. CaptureInv'
  BY <1>f, <1>g, <1>e, FailKeeps
<1> QED  BY <1>1, <1>2, <1>3 DEF BesInv

\* A stream succeeds when everything it accepted is in the evidence.
LEMMA EndStreamKeeps ==
    ASSUME BesInv, NEW s \in Streams, EndStream(s)
    PROVE  BesInv'
<1>f. UNCHANGED <<line, net, next, expected, events, pending, batch, finished, ack,
                 answered, registered, active, completion, channel, consumer, ingesting, sender,
                 evidence, control, reduction, faults>>
  BY DEF EndStream, Doing, Did, wire, task, reader, runner
<1>g. /\ rpc[s] = "loop" /\ todo[s] # << >> /\ Head(todo[s]) = "end"
  BY DEF EndStream, Doing, Did
<1>e. /\ rpc'[s] = "completing" /\ \A t \in Streams \ {s} : rpc'[t] = rpc[t]
      /\ outcome'[s] = "ok" => finished[s]
      /\ \A t \in Streams \ {s} : outcome'[t] = outcome[t]
      /\ \A t \in Streams \ {s} : todo'[t] = todo[t]
  <2>1. /\ rpc \in [Streams -> {"unopened", "first", "loop", "completing", "done"}]
        /\ outcome \in [Streams -> {"none", "ok", "error"}]
        /\ todo \in [Streams -> Seq(Work)]
    BY StateTypes DEF BesInv, TypeOK
  <2> QED  BY <2>1 DEF EndStream, Did
<1>1. TypeOK'
  <2>1. Tail(todo[s]) \in Seq(Work)
    BY <1>g, StateTypes, HeadTailProperties DEF BesInv
  <2>2. todo' \in [Streams -> Seq(Work)]
    BY <2>1, StateTypes DEF BesInv, EndStream, Did
  <2>3. /\ rpc' \in [Streams -> {"unopened", "first", "loop", "completing", "done"}]
        /\ outcome' \in [Streams -> {"none", "ok", "error"}]
    BY DEF BesInv, TypeOK, EndStream
  <2> QED  BY <1>f, <2>2, <2>3 DEF BesInv, TypeOK, Work
<1>2. NumbersAreOrdered'
  BY <1>f DEF BesInv, NumbersAreOrdered
<1>3. CaptureInv'
  <2>1. OneCapture'
    <3>1. \A t \in Streams : Captured(t)' => Captured(t)
      BY <1>f, <1>g, <1>e DEF Captured
    <3> QED  BY <3>1, <1>f DEF BesInv, CaptureInv, OneCapture
  <2>2. FreshIsEmpty'
    BY <1>f, <1>g, <1>e, StateTypes DEF BesInv, CaptureInv, FreshIsEmpty
  <2>3. CollectsWhenIdle'
    BY <1>f, <1>g, <1>e, StateTypes DEF BesInv, CaptureInv, CollectsWhenIdle
  <2>4. OneItem'
    BY <1>f DEF BesInv, CaptureInv, OneItem
  <2>5. FramesAreOrdered'
    BY <1>f DEF BesInv, CaptureInv, FramesAreOrdered, Follows
  <2>6. EvidenceWasAccepted'
    BY <1>f DEF BesInv, CaptureInv, EvidenceWasAccepted
  <2>7. EvidenceIsOneOrderedStream'
    BY <1>f DEF BesInv, CaptureInv, EvidenceIsOneOrderedStream
  <2>8. BatchesAreWritten'
    BY <1>f DEF BesInv, CaptureInv, BatchesAreWritten, Written
  <2>9. AcknowledgedIsDurable'
    BY <1>f DEF BesInv, CaptureInv, AcknowledgedIsDurable, Entries
  <2>10. ReductionIsFinal'
    BY <1>f DEF BesInv, CaptureInv, ReductionIsFinal
  <2>11. NothingIsLost'
    <3>1. ack[s] = "none" /\ pending[s] = << >>
      BY <1>g DEF BesInv, CaptureInv, CollectsWhenIdle
    <3>2. InFlight = 0 /\ Len(pending[s]) = 0
      BY <3>1, <1>g, NothingOnItsWay DEF Captured
    <3>3. events[s] = Len(evidence) + InFlight + Len(pending[s])
      BY <3>1, <1>g DEF BesInv, CaptureInv, NothingIsLost
    <3>4. events[s] = Len(evidence)
      BY <3>2, <3>3, StateTypes DEF BesInv
    <3>5. finished[s] => expected[s] > 1
      BY DEF BesInv, CaptureInv, NothingIsLost
    <3>6. InFlight' = InFlight
      BY <1>f DEF InFlight
    <3>7. rpc'[s] = "completing" /\ (outcome'[s] = "ok" => finished[s])
      BY <1>e
    <3> QED  BY <3>4, <3>5, <3>6, <3>7, <1>f, <1>e DEF BesInv, CaptureInv, NothingIsLost
  <2> QED  BY <2>1, <2>2, <2>3, <2>4, <2>5, <2>6, <2>7, <2>8, <2>9, <2>10, <2>11 DEF
     CaptureInv
<1> QED  BY <1>1, <1>2, <1>3 DEF BesInv

\* The completion ends the task.
LEMMA CompleteKeeps ==
    ASSUME BesInv, NEW s \in Streams, Complete(s)
    PROVE  BesInv'
<1>f. UNCHANGED <<line, net, next, todo, expected, events, pending, batch, finished,
                 ack, outcome, answered, registered, active, channel, consumer, ingesting, sender,
                 evidence, control, reduction, faults>>
  BY DEF Complete, wire, task, reader, runner
<1>g. rpc[s] = "completing"
  BY DEF Complete
<1>e. /\ rpc'[s] = "done" /\ \A t \in Streams \ {s} : rpc'[t] = rpc[t]
  BY StateTypes DEF BesInv, TypeOK, Complete
<1>1. TypeOK'
  <2>1. outcome[s] \in {"none", "ok", "error"}
    BY DEF BesInv, TypeOK
  <2> QED  BY <1>f, <2>1 DEF BesInv, TypeOK, Complete
<1>2. NumbersAreOrdered'
  BY <1>f DEF BesInv, NumbersAreOrdered
<1>3. CaptureInv'
  <2>1. OneCapture'
    <3>1. \A t \in Streams : Captured(t)' => Captured(t)
      BY <1>f, <1>g, <1>e DEF Captured
    <3> QED  BY <3>1, <1>f DEF BesInv, CaptureInv, OneCapture
  <2>2. FreshIsEmpty'
    BY <1>f, <1>g, <1>e, StateTypes DEF BesInv, CaptureInv, FreshIsEmpty
  <2>3. CollectsWhenIdle'
    BY <1>f, <1>g, <1>e, StateTypes DEF BesInv, CaptureInv, CollectsWhenIdle
  <2>4. OneItem'
    BY <1>f DEF BesInv, CaptureInv, OneItem
  <2>5. FramesAreOrdered'
    BY <1>f DEF BesInv, CaptureInv, FramesAreOrdered, Follows
  <2>6. EvidenceWasAccepted'
    BY <1>f DEF BesInv, CaptureInv, EvidenceWasAccepted
  <2>7. EvidenceIsOneOrderedStream'
    BY <1>f DEF BesInv, CaptureInv, EvidenceIsOneOrderedStream
  <2>8. BatchesAreWritten'
    BY <1>f DEF BesInv, CaptureInv, BatchesAreWritten, Written
  <2>9. AcknowledgedIsDurable'
    BY <1>f DEF BesInv, CaptureInv, AcknowledgedIsDurable, Entries
  <2>10. ReductionIsFinal'
    BY <1>f DEF BesInv, CaptureInv, ReductionIsFinal
  <2>11. NothingIsLost'
    BY <1>f, <1>g, <1>e, StateTypes DEF BesInv, CaptureInv, NothingIsLost, InFlight
  <2> QED  BY <2>1, <2>2, <2>3, <2>4, <2>5, <2>6, <2>7, <2>8, <2>9, <2>10, <2>11 DEF
     CaptureInv
<1> QED  BY <1>1, <1>2, <1>3 DEF BesInv

\* The reader takes the item, the only one.
LEMMA ReceiveFramesKeeps ==
    ASSUME BesInv, ReceiveFrames
    PROVE  BesInv'
<1>f. UNCHANGED <<line, net, next, rpc, todo, expected, events, pending, batch,
                 finished, ack, outcome, answered, registered, active, completion, evidence, control,
                 reduction, faults>>
  BY DEF ReceiveFrames, wire, task, reader, runner
<1>g. consumer = "receiving" /\ channel # << >>
  BY DEF ReceiveFrames
<1>e. /\ channel' = << >> /\ consumer' = "ingesting" /\ ingesting = << >>
      /\ ingesting' = channel[1].frames /\ sender' = channel[1].from
      /\ ack[channel[1].from] = "waiting" /\ batch[channel[1].from] = channel[1].frames
  <2>1. /\ Len(channel) = 1 /\ ack[channel[1].from] = "waiting" /\ ingesting = << >>
        /\ batch[channel[1].from] = channel[1].frames
    BY <1>g DEF BesInv, CaptureInv, OneItem
  <2>2. Tail(channel) = << >>
    <3>1. channel \in Seq(Item)
      BY StateTypes DEF BesInv
    <3> QED  BY <1>g, <2>1, <3>1
  <2>3. Head(channel) = channel[1]
    BY <1>g, StateTypes DEF BesInv
  <2> QED  BY <2>1, <2>2, <2>3 DEF ReceiveFrames
<1>1. TypeOK'
  <2>1. sender' \in Streams /\ ingesting' \in FrameSeq
    BY <1>g, <1>e, StateTypes DEF BesInv
  <2>2. channel' \in Seq(Item) /\ Len(channel') <= ChannelCapacity
    BY <1>e, BesAssumption
  <2> QED  BY <1>f, <1>e, <2>1, <2>2 DEF BesInv, TypeOK, Item, FrameSeq
<1>2. NumbersAreOrdered'
  BY <1>f DEF BesInv, NumbersAreOrdered
<1>3. CaptureInv'
  <2>1. OneCapture'
    BY <1>f DEF BesInv, CaptureInv, OneCapture, Captured
  <2>2. FreshIsEmpty'
    BY <1>f DEF BesInv, CaptureInv, FreshIsEmpty
  <2>3. CollectsWhenIdle'
    BY <1>f DEF BesInv, CaptureInv, CollectsWhenIdle
  <2>4. OneItem'
    BY <1>f, <1>e DEF OneItem
  <2>5. FramesAreOrdered'
    <3>1. /\ \A t \in Streams : Follows(pending[t], t)
          /\ Follows(channel[1].frames, channel[1].from)
      BY <1>g DEF BesInv, CaptureInv, FramesAreOrdered
    <3> QED  BY <3>1, <1>e, <1>f DEF FramesAreOrdered, Follows
  <2>6. EvidenceWasAccepted'
    BY <1>f DEF BesInv, CaptureInv, EvidenceWasAccepted
  <2>7. EvidenceIsOneOrderedStream'
    BY <1>f DEF BesInv, CaptureInv, EvidenceIsOneOrderedStream
  <2>8. BatchesAreWritten'
    BY <1>f, <1>e DEF BesInv, CaptureInv, BatchesAreWritten, Written
  <2>9. AcknowledgedIsDurable'
    BY <1>f DEF BesInv, CaptureInv, AcknowledgedIsDurable, Entries
  <2>10. ReductionIsFinal'
    BY <1>f, <1>g DEF BesInv, CaptureInv, ReductionIsFinal
  <2>11. NothingIsLost'
    <3>1. Len(ingesting) = 0 /\ Len(channel[1].frames) \in Nat
      BY <1>e, <1>g, StateTypes DEF BesInv
    <3>2. InFlight' = InFlight
      BY <3>1, <1>e, <1>g DEF InFlight
    <3> QED  BY <3>2, <1>f DEF BesInv, CaptureInv, NothingIsLost
  <2> QED  BY <2>1, <2>2, <2>3, <2>4, <2>5, <2>6, <2>7, <2>8, <2>9, <2>10, <2>11 DEF
     CaptureInv
<1> QED  BY <1>1, <1>2, <1>3 DEF BesInv

\* The next frame goes behind the evidence.
LEMMA IngestFrameKeeps ==
    ASSUME BesInv, IngestFrame
    PROVE  BesInv'
<1>f. UNCHANGED <<line, net, next, rpc, todo, expected, events, pending, batch,
                 finished, ack, outcome, answered, registered, active, completion, channel, consumer,
                 sender, control, reduction, faults>>
  BY DEF IngestFrame, wire, task, reader, runner
<1>g. consumer = "ingesting" /\ ingesting # << >>
  BY DEF IngestFrame
<1>e. /\ evidence' = Append(evidence, ingesting[1]) /\ ingesting' = Tail(ingesting)
      /\ evidence \in FrameSeq /\ ingesting \in FrameSeq /\ 1 \in DOMAIN ingesting
      /\ ingesting[1] \in Streams \X Nat /\ ingesting[1][2] \in Nat /\ ingesting[1][1] = sender
  <2>1. evidence \in FrameSeq /\ ingesting \in FrameSeq
    BY StateTypes DEF BesInv
  <2>2. Head(ingesting) = ingesting[1] /\ 1 \in DOMAIN ingesting
    BY <1>g, <2>1, TailFrames
  <2>3. ingesting[1] \in Streams \X Nat /\ ingesting[1][2] \in Nat
    BY <2>1, <2>2, FrameTypes
  <2>4. ingesting[1][1] = sender
    BY <2>2 DEF BesInv, CaptureInv, FramesAreOrdered, Follows
  <2> QED  BY <2>1, <2>2, <2>3, <2>4 DEF IngestFrame
<1>w. /\ channel = << >> /\ sender \in Streams /\ rpc[sender] = "loop"
      /\ pending[sender] = << >>
  <2>1. sender \in Streams /\ channel = << >> /\ ack[sender] = "waiting"
    BY <1>g, StateTypes DEF BesInv, CaptureInv, OneItem
  <2> QED  BY <2>1 DEF BesInv, CaptureInv, CollectsWhenIdle
<1>1. TypeOK'
  <2>1. evidence' \in FrameSeq
    BY <1>e, AppendFrame
  <2>2. ingesting' \in FrameSeq
    BY <1>e, <1>g, TailFrames
  <2> QED  BY <1>f, <2>1, <2>2 DEF BesInv, TypeOK, FrameSeq
<1>2. NumbersAreOrdered'
  BY <1>f DEF BesInv, NumbersAreOrdered
<1>3. CaptureInv'
  <2>1. OneCapture'
    BY <1>f DEF BesInv, CaptureInv, OneCapture, Captured
  <2>2. FreshIsEmpty'
    BY <1>f DEF BesInv, CaptureInv, FreshIsEmpty
  <2>3. CollectsWhenIdle'
    BY <1>f DEF BesInv, CaptureInv, CollectsWhenIdle
  <2>4. OneItem'
    BY <1>f, <1>g DEF BesInv, CaptureInv, OneItem
  <2>5. FramesAreOrdered'
    <3>1. ASSUME NEW t \in Streams PROVE pending[t] = << >>
      <4> SUFFICES ASSUME pending[t] # << >> PROVE FALSE
        OBVIOUS
      <4>1. pending[t] \in FrameSeq /\ expected[t] \in Nat
        BY StateTypes DEF BesInv
      <4>2. 1 \in DOMAIN pending[t] /\ pending[t][1][2] \in Nat
        BY <4>1, FrameTypes
      <4>3. 1 <= pending[t][1][2] /\ pending[t][1][2] < expected[t]
        BY <4>2 DEF BesInv, CaptureInv, FramesAreOrdered, Follows
      <4>4. Captured(t)
        BY <4>1, <4>2, <4>3 DEF Captured
      <4>5. t = sender
        BY <1>w, <4>4 DEF BesInv, CaptureInv, OneCapture, Captured
      <4> QED  BY <1>w, <4>5
    <3>2. ASSUME NEW t \in Streams PROVE Follows(pending[t], t)'
      BY <3>1, <1>f DEF Follows
    <3>3. Follows(ingesting, sender)
      BY DEF BesInv, CaptureInv, FramesAreOrdered
    <3>4. \A n \in DOMAIN ingesting' : /\ n \in Nat /\ n >= 1 /\ n + 1 \in DOMAIN ingesting
                                       /\ ingesting'[n] = ingesting[n + 1]
      <4>1. Tail(ingesting) \in FrameSeq
        BY <1>e, <1>g, TailFrames
      <4>2. \A n \in DOMAIN Tail(ingesting) : n \in Nat /\ n >= 1
        BY <4>1, FrameTypes
      <4> QED  BY <4>2, <1>e, <1>g, TailFrames
    <3>5. \A m \in DOMAIN evidence' : evidence'[m] = ingesting[1]
                                     \/ (m \in DOMAIN evidence /\ evidence'[m] = evidence[m])
      BY <1>e, AppendFrame
    <3>6. \A n \in DOMAIN ingesting : n \in Nat
      BY <1>e, FrameTypes
    <3>7. \A n \in DOMAIN ingesting' : ingesting'[n][1] = sender /\ 1 <= ingesting'[n][2]
                                       /\ ingesting'[n][2] < expected[sender]
      BY <3>3, <3>4 DEF Follows
    <3>8. \A m, n \in DOMAIN ingesting' : m < n => ingesting'[m][2] < ingesting'[n][2]
      BY <3>3, <3>4 DEF Follows
    <3>9. ASSUME NEW m \in DOMAIN evidence', NEW n \in DOMAIN ingesting'
          PROVE  evidence'[m][2] < ingesting'[n][2]
      <4>1. n + 1 \in DOMAIN ingesting /\ 1 < n + 1 /\ ingesting'[n] = ingesting[n + 1]
        BY <3>4
      <4>2. ingesting[1][2] < ingesting[n + 1][2]
        BY <4>1, <3>3, <1>e DEF Follows
      <4>3. m \in DOMAIN evidence => evidence[m][2] < ingesting[n + 1][2]
        BY <4>1, <3>3 DEF Follows
      <4> QED  BY <4>1, <4>2, <4>3, <3>5
    <3>10. Follows(ingesting, sender)'
      BY <3>7, <3>8, <3>9, <1>f DEF Follows
    <3>11. channel' = << >>
      BY <1>w, <1>f
    <3> QED  BY <3>2, <3>10, <3>11 DEF FramesAreOrdered
  <2>6. EvidenceWasAccepted'
    <3>1. \A m \in DOMAIN evidence' : evidence'[m] = ingesting[1]
                                     \/ (m \in DOMAIN evidence /\ evidence'[m] = evidence[m])
      BY <1>e, AppendFrame
    <3>2. 1 <= ingesting[1][2] /\ ingesting[1][2] < expected[sender]
      BY <1>e DEF BesInv, CaptureInv, FramesAreOrdered, Follows
    <3> QED  BY <3>1, <3>2, <1>e, <1>f DEF BesInv, CaptureInv, EvidenceWasAccepted
  <2>7. EvidenceIsOneOrderedStream'
    <3>1. \A m \in DOMAIN evidence' : (m = Len(evidence) + 1 /\ evidence'[m] = ingesting[1])
                                     \/ (m \in DOMAIN evidence /\ evidence'[m] = evidence[m])
      BY <1>e, AppendFrame
    <3>2. \A m \in DOMAIN evidence : m \in Nat /\ m <= Len(evidence)
      BY <1>e, FrameTypes
    <3>3. ASSUME NEW m \in DOMAIN evidence
          PROVE  evidence[m][1] = sender /\ evidence[m][2] < ingesting[1][2]
      <4>1. evidence[m][1] \in Streams /\ evidence[m][2] \in Nat
        BY <1>e, FrameTypes
      <4>2. 1 <= evidence[m][2] /\ evidence[m][2] < expected[evidence[m][1]]
        BY DEF BesInv, CaptureInv, EvidenceWasAccepted
      <4>3. expected[evidence[m][1]] \in Nat
        BY <4>1, StateTypes DEF BesInv
      <4>4. Captured(evidence[m][1])
        BY <4>1, <4>2, <4>3 DEF Captured
      <4>5. evidence[m][1] = sender
        BY <4>1, <4>4, <1>w DEF BesInv, CaptureInv, OneCapture, Captured
      <4> QED  BY <4>5, <1>e DEF BesInv, CaptureInv, FramesAreOrdered, Follows
    <3>4. Len(evidence) \in Nat
      BY StateTypes DEF BesInv
    <3>5. ASSUME NEW m \in DOMAIN evidence', NEW n \in DOMAIN evidence', m < n
          PROVE  evidence'[m][1] = evidence'[n][1] /\ evidence'[m][2] < evidence'[n][2]
      <4>1. m \in DOMAIN evidence /\ evidence'[m] = evidence[m]
        BY <3>1, <3>2, <3>4, <3>5
      <4>2. CASE n = Len(evidence) + 1 /\ evidence'[n] = ingesting[1]
        BY <4>1, <4>2, <3>3, <1>e
      <4>3. CASE n \in DOMAIN evidence /\ evidence'[n] = evidence[n]
        BY <4>1, <4>3, <3>5 DEF BesInv, CaptureInv, EvidenceIsOneOrderedStream
      <4> QED  BY <4>2, <4>3, <3>1
    <3> QED  BY <3>5 DEF EvidenceIsOneOrderedStream
  <2>8. BatchesAreWritten'
    <3>1. \A m \in DOMAIN evidence : m \in DOMAIN evidence' /\ evidence'[m] = evidence[m]
      <4>1. \A m \in DOMAIN evidence : m \in Nat /\ m <= Len(evidence) /\ Len(evidence) \in Nat
        BY <1>e, FrameTypes
      <4> QED  BY <4>1, <1>e, AppendFrame
    <3>2. \E m \in DOMAIN evidence' : evidence'[m] = ingesting[1]
      <4>1. Len(evidence) + 1 \in DOMAIN evidence' /\ Len(evidence) + 1 \notin DOMAIN evidence
        <5>1. Len(evidence) \in Nat /\ DOMAIN evidence = 1 .. Len(evidence)
          BY <1>e, FrameTypes
        <5>2. Len(evidence) + 1 \notin DOMAIN evidence
          BY <5>1
        <5> QED  BY <5>2, <1>e, AppendFrame
      <4> QED  BY <4>1, <1>e, AppendFrame
    <3>3. ASSUME NEW t \in Streams, NEW n \in DOMAIN batch[t], Written(t, n)
          PROVE  Written(t, n)'
      BY <3>1, <3>3, <1>f DEF Written
    <3>4. ASSUME NEW n \in DOMAIN batch[sender],
                 NEW m \in DOMAIN ingesting, ingesting[m] = batch[sender][n]
          PROVE  Written(sender, n)' \/ \E k \in DOMAIN ingesting' : ingesting'[k] = batch[sender][n]
      <4>1. CASE m = 1
        BY <4>1, <3>2, <3>4, <1>f DEF Written
      <4>2. CASE m # 1
        <5>1. m - 1 \in DOMAIN ingesting' /\ ingesting'[m - 1] = ingesting[m]
          BY <4>2, <1>e, <1>g, TailFrames
        <5> QED  BY <5>1, <3>4
      <4> QED  BY <4>1, <4>2
    <3>5. sender \in Streams
      BY StateTypes DEF BesInv
    <3> QED  BY <3>3, <3>4, <3>5, <1>f DEF BesInv, CaptureInv, BatchesAreWritten
  <2>9. AcknowledgedIsDurable'
    <3>1. \A m \in DOMAIN evidence : m \in DOMAIN evidence' /\ evidence'[m] = evidence[m]
      <4>1. \A m \in DOMAIN evidence : m \in Nat /\ m <= Len(evidence) /\ Len(evidence) \in Nat
        BY <1>e, FrameTypes
      <4> QED  BY <4>1, <1>e, AppendFrame
    <3> QED  BY <3>1, <1>f DEF BesInv, CaptureInv, AcknowledgedIsDurable, Entries
  <2>10. ReductionIsFinal'
    BY <1>f, <1>g DEF BesInv, CaptureInv, ReductionIsFinal
  <2>11. NothingIsLost'
    <3>1. /\ Len(evidence') = Len(evidence) + 1 /\ Len(ingesting') = Len(ingesting) - 1
          /\ Len(evidence) \in Nat /\ Len(ingesting) \in Nat
      BY <1>e, <1>g, AppendFrame, TailFrames, FrameTypes
    <3>2. InFlight = Len(ingesting) /\ InFlight' = Len(ingesting')
      BY <3>1, <1>w, <1>f DEF InFlight
    <3>3. ASSUME NEW t \in Streams, Captured(t) PROVE t = sender
      BY <3>3, <1>w DEF BesInv, CaptureInv, OneCapture, Captured
    <3>4. ASSUME NEW t \in Streams, outcome[t] = "ok" PROVE FALSE
      <4>1. Captured(t) /\ rpc[t] # "loop"
        BY <3>4 DEF BesInv, CaptureInv, NothingIsLost, Captured
      <4> QED  BY <4>1, <3>3, <1>w
    <3>5. \A t \in Streams : Len(pending[t]) \in Nat
      BY StateTypes DEF BesInv
    <3>6. ASSUME NEW t \in Streams, rpc[t] = "loop", ack[t] \notin {"error", "closed"}
          PROVE  events[t] = Len(evidence') + InFlight' + Len(pending[t])
      <4>1. events[t] = Len(evidence) + InFlight + Len(pending[t])
        BY <3>6 DEF BesInv, CaptureInv, NothingIsLost
      <4>2. Len(pending[t]) \in Nat
        BY <3>5
      <4>3. Len(evidence') + InFlight' = Len(evidence) + InFlight
        BY <3>1, <3>2
      <4> QED  BY <4>1, <4>2, <4>3
    <3> QED  BY <3>4, <3>6, <1>f DEF BesInv, CaptureInv, NothingIsLost
  <2> QED  BY <2>1, <2>2, <2>3, <2>4, <2>5, <2>6, <2>7, <2>8, <2>9, <2>10, <2>11 DEF
     CaptureInv
<1> QED  BY <1>1, <1>2, <1>3 DEF BesInv

\* A batch is acknowledged when it is all in the evidence.
LEMMA AcknowledgeBatchKeeps ==
    ASSUME BesInv, AcknowledgeBatch
    PROVE  BesInv'
<1>f. UNCHANGED <<line, net, next, rpc, todo, expected, events, pending, batch,
                 finished, outcome, answered, registered, active, completion, channel, ingesting,
                 sender, evidence, control, reduction, faults>>
  BY DEF AcknowledgeBatch, wire, task, reader, runner
<1>g. consumer = "ingesting" /\ ingesting = << >>
  BY DEF AcknowledgeBatch
<1>w. /\ sender \in Streams /\ channel = << >> /\ ack[sender] = "waiting" /\ rpc[sender] = "loop"
  <2>1. sender \in Streams /\ channel = << >> /\ ack[sender] = "waiting"
    BY <1>g, StateTypes DEF BesInv, CaptureInv, OneItem
  <2> QED  BY <2>1 DEF BesInv, CaptureInv, CollectsWhenIdle
<1>e. /\ ack'[sender] = "ok" /\ \A t \in Streams \ {sender} : ack'[t] = ack[t]
      /\ consumer' = "receiving"
  BY StateTypes DEF BesInv, TypeOK, AcknowledgeBatch
<1>1. TypeOK'
  BY <1>f, BesAssumption DEF BesInv, TypeOK, AcknowledgeBatch
<1>2. NumbersAreOrdered'
  BY <1>f DEF BesInv, NumbersAreOrdered
<1>3. CaptureInv'
  <2>1. OneCapture'
    BY <1>f DEF BesInv, CaptureInv, OneCapture, Captured
  <2>2. FreshIsEmpty'
    BY <1>f DEF BesInv, CaptureInv, FreshIsEmpty
  <2>3. CollectsWhenIdle'
    BY <1>f, <1>w, <1>e DEF BesInv, CaptureInv, CollectsWhenIdle
  <2>4. OneItem'
    BY <1>f, <1>g, <1>w, <1>e DEF OneItem
  <2>5. FramesAreOrdered'
    BY <1>f DEF BesInv, CaptureInv, FramesAreOrdered, Follows
  <2>6. EvidenceWasAccepted'
    BY <1>f DEF BesInv, CaptureInv, EvidenceWasAccepted
  <2>7. EvidenceIsOneOrderedStream'
    BY <1>f DEF BesInv, CaptureInv, EvidenceIsOneOrderedStream
  <2>8. BatchesAreWritten'
    <3>1. \A n \in DOMAIN batch[sender] : Written(sender, n)
      BY <1>g DEF BesInv, CaptureInv, BatchesAreWritten
    <3> QED  BY <3>1, <1>f, <1>e DEF BesInv, CaptureInv, BatchesAreWritten, Written
  <2>9. AcknowledgedIsDurable'
    BY <1>f DEF BesInv, CaptureInv, AcknowledgedIsDurable, Entries
  <2>10. ReductionIsFinal'
    BY <1>f, <1>g DEF BesInv, CaptureInv, ReductionIsFinal
  <2>11. NothingIsLost'
    BY <1>f, <1>w, <1>e DEF BesInv, CaptureInv, NothingIsLost, InFlight
  <2> QED  BY <2>1, <2>2, <2>3, <2>4, <2>5, <2>6, <2>7, <2>8, <2>9, <2>10, <2>11 DEF
     CaptureInv
<1> QED  BY <1>1, <1>2, <1>3 DEF BesInv

\* A failed write refuses the batch and ends the reader.
LEMMA IngestFailsKeeps ==
    ASSUME BesInv, IngestFails
    PROVE  BesInv'
<1>f. UNCHANGED <<line, net, next, rpc, todo, expected, events, pending, batch,
                 finished, outcome, answered, registered, active, completion, sender, evidence,
                 control, reduction>>
  BY DEF IngestFails, ReaderReturns, Fault, wire, task, reader, runner
<1>g. consumer = "ingesting"
  BY DEF IngestFails, ReaderReturns, Fault
<1>w. /\ sender \in Streams /\ channel = << >> /\ ack[sender] = "waiting" /\ rpc[sender] = "loop"
  <2>1. sender \in Streams /\ channel = << >> /\ ack[sender] = "waiting"
    BY <1>g, StateTypes DEF BesInv, CaptureInv, OneItem
  <2> QED  BY <2>1 DEF BesInv, CaptureInv, CollectsWhenIdle
<1>e. /\ ack'[sender] = "error" /\ \A t \in Streams \ {sender} : ack'[t] = ack[t]
      /\ consumer' = "failed" /\ channel' = << >> /\ ingesting' = << >>
  <2>1. ack' = [t \in Streams |-> IF t = sender THEN "error" ELSE ack[t]]
    <3>1. /\ ~\E n \in 1 .. Len(channel) : TRUE
          /\ ack \in [Streams -> {"none", "waiting", "ok", "error", "closed"}]
      BY <1>w DEF BesInv, TypeOK
    <3> QED  BY <3>1, <1>w DEF IngestFails, ReaderReturns
  <2> QED  BY <2>1, <1>w DEF IngestFails, ReaderReturns
<1>1. TypeOK'
  <2>1. ack' \in [Streams -> {"none", "waiting", "ok", "error", "closed"}]
    BY DEF BesInv, TypeOK, IngestFails, ReaderReturns
  <2>2. channel' \in Seq(Item) /\ Len(channel') <= ChannelCapacity /\ ingesting' \in FrameSeq
    BY <1>e, BesAssumption DEF FrameSeq
  <2>3. faults' \in Nat
    BY DEF BesInv, TypeOK, IngestFails, Fault
  <2> QED  BY <1>f, <1>e, <2>1, <2>2, <2>3 DEF BesInv, TypeOK, FrameSeq, Item
<1>2. NumbersAreOrdered'
  BY <1>f DEF BesInv, NumbersAreOrdered
<1>3. CaptureInv'
  <2>1. OneCapture'
    BY <1>f DEF BesInv, CaptureInv, OneCapture, Captured
  <2>2. FreshIsEmpty'
    BY <1>f DEF BesInv, CaptureInv, FreshIsEmpty
  <2>3. CollectsWhenIdle'
    BY <1>f, <1>w, <1>e DEF BesInv, CaptureInv, CollectsWhenIdle
  <2>4. OneItem'
    BY <1>e DEF OneItem
  <2>5. FramesAreOrdered'
    <3>1. \A t \in Streams : Follows(pending[t], t)
      BY DEF BesInv, CaptureInv, FramesAreOrdered
    <3> QED  BY <3>1, <1>e, <1>f DEF FramesAreOrdered, Follows
  <2>6. EvidenceWasAccepted'
    BY <1>f DEF BesInv, CaptureInv, EvidenceWasAccepted
  <2>7. EvidenceIsOneOrderedStream'
    BY <1>f DEF BesInv, CaptureInv, EvidenceIsOneOrderedStream
  <2>8. BatchesAreWritten'
    BY <1>f, <1>w, <1>e DEF BesInv, CaptureInv, BatchesAreWritten, Written
  <2>9. AcknowledgedIsDurable'
    BY <1>f DEF BesInv, CaptureInv, AcknowledgedIsDurable, Entries
  <2>10. ReductionIsFinal'
    BY <1>f, <1>g DEF BesInv, CaptureInv, ReductionIsFinal
  <2>11. NothingIsLost'
    <3>1. ASSUME NEW t \in Streams, t # sender PROVE rpc[t] # "loop"
      BY <3>1, <1>w DEF BesInv, CaptureInv, OneCapture, Captured
    <3> QED  BY <3>1, <1>w, <1>f, <1>e DEF BesInv, CaptureInv, NothingIsLost
  <2> QED  BY <2>1, <2>2, <2>3, <2>4, <2>5, <2>6, <2>7, <2>8, <2>9, <2>10, <2>11 DEF
     CaptureInv
<1> QED  BY <1>1, <1>2, <1>3 DEF BesInv

\* The end of the stream ends the reader.
LEMMA ReceiveFinishedKeeps ==
    ASSUME BesInv, ReceiveFinished
    PROVE  BesInv'
<1>f. UNCHANGED <<line, net, next, rpc, todo, expected, events, pending, batch,
                 finished, outcome, answered, registered, active, completion, ingesting, sender,
                 evidence, control, reduction>>
  BY DEF ReceiveFinished, ReaderReturns, Fault, NoFault, wire, task, reader, runner
<1>g. consumer = "receiving" /\ channel # << >> /\ Head(channel).frames = << >>
  BY DEF ReceiveFinished, ReaderReturns, Fault, NoFault
<1>w. /\ Len(channel) = 1 /\ Head(channel) = channel[1] /\ channel[1].from \in Streams
      /\ channel[1].frames = << >> /\ batch[channel[1].from] = << >>
      /\ ack[channel[1].from] = "waiting" /\ rpc[channel[1].from] = "loop"
      /\ ingesting = << >> /\ channel # << >>
  <2>1. /\ Len(channel) = 1 /\ ack[channel[1].from] = "waiting" /\ ingesting = << >>
        /\ batch[channel[1].from] = channel[1].frames
    BY <1>g DEF BesInv, CaptureInv, OneItem
  <2>2. channel[1].from \in Streams /\ Head(channel) = channel[1]
    BY <1>g, StateTypes DEF BesInv
  <2> QED  BY <2>1, <2>2, <1>g DEF BesInv, CaptureInv, CollectsWhenIdle
<1>e. /\ ack'[channel[1].from] \in {"ok", "error"}
      /\ \A t \in Streams \ {channel[1].from} : ack'[t] = ack[t]
      /\ consumer' \in {"done", "failed"} /\ channel' = << >>
  <2>1. /\ ack \in [Streams -> {"none", "waiting", "ok", "error", "closed"}]
        /\ \A n \in 1 .. Len(channel) : channel[n].from = channel[1].from
    BY <1>w DEF BesInv, TypeOK
  <2>2. ASSUME NEW a \in {"ok", "error"}, NEW c \in {"done", "failed"},
               ReaderReturns(c, [ack EXCEPT ![channel[1].from] = a])
        PROVE  /\ ack'[channel[1].from] = a
               /\ \A t \in Streams \ {channel[1].from} : ack'[t] = ack[t]
               /\ consumer' = c /\ channel' = << >>
    BY <2>1, <2>2, <1>w DEF ReaderReturns
  <2> QED  BY <2>2, <1>w DEF ReceiveFinished
<1>1. TypeOK'
  <2>1. /\ ack \in [Streams -> {"none", "waiting", "ok", "error", "closed"}]
        /\ channel[1].from \in Streams
    BY <1>w DEF BesInv, TypeOK
  <2>2. ack' \in [Streams -> {"none", "waiting", "ok", "error", "closed"}]
    BY <2>1, <1>w DEF ReceiveFinished, ReaderReturns
  <2>3. channel' \in Seq(Item) /\ Len(channel') <= ChannelCapacity
    BY <1>e, BesAssumption
  <2>4. faults' \in Nat
    <3>1. faults \in Nat
      BY DEF BesInv, TypeOK
    <3> QED  BY <3>1 DEF ReceiveFinished, Fault, NoFault
  <2> QED  BY <1>f, <1>e, <2>2, <2>3, <2>4 DEF BesInv, TypeOK, FrameSeq, Item
<1>2. NumbersAreOrdered'
  BY <1>f DEF BesInv, NumbersAreOrdered
<1>3. CaptureInv'
  <2>1. OneCapture'
    BY <1>f DEF BesInv, CaptureInv, OneCapture, Captured
  <2>2. FreshIsEmpty'
    BY <1>f DEF BesInv, CaptureInv, FreshIsEmpty
  <2>3. CollectsWhenIdle'
    BY <1>f, <1>w, <1>e DEF BesInv, CaptureInv, CollectsWhenIdle
  <2>4. OneItem'
    BY <1>f, <1>e, <1>w DEF OneItem
  <2>5. FramesAreOrdered'
    <3>1. (\A t \in Streams : Follows(pending[t], t)) /\ Follows(ingesting, sender)
      BY DEF BesInv, CaptureInv, FramesAreOrdered
    <3> QED  BY <3>1, <1>e, <1>f DEF FramesAreOrdered, Follows
  <2>6. EvidenceWasAccepted'
    BY <1>f DEF BesInv, CaptureInv, EvidenceWasAccepted
  <2>7. EvidenceIsOneOrderedStream'
    BY <1>f DEF BesInv, CaptureInv, EvidenceIsOneOrderedStream
  <2>8. BatchesAreWritten'
    <3>1. DOMAIN batch[channel[1].from] = {}
      BY <1>w
    <3> QED  BY <3>1, <1>f, <1>e DEF BesInv, CaptureInv, BatchesAreWritten, Written
  <2>9. AcknowledgedIsDurable'
    BY <1>f DEF BesInv, CaptureInv, AcknowledgedIsDurable, Entries
  <2>10. ReductionIsFinal'
    BY <1>f, <1>g DEF BesInv, CaptureInv, ReductionIsFinal
  <2>11. NothingIsLost'
    <3>1. Len(channel[1].frames) = 0 /\ InFlight' = InFlight
      BY <1>w, <1>f, <1>e, StateTypes DEF BesInv, InFlight
    <3>2. ack[channel[1].from] \notin {"error", "closed"}
      BY <1>w
    <3> QED  BY <3>1, <3>2, <1>w, <1>f, <1>e DEF BesInv, CaptureInv, NothingIsLost
  <2> QED  BY <2>1, <2>2, <2>3, <2>4, <2>5, <2>6, <2>7, <2>8, <2>9, <2>10, <2>11 DEF
     CaptureInv
<1> QED  BY <1>1, <1>2, <1>3 DEF BesInv

\* The reader ends when every sender is gone.
LEMMA ChannelClosesKeeps ==
    ASSUME BesInv, ChannelCloses
    PROVE  BesInv'
<1>f. UNCHANGED <<line, net, next, rpc, todo, expected, events, pending, batch,
                 finished, ack, outcome, answered, registered, active, completion, channel, ingesting,
                 sender, evidence, control, reduction, faults>>
  BY DEF ChannelCloses, wire, task, reader, runner
<1>g. consumer = "receiving" /\ channel = << >>
  BY DEF ChannelCloses
<1>e. consumer' = "done"
  BY StateTypes DEF BesInv, TypeOK, ChannelCloses
<1>1. TypeOK'
  BY <1>f, BesAssumption DEF BesInv, TypeOK, ChannelCloses
<1>2. NumbersAreOrdered'
  BY <1>f DEF BesInv, NumbersAreOrdered
<1>3. CaptureInv'
  <2>1. OneCapture'
    BY <1>f DEF BesInv, CaptureInv, OneCapture, Captured
  <2>2. FreshIsEmpty'
    BY <1>f DEF BesInv, CaptureInv, FreshIsEmpty
  <2>3. CollectsWhenIdle'
    BY <1>f DEF BesInv, CaptureInv, CollectsWhenIdle
  <2>4. OneItem'
    BY <1>f, <1>g, <1>e, StateTypes DEF BesInv, CaptureInv, OneItem
  <2>5. FramesAreOrdered'
    BY <1>f DEF BesInv, CaptureInv, FramesAreOrdered, Follows
  <2>6. EvidenceWasAccepted'
    BY <1>f DEF BesInv, CaptureInv, EvidenceWasAccepted
  <2>7. EvidenceIsOneOrderedStream'
    BY <1>f DEF BesInv, CaptureInv, EvidenceIsOneOrderedStream
  <2>8. BatchesAreWritten'
    BY <1>f, <1>g, <1>e, StateTypes DEF BesInv, CaptureInv, BatchesAreWritten, Written
  <2>9. AcknowledgedIsDurable'
    BY <1>f DEF BesInv, CaptureInv, AcknowledgedIsDurable, Entries
  <2>10. ReductionIsFinal'
    BY <1>f, <1>g, <1>e, StateTypes DEF BesInv, CaptureInv, ReductionIsFinal
  <2>11. NothingIsLost'
    BY <1>f DEF BesInv, CaptureInv, NothingIsLost, InFlight
  <2> QED  BY <2>1, <2>2, <2>3, <2>4, <2>5, <2>6, <2>7, <2>8, <2>9, <2>10, <2>11 DEF
     CaptureInv
<1> QED  BY <1>1, <1>2, <1>3 DEF BesInv

\* finish() changes nothing of the capture.
LEMMA BeginFinishKeeps ==
    ASSUME BesInv, BeginFinish
    PROVE  BesInv'
<1>f. UNCHANGED <<line, net, next, rpc, todo, expected, events, pending, batch,
                 finished, ack, outcome, answered, registered, active, completion, channel, consumer,
                 ingesting, sender, evidence, reduction, faults>>
  BY DEF BeginFinish, wire, task, reader, runner
<1>1. TypeOK'
  BY <1>f, BesAssumption DEF BesInv, TypeOK, BeginFinish
<1>2. NumbersAreOrdered'
  BY <1>f DEF BesInv, NumbersAreOrdered
<1>3. CaptureInv'
  <2>1. OneCapture'
    BY <1>f DEF BesInv, CaptureInv, OneCapture, Captured
  <2>2. FreshIsEmpty'
    BY <1>f DEF BesInv, CaptureInv, FreshIsEmpty
  <2>3. CollectsWhenIdle'
    BY <1>f DEF BesInv, CaptureInv, CollectsWhenIdle
  <2>4. OneItem'
    BY <1>f DEF BesInv, CaptureInv, OneItem
  <2>5. FramesAreOrdered'
    BY <1>f DEF BesInv, CaptureInv, FramesAreOrdered, Follows
  <2>6. EvidenceWasAccepted'
    BY <1>f DEF BesInv, CaptureInv, EvidenceWasAccepted
  <2>7. EvidenceIsOneOrderedStream'
    BY <1>f DEF BesInv, CaptureInv, EvidenceIsOneOrderedStream
  <2>8. BatchesAreWritten'
    BY <1>f DEF BesInv, CaptureInv, BatchesAreWritten, Written
  <2>9. AcknowledgedIsDurable'
    BY <1>f DEF BesInv, CaptureInv, AcknowledgedIsDurable, Entries
  <2>10. ReductionIsFinal'
    BY <1>f DEF BesInv, CaptureInv, ReductionIsFinal
  <2>11. NothingIsLost'
    BY <1>f DEF BesInv, CaptureInv, NothingIsLost, InFlight
  <2> QED  BY <2>1, <2>2, <2>3, <2>4, <2>5, <2>6, <2>7, <2>8, <2>9, <2>10, <2>11 DEF
     CaptureInv
<1> QED  BY <1>1, <1>2, <1>3 DEF BesInv

\* Nor does the end of its wait.
LEMMA FinishControlKeeps ==
    ASSUME BesInv, FinishControl
    PROVE  BesInv'
<1>f. UNCHANGED <<line, net, next, rpc, todo, expected, events, pending, batch,
                 finished, ack, outcome, answered, active, completion, channel, consumer, ingesting,
                 sender, evidence, reduction, faults>>
  BY DEF FinishControl, wire, task, reader, runner
<1>1. TypeOK'
  BY <1>f, BesAssumption DEF BesInv, TypeOK, FinishControl
<1>2. NumbersAreOrdered'
  BY <1>f DEF BesInv, NumbersAreOrdered
<1>3. CaptureInv'
  <2>1. OneCapture'
    BY <1>f DEF BesInv, CaptureInv, OneCapture, Captured
  <2>2. FreshIsEmpty'
    BY <1>f DEF BesInv, CaptureInv, FreshIsEmpty
  <2>3. CollectsWhenIdle'
    BY <1>f DEF BesInv, CaptureInv, CollectsWhenIdle
  <2>4. OneItem'
    BY <1>f DEF BesInv, CaptureInv, OneItem
  <2>5. FramesAreOrdered'
    BY <1>f DEF BesInv, CaptureInv, FramesAreOrdered, Follows
  <2>6. EvidenceWasAccepted'
    BY <1>f DEF BesInv, CaptureInv, EvidenceWasAccepted
  <2>7. EvidenceIsOneOrderedStream'
    BY <1>f DEF BesInv, CaptureInv, EvidenceIsOneOrderedStream
  <2>8. BatchesAreWritten'
    BY <1>f DEF BesInv, CaptureInv, BatchesAreWritten, Written
  <2>9. AcknowledgedIsDurable'
    BY <1>f DEF BesInv, CaptureInv, AcknowledgedIsDurable, Entries
  <2>10. ReductionIsFinal'
    BY <1>f DEF BesInv, CaptureInv, ReductionIsFinal
  <2>11. NothingIsLost'
    BY <1>f DEF BesInv, CaptureInv, NothingIsLost, InFlight
  <2> QED  BY <2>1, <2>2, <2>3, <2>4, <2>5, <2>6, <2>7, <2>8, <2>9, <2>10, <2>11 DEF
     CaptureInv
<1> QED  BY <1>1, <1>2, <1>3 DEF BesInv

\* Nor does dropping the capture.
LEMMA DropCaptureKeeps ==
    ASSUME BesInv, DropCapture
    PROVE  BesInv'
<1>f. UNCHANGED <<line, net, next, rpc, todo, expected, events, pending, batch,
                 finished, ack, outcome, answered, active, completion, channel, consumer, ingesting,
                 sender, evidence, reduction, faults>>
  BY DEF DropCapture, wire, task, reader, runner
<1>1. TypeOK'
  BY <1>f, BesAssumption DEF BesInv, TypeOK, DropCapture
<1>2. NumbersAreOrdered'
  BY <1>f DEF BesInv, NumbersAreOrdered
<1>3. CaptureInv'
  <2>1. OneCapture'
    BY <1>f DEF BesInv, CaptureInv, OneCapture, Captured
  <2>2. FreshIsEmpty'
    BY <1>f DEF BesInv, CaptureInv, FreshIsEmpty
  <2>3. CollectsWhenIdle'
    BY <1>f DEF BesInv, CaptureInv, CollectsWhenIdle
  <2>4. OneItem'
    BY <1>f DEF BesInv, CaptureInv, OneItem
  <2>5. FramesAreOrdered'
    BY <1>f DEF BesInv, CaptureInv, FramesAreOrdered, Follows
  <2>6. EvidenceWasAccepted'
    BY <1>f DEF BesInv, CaptureInv, EvidenceWasAccepted
  <2>7. EvidenceIsOneOrderedStream'
    BY <1>f DEF BesInv, CaptureInv, EvidenceIsOneOrderedStream
  <2>8. BatchesAreWritten'
    BY <1>f DEF BesInv, CaptureInv, BatchesAreWritten, Written
  <2>9. AcknowledgedIsDurable'
    BY <1>f DEF BesInv, CaptureInv, AcknowledgedIsDurable, Entries
  <2>10. ReductionIsFinal'
    BY <1>f DEF BesInv, CaptureInv, ReductionIsFinal
  <2>11. NothingIsLost'
    BY <1>f DEF BesInv, CaptureInv, NothingIsLost, InFlight
  <2> QED  BY <2>1, <2>2, <2>3, <2>4, <2>5, <2>6, <2>7, <2>8, <2>9, <2>10, <2>11 DEF
     CaptureInv
<1> QED  BY <1>1, <1>2, <1>3 DEF BesInv

\* The reduction is taken when the evidence is final.
LEMMA TakeReductionKeeps ==
    ASSUME BesInv, TakeReduction
    PROVE  BesInv'
<1>f. UNCHANGED <<line, net, next, rpc, todo, expected, events, pending, batch,
                 finished, ack, outcome, answered, registered, active, completion, channel, consumer,
                 ingesting, sender, evidence, control, faults>>
  BY DEF TakeReduction, wire, task, reader, runner
<1>g. consumer \in {"done", "failed"} /\ reduction' = <<evidence>>
  BY DEF TakeReduction
<1>1. TypeOK'
  BY <1>f, BesAssumption DEF BesInv, TypeOK, TakeReduction
<1>2. NumbersAreOrdered'
  BY <1>f DEF BesInv, NumbersAreOrdered
<1>3. CaptureInv'
  <2>1. OneCapture'
    BY <1>f DEF BesInv, CaptureInv, OneCapture, Captured
  <2>2. FreshIsEmpty'
    BY <1>f DEF BesInv, CaptureInv, FreshIsEmpty
  <2>3. CollectsWhenIdle'
    BY <1>f DEF BesInv, CaptureInv, CollectsWhenIdle
  <2>4. OneItem'
    BY <1>f DEF BesInv, CaptureInv, OneItem
  <2>5. FramesAreOrdered'
    BY <1>f DEF BesInv, CaptureInv, FramesAreOrdered, Follows
  <2>6. EvidenceWasAccepted'
    BY <1>f DEF BesInv, CaptureInv, EvidenceWasAccepted
  <2>7. EvidenceIsOneOrderedStream'
    BY <1>f DEF BesInv, CaptureInv, EvidenceIsOneOrderedStream
  <2>8. BatchesAreWritten'
    BY <1>f DEF BesInv, CaptureInv, BatchesAreWritten, Written
  <2>9. AcknowledgedIsDurable'
    BY <1>f DEF BesInv, CaptureInv, AcknowledgedIsDurable, Entries
  <2>10. ReductionIsFinal'
    BY <1>f, <1>g, StateTypes DEF BesInv, CaptureInv, ReductionIsFinal
  <2>11. NothingIsLost'
    BY <1>f DEF BesInv, CaptureInv, NothingIsLost, InFlight
  <2> QED  BY <2>1, <2>2, <2>3, <2>4, <2>5, <2>6, <2>7, <2>8, <2>9, <2>10, <2>11 DEF
     CaptureInv
<1> QED  BY <1>1, <1>2, <1>3 DEF BesInv
-----------------------------------------------------------------------------
(* The invariant                                                            *)

\* Nothing has been opened, collected or written.
LEMMA InitEstablishesInv == Init => BesInv
<1> SUFFICES ASSUME Init PROVE BesInv
  OBVIOUS
<1>1. TypeOK
  <2>1. sender \in Streams
    BY BesAssumption DEF Init
  <2>2. finished \in [Streams -> BOOLEAN] /\ registered \in BOOLEAN /\ active \in BOOLEAN
    BY Zenon DEF Init
  <2>3. /\ << >> \in Seq([seq : Nat, kind : Kinds]) /\ << >> \in Seq(Work)
        /\ << >> \in Seq(Streams \X Nat)
        /\ << >> \in Seq([from : Streams, frames : Seq(Streams \X Nat)])
    OBVIOUS
  <2> QED  BY <2>1, <2>2, <2>3, BesAssumption DEF Init, TypeOK, Work
<1>2. NumbersAreOrdered
  BY BesAssumption DEF Init, NumbersAreOrdered
<1>3. OneCapture /\ FreshIsEmpty /\ CollectsWhenIdle /\ OneItem
  BY DEF Init, OneCapture, Captured, FreshIsEmpty, CollectsWhenIdle, OneItem
<1>4. /\ FramesAreOrdered /\ EvidenceWasAccepted /\ EvidenceIsOneOrderedStream
      /\ BatchesAreWritten /\ AcknowledgedIsDurable /\ ReductionIsFinal
  BY DEF Init, FramesAreOrdered, Follows, EvidenceWasAccepted,
     EvidenceIsOneOrderedStream, BatchesAreWritten, AcknowledgedIsDurable, ReductionIsFinal
<1>5. NothingIsLost
  BY DEF Init, NothingIsLost, InFlight
<1> QED  BY <1>1, <1>2, <1>3, <1>4, <1>5 DEF BesInv, CaptureInv

\* A step that changes nothing.
LEMMA StutterKeeps ==
    ASSUME BesInv, UNCHANGED vars
    PROVE  BesInv'
<1>f. UNCHANGED <<line, net, next, rpc, todo, expected, events, pending, batch, finished,
                 ack, outcome, answered, registered, active, completion, channel, consumer,
                 ingesting, sender, evidence, control, reduction, faults>>
  BY DEF vars, wire, task, reader
<1>1. TypeOK' /\ NumbersAreOrdered'
  BY <1>f DEF BesInv, TypeOK, NumbersAreOrdered
<1>2. OneCapture' /\ FreshIsEmpty' /\ CollectsWhenIdle' /\ OneItem'
  BY <1>f DEF BesInv, CaptureInv, OneCapture, Captured, FreshIsEmpty, CollectsWhenIdle, OneItem
<1>3. FramesAreOrdered' /\ EvidenceWasAccepted' /\ EvidenceIsOneOrderedStream'
  BY <1>f DEF BesInv, CaptureInv, FramesAreOrdered, Follows, EvidenceWasAccepted,
     EvidenceIsOneOrderedStream
<1>4. BatchesAreWritten' /\ AcknowledgedIsDurable' /\ ReductionIsFinal' /\ NothingIsLost'
  BY <1>f, ZenonT(60) DEF BesInv, CaptureInv, BatchesAreWritten, Written, AcknowledgedIsDurable,
     Entries, ReductionIsFinal, NothingIsLost, InFlight
<1> QED  BY <1>1, <1>2, <1>3, <1>4 DEF BesInv, CaptureInv

\* Every step of the service, the reader, the runner and Bazel keeps the invariant.
LEMMA NextKeepsInv ==
    ASSUME BesInv, [Next]_vars
    PROVE  BesInv'
<1>1. ASSUME NEW s \in Streams,
             \/ OpenStream(s) \/ SendRequest(s) \/ SendBadRequest(s)
             \/ CloseStream(s) \/ BreakStream(s)
      PROVE  BesInv'
  BY <1>1, OpenStreamKeeps, SendRequestKeeps, SendBadRequestKeeps, CloseStreamKeeps,
     BreakStreamKeeps
<1>2. ASSUME NEW s \in Streams, StreamStep(s)
      PROVE  BesInv'
  <2>1. CASE FirstRequestFails(s) \/ Unidentified(s) \/ LookupCapture(s) \/ TakeRequest(s)
    BY <2>1, FirstRequestFailsKeeps, UnidentifiedKeeps, LookupCaptureKeeps, TakeRequestKeeps
  <2>2. CASE Yield(s) \/ EndOfInput(s) \/ FlushNothing(s) \/ Forward(s)
    BY <2>2, YieldKeeps, EndOfOpenInputKeeps, EndOfBrokenInputKeeps, FlushNothingKeeps,
       ForwardToNobodyKeeps, ForwardItemKeeps
  <2>3. CASE Answer(s) \/ FinishAccepted(s) \/ Reply(s) \/ ForwardFails(s)
    BY <2>3, AnswerFrameKeeps, AnswerEndKeeps, FinishAcceptedKeeps, ReplySentKeeps,
       ReplyLostKeeps, ForwardFailsKeeps
  <2>4. CASE EndStream(s) \/ Complete(s)
    BY <2>4, EndStreamKeeps, CompleteKeeps
  <2> QED  BY <1>2, <2>1, <2>2, <2>3, <2>4 DEF StreamStep
<1>3. CASE ReaderStep
  BY <1>3, ReceiveFramesKeeps, IngestFrameKeeps, AcknowledgeBatchKeeps, IngestFailsKeeps,
     ReceiveFinishedKeeps, ChannelClosesKeeps DEF ReaderStep
<1>4. CASE BeginFinish \/ FinishControl \/ DropCapture \/ TakeReduction
  BY <1>4, BeginFinishKeeps, FinishControlKeeps, DropCaptureKeeps, TakeReductionKeeps
<1>5. CASE Rest \/ UNCHANGED vars
  BY <1>5, StutterKeeps DEF Rest
<1> QED  BY <1>1, <1>2, <1>3, <1>4, <1>5 DEF Next

\* The inductive invariant holds of every reachable state, whatever the number of streams,
\* faults and requests, the batch size and the channel's capacity.
THEOREM BesInvariance == Spec => []BesInv
<1> QED  BY InitEstablishesInv, NextKeepsInv, PTL DEF Spec

-----------------------------------------------------------------------------
(* Acknowledgements and success                                             *)

\* Whatever ingest_stream acknowledged to Bazel is in the evidence, which is one stream in
\* sequence, and in what BesCapture::finish handed to the reducers.
THEOREM AcknowledgementsHold == Spec => []AcknowledgementsAreHonest
<1>1. ASSUME BesInv PROVE AcknowledgementsAreHonest
  <2>1. TypeOK /\ AcknowledgedIsDurable /\ EvidenceIsOneOrderedStream
    BY <1>1 DEF BesInv, CaptureInv
  <2>2. ReductionHoldsAcknowledged
    <3> SUFFICES ASSUME reduction # << >>, NEW f \in answered
                 PROVE  \E n \in DOMAIN reduction[1] : reduction[1][n] = f
      BY DEF ReductionHoldsAcknowledged
    <3>1. reduction[1] = evidence
      BY <1>1 DEF BesInv, CaptureInv, ReductionIsFinal
    <3>2. \E n \in DOMAIN evidence : evidence[n] = f
      BY <2>1 DEF AcknowledgedIsDurable, Entries
    <3> QED  BY <3>1, <3>2
  <2> QED  BY <2>1, <2>2 DEF AcknowledgementsAreHonest
<1> QED  BY <1>1, BesInvariance, PTL

\* A stream that capture_stream reported as a success left all its accepted events in the
\* evidence: no batch was lost between the channel, the reader and a failed write.
THEOREM SuccessIsWhole == Spec => []SuccessMeansWholeStream
<1>1. ASSUME BesInv PROVE SuccessMeansWholeStream
  <2> SUFFICES ASSUME NEW s \in Streams, outcome[s] = "ok"
               PROVE  Cardinality({n \in DOMAIN evidence : evidence[n][1] = s}) = events[s]
    BY DEF SuccessMeansWholeStream
  <2>1. events[s] = Len(evidence) /\ expected[s] > 1
    BY <1>1 DEF BesInv, CaptureInv, NothingIsLost
  <2>2. Len(evidence) \in Nat /\ DOMAIN evidence = 1 .. Len(evidence) /\ evidence \in FrameSeq
    BY <1>1, StateTypes, FrameTypes DEF BesInv
  <2>3. ASSUME NEW n \in DOMAIN evidence PROVE evidence[n][1] = s
    <3>1. evidence[n][1] \in Streams /\ evidence[n][2] \in Nat
      BY <2>2, FrameTypes
    <3>2. expected[evidence[n][1]] \in Nat
      BY <1>1, <3>1, StateTypes DEF BesInv
    <3>3. expected[evidence[n][1]] > 1
      BY <1>1, <3>1, <3>2 DEF BesInv, CaptureInv, EvidenceWasAccepted
    <3>4. Captured(s) /\ Captured(evidence[n][1])
      BY <2>1, <3>3 DEF Captured
    <3> QED  BY <1>1, <3>1, <3>4 DEF BesInv, CaptureInv, OneCapture
  <2>4. {n \in DOMAIN evidence : evidence[n][1] = s} = 1 .. Len(evidence)
    BY <2>2, <2>3
  <2>5. Cardinality(1 .. Len(evidence)) = Len(evidence)
    <3> DEFINE n == Len(evidence)
    <3>1. n \in Nat
      BY <2>2
    <3>2. Cardinality(1 .. n) = IF 1 > n THEN 0 ELSE n - 1 + 1
      <4> HIDE DEF n
      <4> QED  BY <3>1, FS_Interval
    <3> HIDE DEF n
    <3>3. Cardinality(1 .. n) = n
      BY <3>1, <3>2
    <3> QED  BY <3>3 DEF n
  <2> QED  BY <2>1, <2>4, <2>5
<1> QED  BY <1>1, BesInvariance, PTL

-----------------------------------------------------------------------------
(* The durable log                                                          *)

\* An accepted sequence number is one Bazel sent.
LEMMA AcceptedIsFrame ==
    ASSUME BesInv, NEW t \in Streams, NEW k \in Nat, 1 <= k, k < expected[t]
    PROVE  <<t, k>> \in Frames
<1>1. expected[t] \in Nat /\ next[t] \in Nat /\ Len(net[t]) \in Nat /\ MaxSeq \in Nat
  BY StateTypes DEF BesInv
<1>2. expected[t] <= MaxSeq + 1
  BY <1>1 DEF BesInv, NumbersAreOrdered
<1>3. k \in 1 .. MaxSeq
  BY <1>1, <1>2
<1> QED  BY <1>3 DEF Frames

\* The frame the reader writes is a new one.
LEMMA IngestAccepts ==
    ASSUME BesInv, IngestFrame
    PROVE  Log!Next
<1>1. ingesting # << >> /\ evidence \in FrameSeq /\ ingesting \in FrameSeq /\ sender \in Streams
  BY StateTypes DEF BesInv, IngestFrame
<1>2. Head(ingesting) = ingesting[1] /\ 1 \in DOMAIN ingesting
  BY <1>1, TailFrames
<1>3. /\ ingesting[1] = <<ingesting[1][1], ingesting[1][2]>>
      /\ ingesting[1][1] \in Streams /\ ingesting[1][2] \in Nat
  BY <1>1, <1>2, FrameTypes
<1>4. /\ ingesting[1][1] = sender /\ 1 <= ingesting[1][2] /\ ingesting[1][2] < expected[sender]
      /\ \A m \in DOMAIN evidence : evidence[m][2] < ingesting[1][2]
  BY <1>2 DEF BesInv, CaptureInv, FramesAreOrdered, Follows
<1>5. ingesting[1] \in Frames
  BY <1>3, <1>4, AcceptedIsFrame
<1>6. ingesting[1] \notin Log!Entries
  <2>1. ASSUME NEW m \in DOMAIN evidence PROVE evidence[m] # ingesting[1]
    BY <1>1, <1>3, <1>4, FrameTypes
  <2> QED  BY <2>1 DEF Log!Entries
<1>7. evidence' = Append(evidence, ingesting[1]) /\ UNCHANGED answered
  BY <1>2 DEF IngestFrame
<1> QED  BY <1>5, <1>6, <1>7 DEF Log!Next, Log!Accept

\* The frame that is answered is in the evidence.
LEMMA AnswerAcknowledges ==
    ASSUME BesInv, NEW s \in Streams, Answer(s), batch[s] # << >>
    PROVE  Log!Next
<1>1. batch[s] \in FrameSeq /\ evidence \in FrameSeq
  BY StateTypes DEF BesInv
<1>2. Head(batch[s]) = batch[s][1] /\ 1 \in DOMAIN batch[s]
  BY <1>1, TailFrames
<1>3. ack[s] = "ok" /\ answered' = answered \cup {batch[s][1]} /\ UNCHANGED evidence
  BY <1>2 DEF Answer, reader
<1>4. PICK m \in DOMAIN evidence : evidence[m] = batch[s][1]
  BY <1>2, <1>3 DEF BesInv, CaptureInv, BatchesAreWritten, Written
<1>5. /\ evidence[m] = <<evidence[m][1], evidence[m][2]>>
      /\ evidence[m][1] \in Streams /\ evidence[m][2] \in Nat
  BY <1>1, <1>4, FrameTypes
<1>6. batch[s][1] \in Frames
  <2>1. 1 <= evidence[m][2] /\ evidence[m][2] < expected[evidence[m][1]]
    BY <1>4 DEF BesInv, CaptureInv, EvidenceWasAccepted
  <2> QED  BY <1>4, <1>5, <2>1, AcceptedIsFrame
<1>7. batch[s][1] \in Log!Entries
  BY <1>4 DEF Log!Entries
<1> QED  BY <1>3, <1>6, <1>7 DEF Log!Next, Log!Acknowledge

\* Every step is one of the log or changes neither the evidence nor what was answered.
LEMMA LogStep ==
    ASSUME BesInv, [Next]_vars
    PROVE  [Log!Next]_<<evidence, answered>>
<1>1. ASSUME NEW s \in Streams,
             \/ OpenStream(s) \/ SendRequest(s) \/ SendBadRequest(s)
             \/ CloseStream(s) \/ BreakStream(s)
      PROVE  UNCHANGED <<evidence, answered>>
  BY <1>1 DEF OpenStream, SendRequest, SendBadRequest, Send, CloseStream, BreakStream, reader
<1>2. ASSUME NEW s \in Streams, StreamStep(s)
      PROVE  [Log!Next]_<<evidence, answered>>
  <2>1. CASE FirstRequestFails(s) \/ Unidentified(s) \/ LookupCapture(s) \/ TakeRequest(s)
    BY <2>1 DEF FirstRequestFails, Unidentified, LookupCapture, TakeRequest, reader
  <2>2. CASE Yield(s) \/ EndOfInput(s) \/ FlushNothing(s) \/ Forward(s)
    BY <2>2 DEF Yield, EndOfInput, FlushNothing, Forward, reader
  <2>3. CASE Answer(s) /\ batch[s] # << >>
    BY <2>3, AnswerAcknowledges
  <2>4. CASE Answer(s) /\ batch[s] = << >>
    BY <2>4 DEF Answer, reader
  <2>5. CASE \/ FinishAccepted(s) \/ Reply(s) \/ ForwardFails(s)
             \/ EndStream(s) \/ Complete(s)
    BY <2>5 DEF FinishAccepted, Reply, ForwardFails, EndStream, Complete, reader
  <2> QED  BY <1>2, <2>1, <2>2, <2>3, <2>4, <2>5 DEF StreamStep
<1>3. CASE ReaderStep
  <2>1. CASE IngestFrame
    BY <2>1, IngestAccepts
  <2>2. CASE ReceiveFrames \/ AcknowledgeBatch \/ IngestFails \/ ReceiveFinished \/ ChannelCloses
    BY <2>2 DEF ReceiveFrames, AcknowledgeBatch, IngestFails, ReceiveFinished, ChannelCloses
  <2> QED  BY <1>3, <2>1, <2>2 DEF ReaderStep
<1>4. CASE BeginFinish \/ FinishControl \/ DropCapture \/ TakeReduction
  BY <1>4 DEF BeginFinish, FinishControl, DropCapture, TakeReduction, reader
<1>5. CASE Rest \/ UNCHANGED vars
  BY <1>5 DEF Rest, vars, reader
<1> QED  BY <1>1, <1>2, <1>3, <1>4, <1>5 DEF Next

\* The Build Event Service and the capture implement the durable log: a frame enters the
\* evidence once, nothing leaves it or moves, and only what is in it is acknowledged.
THEOREM CaptureImplementsLog == Spec => LogSpec
<1>1. Init => Log!Init
  BY DEF Init, Log!Init
<1>2. BesInv /\ [Next]_vars => [Log!Next]_<<evidence, answered>>
  BY LogStep
<1> QED  BY <1>1, <1>2, BesInvariance, PTL DEF Spec, LogSpec, Log!Spec
==============================================================================
