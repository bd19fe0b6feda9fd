------------------------------ MODULE BepFraming ------------------------------
(***************************************************************************)
(* Varint-delimited BEP frames (bazel-mcp-bep/src/framing.rs).             *)
(*                                                                         *)
(* A byte is a number below 2 * Base: the upper half has the continuation  *)
(* bit.  The code has Base 128, prefixes of at most ten bytes and a last   *)
(* group of at most 1; here they are parameters.  A decoder is a record;   *)
(* its visitor belongs to the module that extends this one.                *)
(***************************************************************************)
EXTENDS Integers, Sequences, SequencesExt

CONSTANTS
    Base,           \* 2^7
    MaxPrefix,      \* bytes of the longest length prefix
    LastGroup,      \* largest payload of the last byte of the longest prefix
    MaxFrameBytes, MaxStreamBytes, MaxEvents

ASSUME FramingAssumption ==
    /\ Base \in Nat \ {0} /\ MaxPrefix \in Nat \ {0} /\ LastGroup \in Nat
    /\ MaxFrameBytes \in Nat /\ MaxStreamBytes \in Nat /\ MaxEvents \in Nat

Byte == 0 .. 2 * Base - 1
Continues(b) == b >= Base
Low(b) == b % Base
Drop(s, n) == SubSeq(s, n + 1, Len(s))

\* The number the first n bytes of s encode, low group first.
VarintValue(s, n) ==
    LET v[i \in 0 .. n] == IF i = 0 THEN 0 ELSE v[i - 1] + Low(s[i]) * Base ^ (i - 1)
    IN  v[n]

\* write_varint and encode_frame.
WriteVarint(value) ==
    LET w[v \in 0 .. value] == IF v >= Base THEN <<Low(v) + Base>> \o w[v \div Base] ELSE <<v>>
    IN  w[value]
EncodeFrame(event) == WriteVarint(Len(event)) \o event

\* Lengths of the prefixes of s that end a varint, the shortest of which counts.
PrefixEnds(s) == {n \in 1 .. Len(s) : n <= MaxPrefix /\ ~Continues(s[n])}
PrefixLength(s) == CHOOSE n \in PrefixEnds(s) : \A m \in PrefixEnds(s) : n <= m

\* inspect_frame: what the bytes at hand say about the frame they start.
FrameState(prefix, size, available) ==
    CASE size > MaxFrameBytes -> [state |-> "too_large"]
      [] size <= MaxFrameBytes /\ available >= prefix + size ->
            [state |-> "complete", prefix |-> prefix, total |-> prefix + size]
      [] OTHER -> [state |-> "need_payload", total |-> prefix + size]
InspectFrame(s) ==
    IF \/ PrefixEnds(s) = {} /\ Len(s) >= MaxPrefix
       \/ Len(s) >= MaxPrefix /\ PrefixEnds(s) \subseteq {MaxPrefix} /\ Low(s[MaxPrefix]) > LastGroup
    THEN [state |-> "invalid_varint"]
    ELSE IF PrefixEnds(s) = {} THEN [state |-> "need_prefix"]
    ELSE FrameState(PrefixLength(s), VarintValue(s, PrefixLength(s)), Len(s))

NewDecoder == [pending |-> << >>, bytes |-> 0, count |-> 0, error |-> "none"]
IsTerminal(d) == d.error # "none"

\* Seeded fault: one event too many.
FrameLimitLate(d, size) ==
    CASE d.bytes + size > MaxStreamBytes -> "stream_too_large"
      [] d.bytes + size <= MaxStreamBytes /\ d.count > MaxEvents -> "too_many_events"
      [] OTHER -> "none"

\* visit_decoded_frame without the visitor: the limits a frame of this size meets.
FrameLimit(d, size) ==
    CASE d.bytes + size > MaxStreamBytes -> "stream_too_large"
      [] d.bytes + size <= MaxStreamBytes /\ d.count >= MaxEvents -> "too_many_events"
      [] OTHER -> "none"

\* What one round of push_frames does: it hands a frame to the visitor, takes
\* bytes of the chunk and goes on, or returns.
DecodeRound(d, framed, prefix, rest) ==
    [do |-> "decode", d |-> d, framed |-> framed, prefix |-> prefix, rest |-> rest]
TakeRound(d, rest) == [do |-> "take", d |-> d, rest |-> rest]
ReturnRound(d) == [do |-> "return", d |-> d]

\* No frame is retained: frames f are decoded in place, an incomplete one is kept.
RoundInPlace(f, d, input) ==
    CASE f.state = "complete" ->
            DecodeRound(d, SubSeq(input, 1, f.total), f.prefix, Drop(input, f.total))
      [] f.state \in {"need_prefix", "need_payload"} -> ReturnRound([d EXCEPT !.pending = input])
      [] OTHER -> ReturnRound([d EXCEPT !.error = f.state])

\* Seeded fault: a retained prefix takes the whole chunk.
NeedPrefixTakesChunk(d, input) == TakeRound([d EXCEPT !.pending = @ \o input], << >>)

\* A retained prefix takes one byte at a time, lest it swallow the payload.
NeedPrefix(d, input) == TakeRound([d EXCEPT !.pending = Append(@, Head(input))], Tail(input))

NeedPayload(d, input, total) ==
    LET take == IF Len(input) < total - Len(d.pending) THEN Len(input)
                                                        ELSE total - Len(d.pending)
    IN  TakeRound([d EXCEPT !.pending = @ \o SubSeq(input, 1, take)], Drop(input, take))

RoundRetained(f, d, input) ==
    CASE f.state = "need_prefix" -> NeedPrefix(d, input)
      [] f.state = "need_payload" -> NeedPayload(d, input, f.total)
      [] f.state = "complete" ->
            DecodeRound([d EXCEPT !.pending = << >>], d.pending, f.prefix, input)
      [] OTHER -> ReturnRound([d EXCEPT !.error = f.state])

\* Seeded fault: a frame completed by the last byte of a chunk waits for the next.
RoundAtEndWaits(f, d) == ReturnRound(d)

\* The chunk may have brought exactly the bytes the retained frame lacked.
RoundAtEnd(f, d) ==
    CASE d.pending = << >> \/ f.state \in {"need_prefix", "need_payload"} -> ReturnRound(d)
      [] d.pending # << >> /\ f.state = "complete" ->
            DecodeRound([d EXCEPT !.pending = << >>], d.pending, f.prefix, << >>)
      [] OTHER -> ReturnRound([d EXCEPT !.error = f.state])

PushRound(d, input) ==
    CASE IsTerminal(d) -> ReturnRound(d)
      [] ~IsTerminal(d) /\ input = << >> -> RoundAtEnd(InspectFrame(d.pending), d)
      [] ~IsTerminal(d) /\ input # << >> /\ d.pending = << >> ->
            RoundInPlace(InspectFrame(input), d, input)
      [] OTHER -> RoundRetained(InspectFrame(d.pending), d, input)

\* IncrementalStreamDecoder::finish: a retained prefix or payload is truncated.
FinishDecoder(d) ==
    IF ~IsTerminal(d) /\ d.pending # << >> THEN [d EXCEPT !.error = "truncated"] ELSE d

-----------------------------------------------------------------------------
(* The reader of whole frames: one byte of the prefix after the other, then *)
(* the payload.                                                             *)

\* read_varint from byte i on.
ReadVarint(s) ==
    LET step[i \in 1 .. MaxPrefix] ==
            CASE i > Len(s) -> [result |-> IF i = 1 THEN "end" ELSE "truncated"]
              [] i <= Len(s) /\ i = MaxPrefix /\ Low(s[i]) > LastGroup -> [result |-> "invalid_varint"]
              [] i <= Len(s) /\ ~(i = MaxPrefix /\ Low(s[i]) > LastGroup) /\ ~Continues(s[i]) ->
                    [result |-> "value", value |-> VarintValue(s, i), prefix |-> i]
              [] OTHER -> IF i = MaxPrefix THEN [result |-> "invalid_varint"] ELSE step[i + 1]
    IN  step[1]

\* read_frame: the next frame, or why there is none.
FrameRead(v, available) ==
    CASE v.result # "value" -> [result |-> v.result]
      [] v.result = "value" /\ v.value > MaxFrameBytes -> [result |-> "too_large"]
      [] v.result = "value" /\ v.value <= MaxFrameBytes /\ v.prefix + v.value > available ->
            [result |-> "truncated"]
      [] OTHER -> [result |-> "frame", prefix |-> v.prefix, total |-> v.prefix + v.value]
ReadFrame(s) == FrameRead(ReadVarint(s), Len(s))
=============================================================================
