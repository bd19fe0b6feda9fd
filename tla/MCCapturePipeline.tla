-------------------------- MODULE MCCapturePipeline --------------------------
EXTENDS CapturePipeline

CONSTANT MaxLen

\* An empty event, the start of an attempt, its eviction, and a frame whose length
\* takes two bytes.
Frames == {EncodeFrame(event) : event \in {<< >>, <<1>>, <<2>>, <<0, 0>>}}

\* Every short stream of bytes, well-formed or not, and attempts with retries.
SmallStreams == BoundedSeq(0 .. 3, MaxLen) \cup {a \o b \o c : a, b, c \in Frames}
=============================================================================
