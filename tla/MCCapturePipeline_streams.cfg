CONSTANTS
    Base = 2
    MaxPrefix = 3
    LastGroup = 0
    MaxFrameBytes = 2
    MaxStreamBytes = 2
    MaxEvents = 2
    MaxLen = 4
    Transports = {"tail", "fifo"}
    Streams <- SmallStreams
    Capacities = {3, 9}
    Truncations = {TRUE, FALSE}
    MaxRewrites = 1
SPECIFICATION Spec
INVARIANTS DecoderIsFaithful EvidenceAgrees
