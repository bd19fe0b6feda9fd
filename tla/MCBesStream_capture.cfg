CONSTANTS
    s1 = s1
    s2 = s2
    Streams = {s1, s2}
    MaxSeq = 3
    MaxInFlight = 1
    BatchEvents = 2
    ChannelCapacity = 2
    MaxStreamEvents = 2
    MaxFaults = 1
SPECIFICATION FairSpec
INVARIANTS AcknowledgementsAreHonest SuccessMeansWholeStream
PROPERTIES LogSpec CaptureProgresses
