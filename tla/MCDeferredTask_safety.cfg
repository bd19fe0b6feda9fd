CONSTANTS
    c1 = c1
    r1 = r1
    TTL = 2
    MaxTime = 3
    Cancels = {c1}
    Results = {r1}
    MaxFaults = 2
    MaxCrashes = 1
SPECIFICATION FairSpec
INVARIANTS HandleIsHonest CancelledTaskStaysCancelled
PROPERTIES CancellationIsFinalized ExtensionStatusIsFinal
