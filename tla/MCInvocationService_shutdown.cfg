CONSTANTS
    i1 = i1
    i2 = i2
    i3 = i3
    k1 = k1
    k2 = k2
    Inv <- Two
    Keys = {k1}
    KeyOf <- SharedKey
    GlobalConcurrency = 1
    MaximumPending = 2
    Cancellable = {}
    Awaited = {}
    MaxFaults = 0
    MaxOtherHolds = 1
    ShutdownAllowed = TRUE
SPECIFICATION FairSpec
INVARIANT SerializedOutputBase
PROPERTIES AcceptedTerminates ShutdownDrains
