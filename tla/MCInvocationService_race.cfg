CONSTANTS
    i1 = i1
    i2 = i2
    i3 = i3
    k1 = k1
    k2 = k2
    Inv <- One
    Keys = {k1}
    KeyOf <- SharedKey
    GlobalConcurrency = 1
    MaximumPending = 1
    Cancellable = {i1}
    Awaited = {}
    MaxFaults = 0
    MaxOtherHolds = 0
    ShutdownAllowed = FALSE
SPECIFICATION Spec
INVARIANT CancelledRunHasItsToken
