SPECIFICATION Spec
CONSTANTS
    MaxItems = 2
    MaxScan = 3
    LineLimit = 2
    MinScan = 2
    ScanFactor = 1
    MinBudget = 2
    MaxBudget = 4
    InnerItems = 2
    ActionableMax = 1
    FallbackMax = 2
    EvidenceMax = 3
    CompleteTail = 2
    FallbackTail = 3
    LiveTail = 1
    Filters = {"none", "empty", "m", "s", "long"}
    Limits = {0, 5}
    Budgets = {0, 9}
    MaxBytes = 5
    MaxLines = 3
    MaxRecords = 3
    Invocations <- MCInvocations
    Ledgers <- MCLedgers
    Keys <- MCKeys
INVARIANTS NothingIsSkipped WalkIsSound
PROPERTIES PagesAreTrue
