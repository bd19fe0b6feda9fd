CONSTANTS
    p1 = p1
    p2 = p2
    Procs = {p1, p2}
    Finisher = {p1}
    MaxCount = 2
    MaxTasks = 2
    MaxMutations = 2
    MaxRefreshes = 1
    MaxFaults = 1
SPECIFICATION Spec
INVARIANTS ScheduledFlagIsTrue
PROPERTIES ShutdownKeepsTelemetry OnlyCompletionLowers
