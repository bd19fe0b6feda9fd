CONSTANTS
    p1 = p1
    p2 = p2
    Procs = {p1}
    Finisher = {}
    MaxCount = 2
    MaxTasks = 2
    MaxMutations = 0
    MaxRefreshes = 1
    MaxFaults = 0
SPECIFICATION Spec
PROPERTIES RefreshKeepsTelemetry
