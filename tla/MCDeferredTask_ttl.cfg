CONSTANTS
    c1 = c1
    r1 = r1
    TTL = 2
    MaxTime = 5
    Cancels = {c1}
    Results = {}
    MaxFaults = 0
    MaxCrashes = 0
SPECIFICATION Spec
INVARIANTS TerminalResultLivesOneTTL
