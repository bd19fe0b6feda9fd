CONSTANTS
    p1 = p1
    p2 = p2
    i1 = i1
    Procs = {p1, p2}
    Inv = {i1}
    Deferrable = {}
    Maintainers = {p1}
    MaxCrashes = 1
    MaxFaults = 0
SPECIFICATION FairSpec
PROPERTIES OrphansAreInterrupted
