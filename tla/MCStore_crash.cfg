CONSTANTS
    p1 = p1
    p2 = p2
    i1 = i1
    Procs = {p1, p2}
    Inv = {i1}
    Deferrable = {i1}
    Maintainers = {p1, p2}
    MaxCrashes = 1
    MaxFaults = 1
SPECIFICATION Spec
SYMMETRY ProcSymmetry
INVARIANTS IndexFollowsDisk LiveNeverInterrupted
PROPERTIES TerminalIsFinal OnlyReclaimableDeleted
