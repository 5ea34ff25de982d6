SPECIFICATION LoopbackSpec
CONSTANTS
    Procs = {p1, p2}
    Files = {f, g, h}
    InDir = {g, h}
    Capacity = 4
    MaxLen = 3
    MaxOps = 7
    MaxFailures = 1
SYMMETRY ProcessesAlike
INVARIANTS
    AccountCoversDisk
    SoleUserWithinSize
CHECK_DEADLOCK FALSE
