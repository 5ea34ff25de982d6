SPECIFICATION Spec
CONSTANTS
    n = n
    Procs = {p1, p2}
    Sources = {s1, s2}
    Loopbacks = {s2}
    Dirs = {d, e}
    Names = {n}
    Root = Root
    Stored <- OneFile
    ForeignSrc = s1
    Ids = {"me", "null"}
    MaxOps = 2
    MaxFaults = 1
    MaxMerges = 1
    MaxSessions = 2
SYMMETRY Alike
INVARIANTS
    TypeOK
    
    NoLeakedTransaction
CHECK_DEADLOCK FALSE
