SPECIFICATION Spec
CONSTANTS
    n = n
    Procs = {p1}
    Sources = {s1}
    Loopbacks = {}
    Dirs = {d, e}
    Names = {n}
    Root = Root
    Stored <- OneFile
    ForeignSrc = s1
    Ids = {"me"}
    MaxOps = 2
    MaxFaults = 0
    MaxMerges = 0
    MaxSessions = 1
INVARIANT LiveFilesHaveData
CHECK_DEADLOCK FALSE
