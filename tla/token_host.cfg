SPECIFICATION FairSpec
CONSTANTS
    Coroutines <- SharedLoop
    Absent = Absent
    Free = Free
    Dead = Dead
    MaxExpiries = 1
    MaxRefusals = 1
    MaxLoss = 1
    MaxLogouts = 1
INVARIANTS
    TypeOK
    MutualExclusion
    RotationSafe
PROPERTIES
    CallsReturn
CHECK_DEADLOCK FALSE
