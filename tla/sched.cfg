SPECIFICATION FairSpec
CONSTANTS
    Order <- FourFiles
    Missing <- OnlyFirst
    MaxPerCycle = 3
    Grace = 1
    MaxBad = 2
    MaxDegrade = 1
    MaxRestarts = 1
INVARIANTS
    TypeOK
PROPERTIES
    AllBackedUp
    FrontHealed
CHECK_DEADLOCK FALSE
