SPECIFICATION FairSpecAny
CONSTANTS
    d1 = d1
    d2 = d2
    Devices = {d1}
    Files = {f}
    Seeded = {f}
    NoRec = NoRec
    Workers <- FullMachine
    MaxCasRetries = 1
    MaxEdits = 1
    MaxMoves = 0
    MaxLoss = 1
    MaxEra = 1
    QuietUser = FALSE
PROPERTIES
    PendingEventuallySynced
    
CHECK_DEADLOCK FALSE
