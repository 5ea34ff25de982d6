SPECIFICATION Spec
CONSTANTS
    d1 = d1
    d2 = d2
    Devices = {d1, d2}
    Files = {f, g}
    Seeded = {f}
    NoRec = NoRec
    Workers <- TwoClis
    MaxCasRetries = 2
    MaxEdits = 2
    MaxMoves = 1
    MaxLoss = 1
    MaxEra = 1
    QuietUser = FALSE
INVARIANTS
    TypeOK
    SyncInv
    
PROPERTIES
    ImplementsLog
    PendingNeverDropped
CHECK_DEADLOCK FALSE
