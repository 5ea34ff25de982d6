SPECIFICATION FairSpec
CONSTANTS
    d1 = d1
    d2 = d2
    Devices = {d1, d2}
    Files = {f}
    Seeded = {f}
    NoRec = NoRec
    Workers <- PollingDaemon
    MaxCasRetries = 2
    MaxEdits = 2
    MaxMoves = 0
    MaxLoss = 0
    MaxEra = 0
    QuietUser = TRUE
INVARIANTS
    NoLostUpdate
    SyncedIsUploaded
PROPERTIES
    Converges
CHECK_DEADLOCK FALSE
