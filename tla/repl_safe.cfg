SPECIFICATION Spec
CONSTANTS
    Holders = {h1, h2, h3}
    MinReplicas = 2
    MaxChunks = 2
    MaxEdits = 1
    MaxRuns = 2
    MaxLoss = 1
    MaxOff = 1
    CliOps = {"recover"}
SYMMETRY HolderSymmetry
INVARIANTS
    TypeOK
    
    
CHECK_DEADLOCK FALSE
