SPECIFICATION Spec
CONSTANTS
    Chunks = {c1, c2, c3}
    Users = {u1, u2}
    Blobs = {"short", "long"}
    Size <- Sizes
    Quotas = {0, 2, 4}
    MaxFaults = 2
    None = None
SYMMETRY ChunkSymmetry
INVARIANTS
    TypeOK
    AckedFetchable
    DiskWithinQuota
