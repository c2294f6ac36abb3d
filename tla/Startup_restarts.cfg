SPECIFICATION FairSpec
CONSTANTS
    c1 = c1
    c2 = c2
    Contents = {c1, c2}
    Delay = 1
    ChunkSize = 2
    ReorgDepth = 1
    MaxHeight = 3
    MaxCut = 1
INVARIANTS TypeOK DiskCanonical DiskVaiFresh MirrorExact AssignedRight
PROPERTY StartupEnds
