SPECIFICATION Spec
CONSTANTS
    c1 = c1
    c2 = c2
    Contents = {c1, c2}
    Delay = 1
    ChunkSize = 2
    ReorgDepth = 0
    MaxHeight = 3
    MaxCut = 1
PROPERTY NoGapAtSubscription
