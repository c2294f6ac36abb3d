SPECIFICATION SpecConfigs
CONSTANTS
    Ctokens = {vA, vB}
    Incentives = {11, 12}
    Factors = {5, 6}
    MaxBlocks = 2
    MaxLogs = 2
SYMMETRY MCSymmetry
CHECK_DEADLOCK FALSE
INVARIANTS
    IncentiveCurrent
    FactorRecorded
