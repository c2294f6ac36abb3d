SPECIFICATION LiveSpec
CONSTANTS
    Light = {"users", "prices"}
    MaxLight = 4
    MaxFull = 3
    MaxPending = 3
    MaxAbnormal = 1
CHECK_DEADLOCK FALSE
INVARIANTS TypeOK EndsOverBudget
PROPERTY SettlesOrEnds
