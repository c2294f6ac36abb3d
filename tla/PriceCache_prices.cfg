SPECIFICATION FairSpec
CONSTANTS
    a1 = a1
    a2 = a2
    t1 = t1
    t2 = t2
    t3 = t3
    Aggregators = {a1, a2}
    Tokens = {t1, t2, t3}
    Source <- MCSource
    BaseQuoted = {a1, a2}
    Place <- MCPlace
    Multiplier <- MCMultiplier
    InitAnswer <- MCInitAnswer
    Answers = {1, 2, 3, 4, 5}
    Observations = {0, 1, 2, 3, 4, 5}
    Reports <- MCReports
    GasPrices = {10}
    INTVL = 1
    MaxClock = 13
    LastSignal = 6
    Lossy = TRUE
INVARIANTS TypeOK RollbackTarget SettledIsOnChain
PROPERTIES ZeroEndsConfirmed ImplementsSpeculation SpeculationEnds
