SPECIFICATION Spec
CONSTANTS
    Ctokens = {vA, vB}
    EXP_SCALE = 10
    TREASURY_PERCENT = 1
    Prices = {1, 12}
    Rates = {10, 30}
    Factors = {0, 6}
    Indexes = {10, 13}
    Incentives = {11, 13}
    closs_factor = 5
    Cols <- MCCols
    Debts = {0, 17}
    Vais = {0, 2}
SYMMETRY MCSymmetry
CHECK_DEADLOCK FALSE
INVARIANTS
    TypeOK
    RepayFits
    RepayWithinClose
    SeizeWithinBalance
    ProfitBounded
PROPERTY HfMonotone
