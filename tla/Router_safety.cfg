SPECIFICATION Spec
CONSTANTS
    A = A
    C = C
    W = W
    B = B
    Tokens = {A, C, W, B}
    ROUTS_TOKENS = {W, B}
    ByNumber <- MCByNumber
    ByText <- MCByText
    Reserves <- MCReserves
    Amounts = {0, 1, 7}
    fee = 25
    MaxRouts = 2
CHECK_DEADLOCK FALSE
INVARIANTS
    RouteCovers
    BestOfUnused
