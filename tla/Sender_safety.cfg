SPECIFICATION Spec
CONSTANTS
    Users = {u1, u2}
    Debts = {d}
    Amounts = {100, 105, 200}
    Profits <- MCProfits
    Accounts <- MCAccounts
    Top = 2
    Floor = 2
    MaxReceipts = 1
    MaxRaises = 2
    MaxBatches = 2
    MaxMined = 1
SYMMETRY MCSymmetry
CHECK_DEADLOCK FALSE
INVARIANTS TypeOK NoncesGapless NoRepeat OneSigner
