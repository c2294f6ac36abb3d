SPECIFICATION Spec
CONSTANTS
    rich = rich
    poor = poor
    vToken = vToken
    r1 = r1
    r2 = r2
    Users = {rich, poor, vToken}
    Contracts = {vToken}
    Reserves = {r1, r2}
    Parent = {rich, poor}
    Selected = {rich}
    InitBalances <- MCBalances
    Amounts = {1}
    Debts = {0, 2}
    MaxBlocks = 3
    MaxDeliveries = 2
CHECK_DEADLOCK FALSE
INVARIANTS TypeOK KeysComplete FlagsOfOneBlock DebtHasIndex BalancesHeal
