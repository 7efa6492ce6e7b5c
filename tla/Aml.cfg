CONSTANTS
    v1 = v1
    v2 = v2
    v3 = v3
    asha = asha
    ravi = ravi
    cash = cash
    many = many
    Voucher = {v1, v2, v3}
    Customer = {asha, ravi}
    Entry <- MCEntry
    Rule = {cash, many}
    Code <- MCCode
    CashOnly = {cash}
    Window <- MCWindow
    Threshold <- MCThreshold
    MinCount <- MCMinCount
    MaxListed = 2
    Nothing = Nothing
    MaxDay = 1
    MaxSetbacks = 1
SPECIFICATION AmlSpec
SYMMETRY MCSymmetry
INVARIANT AmlInv
INVARIANT MissedOnlyLate
CHECK_DEADLOCK FALSE
