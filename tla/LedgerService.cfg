CONSTANTS
    Request = {1, 2, 3}
    TypeOf <- MCTypeOf
    LineOf <- MCLineOf
    MaxDate = 2
    MaxAt = 2
    Limit = 1
    MaxLoads = 1
SPECIFICATION Spec
INVARIANT ServiceInv
INVARIANT ListedOnce
INVARIANT StatementSkipsTies
PROPERTY FinalTotals
CHECK_DEADLOCK FALSE
