CONSTANTS
    c1 = c1
    c2 = c2
    c3 = c3
    c4 = c4
    Call = {c1, c2, c3, c4}
    FailureThreshold = 3
    SuccessThreshold = 2
SPECIFICATION FairBreakerSpec
INVARIANT BreakerInv
PROPERTY TriesAgain
CHECK_DEADLOCK FALSE
