CONSTANTS
    Call = {r1, r2, r3}
    Login = {r1, r2}
    MaxInFlight = 2
    MaxFailures = 1
    Window = 2
    LbLag = 2
    DrainDelay = 1
    HardLimit = 2
    MaxTime = 2
SPECIFICATION FairApiSpec
INVARIANT ApiInv
INVARIANT ShutdownSpares
INVARIANT Throttled
PROPERTY RefusedInGap
PROPERTY Stops
CHECK_DEADLOCK FALSE
