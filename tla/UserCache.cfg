CONSTANTS
    r1 = r1
    r2 = r2
    r3 = r3
    here = here
    there = there
    None = None
    Process = {here, there}
    Request = {r1, r2, r3}
    RunsOn <- MCRunsOn
    Threshold = 2
    LockFor = 1
    Ttl = 1
    MaxLoad = 1
    MaxVersion = 2
SPECIFICATION Spec
SYMMETRY MCSymmetry
INVARIANT UserCacheInv
PROPERTY BoundedStaleness
CHECK_DEADLOCK FALSE
