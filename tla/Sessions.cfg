CONSTANTS
    a = a
    b = b
    c = c
    d = d
    r1 = r1
    r2 = r2
    r3 = r3
    r4 = r4
    NoToken = NoToken
    Initial = Initial
    Token = {a, b, c}
    Request = {r1, r2, r3, r4}
    Lifetime = 2
    MaxTime = 3
SPECIFICATION Spec
SYMMETRY MCSymmetry
INVARIANT SessionsInv
INVARIANT SessionEnds
PROPERTY OverIsOver
CHECK_DEADLOCK FALSE
