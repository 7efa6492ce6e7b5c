CONSTANTS
    v1 = v1
    v2 = v2
    v3 = v3
    cash = cash
    savings = savings
    frozen = frozen
    hq = hq
    outpost = outpost
    teller = teller
    manager = manager
    agent = agent
    NoVoucher = NoVoucher
    AnyBranch = "ANY"
    Voucher <- MCVoucher
    Account <- MCAccount
    Branch = {hq, outpost}
    User <- MCUser
    HomeBranch <- MCHome
    MultiBranch = {manager}
    May <- MCMay
    Side <- MCSide
    Reserved <- MCReserved
    Freeze <- MCFreeze
    Allows <- MCAllows
    Opening <- MCOpening
    Policy <- MCPolicy
    Entry <- MCEntry
SPECIFICATION Spec
SYMMETRY MCSymmetry
INVARIANT TypeOK
INVARIANT BooksBalance
INVARIANT PostedOnce
INVARIANT FourEyes
INVARIANT GaplessNumbers
INVARIANT EventsTellAll
INVARIANT RunningBalances
PROPERTY FundsKept
PROPERTY KeepsPromises
CHECK_DEADLOCK FALSE
