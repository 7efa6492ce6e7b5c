CONSTANTS
    v1 = v1
    v2 = v2
    v3 = v3
    left = left
    right = right
    hq = hq
    teller = teller
    officer = officer
    manager = manager
    t1 = t1
    t2 = t2
    NoVoucher = NoVoucher
    AnyBranch = "ANY"
    Voucher = {v1, v2, v3}
    Account <- MCAccount
    Branch = {hq}
    User <- MCUser
    Txn <- MCTxn
    Rank <- MCRank
    Types = {"TRANSFER"}
    HomeBranch <- MCHome
    MultiBranch = {}
    May <- MCMay
    Side <- MCSide
    Reserved <- MCReserved
    Freeze <- MCFreeze
    Allows <- MCAllows
    Opening <- MCOpening
    Policy <- MCPolicy
    Entry <- MCEntry
SPECIFICATION LocksSpec
SYMMETRY MCSymmetry
INVARIANT LocksInv
INVARIANT OnlyReversalsDeadlock
PROPERTY Implements
CHECK_DEADLOCK FALSE
