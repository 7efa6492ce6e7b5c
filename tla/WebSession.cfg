CONSTANTS
    User = {ann, bob}
    NoUser = NoUser
    MaxLogins = 3
    Slot = {s1, s2}
    NoSlot = NoSlot
SPECIFICATION FairClientSpec
INVARIANT WebInv
PROPERTY Heals
CHECK_DEADLOCK FALSE
