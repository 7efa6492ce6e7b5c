CONSTANTS
    e1 = e1
    e2 = e2
    audit = audit
    notifications = notifications
    n1 = n1
    n2 = n2
    ada = ada
    bob = bob
    l1 = l1
    l2 = l2
    NoEvent = NoEvent
    NoLetter = NoLetter
    Event = {e1}
    Queue = {audit, notifications}
    Deduped = {audit}
    Effects <- MCEffects
    Relay = {n1, n2}
    Operator = {ada}
    Letter = {l1, l2}
    BatchSize = 2
    MaxAttempts = 2
    MaxStalled = 1
    MaxFaults = 3
    MaxTold = 2
SPECIFICATION FairSpec
INVARIANT OutboxInv
INVARIANT ReplayedTakenUp
PROPERTY Delivered
CHECK_DEADLOCK FALSE
