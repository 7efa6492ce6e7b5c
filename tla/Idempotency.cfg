CONSTANTS
    first = first
    retry = retry
    other = other
    paymentKey = paymentKey
    payment = payment
    refund = refund
    NoRequest = NoRequest
    Key = {paymentKey}
    Request <- MCRequest
    KeyOf <- MCKeyOf
    BodyOf <- MCBodyOf
    Located <- MCLocated
SPECIFICATION FairSpec
INVARIANT IdempotencyInv
INVARIANT ReplaysTrue
PROPERTY ResponseKept
PROPERTY Answered
PROPERTY ClaimSettles
CHECK_DEADLOCK FALSE
