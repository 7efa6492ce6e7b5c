CONSTANTS
    first = first
    retry = retry
    other = other
    paymentKey = paymentKey
    payment = payment
    refund = refund
    NoRequest = NoRequest
    Key = {paymentKey}
    Request <- MCRetries
    KeyOf <- MCKeys
    BodyOf <- MCBodies
    Located <- MCLocated
SPECIFICATION Spec
INVARIANT RetryPostsOnce
CHECK_DEADLOCK FALSE
