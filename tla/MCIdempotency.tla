--------------------------- MODULE MCIdempotency ---------------------------
(* Values of the constants of Idempotency for TLC: a request, a retry of it, *)
(* and a request that uses the key for something else.                       *)
EXTENDS Idempotency, TLC

CONSTANTS first, retry, other, paymentKey, payment, refund

MCRequest == {first, retry, other}
MCKeyOf   == [r \in MCRequest |-> paymentKey]
MCBodyOf  == [r \in MCRequest |-> IF r = other THEN refund ELSE payment]

MCLocated == {first, retry}

MCRetries == {first, retry}
MCKeys    == [r \in MCRetries |-> paymentKey]
MCBodies  == [r \in MCRetries |-> payment]
=============================================================================
