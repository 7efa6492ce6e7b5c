--------------------------- MODULE CircuitBreaker ---------------------------
(***************************************************************************)
(* The circuit breaker in front of the SMS gateway                         *)
(* (shared/resilience/circuitBreaker.ts).  It lives in one process, so its *)
(* code runs without interruption up to the await of the operation; calls  *)
(* overlap there, and may end long after the state in which they were let  *)
(* through.                                                                *)
(***************************************************************************)
EXTENDS Naturals, FiniteSets

CONSTANTS
    Call,               \* jobs that may be sending at the same time
    FailureThreshold,
    SuccessThreshold

ASSUME BreakerConstants ==
    /\ IsFiniteSet(Call)
    /\ FailureThreshold \in Nat \ {0}
    /\ SuccessThreshold \in Nat \ {0}

VARIABLES
    state,
    failures,   \* counted to FailureThreshold: beyond it makes no difference
    successes,
    probing,
    cooled,     \* cooldownMs have passed since openedAt
    call        \* how each call under way was let through

breaker == <<state, failures, successes, probing, cooled, call>>

CircuitState == {"CLOSED", "OPEN", "HALF_OPEN"}

Probes == {c \in Call : call[c] = "probe"}

----------------------------------------------------------------------------
(* execute, up to the operation.  A call that is refused changes nothing.  *)

Pass(c) ==
    /\ state = "CLOSED" /\ call[c] = "none"
    /\ call' = [call EXCEPT ![c] = "normal"]
    /\ UNCHANGED <<state, failures, successes, probing, cooled>>

HalfOpen(c) ==
    /\ state = "OPEN" /\ cooled /\ call[c] = "none"
    /\ state' = "HALF_OPEN"
    /\ successes' = 0
    /\ probing' = TRUE
    /\ call' = [call EXCEPT ![c] = "probe"]
    /\ UNCHANGED <<failures, cooled>>

Probe(c) ==
    /\ state = "HALF_OPEN" /\ ~probing /\ call[c] = "none"
    /\ probing' = TRUE
    /\ call' = [call EXCEPT ![c] = "probe"]
    /\ UNCHANGED <<state, failures, successes, cooled>>

----------------------------------------------------------------------------
(* The operation ends: onSuccess, onFailure, or an error that is not held  *)
(* against the dependency.                                                 *)

Ends(c) == call[c] # "none" /\ call' = [call EXCEPT ![c] = "none"]

\* reset
Close ==
    /\ state' = "CLOSED" /\ failures' = 0 /\ successes' = 0 /\ probing' = FALSE
    /\ cooled' = FALSE

\* openedAt = now: the cooldown starts over.
Open == state' = "OPEN" /\ cooled' = FALSE

Succeed(c) ==
    /\ Ends(c)
    /\ \/ /\ state = "HALF_OPEN" /\ successes + 1 >= SuccessThreshold
          /\ Close
       \/ /\ state = "HALF_OPEN" /\ successes + 1 < SuccessThreshold
          /\ probing' = FALSE
          /\ successes' = successes + 1
          /\ UNCHANGED <<state, failures, cooled>>
       \/ /\ state # "HALF_OPEN"
          /\ failures' = 0
          /\ UNCHANGED <<state, successes, probing, cooled>>

Break(c) ==
    /\ Ends(c)
    /\ \/ /\ state = "HALF_OPEN"
          /\ probing' = FALSE
          /\ Open
          /\ UNCHANGED <<failures, successes>>
       \/ /\ state # "HALF_OPEN" /\ failures + 1 >= FailureThreshold
          /\ failures' = FailureThreshold
          /\ Open
          /\ UNCHANGED <<successes, probing>>
       \/ /\ state # "HALF_OPEN" /\ failures + 1 < FailureThreshold
          /\ failures' = failures + 1
          /\ UNCHANGED <<state, successes, probing, cooled>>

\* Mutant: such an error is ignored altogether.
ExcuseSilently(c) ==
    /\ Ends(c)
    /\ UNCHANGED <<state, failures, successes, probing, cooled>>

Excuse(c) ==
    /\ Ends(c)
    /\ probing' = (probing /\ state # "HALF_OPEN")
    /\ UNCHANGED <<state, failures, successes, cooled>>

Cool ==
    /\ state = "OPEN" /\ ~cooled
    /\ cooled' = TRUE
    /\ UNCHANGED <<state, failures, successes, probing, call>>

----------------------------------------------------------------------------

BreakerInit ==
    /\ state = "CLOSED"
    /\ failures = 0 /\ successes = 0
    /\ probing = FALSE /\ cooled = FALSE
    /\ call = [c \in Call |-> "none"]

Start(c) == Pass(c) \/ HalfOpen(c) \/ Probe(c)
Finish(c) == Succeed(c) \/ Break(c) \/ Excuse(c)

BreakerNext == Cool \/ \E c \in Call : Start(c) \/ Finish(c)

BreakerSpec == BreakerInit /\ [][BreakerNext]_breaker

\* The gateway timeout ends every call, the clock goes on, and there is always
\* another message to send.
FairBreakerSpec ==
    /\ BreakerSpec
    /\ WF_breaker(Cool)
    /\ WF_breaker(\E c \in Call : Start(c))
    /\ \A c \in Call : WF_breaker(Finish(c))

----------------------------------------------------------------------------
(* Properties                                                              *)

BreakerTypes ==
    /\ state \in CircuitState
    /\ failures \in 0..FailureThreshold
    /\ successes \in 0..SuccessThreshold
    /\ probing \in BOOLEAN
    /\ cooled \in BOOLEAN
    /\ call \in [Call -> {"none", "normal", "probe"}]

\* The breaker never refuses calls for a probe that is not there: whatever late
\* results come in, while it waits for a probe one is under way.
ProbeUnderWay == (state = "HALF_OPEN" /\ probing) => Probes # {}

\* What overlapping calls and late results keep: the types, and that a probe
\* somebody waits for is under way.
BreakerInv == BreakerTypes /\ ProbeUnderWay

\* A breaker that refuses calls does not do so for good: an open one tries the
\* dependency again, and one that waits for a probe gets to know how it went.
Waiting    == state = "HALF_OPEN" /\ probing
TriesAgain == (state = "OPEN" ~> state = "HALF_OPEN") /\ (Waiting ~> ~Waiting)

============================================================================
