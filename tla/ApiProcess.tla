----------------------------- MODULE ApiProcess -----------------------------
(***************************************************************************)
(* One API process: the life of a request through load shedding, the       *)
(* request deadline and the login limiter (app.ts, middleware/), beside    *)
(* the life of the process itself (server.ts, health.routes.ts).  Node     *)
(* runs one callback at a time; what it runs next is open.  The load       *)
(* balancer, the sockets and Redis are external.                           *)
(***************************************************************************)
EXTENDS Integers, FiniteSets

CONSTANTS
    Call,
    Login,        \* the requests that are logins, all from one address
    MaxInFlight,  \* config.http.maxInFlight
    MaxFailures,  \* max of loginRateLimit
    Window,       \* windowMs of loginRateLimit, in ticks
    LbLag,        \* the balancer's check interval times its threshold
    DrainDelay,   \* DRAIN_DELAY_MS
    HardLimit,    \* config.shutdown.timeoutMs
    MaxTime       \* the clock stops here (a bound)

\* Nothing is assumed of the order of the three delays: the comment on DRAIN_DELAY_MS
\* wants DrainDelay > LbLag, and the deployment does not give it.
ASSUME ApiConstants ==
    /\ Login \subseteq Call /\ IsFiniteSet(Call)
    /\ MaxInFlight \in Nat \ {0} /\ MaxFailures \in Nat \ {0} /\ Window \in Nat \ {0}
    /\ LbLag \in Nat /\ DrainDelay \in Nat /\ HardLimit \in Nat /\ MaxTime \in Nat

VARIABLES
    now,
    boot,       \* how far start() has come
    stage,      \* how far shutdown() has come, or how the process ended
    since,      \* when shutdown() was called
    routed,     \* the balancer sends requests here
    redis,      \* isCacheAvailable()
    response,   \* [Call -> the state of its response and connection]
    handler,    \* [Call -> the work on it, which nobody aborts]
    success,    \* the requests answered with a status below 400
    inFlight,   \* the counter of loadShedding
    window,     \* the sorted set of the limiter: members with their times
    passed      \* every member added that Redis has not taken back or lost (history)

process == <<boot, stage, since, routed, redis>>
work    == <<response, handler, success, inFlight, window, passed>>
api    == <<now, process, work>>

Exited    == {"clean", "error", "forced"}
Stopping == {"drain", "close", "cache", "db"}
Alive    == stage \notin Exited

\* "open": admitted, not answered.  "ended": end() was called, the bytes are not
\* flushed.  "sent": 'finish'.  "gone", "cut": the client left before, after end().
Pending  == {"open", "ended"}
Closed == {"sent", "gone", "cut", "shed"}

With(f, r, x) == [f EXCEPT ![r] = x]

----------------------------------------------------------------------------
(* Start and the balancer                                                  *)

\* start: the database or nothing, the cache or not, then listen, if the port is
\* free.
Boot ==
    /\ Alive
    /\ \/ /\ boot = "none"
          /\ boot' = "database"
          /\ UNCHANGED <<stage, redis>>
       \/ /\ boot # "listening"
          /\ stage' = "error"
          /\ UNCHANGED <<boot, redis>>
       \/ /\ boot = "database"
          /\ boot' = "listening"
          /\ redis' \in BOOLEAN
          /\ UNCHANGED stage
    /\ UNCHANGED <<now, since, routed, work>>

Listening == boot = "listening" /\ stage \in {"serve", "drain"}

\* /readiness answers 200: not draining, and the database answers its ping.
Ready == boot = "listening" /\ stage = "serve"

Route   == Ready /\ ~routed /\ routed' = TRUE
              /\ UNCHANGED <<now, boot, stage, since, redis, work>>
\* 503 for draining, or for a database that does not answer.
Unroute == routed /\ routed' = FALSE
              /\ UNCHANGED <<now, boot, stage, since, redis, work>>

\* 'ready', 'end' and 'error' of the Redis client; a restart may lose the keys.
RedisChanges ==
    /\ boot = "listening" /\ stage = "serve"
    /\ redis' = ~redis
    /\ \/ UNCHANGED <<window, passed>>
       \/ redis' /\ window' = {} /\ passed' = {}
    /\ UNCHANGED <<now, boot, stage, since, routed, response, handler, success, inFlight>>

\* The balancer has seen the 503 at the latest LbLag after it began.
Tick ==
    /\ now < MaxTime
    /\ ~(routed /\ stage # "serve" /\ now - since >= LbLag)
    /\ now' = now + 1
    /\ UNCHANGED <<process, work>>

----------------------------------------------------------------------------
(* The life of a request                                                   *)

AtCapacity == inFlight >= MaxInFlight

\* loadShedding, then on to the limiter or the handler.  What arrives at a
\* closed listener is reset.
Arrive(r) ==
    /\ routed /\ response[r] = "none"
    /\ UNCHANGED <<now, process, success, window, passed>>
    /\ \/ /\ ~Listening
          /\ response' = With(response, r, "refused")
          /\ UNCHANGED <<handler, inFlight>>
       \/ /\ Listening /\ AtCapacity
          /\ response' = With(response, r, "shed")
          /\ UNCHANGED <<handler, inFlight>>
       \/ /\ Listening /\ ~AtCapacity
          /\ response' = With(response, r, "open")
          /\ handler' = With(handler, r, IF r \in Login THEN "limiter" ELSE "working")
          /\ inFlight' = inFlight + 1

\* What the script adds to the sorted set.  back: 'finish' will take it out again
\* if the login goes well.
Member(r, back) == [req |-> r, at |-> now, back |-> back]

\* Mutant: a window of the calendar, that starts anew every Window ticks.
CalendarWindow == {m \in window : m.at \div Window = now \div Window}

\* ZREMRANGEBYSCORE key 0 (now - window)
Recent == {m \in window : m.at > now - Window}

\* res.json: end() on an open response; after the deadline or the client it
\* changes nothing.
EndResponse(r) == IF response[r] = "open" THEN With(response, r, "ended") ELSE response

\* rateLimit: the script is one atomic step.  Without Redis all pass, and so does
\* whoever gets no answer, whether Redis counted or not.
Limit(r) ==
    /\ Alive /\ handler[r] = "limiter"
    /\ UNCHANGED <<now, process, success, inFlight>>
    /\ \/ /\ handler' = With(handler, r, "working")
          /\ UNCHANGED <<response, window, passed>>
       \/ /\ redis /\ Cardinality(Recent) >= MaxFailures
          /\ handler' = With(handler, r, "done")
          /\ response' = EndResponse(r)
          /\ window' = Recent
          /\ UNCHANGED passed
       \/ /\ redis /\ Cardinality(Recent) < MaxFailures
          /\ handler' = With(handler, r, "working")
          /\ \E back \in BOOLEAN : /\ window' = Recent \cup {Member(r, back)}
                                  /\ passed' = passed \cup {Member(r, back)}
          /\ UNCHANGED response

\* The handler comes to its end, well or not.
Handle(r) ==
    /\ Alive /\ handler[r] = "working"
    /\ handler' = With(handler, r, "done")
    /\ response' = EndResponse(r)
    /\ \/ success' = success \cup (IF response[r] = "open" THEN {r} ELSE {})
       \/ UNCHANGED success
    /\ UNCHANGED <<now, process, inFlight, window, passed>>

\* requestTimeout: a 503 while the handler goes on.
Deadline(r) ==
    /\ Alive /\ response[r] = "open"
    /\ response' = With(response, r, "ended")
    /\ UNCHANGED <<now, process, handler, success, inFlight, window, passed>>

\* 'finish': the slot is free, and a login that went well is not counted, unless
\* the ZREM is lost.
Flush(r) ==
    /\ Alive /\ response[r] = "ended"
    /\ response' = With(response, r, "sent")
    /\ inFlight' = inFlight - 1
    /\ \/ LET others(ms) == {m \in ms : m.req # r \/ ~m.back}
          IN  r \in success /\ window' = others(window) /\ passed' = others(passed)
       \/ UNCHANGED <<window, passed>>
    /\ UNCHANGED <<now, process, handler, success>>

\* Mutant: no listener for 'close'.
LeaveUnseen(r) ==
    /\ Alive /\ response[r] \in Pending
    /\ response' = With(response, r, IF response[r] = "open" THEN "gone" ELSE "cut")
    /\ UNCHANGED <<now, process, handler, success, inFlight, window, passed>>

\* 'close': the client disconnects; with writableEnded the slot is not freed,
\* and 'finish' will not come.
Leave(r) ==
    /\ Alive /\ response[r] \in Pending
    /\ \/ /\ response[r] = "open"
          /\ response' = With(response, r, "gone")
          /\ inFlight' = inFlight - 1
       \/ /\ response[r] = "ended"
          /\ response' = With(response, r, "cut")
          /\ UNCHANGED inFlight
    /\ UNCHANGED <<now, process, handler, success, window, passed>>

----------------------------------------------------------------------------
(* shutdown                                                                *)

\* What the end of the process leaves of the requests.
Die(how) ==
    /\ stage' = how
    /\ response' = [r \in Call |-> IF response[r] \in Pending THEN "reset" ELSE response[r]]
    /\ handler' = [r \in Call |-> IF handler[r] \in {"limiter", "working"} THEN "killed"
                                  ELSE handler[r]]
    /\ UNCHANGED <<success, inFlight, window, passed>>

\* SIGTERM, SIGINT, an unhandled rejection: the first one starts the shutdown,
\* and readiness turns to 503 (beginDraining).
Signal ==
    /\ stage = "serve" /\ now + HardLimit <= MaxTime
    /\ stage' = "drain" /\ since' = now
    /\ UNCHANGED <<now, boot, routed, redis, work>>

\* Mutant: the listener is closed without waiting for the balancer.
DrainAtOnce ==
    /\ stage = "drain"
    /\ stage' = IF boot = "listening" THEN "close" ELSE "cache"
    /\ UNCHANGED <<now, boot, since, routed, redis, work>>

\* sleep(DRAIN_DELAY_MS), then server.close() if there is a server.
Drain ==
    /\ stage = "drain" /\ now - since >= DrainDelay
    /\ stage' = IF boot = "listening" THEN "close" ELSE "cache"
    /\ UNCHANGED <<now, boot, since, routed, redis, work>>

\* Mutant: nobody waits for server.close().
CloseAtOnce ==
    /\ stage = "close"
    /\ stage' = "cache"
    /\ UNCHANGED <<now, boot, since, routed, redis, work>>

\* closeServer: every response on an open connection is out.
Close ==
    /\ stage = "close" /\ \A r \in Call : response[r] \notin Pending
    /\ stage' = "cache"
    /\ UNCHANGED <<now, boot, since, routed, redis, work>>

\* disconnectCache
QuitCache ==
    /\ stage = "cache"
    /\ stage' = "db" /\ redis' = FALSE
    /\ UNCHANGED <<now, boot, since, routed, work>>

\* disconnectDatabase and exit(0), or exit(1) if that fails.
QuitDatabase ==
    /\ stage = "db"
    /\ \E how \in {"clean", "error"} : Die(how)
    /\ UNCHANGED <<now, boot, since, routed, redis>>

\* Mutant: the hard timer is set when the server has closed.
LateHardExit ==
    /\ stage \in {"cache", "db"} /\ now - since >= HardLimit
    /\ Die("forced")
    /\ UNCHANGED <<now, boot, since, routed, redis>>

\* hardExit
HardExit ==
    /\ stage \in Stopping /\ now - since >= HardLimit
    /\ Die("forced")
    /\ UNCHANGED <<now, boot, since, routed, redis>>

----------------------------------------------------------------------------

ApiInit ==
    /\ now = 0 /\ since = 0
    /\ boot = "none" /\ stage = "serve" /\ routed = FALSE /\ redis = FALSE
    /\ response = [r \in Call |-> "none"]
    /\ handler = [r \in Call |-> "none"]
    /\ success = {} /\ window = {} /\ passed = {}
    /\ inFlight = 0

ApiNext ==
    \/ Boot \/ Route \/ Unroute \/ RedisChanges \/ Tick
    \/ \E r \in Call : \/ Arrive(r) \/ Limit(r) \/ Handle(r) \/ Deadline(r)
                       \/ Flush(r) \/ Leave(r)
    \/ Signal \/ Drain \/ Close \/ QuitCache \/ QuitDatabase \/ HardExit

ApiSpec == ApiInit /\ [][ApiNext]_api

\* Timers fire and the balancer polls.  No handler, no client, no Redis and no
\* disconnect is assumed to come to an end.
FairApiSpec ==
    /\ ApiSpec
    /\ WF_api(Tick) /\ WF_api(Unroute) /\ WF_api(Drain) /\ WF_api(HardExit)
    /\ \A r \in Call : WF_api(Deadline(r))

----------------------------------------------------------------------------
(* Properties                                                              *)

ApiTypes ==
    /\ now \in 0..MaxTime /\ since \in 0..MaxTime
    /\ boot \in {"none", "database", "listening"}
    /\ stage \in {"serve"} \cup Stopping \cup Exited
    /\ routed \in BOOLEAN /\ redis \in BOOLEAN
    /\ response \in [Call -> {"none", "refused", "reset"} \cup Pending \cup Closed]
    /\ handler \in [Call -> {"none", "limiter", "working", "done", "killed"}]
    /\ success \subseteq Call
    /\ inFlight \in 0..MaxInFlight
    /\ window \subseteq passed
    /\ passed \subseteq [req : Login, at : 0..MaxTime, back : BOOLEAN]

\* The counter of load shedding drifts in one case only: it counts the responses
\* that are not out, and for ever those whose client left while they were being
\* sent, which no listener of loadShedding.ts:112-115 takes back.
CounterTells ==
    Alive => inFlight = Cardinality({r \in Call : response[r] \in Pending \cup {"cut"}})

\* What requests, deadlines and the shutdown keep: the types, and that the
\* counter of load shedding tells the truth but for one leak.
ApiInv == ApiTypes /\ CounterTells

\* Only the hard exit cuts a response off.  On every other path the database goes
\* when no response is awaited, and a handler still at work then has been given up
\* by the deadline or by its client (server.ts:32, "after the last query", is true
\* of the others only).
ShutdownSpares ==
    /\ \A r \in Call : response[r] = "reset" => stage = "forced"
    /\ stage \in {"db", "clean", "error"} =>
          \A r \in Call : /\ response[r] \notin Pending
                          /\ handler[r] = "killed" => response[r] \in {"sent", "gone", "cut"}

\* A request meets a closed listener only in the gap between the end of the drain,
\* or the hard exit, and the moment the balancer has noticed: with a drain and a
\* hard limit longer than the balancer's lag there is no such gap.
RefusedInGap ==
    [][\A r \in Call : response[r] # "refused" /\ response'[r] = "refused" =>
         /\ now - since <= LbLag
         /\ DrainDelay <= now - since \/ HardLimit <= now - since]_api

\* What a drain that outlasts the health checks of the balancer would give
\* (server.ts:41-42); the deployed one does not.
NobodyRefused == \A r \in Call : response[r] # "refused"

\* However the passes fall, no stretch of Window ticks sees more than the
\* maximum of logins that Redis counted, and that no success took back.
Throttled ==
    \A t \in 0..now :
        Cardinality({m \in passed : t - Window < m.at /\ m.at <= t}) <= MaxFailures

\* A shutdown comes to an end, whoever hangs.
Stops == stage = "drain" ~> stage \in Exited
=============================================================================
