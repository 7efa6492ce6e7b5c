---------------------------- MODULE Idempotency ----------------------------
(***************************************************************************)
(* The idempotency middleware (middleware/idempotency.ts) around a handler *)
(* that posts a voucher, with the request deadline (middleware/timeout.ts) *)
(* and a client that disconnects.  Requests run concurrently, on one API   *)
(* process or on several; the claim of a key is a row in the database, the *)
(* fast path an entry in Redis, and the writes that settle a claim are not *)
(* awaited.  Expiry of a key after its 24 hours is left out: the contract  *)
(* ends there.                                                             *)
(***************************************************************************)
EXTENDS Naturals

CONSTANTS
    Request,    \* HTTP requests that carry an Idempotency-Key
    Key,
    KeyOf,      \* [Request -> Key]
    BodyOf,     \* [Request -> who sends it and the hash of the body]
    Located,    \* the requests answered by created(), which sets Location first
    NoRequest   \* completed_at IS NULL

ASSUME IdempotencyConstants ==
    /\ NoRequest \notin Request
    /\ KeyOf \in [Request -> Key]
    /\ Located \subseteq Request

Body == {BodyOf[r] : r \in Request}

\* A stored response is named by the request whose handler produced it.
Absent == [body |-> "absent"]
Record == [body : Body, response : Request \cup {NoRequest}]

VARIABLES
    record,     \* [Key -> Absent or a row of idempotency_key]
    fast,       \* [Key -> Absent or the mirror of a completed row in Redis]
    pc,         \* where the code of a request is
    claims,     \* the requests whose INSERT won: res.json is wrapped
    settled,    \* the requests whose wrapper has stored or released the claim
    posted,     \* the requests whose handler committed a voucher
    answer,     \* what the client got
    writes,     \* writes to idempotency_key under way, not awaited
    struck,     \* the requests whose process died or whose write was lost
    orphaned    \* the requests whose INSERT returned after the 'close' of their 503,
                \* or returned an error though it took effect

vars == <<record, fast, pc, claims, settled, posted, answer, writes, struck, orphaned>>

PC == {"unsent", "fast", "claim", "lookup", "run", "committed", "failed", "over"}

\* "own" and "replay" are 2xx responses, "conflict" is a 409, "error" any other
\* response, "gone" a connection the client closed.
Answer == {[kind |-> "none"], [kind |-> "error"], [kind |-> "conflict"], [kind |-> "gone"]}
            \cup [kind : {"own", "replay"}, response : Request]
Write  == [op : {"complete", "release"}, request : Request]

Goto(r, p)     == pc' = [pc EXCEPT ![r] = p]
Unanswered(r)  == answer[r].kind = "none"

\* The first response is the one the client gets.
Reply(r, a)    == answer' = [answer EXCEPT ![r] = IF Unanswered(r) THEN a ELSE @]

----------------------------------------------------------------------------
(* The middleware on the way in                                            *)

Send(r) ==
    /\ pc[r] = "unsent"
    /\ Goto(r, "fast")
    /\ UNCHANGED <<record, fast, claims, settled, posted, answer, writes, struck, orphaned>>

\* Redis answers, or misses, or is down.
FastPath(r) ==
    LET hit == fast[KeyOf[r]]
    IN  /\ pc[r] = "fast"
        /\ \/ /\ hit # Absent
              /\ Goto(r, "over")
              /\ Reply(r, IF hit.body = BodyOf[r]
                          THEN [kind |-> "replay", response |-> hit.response]
                          ELSE [kind |-> "conflict"])
           \/ Goto(r, "claim") /\ UNCHANGED answer
        /\ UNCHANGED <<record, fast, claims, settled, posted, writes, struck, orphaned>>

Claiming(r) == [record EXCEPT ![KeyOf[r]] = [body |-> BodyOf[r], response |-> NoRequest]]

\* The deadline may have answered by now: then 'close' has fired, or is to come.
Late(r) == {orphaned} \cup (IF answer[r].kind = "error" THEN {orphaned \cup {r}} ELSE {})

\* Mutant: check, then act.
LookThenClaim(r) ==
    /\ pc[r] = "claim"
    /\ IF record[KeyOf[r]] = Absent \/ record[KeyOf[r]].response = NoRequest
       THEN /\ record' = Claiming(r)
            /\ claims' = claims \cup {r}
            /\ orphaned' \in Late(r)
            /\ Goto(r, "run")
       ELSE Goto(r, "lookup") /\ UNCHANGED <<record, claims, orphaned>>
    /\ UNCHANGED <<fast, settled, posted, answer, writes, struck>>

\* INSERT of the key; the unique constraint picks one winner.  Any other error
\* fails the request, and may hide an INSERT that took effect.
Claim(r) ==
    /\ pc[r] = "claim"
    /\ \/ /\ record[KeyOf[r]] = Absent
          /\ record' = Claiming(r)
          /\ claims' = claims \cup {r}
          /\ orphaned' \in Late(r)
          /\ Goto(r, "run")
       \/ /\ record[KeyOf[r]] # Absent
          /\ Goto(r, "lookup")
          /\ UNCHANGED <<record, claims, orphaned>>
       \/ /\ Goto(r, "failed")
          /\ UNCHANGED <<record, claims, orphaned>>
       \/ /\ record[KeyOf[r]] = Absent
          /\ record' = Claiming(r)
          /\ orphaned' = orphaned \cup {r}
          /\ Goto(r, "failed")
          /\ UNCHANGED claims
    /\ UNCHANGED <<fast, settled, posted, answer, writes, struck>>

\* Mutant: the stored response is served whatever the body.
LookupAnyBody(r) ==
    LET row == record[KeyOf[r]]
    IN  /\ pc[r] = "lookup"
        /\ IF row = Absent THEN Goto(r, "run") /\ UNCHANGED <<answer, fast>>
           ELSE /\ Goto(r, "over")
                /\ UNCHANGED fast
                /\ Reply(r, IF row.response = NoRequest THEN [kind |-> "conflict"]
                            ELSE [kind |-> "replay", response |-> row.response])
        /\ UNCHANGED <<record, claims, settled, posted, writes, struck, orphaned>>

\* The row that won is read.  If it is gone by now the request runs unclaimed; if
\* the read fails, so does the request.
Lookup(r) ==
    LET row == record[KeyOf[r]]
    IN  /\ pc[r] = "lookup"
        /\ \/ /\ row = Absent
              /\ Goto(r, "run")
              /\ UNCHANGED <<answer, fast>>
           \/ /\ Goto(r, "failed")
              /\ UNCHANGED <<answer, fast>>
           \/ /\ row # Absent
              /\ row.body # BodyOf[r] \/ row.response = NoRequest
              /\ Goto(r, "over")
              /\ Reply(r, [kind |-> "conflict"])
              /\ UNCHANGED fast
           \/ /\ row # Absent
              /\ row.body = BodyOf[r] /\ row.response # NoRequest
              /\ Goto(r, "over")
              /\ Reply(r, [kind |-> "replay", response |-> row.response])
              /\ fast' \in {fast, [fast EXCEPT ![KeyOf[r]] = row]}
        /\ UNCHANGED <<record, claims, settled, posted, writes, struck, orphaned>>

----------------------------------------------------------------------------
(* The handler and the way out                                             *)

\* The transaction of the handler commits, or it throws: a rule of the bank, a
\* validation, the database down.
Commit(r) ==
    /\ pc[r] = "run"
    /\ Goto(r, "committed")
    /\ posted' = posted \cup {r}
    /\ UNCHANGED <<record, fast, claims, settled, answer, writes, struck, orphaned>>

Fail(r) ==
    /\ pc[r] = "run"
    /\ Goto(r, "failed")
    /\ UNCHANGED <<record, fast, claims, settled, posted, answer, writes, struck, orphaned>>

\* Mutant: res.json is wrapped before the claim is won.
WrappedEarly(r) == r \notin settled

Wrapped(r) == r \in claims /\ r \notin settled

\* Mutant: a failed request keeps its claim.
SettleSuccess(r, ok) ==
    IF ok /\ Wrapped(r)
    THEN /\ settled' = settled \cup {r}
         /\ writes' = writes \cup {[op |-> "complete", request |-> r]}
         /\ UNCHANGED fast
    ELSE UNCHANGED <<settled, writes, fast>>

\* What the wrapped res.json does first: mirror and store a 2xx response, give
\* the claim back after any other.
Settle(r, ok) ==
    \/ ~Wrapped(r) /\ UNCHANGED <<settled, writes, fast>>
    \/ /\ Wrapped(r)
       /\ settled' = settled \cup {r}
       /\ writes' = writes \cup {[op |-> IF ok THEN "complete" ELSE "release", request |-> r]}
       /\ \/ ok /\ fast' = [fast EXCEPT ![KeyOf[r]] = [body |-> BodyOf[r], response |-> r]]
          \/ UNCHANGED fast

\* After the 503 of the deadline the headers are sent: created() throws, and the
\* error middleware passes on, so that only a 200 still gets to the wrapper.
Reaches(r) ==
    \/ answer[r].kind # "error"
    \/ pc[r] = "committed" /\ r \notin Located

\* Mutant: an error of the handler is not passed on.
RespondSuccess(r) ==
    /\ pc[r] = "committed"
    /\ \/ Reaches(r) /\ Settle(r, TRUE)
       \/ ~Reaches(r) /\ UNCHANGED <<settled, writes, fast>>
    /\ Reply(r, [kind |-> "own", response |-> r])
    /\ Goto(r, "over")
    /\ UNCHANGED <<record, claims, posted, struck, orphaned>>

\* The controller responds 2xx, or the error middleware otherwise.
Respond(r) ==
    /\ pc[r] \in {"committed", "failed"}
    /\ \/ Reaches(r) /\ Settle(r, pc[r] = "committed")
       \/ ~Reaches(r) /\ UNCHANGED <<settled, writes, fast>>
    /\ Reply(r, IF pc[r] = "committed" THEN [kind |-> "own", response |-> r]
                ELSE [kind |-> "error"])
    /\ Goto(r, "over")
    /\ UNCHANGED <<record, claims, posted, struck, orphaned>>

\* requestTimeout answers 503 through the same res.json; the handler runs on.
Timeout(r) ==
    /\ pc[r] \notin {"unsent", "over"}
    /\ Unanswered(r)
    /\ Settle(r, FALSE)
    /\ Reply(r, [kind |-> "error"])
    /\ UNCHANGED <<record, pc, claims, posted, struck, orphaned>>

\* 'close' follows the 503, and releases a claim made while it was being sent.
Closed503(r) ==
    /\ answer[r].kind = "error"
    /\ Wrapped(r) /\ r \notin orphaned \cup struck
    /\ Settle(r, FALSE)
    /\ UNCHANGED <<record, pc, claims, posted, answer, struck, orphaned>>

\* The client disconnects, and 'close' releases a claim; the handler runs on.
Disconnect(r) ==
    /\ pc[r] \notin {"unsent", "over"}
    /\ Unanswered(r)
    /\ Settle(r, FALSE)
    /\ Reply(r, [kind |-> "gone"])
    /\ UNCHANGED <<record, pc, claims, posted, struck, orphaned>>

----------------------------------------------------------------------------
(* Writes nobody waits for, and faults                                     *)

\* UPDATE or DELETE by key; an UPDATE of a row that is gone changes nothing.
Store(w) ==
    LET k == KeyOf[w.request]
    IN  /\ w \in writes
        /\ writes' = writes \ {w}
        /\ record' = [record EXCEPT ![k] =
             CASE w.op = "release" -> Absent
               [] w.op = "complete" /\ @ # Absent -> [@ EXCEPT !.response = w.request]
               [] OTHER -> @]
        /\ UNCHANGED <<fast, pc, claims, settled, posted, answer, struck, orphaned>>

\* The write fails, and only a log line tells.
LoseWrite(w) ==
    /\ w \in writes
    /\ writes' = writes \ {w}
    /\ struck' = struck \cup {w.request}
    /\ UNCHANGED <<record, fast, pc, claims, settled, posted, answer, orphaned>>

\* The process that runs r dies; the clients of its requests are cut off.
Crash(r) ==
    /\ pc[r] # "unsent"
    /\ pc[r] # "over" \/ \E w \in writes : w.request = r
    /\ Goto(r, "over")
    /\ Reply(r, [kind |-> "gone"])
    /\ writes' = {w \in writes : w.request # r}
    /\ struck' = struck \cup {r}
    /\ UNCHANGED <<record, fast, claims, settled, posted, orphaned>>

\* Redis expires or evicts the entry.
Evict(k) ==
    /\ fast[k] # Absent
    /\ fast' = [fast EXCEPT ![k] = Absent]
    /\ UNCHANGED <<record, pc, claims, settled, posted, answer, writes, struck, orphaned>>

----------------------------------------------------------------------------

Init ==
    /\ record = [k \in Key |-> Absent]
    /\ fast = [k \in Key |-> Absent]
    /\ pc = [r \in Request |-> "unsent"]
    /\ claims = {} /\ settled = {} /\ posted = {}
    /\ answer = [r \in Request |-> [kind |-> "none"]]
    /\ writes = {} /\ struck = {} /\ orphaned = {}

\* What a process does on its own with a request it has got.
Serve(r) ==
    FastPath(r) \/ Claim(r) \/ Lookup(r) \/ Commit(r) \/ Fail(r) \/ Respond(r)

Next ==
    \/ \E r \in Request : Send(r) \/ Serve(r) \/ Timeout(r) \/ Closed503(r) \/ Disconnect(r)
                        \/ Crash(r)
    \/ \E w \in Write : Store(w) \/ LoseWrite(w)
    \/ \E k \in Key : Evict(k)

Spec == Init /\ [][Next]_vars

\* Statements and handlers end, so do writes, and a response that is sent or whose
\* socket dies is closed; clients and faults promise nothing.
FairSpec ==
    /\ Spec
    /\ \A r \in Request : WF_vars(Serve(r)) /\ WF_vars(Closed503(r))
    /\ \A w \in Write : WF_vars(Store(w))

----------------------------------------------------------------------------
(* Properties                                                              *)

TypeOK ==
    /\ record \in [Key -> {Absent} \cup Record]
    /\ fast \in [Key -> {Absent} \cup Record]
    /\ pc \in [Request -> PC]
    /\ settled \subseteq Request /\ claims \subseteq Request /\ posted \subseteq Request
    /\ answer \in [Request -> Answer]
    /\ writes \subseteq Write /\ struck \subseteq Request /\ orphaned \subseteq Request

Completed(k) == record[k] # Absent /\ record[k].response # NoRequest
InFlight(k)  == record[k] # Absent /\ record[k].response = NoRequest

\* However many requests with one key run at once, whatever Redis misses and
\* whichever process crashes, one voucher is posted at most, as long as no
\* request with that key was told of an error or lost its client.
Dropped(k) == \E r \in settled : KeyOf[r] = k /\ answer[r].kind \in {"error", "gone"}
OneVoucher ==
    \A k \in Key : ~Dropped(k) => \A r, q \in posted : KeyOf[r] = k /\ KeyOf[q] = k => r = q

\* What every interleaving of the requests keeps: the types, and one voucher
\* per key.
IdempotencyInv == TypeOK /\ OneVoucher

\* Whoever is told of success is told of a voucher that was posted, for the same
\* key, user and body; a stored or mirrored response is such a one too.
Truthful(r, q) == q \in posted /\ KeyOf[q] = KeyOf[r] /\ BodyOf[q] = BodyOf[r]
ReplaysTrue ==
    /\ \A r \in Request : answer[r].kind \in {"own", "replay"} => Truthful(r, answer[r].response)
    /\ \A k \in Key :
          /\ Completed(k) => \E r \in posted : record[k] = [body |-> BodyOf[r], response |-> r]
          /\ fast[k] # Absent => \E r \in posted : fast[k] = [body |-> BodyOf[r], response |-> r]

\* A stored response is neither replaced nor given up: no request but the one
\* that holds the claim ever settles it, and that one settles it once.
ResponseKept == [][\A k \in Key : Completed(k) => record'[k] = record[k]]_vars

\* Every request is answered, or its client has gone.
Answered == \A r \in Request : pc[r] # "unsent" ~> answer[r].kind # "none"

\* A claim is left behind, its key "in progress" until it expires, only by a process
\* that died, a write that was lost, or an INSERT that returned to a request whose
\* 503 was out, or as an error.  So not every request that fails gives its claim back
\* (idempotency.ts:54), nor does 'close' spare it that (:265).
Stricken(k)  == \E r \in struck \cup orphaned : KeyOf[r] = k
ClaimSettles == \A k \in Key : InFlight(k) ~> (~InFlight(k) \/ Stricken(k))

----------------------------------------------------------------------------
(* What comments of the source say, and the code does not do               *)

\* "a retried request posts once" (posting.service.ts:38): not if the client
\* disconnects, or the deadline passes, while the first attempt still runs.
RetryPostsOnce == \A r, q \in posted : KeyOf[r] = KeyOf[q] => r = q

=============================================================================
