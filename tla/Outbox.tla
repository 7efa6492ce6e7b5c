------------------------------- MODULE Outbox -------------------------------
(***************************************************************************)
(* What becomes of an event after the posting that announces it has        *)
(* committed: the relay (shared/outbox/relay.ts) publishes it to one queue *)
(* per consumer, the consumer harness (workers/consumer.ts) runs the job   *)
(* until it succeeds or has used up its attempts, the last failure leaves  *)
(* a dead letter in the database, and an operator may replay that.         *)
(*                                                                         *)
(* Time is left out: a row waits out its backoff, a job its retry delay,   *)
(* and a finished job its retention, for as long as the next step is not   *)
(* taken.  The work of one job is a sequence of effects: one insert of an  *)
(* audit row, one alert per customer and rule, one message per customer.   *)
(***************************************************************************)
EXTENDS Naturals, FiniteSets, FiniteSetsExt

CONSTANTS
    Event,          \* rows of outbox_event, all of a type routed to every queue
    Queue,          \* the queues routeFor fans an event out to
    Deduped,        \* the queues whose effects a unique constraint guards
    Effects,        \* [Queue -> Nat], how many effects the work of a job has
    Relay,          \* processes that run the relay
    Operator,       \* people who replay dead letters
    Letter,         \* identifiers of dead letters (the bound on their number)
    NoEvent, NoLetter,
    BatchSize,      \* config.queue.outboxBatchSize
    MaxAttempts,    \* defaultJobOptions.attempts
    MaxStalled,     \* maxStalledCount, which createConsumer leaves at its default
    MaxFaults,      \* bound: failures of calls, transactions and processes
    MaxTold         \* bound: how often an effect is counted

ASSUME OutboxConstants ==
    /\ IsFiniteSet(Event) /\ IsFiniteSet(Queue)
    /\ NoEvent \notin Event /\ NoLetter \notin Letter
    /\ Deduped \subseteq Queue
    /\ Effects \in [Queue -> Nat \ {0}]
    /\ BatchSize \in Nat \ {0} /\ MaxAttempts \in Nat \ {0}
    /\ MaxStalled \in Nat /\ MaxFaults \in Nat /\ MaxTold \in Nat \ {0}

VARIABLES
    row,        \* outbox_event.status; NONE before the posting, PURGED after
    relay,      \* the transaction each relay has open
    stray,      \* calls to the queue that nobody waits for any more
    job,        \* jobs in Redis, by job id
    letter,     \* rows of dead_letter
    operator,   \* what each operator is in the middle of
    told,       \* how often each effect of the work on an event has happened
    lost,       \* work that left no dead letter when its job failed, and why
    faults

vars == <<row, relay, stray, job, letter, operator, told, lost, faults>>

RowStatus == {"NONE", "PENDING", "FAILED", "SENT", "PURGED"}

\* The work of queue q on event e, and the ids its jobs go by: one derived from
\* the row, one from each dead letter.
Work  == Queue \X Event
JobId == ({"event"} \X Work) \cup ({"replay"} \X Letter)

\* A relay has claimed todo, is publishing now with calls under way, and has
\* written sent and bad, which nobody sees before it commits.
Batch == [todo : SUBSET Event, now : Event \cup {NoEvent}, calls : SUBSET Queue,
          sent : SUBSET Event, bad : SUBSET Event]

NoJob == [state |-> "none"]
Job   == [state : {"waiting", "active", "dying", "buried", "completed", "failed"},
          work : Work, attempts : 0..MaxAttempts - 1, done : Nat, stalled : 0..MaxStalled]

Blank   == [work |-> <<>>, replayed |-> FALSE]
NoBatch == [todo |-> {}, now |-> NoEvent, calls |-> {}, sent |-> {}, bad |-> {}]
AtEase  == [letter |-> NoLetter, enqueued |-> FALSE]

Locked(n) == LET b == relay[n] IN b.todo \cup b.sent \cup b.bad \cup ({b.now} \ {NoEvent})

Fault == faults < MaxFaults /\ faults' = faults + 1

----------------------------------------------------------------------------
(* The queue                                                               *)

\* enqueue: adding a job under an id that Redis still knows changes nothing.
Enqueued(jobs, id, w) ==
    IF jobs[id] # NoJob THEN jobs
    ELSE [jobs EXCEPT ![id] = [state |-> "waiting", work |-> w, attempts |-> 0, done |-> 0,
                               stalled |-> 0]]

EventJob(w) == <<"event", w>>

\* removeOnComplete and removeOnFail.
Remove(id) ==
    /\ job[id] # NoJob /\ job[id].state \in {"completed", "failed"}
    /\ job' = [job EXCEPT ![id] = NoJob]
    /\ UNCHANGED <<row, relay, stray, letter, operator, told, lost, faults>>

\* A call that nobody waits for reaches the queue after all, or never.
StrayEnds(w) ==
    /\ w \in stray
    /\ stray' = stray \ {w}
    /\ job' \in {job, Enqueued(job, EventJob(w), w)}
    /\ UNCHANGED <<row, relay, letter, operator, told, lost, faults>>

----------------------------------------------------------------------------
(* The relay                                                               *)

\* writeOutbox, with the posting.
Write(e) ==
    /\ row[e] = "NONE"
    /\ row' = [row EXCEPT ![e] = "PENDING"]
    /\ UNCHANGED <<relay, stray, job, letter, operator, told, lost, faults>>

\* Mutant: a row that failed once is not claimed again.
ClaimablePending == {e \in Event : /\ row[e] = "PENDING"
                                   /\ \A n \in Relay : e \notin Locked(n)}

\* claimBatch: FOR UPDATE SKIP LOCKED.  Which rows are due is left open.
Claimable == {e \in Event : /\ row[e] \in {"PENDING", "FAILED"}
                            /\ \A n \in Relay : e \notin Locked(n)}
Claim(n) ==
    /\ relay[n] = NoBatch
    /\ \E es \in SUBSET Claimable :
          /\ es # {} /\ Cardinality(es) <= BatchSize
          /\ relay' = [relay EXCEPT ![n].todo = es]
    /\ UNCHANGED <<row, stray, job, letter, operator, told, lost, faults>>

\* The calls of one event to all its queues start together.
Publish(n) ==
    /\ relay[n].now = NoEvent
    /\ \E e \in relay[n].todo :
          relay' = [relay EXCEPT ![n].now = e, ![n].todo = @ \ {e}, ![n].calls = Queue]
    /\ UNCHANGED <<row, stray, job, letter, operator, told, lost, faults>>

\* A call returns; with the last one the row is marked SENT.
CallReturns(n, q) ==
    LET b == relay[n]
    IN  /\ q \in b.calls
        /\ job' = Enqueued(job, EventJob(<<q, b.now>>), <<q, b.now>>)
        /\ relay' = [relay EXCEPT ![n] =
              IF b.calls = {q}
              THEN [b EXCEPT !.calls = {}, !.now = NoEvent, !.sent = @ \cup {b.now}]
              ELSE [b EXCEPT !.calls = @ \ {q}]]
        /\ UNCHANGED <<row, stray, letter, operator, told, lost, faults>>

Strays(n) == {<<q, relay[n].now>> : q \in relay[n].calls}

\* Mutant: an event of which one queue has been told counts as sent.
CallFailsQuietly(n, q) ==
    LET b == relay[n]
    IN  /\ q \in b.calls
        /\ Fault
        /\ relay' = [relay EXCEPT ![n] =
              IF b.calls = {q}
              THEN [b EXCEPT !.calls = {}, !.now = NoEvent, !.sent = @ \cup {b.now}]
              ELSE [b EXCEPT !.calls = @ \ {q}]]
        /\ UNCHANGED <<row, stray, job, letter, operator, told, lost>>

\* A call fails: Promise.all rejects at once, the row is marked FAILED, and the
\* calls not back yet, this one included, go on unattended.
CallFails(n, q) ==
    LET b == relay[n]
    IN  /\ q \in b.calls
        /\ Fault
        /\ stray' = stray \cup Strays(n)
        /\ relay' = [relay EXCEPT ![n] =
              [b EXCEPT !.calls = {}, !.now = NoEvent, !.bad = @ \cup {b.now}]]
        /\ UNCHANGED <<row, job, letter, operator, told, lost>>

\* The batch is through, and its rows become visible.
Commit(n) ==
    /\ relay[n] # NoBatch
    /\ relay[n].todo = {} /\ relay[n].now = NoEvent
    /\ row' = [e \in Event |-> CASE e \in relay[n].sent -> "SENT"
                                 [] e \in relay[n].bad  -> "FAILED"
                                 [] OTHER               -> row[e]]
    /\ relay' = [relay EXCEPT ![n] = NoBatch]
    /\ UNCHANGED <<stray, job, letter, operator, told, lost, faults>>

\* The transaction times out, the connection or the process is lost: the rows
\* are as before, what was published stays published.
Rollback(n) ==
    /\ relay[n] # NoBatch
    /\ Fault
    /\ stray' = stray \cup Strays(n)
    /\ relay' = [relay EXCEPT ![n] = NoBatch]
    /\ UNCHANGED <<row, job, letter, operator, told, lost>>

\* purgeSentOutbox
Purge(e) ==
    /\ row[e] = "SENT"
    /\ row' = [row EXCEPT ![e] = "PURGED"]
    /\ UNCHANGED <<relay, stray, job, letter, operator, told, lost, faults>>

----------------------------------------------------------------------------
(* The consumers                                                           *)

In(id, state) == job[id] # NoJob /\ job[id].state = state

Take(id) ==
    /\ In(id, "waiting")
    /\ job' = [job EXCEPT ![id].state = "active", ![id].done = 0]
    /\ UNCHANGED <<row, relay, stray, letter, operator, told, lost, faults>>

\* The next effect of a job happens; a duplicate of a guarded one is refused by
\* the database and taken for success.
Once(w, i) ==
    [told EXCEPT ![w][i] = IF w[1] \in Deduped THEN 1
                           ELSE IF @ < MaxTold THEN @ + 1 ELSE @]

Perform(id) ==
    LET w == job[id].work
    IN  /\ In(id, "active") /\ job[id].done < Effects[w[1]]
        /\ told' = Once(w, job[id].done + 1)
        /\ job' = [job EXCEPT ![id].done = @ + 1]
        /\ UNCHANGED <<row, relay, stray, letter, operator, lost, faults>>

Complete(id) ==
    /\ In(id, "active") /\ job[id].done = Effects[job[id].work[1]]
    /\ job' = [job EXCEPT ![id].state = "completed"]
    /\ UNCHANGED <<row, relay, stray, letter, operator, told, lost, faults>>

\* The handler throws, the effect it was at done or not: the job is retried, or
\* this was the last attempt.
Throw(id) ==
    LET j == job[id]
    IN  /\ In(id, "active") /\ j.done < Effects[j.work[1]]
        /\ Fault
        /\ told' \in {told, Once(j.work, j.done + 1)}
        /\ job' = [job EXCEPT ![id] =
              IF j.attempts + 1 < MaxAttempts
              THEN [j EXCEPT !.state = "waiting", !.attempts = @ + 1]
              ELSE [j EXCEPT !.state = "dying"]]
        /\ UNCHANGED <<row, relay, stray, letter, operator, lost>>

\* writeDeadLetter, before the error is passed on to the queue.
Bury(id) ==
    /\ In(id, "dying")
    /\ job' = [job EXCEPT ![id].state = "buried"]
    /\ \/ /\ \E l \in Letter :
               /\ letter[l] = Blank
               /\ letter' = [letter EXCEPT ![l].work = job[id].work]
          /\ UNCHANGED <<lost, faults>>
       \/ /\ Fault
          /\ lost' = lost \cup {<<job[id].work, "unwritten">>}
          /\ UNCHANGED letter
    /\ UNCHANGED <<row, relay, stray, operator, told>>

Fail(id) ==
    /\ In(id, "buried")
    /\ job' = [job EXCEPT ![id].state = "failed"]
    /\ UNCHANGED <<row, relay, stray, letter, operator, told, lost, faults>>

\* The worker dies, or loses its lock on the job: the queue delivers it again,
\* and the attempt does not count; but it does so MaxStalled times, and then has
\* the job fail without asking the consumer.
Stall(id) ==
    /\ job[id] # NoJob /\ job[id].state \in {"active", "dying", "buried"}
    /\ Fault
    /\ \/ /\ job[id].stalled < MaxStalled
          /\ job' = [job EXCEPT ![id].state = "waiting", ![id].stalled = @ + 1]
          /\ UNCHANGED lost
       \/ /\ job[id].stalled = MaxStalled
          /\ job' = [job EXCEPT ![id].state = "failed"]
          /\ lost' = lost \cup {<<job[id].work, "stalled">>}
    /\ UNCHANGED <<row, relay, stray, letter, operator, told>>

----------------------------------------------------------------------------
(* Replaying dead letters                                                  *)

\* Mutant: the letter is stamped before its work is enqueued.
LookAndStamp(o, l) ==
    /\ operator[o] = AtEase
    /\ letter[l] # Blank /\ ~letter[l].replayed
    /\ operator' = [operator EXCEPT ![o].letter = l]
    /\ letter' = [letter EXCEPT ![l].replayed = TRUE]
    /\ UNCHANGED <<row, relay, stray, job, told, lost, faults>>

\* replayDeadLetter reads the letter,
Look(o, l) ==
    /\ operator[o] = AtEase
    /\ letter[l] # Blank /\ ~letter[l].replayed
    /\ operator' = [operator EXCEPT ![o].letter = l]
    /\ UNCHANGED <<row, relay, stray, job, letter, told, lost, faults>>

\* enqueues its work under an id of its own,
Requeue(o) ==
    LET l == operator[o].letter
    IN  /\ l # NoLetter /\ ~operator[o].enqueued
        /\ job' = Enqueued(job, <<"replay", l>>, letter[l].work)
        /\ operator' = [operator EXCEPT ![o].enqueued = TRUE]
        /\ UNCHANGED <<row, relay, stray, letter, told, lost, faults>>

\* and stamps it, without looking again.
Stamp(o) ==
    LET l == operator[o].letter
    IN  /\ l # NoLetter /\ operator[o].enqueued
        /\ letter' = [letter EXCEPT ![l].replayed = TRUE]
        /\ operator' = [operator EXCEPT ![o] = AtEase]
        /\ UNCHANGED <<row, relay, stray, job, told, lost, faults>>

\* The script, or a call it makes, fails.
Interrupt(o) ==
    /\ operator[o] # AtEase
    /\ Fault
    /\ operator' = [operator EXCEPT ![o] = AtEase]
    /\ UNCHANGED <<row, relay, stray, job, letter, told, lost>>

----------------------------------------------------------------------------

Init ==
    /\ row = [e \in Event |-> "NONE"]
    /\ relay = [n \in Relay |-> NoBatch]
    /\ stray = {}
    /\ job = [id \in JobId |-> NoJob]
    /\ letter = [l \in Letter |-> Blank]
    /\ operator = [o \in Operator |-> AtEase]
    /\ told = [w \in Work |-> [i \in 1..Effects[w[1]] |-> 0]]
    /\ lost = {}
    /\ faults = 0

\* What a process does unless it fails.
Relays(n)  == Claim(n) \/ Publish(n) \/ (\E q \in Queue : CallReturns(n, q)) \/ Commit(n)
Works(id)  == Take(id) \/ Perform(id) \/ Complete(id) \/ Bury(id) \/ Fail(id)

Next ==
    \/ \E e \in Event : Write(e) \/ Purge(e)
    \/ \E n \in Relay : Relays(n) \/ Rollback(n) \/ \E q \in Queue : CallFails(n, q)
    \/ \E w \in Work : StrayEnds(w)
    \/ \E id \in JobId : Works(id) \/ Throw(id) \/ Stall(id) \/ Remove(id)
    \/ \E o \in Operator : \/ Requeue(o) \/ Stamp(o) \/ Interrupt(o)
                           \/ \E l \in Letter : Look(o, l)

Spec == Init /\ [][Next]_vars

\* The poll loop of a relay never ends, and the workers take what the queue has.
FairSpec ==
    /\ Spec
    /\ \A n \in Relay : WF_vars(Relays(n))
    /\ \A id \in JobId : WF_vars(Works(id))

----------------------------------------------------------------------------
(* Properties                                                              *)

TypeOK ==
    /\ row \in [Event -> RowStatus]
    /\ relay \in [Relay -> Batch]
    /\ stray \subseteq Work
    /\ job \in [JobId -> Job \cup {NoJob}]
    /\ letter \in [Letter -> {Blank} \cup [work : Work, replayed : BOOLEAN]]
    /\ operator \in [Operator -> [letter : Letter \cup {NoLetter}, enqueued : BOOLEAN]]
    /\ told \in [Work -> UNION {[1..k -> 0..MaxTold] : k \in {Effects[q] : q \in Queue}}]
    /\ lost \subseteq Work \X {"unwritten", "stalled"}
    /\ faults \in 0..MaxFaults

Done(w)     == \A i \in DOMAIN told[w] : told[w][i] > 0
Alive(w)    == \E id \in JobId : /\ job[id] # NoJob /\ job[id].work = w
                                 /\ job[id].state \in {"waiting", "active", "dying"}
Buried(w)   == \E l \in Letter : letter[l].work = w /\ ~letter[l].replayed
Lost(w)     == \E why \in {"unwritten", "stalled"} : <<w, why>> \in lost
Accounted(w) == Done(w) \/ Alive(w) \/ Buried(w) \/ Lost(w)

\* At least once: from the moment a row is no longer kept for the relay, each of
\* its consumers has done its work, or has a job that will, or has left a dead
\* letter to replay; whatever crashes, and however often an operator replays,
\* nothing disappears but the jobs that writeDeadLetter logs as lost and those
\* the queue gives up because they stalled.
NothingLost ==
    \A e \in Event, q \in Queue : row[e] \in {"SENT", "PURGED"} => Accounted(<<q, e>>)

\* What crashes, duplicates and replays keep: the types, and that no event is
\* lost unseen.
OutboxInv == TypeOK /\ NothingLost

\* A replayed letter is not forgotten either: its work is done, or under way, or
\* back in a letter.
ReplayedTakenUp ==
    \A l \in Letter : letter[l].replayed => Accounted(letter[l].work)

\* Every event reaches every consumer, or a dead letter, once failures stop.
Settled(w) == Done(w) \/ Lost(w) \/ \E l \in Letter : letter[l].work = w
Delivered == \A e \in Event : row[e] # "NONE" ~> \A q \in Queue : Settled(<<q, e>>)

=============================================================================
