---------------------------- MODULE WorkerProofs ----------------------------
(***************************************************************************)
(* Theorems about the worker process: what becomes of events between the   *)
(* relay, the queues, their consumers and the operators who replay dead    *)
(* letters; the breaker in front of the gateway that one of the consumers  *)
(* calls; and what another of them, the AML screening, finds in a ledger   *)
(* that moves on while it looks; for any numbers of all of them.           *)
(***************************************************************************)
EXTENDS Outbox, CircuitBreaker, AmlScreening, SumTheorems

----------------------------------------------------------------------------
(* The invariant of the outbox                                             *)

ReplayJob(l) == <<"replay", l>>

\* A letter is open for the work w if whoever replays it starts a job: nobody has
\* enqueued its work yet, or nothing is left of the job that came of it.
OpenFor(w, l) ==
    /\ letter[l].work = w /\ ~letter[l].replayed
    /\ job[ReplayJob(l)] = NoJob
    /\ \A o \in Operator : ~(operator[o].letter = l /\ operator[o].enqueued)

\* A letter that is not open has a job, or had one: that it is not replayed yet
\* says nothing, since whoever enqueued its work may be about to stamp it.
Safe(w) == Done(w) \/ Alive(w) \/ Lost(w) \/ \E l \in Letter : OpenFor(w, l)

\* The work a consumer has been given, as far as anybody can tell from the queue,
\* the letters, the rows and what the relays are about to commit.
Known(w) ==
    \/ \E id \in JobId : job[id] # NoJob /\ job[id].work = w
    \/ \E l \in Letter : letter[l] # Blank /\ letter[l].work = w
    \/ row[w[2]] \in {"SENT", "PURGED"}
    \/ \E n \in Relay : \/ w[2] \in relay[n].sent
                        \/ relay[n].now = w[2] /\ w[1] \notin relay[n].calls

\* Each effect of the work is counted.
Sizes == \A w \in Work : told[w] \in [1..Effects[w[1]] -> 0..MaxTold]

\* Jobs are named for what they work on, and only letters that were written are
\* being replayed.
NamedFor(id) ==
    job[id] # NoJob =>
        /\ \A w \in Work : id = EventJob(w) => job[id].work = w
        /\ \A l \in Letter : id = ReplayJob(l) => letter[l] # Blank /\ job[id].work = letter[l].work

Looking == \A o \in Operator :
    operator[o].letter # NoLetter => letter[operator[o].letter] # Blank

\* Calls are under way for an event.
Publishing == \A n \in Relay : relay[n].calls # {} => relay[n].now # NoEvent

\* What a job has done has happened.
Progress(id) ==
    In(id, "active") =>
        /\ job[id].done <= Effects[job[id].work[1]]
        /\ \A i \in 1..job[id].done : told[job[id].work][i] > 0

OutboxIInv ==
    /\ TypeOK
    /\ Sizes
    /\ \A id \in JobId : NamedFor(id) /\ Progress(id)
    /\ Looking
    /\ Publishing
    /\ \A w \in Work : Known(w) => Safe(w)

----------------------------------------------------------------------------
(* Names                                                                   *)

\* Jobs have the two kinds of names, which are never the same.
LEMMA JobNames ==
    /\ \A w \in Work : EventJob(w) \in JobId
    /\ \A l \in Letter : ReplayJob(l) \in JobId
    /\ \A w, l : EventJob(w) # ReplayJob(l)
    /\ \A l, m : ReplayJob(l) = ReplayJob(m) => l = m
    /\ \A v, w : EventJob(v) = EventJob(w) => v = w
  BY DEF JobId, EventJob, ReplayJob

\* Work is a queue and an event.
LEMMA WorkParts ==
    ASSUME NEW w \in Work
    PROVE  w[1] \in Queue /\ w[2] \in Event /\ w = <<w[1], w[2]>>
  BY DEF Work

\* A job that is there is typed.
LEMMA JobTyped ==
    ASSUME TypeOK, NEW id \in JobId, job[id] # NoJob
    PROVE  job[id] \in Job /\ job[id].work \in Work /\ Effects[job[id].work[1]] \in Nat
  <1>1. job[id] \in Job
    BY DEF TypeOK
  <1>2. job[id].work \in Work
    BY <1>1 DEF Job
  <1> QED
    BY <1>1, <1>2, WorkParts, OutboxConstants

\* A letter that was written is typed.
LEMMA LetterTyped ==
    ASSUME TypeOK, NEW l \in Letter, letter[l] # Blank
    PROVE  letter[l] \in [work : Work, replayed : BOOLEAN] /\ letter[l].work \in Work
  BY DEF TypeOK

----------------------------------------------------------------------------
(* Steps that leave the jobs alone                                         *)

\* Steps of relays before anything reaches a queue, and the purge: what they make
\* known was known.
LEMMA QuietStep ==
    ASSUME OutboxIInv, TypeOK', Publishing', UNCHANGED <<job, letter, operator, told, lost>>,
           \A w \in Work : Known(w)' => Known(w)
    PROVE  OutboxIInv'
  <1>1. \A w \in Work : Safe(w) => Safe(w)'
    BY DEF Safe, Done, Alive, Lost, OpenFor
  <1>2. Sizes' /\ Looking'
    BY DEF OutboxIInv, Sizes, Looking
  <1>3. \A id \in JobId : NamedFor(id)' /\ Progress(id)'
    BY DEF OutboxIInv, NamedFor, Progress, In
  <1> QED
    BY <1>1, <1>2, <1>3 DEF OutboxIInv

LEMMA RelaySteps ==
    ASSUME OutboxIInv, TypeOK',
           \/ \E e \in Event : Write(e) \/ Purge(e)
           \/ \E n \in Relay : \/ Claim(n) \/ Publish(n) \/ Commit(n) \/ Rollback(n)
                               \/ \E q \in Queue : CallFails(n, q)
    PROVE  OutboxIInv'
  <1>0. /\ row \in [Event -> RowStatus] /\ relay \in [Relay -> Batch] /\ NoEvent \notin Event
        /\ UNCHANGED <<job, letter, operator, told, lost>>
    BY OutboxConstants
       DEF OutboxIInv, TypeOK, Write, Purge, Claim, Publish, Commit, Rollback, CallFails
  <1>p. Publishing'
    <2>1. ASSUME NEW e \in Event, Write(e) \/ Purge(e) PROVE Publishing'
      BY <2>1 DEF OutboxIInv, Publishing, Write, Purge
    <2>2. ASSUME NEW n \in Relay, Claim(n) PROVE Publishing'
      <3>1. PICK es : relay' = [relay EXCEPT ![n].todo = es]
        BY <2>2 DEF Claim
      <3>2. \A m \in Relay : relay'[m].now = relay[m].now /\ relay'[m].calls = relay[m].calls
        BY <1>0, <3>1 DEF Batch
      <3> QED
        BY <3>2 DEF OutboxIInv, Publishing
    <2>3. ASSUME NEW n \in Relay, Publish(n) PROVE Publishing'
      <3>1. PICK e \in relay[n].todo :
               relay' = [relay EXCEPT ![n].now = e, ![n].todo = @ \ {e}, ![n].calls = Queue]
        BY <2>3 DEF Publish
      <3>2. /\ relay'[n].now = e /\ e \in Event
            /\ \A m \in Relay \ {n} : relay'[m] = relay[m]
        BY <1>0, <3>1 DEF Batch
      <3> QED
        BY <1>0, <3>2 DEF OutboxIInv, Publishing
    <2>4. ASSUME NEW n \in Relay,
                 Commit(n) \/ Rollback(n) \/ \E q \in Queue : CallFails(n, q)
          PROVE  Publishing'
      <3>1. /\ relay'[n].calls = {}
            /\ \A m \in Relay \ {n} : relay'[m] = relay[m]
        <4>1. CASE Commit(n) \/ Rollback(n)
          BY <1>0, <4>1 DEF Commit, Rollback, NoBatch
        <4>2. CASE \E q \in Queue : CallFails(n, q)
          <5>1. PICK b : b = relay[n] /\ b \in Batch
            BY <1>0
          <5>2. relay' = [relay EXCEPT ![n] = [b EXCEPT !.calls = {}, !.now = NoEvent,
                                                        !.bad = b.bad \cup {b.now}]]
            BY <4>2, <5>1 DEF CallFails
          <5> QED
            BY <1>0, <5>1, <5>2 DEF Batch
        <4> QED
          BY <2>4, <4>1, <4>2
      <3> QED
        BY <3>1 DEF OutboxIInv, Publishing
    <2> QED
      BY <2>1, <2>2, <2>3, <2>4
  <1> SUFFICES ASSUME NEW w \in Work, Known(w)' PROVE Known(w)
    BY <1>0, <1>p, QuietStep
  <1>w. w[1] \in Queue /\ w[2] \in Event
    BY WorkParts
  <1>g. \/ Known(w)
        \/ row'[w[2]] \in {"SENT", "PURGED"}
        \/ \E n \in Relay : \/ w[2] \in relay'[n].sent
                            \/ relay'[n].now = w[2] /\ w[1] \notin relay'[n].calls
    BY <1>0 DEF Known
  <1>1. ASSUME NEW e \in Event, Write(e) \/ Purge(e) PROVE Known(w)
    <2>1. row'[w[2]] \in {"SENT", "PURGED"} => row[w[2]] \in {"SENT", "PURGED"}
      BY <1>0, <1>1, <1>w DEF Write, Purge
    <2>2. relay' = relay
      BY <1>1 DEF Write, Purge
    <2> QED
      BY <1>g, <2>1, <2>2 DEF Known
  <1>2. ASSUME NEW n \in Relay, Claim(n) PROVE Known(w)
    <2>1. PICK es : relay' = [relay EXCEPT ![n].todo = es]
      BY <1>2 DEF Claim
    <2>2. \A m \in Relay : /\ relay'[m].sent = relay[m].sent /\ relay'[m].now = relay[m].now
                           /\ relay'[m].calls = relay[m].calls
      BY <1>0, <2>1 DEF Batch
    <2> QED
      BY <1>2, <1>g, <2>2 DEF Known, Claim
  <1>3. ASSUME NEW n \in Relay, Publish(n) PROVE Known(w)
    <2>1. PICK e \in relay[n].todo :
             relay' = [relay EXCEPT ![n].now = e, ![n].todo = @ \ {e}, ![n].calls = Queue]
      BY <1>3 DEF Publish
    <2>2. relay'[n].sent = relay[n].sent /\ relay'[n].calls = Queue
      BY <1>0, <2>1 DEF Batch
    <2>3. \A m \in Relay \ {n} : relay'[m] = relay[m]
      BY <1>0, <2>1
    <2> QED
      BY <1>3, <1>g, <1>w, <2>2, <2>3 DEF Known, Publish
  <1>4. ASSUME NEW n \in Relay, NEW q \in Queue, CallFails(n, q) PROVE Known(w)
    <2>1. PICK b : b = relay[n] /\ b \in Batch
      BY <1>0
    <2>2. relay' = [relay EXCEPT ![n] = [b EXCEPT !.calls = {}, !.now = NoEvent,
                                                  !.bad = b.bad \cup {b.now}]]
      BY <1>4, <2>1 DEF CallFails
    <2>3. relay'[n].sent = relay[n].sent /\ relay'[n].now = NoEvent
      BY <1>0, <2>1, <2>2 DEF Batch
    <2>4. \A m \in Relay \ {n} : relay'[m] = relay[m]
      BY <1>0, <2>2
    <2> QED
      BY <1>0, <1>4, <1>g, <1>w, <2>3, <2>4 DEF Known, CallFails
  <1>5. ASSUME NEW n \in Relay, Commit(n) PROVE Known(w)
    <2>1. relay'[n] = NoBatch /\ \A m \in Relay \ {n} : relay'[m] = relay[m]
      BY <1>0, <1>5 DEF Commit
    <2>2. row'[w[2]] \in {"SENT", "PURGED"} => row[w[2]] \in {"SENT", "PURGED"} \/ w[2] \in relay[n].sent
      BY <1>5, <1>w DEF Commit
    <2> QED
      BY <1>0, <1>g, <1>w, <2>1, <2>2 DEF Known, NoBatch
  <1>6. ASSUME NEW n \in Relay, Rollback(n) PROVE Known(w)
    <2>1. relay'[n] = NoBatch /\ \A m \in Relay \ {n} : relay'[m] = relay[m]
      BY <1>0, <1>6 DEF Rollback
    <2> QED
      BY <1>0, <1>6, <1>g, <1>w, <2>1 DEF Known, NoBatch, Rollback
  <1> QED
    BY <1>1, <1>2, <1>3, <1>4, <1>5, <1>6

----------------------------------------------------------------------------
(* Steps of operators                                                      *)

\* Looking at a letter, or giving up on it, makes none that was open not so.
LEMMA LookStep ==
    ASSUME OutboxIInv, TypeOK', NEW o \in Operator,
           Interrupt(o) \/ \E l \in Letter : Look(o, l)
    PROVE  OutboxIInv'
  <1>0. /\ operator \in [Operator -> [letter : Letter \cup {NoLetter}, enqueued : BOOLEAN]]
        /\ UNCHANGED <<row, relay, job, letter, told, lost>>
    BY DEF OutboxIInv, TypeOK, Interrupt, Look
  <1>1. /\ ~operator'[o].enqueued
        /\ operator'[o].letter # NoLetter => letter[operator'[o].letter] # Blank
        /\ \A p \in Operator \ {o} : operator'[p] = operator[p]
    <2>1. CASE Interrupt(o)
      BY <1>0, <2>1 DEF Interrupt, AtEase
    <2>2. ASSUME NEW l \in Letter, Look(o, l)
          PROVE  /\ operator'[o].letter = l /\ ~operator'[o].enqueued
                 /\ \A p \in Operator \ {o} : operator'[p] = operator[p]
      BY <1>0, <2>2 DEF Look, AtEase
    <2>3. \A l \in Letter : Look(o, l) => letter[l] # Blank
      BY DEF Look
    <2> QED
      BY <2>1, <2>2, <2>3
  <1>2. \A w \in Work : (Safe(w) => Safe(w)') /\ (Known(w)' => Known(w))
    <2>1. \A w \in Work, l \in Letter : OpenFor(w, l) => OpenFor(w, l)'
      BY <1>0, <1>1 DEF OpenFor
    <2> QED
      BY <1>0, <2>1 DEF Safe, Known, Done, Alive, Lost
  <1>3. Sizes' /\ Looking' /\ Publishing'
    BY <1>0, <1>1 DEF OutboxIInv, Sizes, Looking, Publishing
  <1>4. \A id \in JobId : NamedFor(id)' /\ Progress(id)'
    BY <1>0 DEF OutboxIInv, NamedFor, Progress, In
  <1> QED
    BY <1>2, <1>3, <1>4 DEF OutboxIInv

\* A letter that is stamped was enqueued before, so it is not one that was open.
LEMMA StampStep ==
    ASSUME OutboxIInv, TypeOK', NEW o \in Operator, Stamp(o)
    PROVE  OutboxIInv'
  <1> DEFINE l == operator[o].letter
  <1>0. /\ operator \in [Operator -> [letter : Letter \cup {NoLetter}, enqueued : BOOLEAN]]
        /\ UNCHANGED <<row, relay, job, told, lost>>
        /\ l \in Letter /\ operator[o].enqueued
        /\ operator' = [operator EXCEPT ![o] = AtEase]
        /\ letter' = [letter EXCEPT ![l].replayed = TRUE]
        /\ letter[l] # Blank /\ letter[l] \in [work : Work, replayed : BOOLEAN]
        /\ letter \in [Letter -> {Blank} \cup [work : Work, replayed : BOOLEAN]]
    BY LetterTyped DEF OutboxIInv, TypeOK, Stamp, Looking
  <1>1. /\ ~operator'[o].enqueued /\ operator'[o].letter = NoLetter
        /\ \A p \in Operator \ {o} : operator'[p] = operator[p]
    BY <1>0 DEF AtEase
  <1>2. /\ letter'[l].work = letter[l].work /\ letter'[l].replayed
        /\ \A m \in Letter \ {l} : letter'[m] = letter[m]
    BY <1>0
  <1>3. letter'[l] # Blank
    BY <1>2 DEF Blank
  <1>4. \A w \in Work : (Safe(w) => Safe(w)') /\ (Known(w)' => Known(w))
    <2>1. \A w \in Work : ~OpenFor(w, l)
      BY <1>0 DEF OpenFor
    <2>2. \A w \in Work, m \in Letter : OpenFor(w, m) => OpenFor(w, m)'
      BY <1>0, <1>1, <1>2, <2>1 DEF OpenFor
    <2> QED
      BY <1>0, <1>2, <2>2 DEF Safe, Known, Done, Alive, Lost
  <1>5. Sizes' /\ Looking' /\ Publishing'
    BY <1>0, <1>1, <1>2, <1>3 DEF OutboxIInv, Sizes, Looking, Publishing
  <1>6. \A id \in JobId : NamedFor(id)' /\ Progress(id)'
    BY <1>0, <1>2, <1>3 DEF OutboxIInv, NamedFor, Progress, In
  <1> QED
    BY <1>4, <1>5, <1>6 DEF OutboxIInv

----------------------------------------------------------------------------
(* Steps that enqueue                                                      *)

\* Enqueueing work under a name that is its own leaves it safe: either there is a
\* job now that will do it, or the queue still knows one of that name, and then
\* it was safe already.  A letter only stops being open for an operator who has
\* just enqueued its work.
LEMMA EnqueueStep ==
    ASSUME OutboxIInv, TypeOK', Publishing', NEW id \in JobId, NEW w \in Work,
           job' = Enqueued(job, id, w), UNCHANGED <<letter, told, lost>>,
           \A v \in Work : id = EventJob(v) => v = w,
           \A l \in Letter : id = ReplayJob(l) => letter[l] # Blank /\ letter[l].work = w,
           \A o \in Operator : \/ operator'[o] = operator[o]
                              \/ /\ operator'[o].letter = operator[o].letter
                                 /\ id = ReplayJob(operator[o].letter),
           \A v \in Work : Known(v)' => Known(v) \/ v = w
    PROVE  OutboxIInv'
  <1>0. job \in [JobId -> Job \cup {NoJob}] /\ TypeOK
    BY DEF OutboxIInv, TypeOK
  <1>1. /\ \A j \in JobId \ {id} : job'[j] = job[j]
        /\ job[id] # NoJob => job'[id] = job[id]
        /\ job[id] = NoJob => /\ job'[id].state = "waiting" /\ job'[id].work = w
                              /\ job'[id] # NoJob
    BY <1>0 DEF Enqueued, NoJob
  <1>2. job'[id] # NoJob /\ job'[id].work = w
    <2>1. CASE job[id] = NoJob
      BY <1>1, <2>1
    <2>2. CASE job[id] # NoJob
      <3>1. CASE \E v \in Work : id = EventJob(v)
        BY <1>1, <2>2, <3>1 DEF OutboxIInv, NamedFor
      <3>2. CASE \E l \in Letter : id = ReplayJob(l)
        BY <1>1, <2>2, <3>2 DEF OutboxIInv, NamedFor
      <3>3. \/ \E v \in Work : id = EventJob(v)
            \/ \E l \in Letter : id = ReplayJob(l)
        BY DEF JobId, EventJob, ReplayJob
      <3> QED
        BY <3>1, <3>2, <3>3
    <2> QED
      BY <2>1, <2>2
  <1>3. \A v \in Work : Alive(v) => Alive(v)'
    BY <1>0, <1>1 DEF Alive
  <1>4. Safe(w)'
    <2>1. CASE job[id] = NoJob
      <3>1. Alive(w)'
        BY <1>1, <2>1 DEF Alive
      <3> QED
        BY <3>1 DEF Safe
    <2>2. CASE job[id] # NoJob
      <3>1. job' = job /\ Known(w)
        BY <1>1, <1>2, <2>2 DEF Enqueued, Known
      <3>2. Safe(w)
        BY <3>1 DEF OutboxIInv
      <3>3. \A l \in Letter : OpenFor(w, l) => OpenFor(w, l)'
        BY <2>2, <3>1 DEF OpenFor
      <3> QED
        BY <1>3, <3>2, <3>3 DEF Safe, Done, Lost
    <2> QED
      BY <2>1, <2>2
  <1>5. ASSUME NEW v \in Work, v # w, Safe(v) PROVE Safe(v)'
    <2>1. ASSUME NEW l \in Letter, OpenFor(v, l) PROVE OpenFor(v, l)'
      <3>1. id # ReplayJob(l)
        BY <1>5, <2>1 DEF OpenFor
      <3>2. job'[ReplayJob(l)] = NoJob
        BY <1>1, <2>1, <3>1, JobNames DEF OpenFor
      <3> QED
        BY <2>1, <3>1, <3>2 DEF OpenFor
    <2> QED
      BY <1>3, <1>5, <2>1 DEF Safe, Done, Lost
  <1>6. ASSUME NEW v \in Work, Known(v)' PROVE Safe(v)'
    <2>1. Known(v) \/ v = w
      BY <1>6
    <2> QED
      BY <1>4, <1>5, <2>1 DEF OutboxIInv
  <1>7. Sizes' /\ Looking'
    <2>1. \A o \in Operator : operator'[o].letter = operator[o].letter
      OBVIOUS
    <2> QED
      BY <2>1 DEF OutboxIInv, Sizes, Looking
  <1>8. ASSUME NEW j \in JobId PROVE NamedFor(j)' /\ Progress(j)'
    <2>1. CASE j # id
      BY <1>1, <2>1 DEF OutboxIInv, NamedFor, Progress, In
    <2>2. CASE j = id
      <3>1. NamedFor(id)'
        BY <1>2 DEF NamedFor
      <3>2. Progress(id)'
        <4>1. CASE job[id] = NoJob
          BY <1>1, <4>1 DEF Progress, In
        <4>2. CASE job[id] # NoJob
          BY <1>1, <4>2 DEF OutboxIInv, Progress, In
        <4> QED
          BY <4>1, <4>2
      <3> QED
        BY <2>2, <3>1, <3>2
    <2> QED
      BY <2>1, <2>2
  <1> QED
    BY <1>6, <1>7, <1>8 DEF OutboxIInv

\* A call reaches the queue, late or in time.
LEMMA StrayStep ==
    ASSUME OutboxIInv, TypeOK', NEW w \in Work, StrayEnds(w)
    PROVE  OutboxIInv'
  <1>0. UNCHANGED <<row, relay, letter, operator, told, lost>> /\ Publishing'
    BY DEF StrayEnds, OutboxIInv, Publishing
  <1>1. CASE job' = job
    BY <1>0, <1>1, QuietStep DEF Known
  <1>2. CASE job' = Enqueued(job, EventJob(w), w)
    <2>1. ASSUME NEW v \in Work, Known(v)' PROVE Known(v) \/ v = w
      <3>1. ASSUME NEW id \in JobId, job'[id] # NoJob, job'[id].work = v
            PROVE  Known(v) \/ v = w
        <4>1. job'[id] = job[id] \/ job'[id].work = w
          BY <1>2 DEF Enqueued, OutboxIInv, TypeOK
        <4> QED
          BY <3>1, <4>1 DEF Known
      <3> QED
        BY <1>0, <2>1, <3>1 DEF Known
    <2> QED
      BY <1>0, <1>2, <2>1, JobNames, EnqueueStep
  <1> QED
    BY <1>1, <1>2 DEF StrayEnds

\* The call of an event to its last queue takes the row to SENT, with the work of
\* every queue enqueued.
LEMMA CallStep ==
    ASSUME OutboxIInv, TypeOK', NEW n \in Relay, NEW q \in Queue, CallReturns(n, q)
    PROVE  OutboxIInv'
  <1>1. PICK b, w : b = relay[n] /\ w = <<q, b.now>>
    OBVIOUS
  <1>0. /\ relay \in [Relay -> Batch] /\ b \in Batch /\ NoEvent \notin Event
        /\ UNCHANGED <<row, stray, letter, operator, told, lost>>
        /\ q \in b.calls /\ job' = Enqueued(job, EventJob(w), w)
        /\ relay' = [relay EXCEPT ![n] =
              IF b.calls = {q}
              THEN [b EXCEPT !.calls = {}, !.now = NoEvent, !.sent = b.sent \cup {b.now}]
              ELSE [b EXCEPT !.calls = b.calls \ {q}]]
    BY <1>1, OutboxConstants DEF OutboxIInv, TypeOK, CallReturns
  <1>2. b.now \in Event /\ w \in Work /\ w[1] = q /\ w[2] = b.now
    BY <1>0, <1>1 DEF OutboxIInv, Publishing, Batch, Work
  <1>3. /\ \A m \in Relay \ {n} : relay'[m] = relay[m]
        /\ \/ /\ b.calls = {q} /\ relay'[n].calls = {} /\ relay'[n].now = NoEvent
              /\ relay'[n].sent = b.sent \cup {b.now}
           \/ /\ relay'[n].calls = b.calls \ {q} /\ relay'[n].now = b.now
              /\ relay'[n].sent = b.sent
    BY <1>0 DEF Batch
  <1>4. Publishing'
    BY <1>0, <1>2, <1>3 DEF OutboxIInv, Publishing
  <1>5. ASSUME NEW v \in Work, Known(v)' PROVE Known(v) \/ v = w
    <2>0. v[1] \in Queue /\ v[2] \in Event /\ v = <<v[1], v[2]>>
      BY WorkParts
    <2>1. ASSUME NEW id \in JobId, job'[id] # NoJob, job'[id].work = v
          PROVE  Known(v) \/ v = w
      <3>1. job'[id] = job[id] \/ job'[id].work = w
        BY <1>0 DEF Enqueued, OutboxIInv, TypeOK
      <3> QED
        BY <2>1, <3>1 DEF Known
    <2>2. ASSUME NEW m \in Relay, \/ v[2] \in relay'[m].sent
                                  \/ relay'[m].now = v[2] /\ v[1] \notin relay'[m].calls
          PROVE  Known(v) \/ v = w
      <3>1. CASE m # n
        BY <1>3, <2>2, <3>1 DEF Known
      <3>2. CASE m = n /\ v[2] = b.now /\ v[1] = q
        BY <1>1, <2>0, <3>2
      <3>3. CASE m = n /\ v[2] = b.now /\ v[1] # q
        <4>1. v[1] \notin b.calls \/ v[2] \in b.sent
          BY <1>3, <2>2, <3>3
        <4> QED
          BY <1>1, <3>3, <4>1 DEF Known
      <3>4. CASE m = n /\ v[2] # b.now
        BY <1>0, <1>1, <1>3, <2>0, <2>2, <3>4 DEF Known
      <3> QED
        BY <3>1, <3>2, <3>3, <3>4
    <2> QED
      BY <1>0, <1>5, <2>1, <2>2 DEF Known
  <1> QED
    BY <1>0, <1>2, <1>4, <1>5, JobNames, EnqueueStep

\* An operator enqueues the work of the letter under the name of the letter.
LEMMA RequeueStep ==
    ASSUME OutboxIInv, TypeOK', NEW o \in Operator, Requeue(o)
    PROVE  OutboxIInv'
  <1>1. PICK l, w : l = operator[o].letter /\ w = letter[l].work
    OBVIOUS
  <1>0. /\ operator \in [Operator -> [letter : Letter \cup {NoLetter}, enqueued : BOOLEAN]]
        /\ UNCHANGED <<row, relay, stray, letter, told, lost>>
        /\ l \in Letter /\ letter[l] # Blank /\ w \in Work
        /\ job' = Enqueued(job, ReplayJob(l), w)
        /\ operator' = [operator EXCEPT ![o].enqueued = TRUE]
    BY <1>1, LetterTyped DEF OutboxIInv, TypeOK, Requeue, Looking, ReplayJob
  <1>2. /\ operator'[o].letter = operator[o].letter
        /\ \A p \in Operator \ {o} : operator'[p] = operator[p]
    BY <1>0
  <1>3. Publishing'
    BY <1>0 DEF OutboxIInv, Publishing
  <1>4. ASSUME NEW v \in Work, Known(v)' PROVE Known(v) \/ v = w
    <2>1. ASSUME NEW id \in JobId, job'[id] # NoJob, job'[id].work = v
          PROVE  Known(v) \/ v = w
      <3>1. job'[id] = job[id] \/ job'[id].work = w
        BY <1>0 DEF Enqueued, OutboxIInv, TypeOK
      <3> QED
        BY <2>1, <3>1 DEF Known
    <2> QED
      BY <1>0, <1>4, <2>1 DEF Known
  <1>5. /\ ReplayJob(l) \in JobId
        /\ \A v \in Work : EventJob(v) # ReplayJob(l)
        /\ \A m \in Letter : ReplayJob(l) = ReplayJob(m) => letter[m] # Blank /\ letter[m].work = w
    BY <1>0, <1>1, JobNames
  <1>6. \A p \in Operator : \/ operator'[p] = operator[p]
                            \/ /\ operator'[p].letter = operator[p].letter
                               /\ ReplayJob(l) = ReplayJob(operator[p].letter)
    BY <1>1, <1>2
  <1> QED
    BY <1>0, <1>3, <1>4, <1>5, <1>6, EnqueueStep

----------------------------------------------------------------------------
(* Steps of jobs                                                           *)

\* A job goes from one state to another: its work stays safe if the job is not
\* done with it, or has done it, or the loss of it is on record; or if it was
\* done with it before.
LEMMA JobMoves ==
    ASSUME OutboxIInv, TypeOK', Sizes', UNCHANGED <<row, relay, letter, operator>>,
           NEW id \in JobId, NEW j, job[id] # NoJob, j # NoJob, j.work = job[id].work,
           job' = [job EXCEPT ![id] = j],
           \A w \in Work : /\ Lost(w) => Lost(w)'
                          /\ \A i \in 1..Effects[w[1]] : told[w][i] > 0 => told'[w][i] > 0,
           Progress(id)',
           \/ j.state \in {"waiting", "active", "dying"}
           \/ Done(j.work)' \/ Lost(j.work)'
           \/ job[id].state \notin {"waiting", "active", "dying"}
    PROVE  OutboxIInv'
  <1>0. job \in [JobId -> Job \cup {NoJob}] /\ TypeOK
    BY DEF OutboxIInv, TypeOK
  <1>1. /\ job'[id] = j /\ \A k \in JobId \ {id} : job'[k] = job[k]
        /\ \A k \in JobId : job'[k] = NoJob <=> job[k] = NoJob
        /\ \A k \in JobId : job'[k].work = job[k].work
    BY <1>0
  <1>2. \A w \in Work : DOMAIN told[w] = 1..Effects[w[1]] /\ DOMAIN told'[w] = 1..Effects[w[1]]
    BY DEF OutboxIInv, Sizes
  <1>3. \A w \in Work : Done(w) => Done(w)'
    BY <1>2 DEF Done
  <1>4. \A w \in Work, l \in Letter : OpenFor(w, l) => OpenFor(w, l)'
    BY <1>1, JobNames DEF OpenFor
  <1>5. ASSUME NEW w \in Work, Alive(w) PROVE Safe(w)'
    <2>1. PICK k \in JobId : /\ job[k] # NoJob /\ job[k].work = w
                             /\ job[k].state \in {"waiting", "active", "dying"}
      BY <1>5 DEF Alive
    <2>2. CASE k # id
      BY <1>1, <2>1, <2>2 DEF Safe, Alive
    <2>3. CASE k = id /\ j.state \in {"waiting", "active", "dying"}
      BY <1>1, <2>1, <2>3 DEF Safe, Alive
    <2>4. CASE k = id /\ (Done(j.work)' \/ Lost(j.work)')
      BY <2>1, <2>4 DEF Safe
    <2> QED
      BY <2>1, <2>2, <2>3, <2>4
  <1>6. \A w \in Work : Safe(w) => Safe(w)'
    BY <1>3, <1>4, <1>5 DEF Safe
  <1>7. \A w \in Work : Known(w)' => Known(w)
    BY <1>1 DEF Known
  <1>8. Looking' /\ Publishing'
    BY DEF OutboxIInv, Looking, Publishing
  <1>9. ASSUME NEW k \in JobId PROVE NamedFor(k)' /\ Progress(k)'
    <2>1. NamedFor(k)'
      BY <1>1 DEF OutboxIInv, NamedFor
    <2>2. CASE k # id /\ job[k] # NoJob
      <3>1. job[k].work \in Work /\ Effects[job[k].work[1]] \in Nat
        BY <1>0, <2>2, JobTyped
      <3>2. In(k, "active") => \A i \in 1..job[k].done : i \in 1..Effects[job[k].work[1]]
        <4>1. job[k].done \in Nat
          BY <1>0, <2>2, JobTyped DEF Job
        <4> QED
          BY <3>1, <4>1 DEF OutboxIInv, Progress
      <3>3. Progress(k)'
        BY <1>1, <2>2, <3>1, <3>2 DEF OutboxIInv, Progress, In
      <3> QED
        BY <2>1, <3>3
    <2>3. CASE k # id /\ job[k] = NoJob
      BY <1>1, <2>1, <2>3 DEF Progress, In
    <2> QED
      BY <2>1, <2>2, <2>3
  <1> QED
    BY <1>6, <1>7, <1>8, <1>9 DEF OutboxIInv

\* An effect that happens once more is counted, and no other count changes.
LEMMA OnceCounts ==
    ASSUME TypeOK, Sizes, NEW w \in Work, NEW i \in 1..Effects[w[1]]
    PROVE  /\ \A v \in Work : /\ Once(w, i)[v] \in [1..Effects[v[1]] -> 0..MaxTold]
                              /\ \A k \in 1..Effects[v[1]] :
                                    told[v][k] > 0 => Once(w, i)[v][k] > 0
           /\ Once(w, i)[w][i] > 0
  <1>0. /\ told[w] \in [1..Effects[w[1]] -> 0..MaxTold] /\ MaxTold \in Nat \ {0}
        /\ DOMAIN told = Work
    BY OutboxConstants DEF TypeOK, Sizes
  <1>1. PICK x : x = IF w[1] \in Deduped THEN 1
                     ELSE IF told[w][i] < MaxTold THEN told[w][i] + 1 ELSE told[w][i]
    OBVIOUS
  <1>2. x \in 0..MaxTold /\ x > 0
    <2>1. told[w][i] \in 0..MaxTold
      BY <1>0
    <2> QED
      BY <1>0, <1>1, <2>1
  <1>3. Once(w, i) = [told EXCEPT ![w] = [told[w] EXCEPT ![i] = x]]
    BY <1>0, <1>1 DEF Once
  <1>4. /\ Once(w, i)[w] = [told[w] EXCEPT ![i] = x]
        /\ \A v \in Work \ {w} : Once(w, i)[v] = told[v]
    BY <1>0, <1>3
  <1>5. [told[w] EXCEPT ![i] = x] \in [1..Effects[w[1]] -> 0..MaxTold]
    BY <1>0, <1>2
  <1> QED
    BY <1>0, <1>2, <1>4, <1>5 DEF Sizes

\* The steps of a job that count no effect: it is taken, its handler is through
\* or has given up for good, or the queue gives it out again or gives up on it.
LEMMA JobSteps ==
    ASSUME OutboxIInv, TypeOK', NEW id \in JobId,
           Take(id) \/ Complete(id) \/ Fail(id) \/ Stall(id)
    PROVE  OutboxIInv'
  <1>0. /\ job \in [JobId -> Job \cup {NoJob}] /\ TypeOK /\ Sizes /\ NoJob.state = "none"
        /\ UNCHANGED <<row, relay, letter, operator, told>> /\ job[id] # NoJob
    BY DEF OutboxIInv, TypeOK, Take, Complete, Fail, Stall, In, NoJob
  <1>1. PICK w : w = job[id].work /\ w \in Work /\ job[id] \in Job
    BY <1>0, JobTyped
  <1>2. Sizes' /\ \A v \in Work : \A i \in 1..Effects[v[1]] : told[v][i] > 0 => told'[v][i] > 0
    BY <1>0 DEF Sizes
  <1>3. lost \subseteq lost'
    BY DEF Take, Complete, Fail, Stall
  <1>4. \A v \in Work : Lost(v) => Lost(v)'
    BY <1>3 DEF Lost
  <1>5. CASE Take(id)
    <2>1. PICK j : j = [job[id] EXCEPT !.state = "active", !.done = 0]
      OBVIOUS
    <2>2. job' = [job EXCEPT ![id] = j]
      BY <1>0, <1>5, <2>1 DEF Take
    <2>3. j.state = "active" /\ j.done = 0 /\ j.work = w
      BY <1>1, <2>1 DEF Job
    <2>4. Progress(id)'
      <3>1. job'[id] = j
        BY <1>0, <2>2
      <3>2. Effects[w[1]] \in Nat
        BY <1>0, <1>1, JobTyped
      <3> QED
        BY <2>3, <3>1, <3>2 DEF Progress, In
    <2> QED
      BY <1>0, <1>1, <1>2, <1>4, <2>2, <2>3, <2>4, JobMoves
  <1>6. CASE Complete(id)
    <2>1. PICK j : j = [job[id] EXCEPT !.state = "completed"]
      OBVIOUS
    <2>2. job' = [job EXCEPT ![id] = j]
      BY <1>0, <1>6, <2>1 DEF Complete
    <2>3. j.state = "completed" /\ j.work = w
      BY <1>1, <2>1 DEF Job
    <2>4. Progress(id)'
      BY <1>0, <2>2, <2>3 DEF Progress, In
    <2>5. Done(w)'
      <3>1. \A i \in 1..Effects[w[1]] : told[w][i] > 0
        BY <1>1, <1>6 DEF Complete, OutboxIInv, Progress
      <3>2. DOMAIN told[w] = 1..Effects[w[1]]
        BY <1>0, <1>1 DEF Sizes
      <3> QED
        BY <1>0, <3>1, <3>2 DEF Done
    <2> QED
      BY <1>0, <1>1, <1>2, <1>4, <2>2, <2>3, <2>4, <2>5, JobMoves
  <1>7. CASE Fail(id)
    <2>1. PICK j : j = [job[id] EXCEPT !.state = "failed"]
      OBVIOUS
    <2>2. job' = [job EXCEPT ![id] = j] /\ job[id].state = "buried"
      BY <1>0, <1>7, <2>1 DEF Fail, In
    <2>3. j.state = "failed" /\ j.work = w
      BY <1>1, <2>1 DEF Job
    <2>4. Progress(id)'
      BY <1>0, <2>2, <2>3 DEF Progress, In
    <2> QED
      BY <1>0, <1>1, <1>2, <1>4, <2>2, <2>3, <2>4, JobMoves
  <1>8. CASE Stall(id)
    <2>1. CASE job' = [job EXCEPT ![id].state = "waiting", ![id].stalled = @ + 1]
      <3>1. PICK j : j = [job[id] EXCEPT !.state = "waiting", !.stalled = job[id].stalled + 1]
        OBVIOUS
      <3>2. job' = [job EXCEPT ![id] = j]
        BY <1>0, <2>1, <3>1
      <3>3. j.state = "waiting" /\ j.work = w
        BY <1>1, <3>1 DEF Job
      <3>4. Progress(id)'
        BY <1>0, <3>2, <3>3 DEF Progress, In
      <3> QED
        BY <1>0, <1>1, <1>2, <1>4, <3>2, <3>3, <3>4, JobMoves
    <2>2. CASE /\ job' = [job EXCEPT ![id].state = "failed"]
               /\ lost' = lost \cup {<<job[id].work, "stalled">>}
      <3>1. PICK j : j = [job[id] EXCEPT !.state = "failed"]
        OBVIOUS
      <3>2. job' = [job EXCEPT ![id] = j]
        BY <1>0, <2>2, <3>1
      <3>3. j.state = "failed" /\ j.work = w
        BY <1>1, <3>1 DEF Job
      <3>4. Progress(id)' /\ Lost(w)'
        BY <1>0, <1>1, <2>2, <3>2, <3>3 DEF Progress, In, Lost
      <3> QED
        BY <1>0, <1>1, <1>2, <1>4, <3>2, <3>3, <3>4, JobMoves
    <2> QED
      BY <1>8, <2>1, <2>2 DEF Stall
  <1> QED
    BY <1>5, <1>6, <1>7, <1>8

\* The steps at which an effect happens, or may have happened.
LEMMA EffectSteps ==
    ASSUME OutboxIInv, TypeOK', NEW id \in JobId, Perform(id) \/ Throw(id)
    PROVE  OutboxIInv'
  <1>0. /\ job \in [JobId -> Job \cup {NoJob}] /\ TypeOK /\ Sizes /\ NoJob.state = "none"
        /\ UNCHANGED <<row, relay, letter, operator, lost>> /\ In(id, "active") /\ job[id] # NoJob
    BY DEF OutboxIInv, TypeOK, Perform, Throw, In, NoJob
  <1>1. PICK w, k : /\ w = job[id].work /\ w \in Work /\ job[id] \in Job
                    /\ k = job[id].done + 1 /\ k \in 1..Effects[w[1]] /\ job[id].done \in Nat
    <2>1. job[id] \in Job /\ job[id].work \in Work /\ Effects[job[id].work[1]] \in Nat
      BY <1>0, JobTyped
    <2>2. job[id].done \in Nat /\ job[id].done < Effects[job[id].work[1]]
      BY <2>1 DEF Job, Perform, Throw
    <2>3. job[id].done + 1 \in 1..Effects[job[id].work[1]]
      BY <2>1, <2>2
    <2> QED
      BY <2>1, <2>2, <2>3
  <1>2. told' = told \/ told' = Once(w, k)
    BY <1>1 DEF Perform, Throw
  <1>3. /\ Sizes'
        /\ \A v \in Work : \A i \in 1..Effects[v[1]] : told[v][i] > 0 => told'[v][i] > 0
    BY <1>0, <1>1, <1>2, OnceCounts DEF Sizes
  <1>4. \A v \in Work : Lost(v) => Lost(v)'
    BY <1>0 DEF Lost
  <1>5. CASE Perform(id)
    <2>1. PICK j : j = [job[id] EXCEPT !.done = k]
      OBVIOUS
    <2>2. job' = [job EXCEPT ![id] = j]
      BY <1>0, <1>1, <1>5, <2>1 DEF Perform
    <2>3. j.state = "active" /\ j.done = k /\ j.work = w
      BY <1>0, <1>1, <2>1 DEF Job, In
    <2>4. Progress(id)'
      <3>1. job'[id] = j
        BY <1>0, <2>2
      <3>2. told'[w][k] > 0
        BY <1>0, <1>1, <1>5, OnceCounts DEF Perform
      <3>3. \A i \in 1..job[id].done : told[w][i] > 0 /\ i \in 1..Effects[w[1]]
        <4>1. \A i \in 1..job[id].done : told[w][i] > 0
          BY <1>0, <1>1 DEF OutboxIInv, Progress
        <4>2. Effects[w[1]] \in Nat
          BY <1>0, <1>1, JobTyped
        <4> QED
          BY <1>1, <4>1, <4>2
      <3>4. \A i \in 1..k : i = k \/ i \in 1..job[id].done
        BY <1>1
      <3>5. \A i \in 1..k : told'[w][i] > 0
        BY <1>1, <1>3, <3>2, <3>3, <3>4
      <3>6. k <= Effects[w[1]]
        BY <1>1
      <3> QED
        BY <2>3, <3>1, <3>5, <3>6 DEF Progress, In
    <2> QED
      BY <1>0, <1>1, <1>3, <1>4, <2>2, <2>3, <2>4, JobMoves
  <1>6. CASE Throw(id)
    <2>1. PICK j : j = IF job[id].attempts + 1 < MaxAttempts
                       THEN [job[id] EXCEPT !.state = "waiting", !.attempts = job[id].attempts + 1]
                       ELSE [job[id] EXCEPT !.state = "dying"]
      OBVIOUS
    <2>2. job' = [job EXCEPT ![id] = j]
      <3>1. CASE job[id].attempts + 1 < MaxAttempts
        BY <1>0, <1>6, <2>1, <3>1 DEF Throw
      <3>2. CASE ~(job[id].attempts + 1 < MaxAttempts)
        BY <1>0, <1>6, <2>1, <3>2 DEF Throw
      <3> QED
        BY <3>1, <3>2
    <2>3. j.state \in {"waiting", "dying"} /\ j.work = w
      BY <1>1, <2>1 DEF Job
    <2>4. Progress(id)'
      BY <1>0, <2>2, <2>3 DEF Progress, In
    <2> QED
      BY <1>0, <1>1, <1>3, <1>4, <2>2, <2>3, <2>4, JobMoves
  <1> QED
    BY <1>5, <1>6

\* A job that has used up its attempts leaves a letter, which is open since its
\* name is new, or a line in the log.
LEMMA BuryStep ==
    ASSUME OutboxIInv, TypeOK', NEW id \in JobId, Bury(id)
    PROVE  OutboxIInv'
  <1>0. /\ job \in [JobId -> Job \cup {NoJob}] /\ TypeOK /\ Sizes /\ NoJob.state = "none"
        /\ letter \in [Letter -> {Blank} \cup [work : Work, replayed : BOOLEAN]]
        /\ UNCHANGED <<row, relay, operator, told>> /\ job[id] # NoJob /\ NoLetter \notin Letter
        /\ operator \in [Operator -> [letter : Letter \cup {NoLetter}, enqueued : BOOLEAN]]
    BY OutboxConstants DEF OutboxIInv, TypeOK, Bury, In, NoJob
  <1>1. PICK w, j : /\ w = job[id].work /\ w \in Work /\ job[id] \in Job
                    /\ j = [job[id] EXCEPT !.state = "buried"]
    BY <1>0, JobTyped
  <1>2. job' = [job EXCEPT ![id] = j] /\ j.state = "buried" /\ j.work = w /\ j # NoJob
    BY <1>0, <1>1 DEF Bury, Job
  <1>3. /\ job'[id] = j /\ \A k \in JobId \ {id} : job'[k] = job[k]
        /\ \A k \in JobId : job'[k] = NoJob <=> job[k] = NoJob
        /\ \A k \in JobId : job'[k].work = job[k].work
    BY <1>0, <1>1, <1>2
  <1>4. CASE /\ lost' = lost \cup {<<job[id].work, "unwritten">>}
             /\ UNCHANGED letter
    <2>1. Sizes' /\ \A v \in Work : \A i \in 1..Effects[v[1]] : told[v][i] > 0 => told'[v][i] > 0
      BY <1>0 DEF Sizes
    <2>2. (\A v \in Work : Lost(v) => Lost(v)') /\ Lost(w)'
      BY <1>1, <1>4 DEF Lost
    <2>3. Progress(id)'
      BY <1>2, <1>3 DEF Progress, In
    <2> QED
      BY <1>0, <1>1, <1>2, <1>4, <2>1, <2>2, <2>3, JobMoves
  <1>5. ASSUME NEW l \in Letter, letter[l] = Blank, UNCHANGED lost,
               letter' = [letter EXCEPT ![l].work = job[id].work]
        PROVE  OutboxIInv'
    <2>1. /\ letter'[l].work = w /\ letter'[l].replayed = FALSE
          /\ \A m \in Letter \ {l} : letter'[m] = letter[m]
      BY <1>0, <1>1, <1>5 DEF Blank
    <2>2. /\ job[ReplayJob(l)] = NoJob
          /\ \A o \in Operator : operator[o].letter # l
      BY <1>0, <1>5, JobNames DEF OutboxIInv, NamedFor, Looking
    <2>3. OpenFor(w, l)'
      BY <1>0, <1>3, <2>1, <2>2, JobNames DEF OpenFor
    <2>4. \A v \in Work, m \in Letter \ {l} : OpenFor(v, m) => OpenFor(v, m)'
      BY <1>0, <1>3, <2>1, JobNames DEF OpenFor
    <2>5. \A v \in Work : ~OpenFor(v, l)
      <3>1. \A v \in Work : v # <<>>
        BY DEF Work
      <3> QED
        BY <1>5, <3>1 DEF OpenFor, Blank
    <2>6. \A v \in Work : Alive(v) => Alive(v)' \/ v = w
      BY <1>1, <1>3 DEF Alive
    <2>7. \A v \in Work : Safe(v) => Safe(v)'
      BY <1>0, <1>5, <2>3, <2>4, <2>5, <2>6 DEF Safe, Done, Lost
    <2>8. ASSUME NEW v \in Work, Known(v)' PROVE Known(v)
      <3>1. Known(w)
        BY <1>0, <1>1 DEF Known
      <3>2. CASE v = w
        BY <3>1, <3>2
      <3>3. CASE v # w
        BY <1>0, <1>3, <2>1, <2>8, <3>3 DEF Known
      <3> QED
        BY <3>2, <3>3
    <2>9. Sizes' /\ Publishing' /\ Looking'
      BY <1>0, <2>1, <2>2 DEF OutboxIInv, Sizes, Publishing, Looking
    <2>10. ASSUME NEW k \in JobId PROVE NamedFor(k)' /\ Progress(k)'
      <3>1. Progress(k)'
        BY <1>0, <1>2, <1>3 DEF OutboxIInv, Progress, In
      <3>2. \A m \in Letter : k = ReplayJob(m) /\ job[k] # NoJob => m # l
        BY <2>2
      <3>3. NamedFor(k)'
        BY <1>3, <2>1, <3>2 DEF OutboxIInv, NamedFor
      <3> QED
        BY <3>1, <3>3
    <2> QED
      BY <2>7, <2>8, <2>9, <2>10 DEF OutboxIInv
  <1> QED
    BY <1>4, <1>5 DEF Bury

\* The queue forgets finished jobs: nothing was safe because of one.
LEMMA RemoveStep ==
    ASSUME OutboxIInv, TypeOK', NEW id \in JobId, Remove(id)
    PROVE  OutboxIInv'
  <1>0. /\ job \in [JobId -> Job \cup {NoJob}]
        /\ job' = [job EXCEPT ![id] = NoJob] /\ job[id].state \in {"completed", "failed"}
        /\ UNCHANGED <<row, relay, letter, operator, told, lost>>
    BY DEF OutboxIInv, TypeOK, Remove
  <1>1. job'[id] = NoJob /\ \A k \in JobId \ {id} : job'[k] = job[k]
    BY <1>0
  <1>2. \A w \in Work : (Safe(w) => Safe(w)') /\ (Known(w)' => Known(w))
    <2>1. \A w \in Work : Alive(w) => Alive(w)'
      BY <1>0, <1>1 DEF Alive
    <2>2. \A w \in Work, l \in Letter : OpenFor(w, l) => OpenFor(w, l)'
      BY <1>0, <1>1, JobNames DEF OpenFor
    <2> QED
      BY <1>0, <1>1, <2>1, <2>2 DEF Safe, Known, Done, Lost
  <1>3. Sizes' /\ Looking' /\ Publishing'
    BY <1>0 DEF OutboxIInv, Sizes, Looking, Publishing
  <1>4. \A k \in JobId : NamedFor(k)' /\ Progress(k)'
    BY <1>0, <1>1 DEF OutboxIInv, NamedFor, Progress, In
  <1> QED
    BY <1>2, <1>3, <1>4 DEF OutboxIInv

----------------------------------------------------------------------------
(* Types                                                                   *)

ToldSet == UNION {[1..k -> 0..MaxTold] : k \in {Effects[q] : q \in Queue}}

LEMMA ToldTyped ==
    ASSUME TypeOK, Sizes, NEW w \in Work, NEW i \in 1..Effects[w[1]]
    PROVE  Once(w, i) \in [Work -> ToldSet]
  <1>1. \A v \in Work : Once(w, i)[v] \in [1..Effects[v[1]] -> 0..MaxTold]
    BY OnceCounts
  <1>2. \A v \in Work : [1..Effects[v[1]] -> 0..MaxTold] \subseteq ToldSet
    BY WorkParts DEF ToldSet
  <1>3. DOMAIN Once(w, i) = Work /\ Once(w, i) = [v \in Work |-> Once(w, i)[v]]
    BY DEF Once, TypeOK
  <1> QED
    BY <1>1, <1>2, <1>3

\* The fields a step of a relay writes keep their types.
LEMMA RelayTypes ==
    ASSUME OutboxIInv, NEW n \in Relay,
           \/ Claim(n) \/ Publish(n) \/ Commit(n) \/ Rollback(n)
           \/ \E q \in Queue : CallReturns(n, q) \/ CallFails(n, q)
    PROVE  /\ relay' \in [Relay -> Batch] /\ row' \in [Event -> RowStatus]
           /\ stray' \subseteq Work /\ faults' \in 0..MaxFaults
  <1>0. /\ row \in [Event -> RowStatus] /\ relay \in [Relay -> Batch] /\ stray \subseteq Work
        /\ faults \in 0..MaxFaults /\ MaxFaults \in Nat
    BY OutboxConstants DEF OutboxIInv, TypeOK
  <1>1. PICK b : b = relay[n] /\ b \in Batch
    BY <1>0
  <1>2. Strays(n) \subseteq Work
    <2>1. CASE b.calls = {}
      BY <1>1, <2>1 DEF Strays
    <2>2. CASE b.calls # {}
      <3>1. b.now \in Event /\ b.calls \subseteq Queue
        BY <1>1, <2>2 DEF OutboxIInv, Publishing, Batch
      <3> QED
        BY <1>1, <3>1 DEF Strays, Work
    <2> QED
      BY <2>1, <2>2
  <1>3. faults' \in 0..MaxFaults
    <2>1. UNCHANGED faults \/ Fault
      BY DEF Claim, Publish, Commit, Rollback, CallReturns, CallFails
    <2> QED
      BY <1>0, <2>1 DEF Fault
  <1>4. stray' \subseteq Work
    BY <1>0, <1>2 DEF Claim, Publish, Commit, Rollback, CallReturns, CallFails
  <1>5. row' \in [Event -> RowStatus]
    BY <1>0 DEF Claim, Publish, Commit, Rollback, CallReturns, CallFails, RowStatus
  <1>6. NoBatch \in Batch
    BY DEF NoBatch, Batch
  <1>7. relay' \in [Relay -> Batch]
    <2>1. CASE Claim(n)
      <3>1. PICK es \in SUBSET Event : relay' = [relay EXCEPT ![n].todo = es]
        BY <2>1 DEF Claim, Claimable
      <3>2. [b EXCEPT !.todo = es] \in Batch
        BY <1>1 DEF Batch
      <3> QED
        BY <1>0, <1>1, <3>1, <3>2
    <2>2. CASE Publish(n)
      <3>1. PICK e \in b.todo :
               relay' = [relay EXCEPT ![n].now = e, ![n].todo = @ \ {e}, ![n].calls = Queue]
        BY <1>1, <2>2 DEF Publish
      <3>2. [b EXCEPT !.now = e, !.todo = b.todo \ {e}, !.calls = Queue] \in Batch
        BY <1>1 DEF Batch
      <3> QED
        BY <1>0, <1>1, <3>1, <3>2
    <2>3. CASE Commit(n) \/ Rollback(n)
      BY <1>0, <1>6, <2>3 DEF Commit, Rollback
    <2>4. ASSUME NEW q \in Queue, CallReturns(n, q) PROVE relay' \in [Relay -> Batch]
      <3>1. b.calls # {}
        BY <1>1, <2>4 DEF CallReturns
      <3>2. b.now \in Event
        BY <1>1, <3>1 DEF OutboxIInv, Publishing, Batch
      <3>3. PICK c : /\ c = IF b.calls = {q}
                            THEN [b EXCEPT !.calls = {}, !.now = NoEvent,
                                           !.sent = b.sent \cup {b.now}]
                            ELSE [b EXCEPT !.calls = b.calls \ {q}]
                     /\ relay' = [relay EXCEPT ![n] = c]
        BY <1>1, <2>4 DEF CallReturns
      <3>4. c \in Batch
        BY <1>1, <3>2, <3>3 DEF Batch
      <3> QED
        BY <1>0, <3>3, <3>4
    <2>5. ASSUME NEW q \in Queue, CallFails(n, q) PROVE relay' \in [Relay -> Batch]
      <3>1. b.calls # {}
        BY <1>1, <2>5 DEF CallFails
      <3>2. b.now \in Event
        BY <1>1, <3>1 DEF OutboxIInv, Publishing, Batch
      <3>3. PICK c : /\ c = [b EXCEPT !.calls = {}, !.now = NoEvent, !.bad = b.bad \cup {b.now}]
                     /\ relay' = [relay EXCEPT ![n] = c]
        BY <1>1, <2>5 DEF CallFails
      <3>4. c \in Batch
        BY <1>1, <3>2, <3>3 DEF Batch
      <3> QED
        BY <1>0, <3>3, <3>4
    <2> QED
      BY <2>1, <2>2, <2>3, <2>4, <2>5
  <1> QED
    BY <1>3, <1>4, <1>5, <1>7

\* A new job is typed, whatever its name.
LEMMA EnqueuedTyped ==
    ASSUME TypeOK, NEW id \in JobId, NEW w \in Work
    PROVE  Enqueued(job, id, w) \in [JobId -> Job \cup {NoJob}]
  <1>1. [state |-> "waiting", work |-> w, attempts |-> 0, done |-> 0, stalled |-> 0] \in Job
    BY OutboxConstants DEF Job
  <1> QED
    BY <1>1 DEF Enqueued, TypeOK

\* The fields a step of a job writes keep their types.
LEMMA JobTypes ==
    ASSUME OutboxIInv, NEW id \in JobId, Works(id) \/ Throw(id) \/ Stall(id) \/ Remove(id)
    PROVE  /\ job' \in [JobId -> Job \cup {NoJob}] /\ told' \in [Work -> ToldSet]
           /\ lost' \subseteq Work \X {"unwritten", "stalled"} /\ faults' \in 0..MaxFaults
           /\ letter' \in [Letter -> {Blank} \cup [work : Work, replayed : BOOLEAN]]
  <1>0. /\ job \in [JobId -> Job \cup {NoJob}] /\ told \in [Work -> ToldSet]
        /\ lost \subseteq Work \X {"unwritten", "stalled"} /\ faults \in 0..MaxFaults
        /\ letter \in [Letter -> {Blank} \cup [work : Work, replayed : BOOLEAN]]
        /\ MaxFaults \in Nat /\ MaxAttempts \in Nat \ {0} /\ MaxStalled \in Nat
        /\ NoJob.state = "none"
    BY OutboxConstants DEF OutboxIInv, TypeOK, ToldSet, NoJob
  <1>1. faults' \in 0..MaxFaults
    BY <1>0 DEF Works, Take, Perform, Complete, Bury, Fail, Throw, Stall, Remove, Fault
  <1>2. job[id] # NoJob
    BY DEF Works, Take, Perform, Complete, Bury, Fail, Throw, Stall, Remove, In
  <1>3. PICK j : /\ j = job[id] /\ j \in Job /\ j.work \in Work /\ j.done \in Nat
                 /\ j.attempts \in 0..MaxAttempts - 1 /\ j.stalled \in 0..MaxStalled
                 /\ Effects[j.work[1]] \in Nat
    BY <1>2, JobTyped DEF OutboxIInv, Job
  <1>4. lost' \subseteq Work \X {"unwritten", "stalled"}
    BY <1>0, <1>3 DEF Works, Take, Perform, Complete, Bury, Fail, Throw, Stall, Remove
  <1>5. letter' \in [Letter -> {Blank} \cup [work : Work, replayed : BOOLEAN]]
    <2>1. CASE UNCHANGED letter
      BY <1>0, <2>1
    <2>2. ASSUME NEW l \in Letter, letter[l] = Blank, letter' = [letter EXCEPT ![l].work = j.work]
          PROVE  letter' \in [Letter -> {Blank} \cup [work : Work, replayed : BOOLEAN]]
      <3>1. [Blank EXCEPT !.work = j.work] \in [work : Work, replayed : BOOLEAN]
        BY <1>3 DEF Blank
      <3>2. letter' = [letter EXCEPT ![l] = [Blank EXCEPT !.work = j.work]]
        BY <1>0, <2>2
      <3> QED
        BY <1>0, <3>1, <3>2
    <2>3. Bury(id) => UNCHANGED letter \/ \E l \in Letter :
             letter[l] = Blank /\ letter' = [letter EXCEPT ![l].work = j.work]
      BY <1>3 DEF Bury
    <2> QED
      BY <2>1, <2>2, <2>3 DEF Works, Take, Perform, Complete, Fail, Throw, Stall, Remove
  <1>6. told' \in [Work -> ToldSet]
    <2>1. told' = told \/ /\ told' = Once(j.work, j.done + 1)
                          /\ j.done < Effects[j.work[1]]
      BY <1>3 DEF Works, Take, Perform, Complete, Bury, Fail, Throw, Stall, Remove
    <2>2. CASE told' = Once(j.work, j.done + 1) /\ j.done < Effects[j.work[1]]
      <3>1. j.done + 1 \in 1..Effects[j.work[1]]
        BY <1>3, <2>2
      <3> QED
        BY <1>3, <2>2, <3>1, ToldTyped DEF OutboxIInv
    <2> QED
      BY <1>0, <2>1, <2>2
  <1>7. job' \in [JobId -> Job \cup {NoJob}]
    <2>1. CASE job' = [job EXCEPT ![id] = NoJob]
      BY <1>0, <2>1
    <2>2. ASSUME NEW k \in Job, job' = [job EXCEPT ![id] = k]
          PROVE  job' \in [JobId -> Job \cup {NoJob}]
      BY <1>0, <2>2
    <2>3. CASE Take(id)
      <3>1. [j EXCEPT !.state = "active", !.done = 0] \in Job
        BY <1>3 DEF Job
      <3> QED
        BY <1>0, <1>3, <2>2, <2>3, <3>1 DEF Take
    <2>4. CASE Perform(id)
      <3>1. [j EXCEPT !.done = j.done + 1] \in Job
        BY <1>3 DEF Job
      <3> QED
        BY <1>0, <1>3, <2>2, <2>4, <3>1 DEF Perform
    <2>5. CASE Complete(id) \/ Bury(id) \/ Fail(id)
      <3>1. \A st \in {"completed", "buried", "failed"} : [j EXCEPT !.state = st] \in Job
        BY <1>3 DEF Job
      <3> QED
        BY <1>0, <1>3, <2>2, <2>5, <3>1 DEF Complete, Bury, Fail
    <2>6. CASE Throw(id)
      <3>1. PICK k : /\ k = IF j.attempts + 1 < MaxAttempts
                            THEN [j EXCEPT !.state = "waiting", !.attempts = j.attempts + 1]
                            ELSE [j EXCEPT !.state = "dying"]
                     /\ job' = [job EXCEPT ![id] = k]
        BY <1>0, <1>3, <2>6 DEF Throw
      <3>2. j.attempts + 1 < MaxAttempts => j.attempts + 1 \in 0..MaxAttempts - 1
        BY <1>0, <1>3
      <3>3. k \in Job
        BY <1>3, <3>1, <3>2 DEF Job
      <3> QED
        BY <2>2, <3>1, <3>3
    <2>7. CASE Stall(id)
      <3>1. CASE j.stalled < MaxStalled /\ job' = [job EXCEPT ![id].state = "waiting",
                                                              ![id].stalled = @ + 1]
        <4>1. j.stalled + 1 \in 0..MaxStalled
          BY <1>0, <1>3, <3>1
        <4>2. [j EXCEPT !.state = "waiting", !.stalled = j.stalled + 1] \in Job
          BY <1>3, <4>1 DEF Job
        <4>3. job' = [job EXCEPT ![id] = [j EXCEPT !.state = "waiting", !.stalled = j.stalled + 1]]
          BY <1>0, <1>3, <3>1
        <4> QED
          BY <2>2, <4>2, <4>3
      <3>2. CASE job' = [job EXCEPT ![id].state = "failed"]
        <4>1. [j EXCEPT !.state = "failed"] \in Job
          BY <1>3 DEF Job
        <4> QED
          BY <1>0, <1>3, <2>2, <3>2, <4>1
      <3> QED
        BY <1>3, <2>7, <3>1, <3>2 DEF Stall
    <2> QED
      BY <2>1, <2>3, <2>4, <2>5, <2>6, <2>7 DEF Works, Remove
  <1> QED
    BY <1>1, <1>4, <1>5, <1>6, <1>7

\* The fields a step of an operator writes keep their types.
LEMMA OperatorTypes ==
    ASSUME OutboxIInv, NEW o \in Operator,
           Requeue(o) \/ Stamp(o) \/ Interrupt(o) \/ \E l \in Letter : Look(o, l)
    PROVE  /\ job' \in [JobId -> Job \cup {NoJob}] /\ faults' \in 0..MaxFaults
           /\ letter' \in [Letter -> {Blank} \cup [work : Work, replayed : BOOLEAN]]
           /\ operator' \in [Operator -> [letter : Letter \cup {NoLetter}, enqueued : BOOLEAN]]
  <1>0. /\ job \in [JobId -> Job \cup {NoJob}] /\ faults \in 0..MaxFaults
        /\ letter \in [Letter -> {Blank} \cup [work : Work, replayed : BOOLEAN]]
        /\ operator \in [Operator -> [letter : Letter \cup {NoLetter}, enqueued : BOOLEAN]]
        /\ MaxFaults \in Nat
    BY OutboxConstants DEF OutboxIInv, TypeOK
  <1>1. AtEase \in [letter : Letter \cup {NoLetter}, enqueued : BOOLEAN]
    BY DEF AtEase
  <1>2. PICK l : /\ l = operator[o].letter /\ l \in Letter \cup {NoLetter}
                 /\ l # NoLetter => /\ letter[l] \in [work : Work, replayed : BOOLEAN]
                                    /\ letter[l].work \in Work
    BY <1>0, LetterTyped DEF OutboxIInv, Looking
  <1>3. faults' \in 0..MaxFaults
    BY <1>0 DEF Requeue, Stamp, Interrupt, Look, Fault
  <1>4. job' \in [JobId -> Job \cup {NoJob}]
    <2>1. CASE UNCHANGED job
      BY <1>0, <2>1
    <2>2. CASE Requeue(o)
      <3>1. l \in Letter /\ job' = Enqueued(job, ReplayJob(l), letter[l].work)
        BY <1>2, <2>2 DEF Requeue, ReplayJob
      <3> QED
        BY <1>2, <3>1, EnqueuedTyped, JobNames, OutboxConstants DEF OutboxIInv
    <2> QED
      BY <2>1, <2>2 DEF Stamp, Interrupt, Look
  <1>5. letter' \in [Letter -> {Blank} \cup [work : Work, replayed : BOOLEAN]]
    <2>1. CASE UNCHANGED letter
      BY <1>0, <2>1
    <2>2. CASE Stamp(o)
      <3>1. l \in Letter /\ letter' = [letter EXCEPT ![l].replayed = TRUE]
        BY <1>2, <2>2 DEF Stamp
      <3>2. [letter[l] EXCEPT !.replayed = TRUE] \in [work : Work, replayed : BOOLEAN]
        BY <1>2, <3>1, OutboxConstants
      <3> QED
        BY <1>0, <3>1, <3>2
    <2> QED
      BY <2>1, <2>2 DEF Requeue, Interrupt, Look
  <1>6. operator' \in [Operator -> [letter : Letter \cup {NoLetter}, enqueued : BOOLEAN]]
    <2>1. CASE Requeue(o)
      <3>1. operator' = [operator EXCEPT ![o].enqueued = TRUE]
        BY <2>1 DEF Requeue
      <3> QED
        BY <1>0, <3>1
    <2>2. CASE Stamp(o) \/ Interrupt(o)
      BY <1>0, <1>1, <2>2 DEF Stamp, Interrupt
    <2>3. ASSUME NEW m \in Letter, Look(o, m)
          PROVE  operator' \in [Operator -> [letter : Letter \cup {NoLetter}, enqueued : BOOLEAN]]
      BY <1>0, <2>3 DEF Look
    <2> QED
      BY <2>1, <2>2, <2>3
  <1> QED
    BY <1>3, <1>4, <1>5, <1>6

\* Every step keeps the types.
LEMMA TypesStep ==
    ASSUME OutboxIInv, [Next]_vars
    PROVE  TypeOK'
  <1>0. TypeOK
    BY DEF OutboxIInv
  <1>1. ASSUME NEW e \in Event, Write(e) \/ Purge(e) PROVE TypeOK'
    <2>1. row' \in [Event -> RowStatus]
      BY <1>0, <1>1 DEF TypeOK, Write, Purge, RowStatus
    <2> QED
      BY <1>0, <1>1, <2>1 DEF TypeOK, Write, Purge
  <1>2. ASSUME NEW n \in Relay,
               \/ Claim(n) \/ Publish(n) \/ Commit(n) \/ Rollback(n)
               \/ \E q \in Queue : CallFails(n, q)
        PROVE  TypeOK'
    <2>1. UNCHANGED <<job, letter, operator, told, lost>>
      BY <1>2 DEF Claim, Publish, Commit, Rollback, CallFails
    <2> QED
      BY <1>0, <1>2, <2>1, RelayTypes DEF TypeOK
  <1>3. ASSUME NEW n \in Relay, NEW q \in Queue, CallReturns(n, q) PROVE TypeOK'
    <2>1. /\ UNCHANGED <<letter, operator, told, lost>>
          /\ job' = Enqueued(job, EventJob(<<q, relay[n].now>>), <<q, relay[n].now>>)
          /\ relay[n].calls # {}
      BY <1>3 DEF CallReturns
    <2>2. relay[n].now \in Event
      BY <1>0, <2>1 DEF OutboxIInv, TypeOK, Publishing, Batch
    <2>3. <<q, relay[n].now>> \in Work
      BY <2>2 DEF Work
    <2>4. job' \in [JobId -> Job \cup {NoJob}]
      BY <1>0, <2>1, <2>3, EnqueuedTyped, JobNames
    <2> QED
      BY <1>0, <1>3, <2>1, <2>4, RelayTypes DEF TypeOK
  <1>4. ASSUME NEW w \in Work, StrayEnds(w) PROVE TypeOK'
    <2>1. job' \in [JobId -> Job \cup {NoJob}]
      <3>1. job' = job \/ job' = Enqueued(job, EventJob(w), w)
        BY <1>4 DEF StrayEnds
      <3>2. Enqueued(job, EventJob(w), w) \in [JobId -> Job \cup {NoJob}]
        BY <1>0, EnqueuedTyped, JobNames
      <3> QED
        BY <1>0, <3>1, <3>2 DEF TypeOK
    <2> QED
      BY <1>0, <1>4, <2>1 DEF TypeOK, StrayEnds
  <1>5. ASSUME NEW id \in JobId, Works(id) \/ Throw(id) \/ Stall(id) \/ Remove(id) PROVE TypeOK'
    <2>1. UNCHANGED <<row, relay, stray, operator>>
      BY <1>5 DEF Works, Take, Perform, Complete, Bury, Fail, Throw, Stall, Remove
    <2>2. /\ job' \in [JobId -> Job \cup {NoJob}] /\ told' \in [Work -> ToldSet]
          /\ lost' \subseteq Work \X {"unwritten", "stalled"} /\ faults' \in 0..MaxFaults
          /\ letter' \in [Letter -> {Blank} \cup [work : Work, replayed : BOOLEAN]]
      BY <1>5, JobTypes
    <2> QED
      BY <1>0, <2>1, <2>2 DEF TypeOK, ToldSet
  <1>6. ASSUME NEW o \in Operator,
               Requeue(o) \/ Stamp(o) \/ Interrupt(o) \/ \E l \in Letter : Look(o, l)
        PROVE  TypeOK'
    <2>1. UNCHANGED <<row, relay, stray, told, lost>>
      BY <1>6 DEF Requeue, Stamp, Interrupt, Look
    <2>2. /\ job' \in [JobId -> Job \cup {NoJob}] /\ faults' \in 0..MaxFaults
          /\ letter' \in [Letter -> {Blank} \cup [work : Work, replayed : BOOLEAN]]
          /\ operator' \in [Operator -> [letter : Letter \cup {NoLetter}, enqueued : BOOLEAN]]
      BY <1>6, OperatorTypes
    <2> QED
      BY <1>0, <2>1, <2>2 DEF TypeOK
  <1>7. CASE UNCHANGED vars
    BY <1>0, <1>7 DEF TypeOK, vars
  <1> QED
    BY <1>1, <1>2, <1>3, <1>4, <1>5, <1>6, <1>7 DEF Next, Relays

----------------------------------------------------------------------------
(* The outbox                                                              *)

LEMMA OutboxStart ==
    ASSUME Init
    PROVE  OutboxIInv
  <1>1. TypeOK
    <2>1. NoBatch \in Batch /\ NoJob \in Job \cup {NoJob}
      BY DEF NoBatch, Batch
    <2>2. AtEase \in [letter : Letter \cup {NoLetter}, enqueued : BOOLEAN]
      BY DEF AtEase
    <2>3. told \in [Work -> ToldSet]
      <3>1. \A w \in Work : /\ Effects[w[1]] \in {Effects[q] : q \in Queue}
                            /\ [i \in 1..Effects[w[1]] |-> 0] \in [1..Effects[w[1]] -> 0..MaxTold]
        BY WorkParts, OutboxConstants
      <3> QED
        BY <3>1 DEF Init, ToldSet
    <2>4. faults \in 0..MaxFaults
      BY OutboxConstants DEF Init
    <2> QED
      BY <2>1, <2>2, <2>3, <2>4 DEF Init, TypeOK, ToldSet, RowStatus
  <1>2. Sizes
    <2>1. \A w \in Work : [i \in 1..Effects[w[1]] |-> 0] \in [1..Effects[w[1]] -> 0..MaxTold]
      BY OutboxConstants
    <2> QED
      BY <2>1 DEF Init, Sizes
  <1>3. \A id \in JobId : NamedFor(id) /\ Progress(id)
    BY DEF Init, NamedFor, Progress, In
  <1>4. Looking /\ Publishing
    BY DEF Init, Looking, Publishing, AtEase, NoBatch
  <1>5. ASSUME NEW w \in Work PROVE ~Known(w)
    <2>1. w[2] \in Event /\ NoEvent \notin Event
      BY WorkParts, OutboxConstants
    <2>2. NoBatch.sent = {} /\ NoBatch.now = NoEvent
      BY DEF NoBatch
    <2> QED
      BY <2>1, <2>2 DEF Init, Known
  <1> QED
    BY <1>1, <1>2, <1>3, <1>4, <1>5 DEF OutboxIInv

LEMMA OutboxStep ==
    ASSUME OutboxIInv, [Next]_vars
    PROVE  OutboxIInv'
  <1>0. TypeOK'
    BY TypesStep
  <1>1. CASE \E e \in Event : Write(e) \/ Purge(e)
    BY <1>0, <1>1, RelaySteps
  <1>2. ASSUME NEW n \in Relay, Relays(n) \/ Rollback(n) \/ \E q \in Queue : CallFails(n, q)
        PROVE  OutboxIInv'
    BY <1>0, <1>2, RelaySteps, CallStep DEF Relays
  <1>3. CASE \E w \in Work : StrayEnds(w)
    BY <1>0, <1>3, StrayStep
  <1>4. ASSUME NEW id \in JobId, Works(id) \/ Throw(id) \/ Stall(id) \/ Remove(id)
        PROVE  OutboxIInv'
    BY <1>0, <1>4, JobSteps, EffectSteps, BuryStep, RemoveStep DEF Works
  <1>5. ASSUME NEW o \in Operator,
               Requeue(o) \/ Stamp(o) \/ Interrupt(o) \/ \E l \in Letter : Look(o, l)
        PROVE  OutboxIInv'
    BY <1>0, <1>5, LookStep, StampStep, RequeueStep
  <1>6. CASE UNCHANGED vars
    <2>1. UNCHANGED <<row, relay, job, letter, operator, told, lost>>
      BY <1>6 DEF vars
    <2>2. Publishing'
      BY <2>1 DEF OutboxIInv, Publishing
    <2>3. \A w \in Work : Known(w)' => Known(w)
      BY <2>1 DEF Known
    <2> QED
      BY <1>0, <2>1, <2>2, <2>3, QuietStep
  <1> QED
    BY <1>1, <1>2, <1>3, <1>4, <1>5, <1>6 DEF Next

LEMMA OutboxInvariant == Spec => []OutboxIInv
  BY OutboxStart, OutboxStep, PTL DEF Spec

\* Whatever is safe is accounted for.
LEMMA SafeAccounted ==
    ASSUME NEW w, Safe(w)
    PROVE  Accounted(w)
  BY DEF Safe, OpenFor, Accounted, Buried

\* At least once, whatever crashes and whoever replays: an event no longer kept
\* for the relay has been worked on by each consumer, or has a job or a dead
\* letter, or its loss is in the log (relay.ts, consumer.ts).
THEOREM OutboxInvHolds == Spec => []OutboxInv
  <1>1. OutboxIInv => OutboxInv
    <2> SUFFICES ASSUME OutboxIInv,
                        NEW e \in Event, NEW q \in Queue, row[e] \in {"SENT", "PURGED"}
                 PROVE  Accounted(<<q, e>>)
      BY DEF OutboxInv, NothingLost, OutboxIInv
    <2>1. <<q, e>> \in Work /\ Known(<<q, e>>)
      BY DEF Work, Known
    <2> QED
      BY <2>1, SafeAccounted DEF OutboxIInv
  <1> QED
    BY <1>1, OutboxInvariant, PTL

\* What a stamped dead letter was about is not forgotten (replayDeadLetter
\* stamps it after the work is enqueued, without looking again).
THEOREM ReplayedTakenUpHolds == Spec => []ReplayedTakenUp
  <1>1. OutboxIInv => ReplayedTakenUp
    <2> SUFFICES ASSUME OutboxIInv, NEW l \in Letter, letter[l].replayed
                 PROVE  Accounted(letter[l].work)
      BY DEF ReplayedTakenUp
    <2>1. letter[l] # Blank
      BY DEF Blank
    <2>2. letter[l].work \in Work /\ Known(letter[l].work)
      BY <2>1, LetterTyped DEF OutboxIInv, Known
    <2> QED
      BY <2>2, SafeAccounted DEF OutboxIInv
  <1> QED
    BY <1>1, OutboxInvariant, PTL

----------------------------------------------------------------------------
(* The breaker in front of the gateway                                     *)

\* The variables keep their types: in particular the counters stay below the
\* thresholds that onSuccess and onFailure compare them with.
THEOREM BreakerTypeCorrect == BreakerSpec => []BreakerTypes
  <1>1. BreakerInit => BreakerTypes
    <2> SUFFICES ASSUME BreakerInit PROVE BreakerTypes
      OBVIOUS
    <2>1. probing \in BOOLEAN /\ cooled \in BOOLEAN
      BY Zenon DEF BreakerInit
    <2>2. state \in CircuitState /\ failures \in 0..FailureThreshold
            /\ successes \in 0..SuccessThreshold
      BY BreakerConstants DEF BreakerInit, CircuitState
    <2>3. call \in [Call -> {"none", "normal", "probe"}]
      BY DEF BreakerInit
    <2>4. QED
      BY <2>1, <2>2, <2>3 DEF BreakerTypes
  <1>2. BreakerTypes /\ [BreakerNext]_breaker => BreakerTypes'
    <2> SUFFICES ASSUME BreakerTypes, [BreakerNext]_breaker PROVE BreakerTypes'
      OBVIOUS
    <2>1. CASE Cool
      BY <2>1 DEF Cool, BreakerTypes, CircuitState
    <2>2. ASSUME NEW c \in Call, Start(c) PROVE BreakerTypes'
      <3>1. probing' \in BOOLEAN /\ cooled' \in BOOLEAN
        BY <2>2, Zenon DEF Start, Pass, HalfOpen, Probe,
                           BreakerTypes
      <3>2. state' \in CircuitState /\ failures' \in 0..FailureThreshold
              /\ successes' \in 0..SuccessThreshold
        BY <2>2, BreakerConstants DEF Start, Pass, HalfOpen,
                    Probe, BreakerTypes, CircuitState
      <3>3. call' \in [Call -> {"none", "normal", "probe"}]
        BY <2>2 DEF Start, Pass, HalfOpen, Probe, BreakerTypes
      <3>4. QED
        BY <3>1, <3>2, <3>3 DEF BreakerTypes
    <2>3. ASSUME NEW c \in Call, Finish(c) PROVE BreakerTypes'
      <3>1. probing' \in BOOLEAN /\ cooled' \in BOOLEAN
        BY <2>3, Zenon DEF Finish, Succeed, Break, Excuse,
                           Close, Open, BreakerTypes
      <3>2. state' \in CircuitState /\ failures' \in 0..FailureThreshold
              /\ successes' \in 0..SuccessThreshold
        BY <2>3, BreakerConstants DEF Finish, Succeed, Break,
                    Excuse, Close, Open, BreakerTypes,
                    CircuitState
      <3>3. call' \in [Call -> {"none", "normal", "probe"}]
        BY <2>3 DEF Finish, Succeed, Break, Excuse,
                    Ends, BreakerTypes
      <3>4. QED
        BY <3>1, <3>2, <3>3 DEF BreakerTypes
    <2>4. CASE UNCHANGED breaker
      BY <2>4 DEF breaker, BreakerTypes
    <2>5. QED
      BY <2>1, <2>2, <2>3, <2>4 DEF BreakerNext
  <1>3. QED
    BY <1>1, <1>2, PTL DEF BreakerSpec

\* As long as a half-open breaker turns calls away, the probe it turns them away
\* for is under way, so that its end will be noticed.  Every end of a call in
\* HALF_OPEN lowers the flag or leaves the state, which is why a probe and its
\* flag cannot part company in the direction that would block the breaker.
THEOREM ProbeIsUnderWay == BreakerSpec => []ProbeUnderWay
  <1>1. BreakerInit => ProbeUnderWay
    BY DEF BreakerInit, ProbeUnderWay
  <1>2. BreakerTypes /\ ProbeUnderWay /\ [BreakerNext]_breaker
          => ProbeUnderWay'
    <2> SUFFICES ASSUME BreakerTypes, ProbeUnderWay, [BreakerNext]_breaker
                 PROVE  ProbeUnderWay'
      OBVIOUS
    <2> USE DEF BreakerTypes, ProbeUnderWay, Probes
    <2>1. CASE Cool
      BY <2>1 DEF Cool
    <2>2. ASSUME NEW c \in Call, Pass(c) PROVE ProbeUnderWay'
      BY <2>2 DEF Pass
    <2>3. ASSUME NEW c \in Call, HalfOpen(c) \/ Probe(c)
          PROVE  ProbeUnderWay'
      <3>1. call'[c] = "probe"
        BY <2>3 DEF HalfOpen, Probe
      <3>2. QED
        BY <3>1
    <2>4. ASSUME NEW c \in Call, Succeed(c) PROVE ProbeUnderWay'
      BY <2>4 DEF Succeed, Close
    <2>5. ASSUME NEW c \in Call, Break(c) PROVE ProbeUnderWay'
      <3>1. CASE state = "HALF_OPEN"
        BY <2>5, <3>1 DEF Break, Open
      <3>2. CASE state # "HALF_OPEN"
        BY <2>5, <3>2 DEF Break, Open
      <3>3. QED
        BY <3>1, <3>2
    <2>6. ASSUME NEW c \in Call, Excuse(c) PROVE ProbeUnderWay'
      BY <2>6 DEF Excuse
    <2>7. CASE UNCHANGED breaker
      BY <2>7 DEF breaker
    <2>8. QED
      BY <2>1, <2>2, <2>3, <2>4, <2>5, <2>6, <2>7
      DEF BreakerNext, Start, Finish
  <1>3. QED
    BY <1>1, <1>2, BreakerTypeCorrect, PTL DEF BreakerSpec

\* Both hold: whatever late results come in, the counters stay below their
\* thresholds, and a half-open breaker that refuses calls has a probe under way.
THEOREM BreakerInvHolds == BreakerSpec => []BreakerInv
  <1>1. BreakerTypes /\ ProbeUnderWay => BreakerInv
    BY DEF BreakerInv
  <1> QED
    BY <1>1, BreakerTypeCorrect, ProbeIsUnderWay, PTL

----------------------------------------------------------------------------
(* The invariant of the screening                                          *)

Posted == {postings[i] : i \in DOMAIN postings}

\* A voucher is posted once, and has a job from then on.
PostingsTell ==
    /\ \A i, j \in DOMAIN postings : postings[i] = postings[j] => i = j
    /\ \A v \in Voucher :
          /\ v \in Posted <=> InBooks(v) /\ voucher[v].status # "PENDING_AUTH"
          /\ v \in Posted <=> evaluation[v].phase # "none"

\* A job that is not under way holds nothing back.
IdleJobs ==
    \A v \in Voucher :
        /\ evaluation[v].phase = "none" => evaluation[v] = NoEvaluation
        /\ evaluation[v].phase = "done" => evaluation[v].todo = {} /\ evaluation[v].found = Nothing

\* What AlertsProven says of one alert, raised or only found.
Proven(a) == \E vs \in SUBSET Posted : Carries(vs, a)

FoundProven == \A v \in Voucher : evaluation[v].found # Nothing => Proven(evaluation[v].found)

\* The window that v looks at for c and r, and what it holds of the vouchers that
\* were posted before v, or v itself.
WindowOf(v, c, r) == [rule |-> r, customer |-> c, to |-> voucher[v].day]
UpTo(v, c, r)     == {x \in Contributors(c, r, voucher[v].day) : Nth(x) <= Nth(v)}

\* It is alerted, or will be before the job looks further.
Heard(v, c, r) ==
    \/ Alerted(WindowOf(v, c, r))
    \/ evaluation[v].found # Nothing /\ evaluation[v].found.key = WindowOf(v, c, r)

\* A job that is through with a window has seen every voucher posted before its
\* own, so the window is heard of if those that still count cross its threshold.
\* What is posted later is the matter of later jobs.
LookedAtBy(v) ==
    evaluation[v].phase \in {"active", "done"} =>
        \A c \in Parties(v), r \in Rule :
            <<c, r>> \notin evaluation[v].todo /\ Crossed(c, r, UpTo(v, c, r)) => Heard(v, c, r)

LookedAt == \A v \in Voucher : LookedAtBy(v)

AmlIInv ==
    /\ AmlTypes /\ PostingsTell /\ IdleJobs
    /\ AlertsProven /\ FoundProven /\ LookedAt

\* What every step does to the books: what is posted keeps its day and lines, is
\* not brought back from its reversal, and what comes is posted after it.
Onward ==
    /\ Posted \subseteq Posted'
    /\ \A x \in Posted : /\ voucher'[x].day = voucher[x].day
                         /\ voucher'[x].entry = voucher[x].entry
                         /\ voucher'[x].status = "POSTED" => voucher[x].status = "POSTED"
                         /\ Nth(x)' = Nth(x)
    /\ \A x \in Posted' \ Posted : \A y \in Posted : Nth(y) < Nth(x)'

----------------------------------------------------------------------------
(* Vouchers, windows and what they add up to                               *)

\* The legs of a reversal, and of its reversal, are amounts of the customers.
LEMMA LegsType == \A e \in Legs : e \in EntryType /\ Contra(e) \in Legs
  <1>1. ASSUME NEW e \in EntryType PROVE Contra(e) \in EntryType /\ Contra(Contra(e)) = e
    <2>1. PICK t \in {"CASH", "TRANSFER"}, d \in [Customer -> Nat], k \in [Customer -> Nat] :
             e = [type |-> t, debit |-> d, credit |-> k]
      BY DEF EntryType
    <2>2. Contra(e) = [type |-> t, debit |-> k, credit |-> d]
      BY <2>1 DEF Contra
    <2>3. Contra(Contra(e)) = e
      BY <2>1, <2>2 DEF Contra
    <2> QED
      BY <2>2, <2>3 DEF EntryType
  <1>2. Entry \subseteq EntryType
    BY AmlConstants
  <1> QED
    BY <1>1, <1>2 DEF Legs

\* A voucher with a row has the columns of one.
LEMMA RowOf ==
    ASSUME AmlTypes, NEW v \in Voucher, InBooks(v)
    PROVE  /\ voucher[v] \in Row /\ voucher[v].day \in Day
           /\ voucher[v].status \in {"PENDING_AUTH", "POSTED", "REVERSED"}
           /\ voucher[v].entry \in EntryType /\ voucher[v].entry \in Legs
           /\ \A c \in Customer : voucher[v].entry.debit[c] \in Nat
                                  /\ voucher[v].entry.credit[c] \in Nat
  <1>1. voucher[v] \in Row
    BY DEF AmlTypes, InBooks
  <1>2. voucher[v].entry \in Legs
    BY <1>1 DEF Row
  <1>3. voucher[v].entry \in EntryType
    BY <1>2, LegsType
  <1> QED
    BY <1>1, <1>2, <1>3 DEF Row, EntryType

\* What has been posted is in the books.
LEMMA PostedInBooks ==
    ASSUME AmlTypes, PostingsTell, NEW v \in Posted
    PROVE  v \in Voucher /\ InBooks(v) /\ evaluation[v].phase # "none"
  <1>1. v \in Voucher
    BY DEF Posted, AmlTypes
  <1> QED
    BY <1>1 DEF PostingsTell

\* Nth is the place of a posting.
LEMMA NthOf ==
    ASSUME AmlTypes, NEW v \in Posted
    PROVE  Nth(v) \in 1..Len(postings) /\ Nth(v) \in Nat /\ postings[Nth(v)] = v
  <1>1. PICK i \in DOMAIN postings : postings[i] = v
    BY DEF Posted
  <1>2. Nth(v) \in DOMAIN postings /\ postings[Nth(v)] = v
    BY <1>1 DEF Nth
  <1>3. DOMAIN postings = 1..Len(postings) /\ Len(postings) \in Nat
    BY DEF AmlTypes
  <1> QED
    BY <1>2, <1>3

\* The same in the next state.
LEMMA NthNext ==
    ASSUME AmlTypes', NEW v \in Posted'
    PROVE  Nth(v)' \in Nat /\ postings'[Nth(v)'] = v
  <1>1. PICK i \in DOMAIN postings' : postings'[i] = v
    BY DEF Posted
  <1>2. Nth(v)' \in DOMAIN postings' /\ postings'[Nth(v)'] = v
    BY <1>1 DEF Nth
  <1>3. DOMAIN postings' = 1..Len(postings') /\ Len(postings') \in Nat
    BY DEF AmlTypes
  <1> QED
    BY <1>2, <1>3

\* What counts for a window has been posted.
LEMMA ContributorsPosted ==
    ASSUME AmlTypes, PostingsTell, NEW c, NEW r, NEW to
    PROVE  Contributors(c, r, to) \subseteq Posted /\ Contributors(c, r, to) \subseteq Voucher
  BY DEF Contributors, WithStatus, PostingsTell

\* Vouchers of the books pay an amount, and more of them pay no less.
LEMMA PaidMore ==
    ASSUME AmlTypes, NEW c \in Customer, NEW ws \in SUBSET Voucher, \A w \in ws : InBooks(w),
           NEW vs \in SUBSET ws
    PROVE  Paid(c, ws) \in Nat /\ Paid(c, vs) \in Nat /\ Paid(c, vs) <= Paid(c, ws)
  <1> DEFINE f == [w \in ws |-> voucher[w].entry.debit[c]]
             g == [w \in vs |-> voucher[w].entry.debit[c]]
  <1>1. IsFiniteSet(ws) /\ IsFiniteSet(vs) /\ IsFiniteSet(ws \ vs)
    BY AmlConstants, FS_Subset
  <1>2. \A w \in ws : f[w] \in Nat
    BY RowOf
  <1>3. DOMAIN f = ws /\ DOMAIN g = vs /\ \A w \in vs : f[w] = g[w]
    OBVIOUS
  <1>4. Paid(c, ws) = SumFunctionOnSet(f, ws) /\ Paid(c, vs) = SumFunctionOnSet(g, vs)
    BY <1>3 DEF Paid, SumFunction
  <1> HIDE DEF f, g
  <1>5. SumFunctionOnSet(f, vs) = SumFunctionOnSet(g, vs)
    BY <1>1, <1>3, SumSame
  <1>6. Summable(f, ws)
    BY <1>1, <1>2 DEF Summable
  <1>7. SumFunctionOnSet(f, ws) = SumFunctionOnSet(f, vs) + SumFunctionOnSet(f, ws \ vs)
    BY <1>6, SumSplit
  <1>8. SumFunctionOnSet(f, vs) \in Nat /\ SumFunctionOnSet(f, ws \ vs) \in Nat
    BY <1>1, <1>2, SumNat
  <1> QED
    BY <1>4, <1>5, <1>7, <1>8

\* More vouchers cross what fewer cross.
LEMMA CrossedMore ==
    ASSUME AmlTypes, NEW c \in Customer, NEW r \in Rule,
           NEW ws \in SUBSET Voucher, \A w \in ws : InBooks(w),
           NEW vs \in SUBSET ws, Crossed(c, r, vs)
    PROVE  Crossed(c, r, ws)
  <1>1. Paid(c, ws) \in Nat /\ Paid(c, vs) \in Nat /\ Paid(c, vs) <= Paid(c, ws)
    BY PaidMore
  <1>2. IsFiniteSet(ws)
    BY AmlConstants, FS_Subset
  <1>3. Cardinality(vs) \in Nat /\ Cardinality(ws) \in Nat /\ Cardinality(vs) <= Cardinality(ws)
    BY <1>2, FS_Subset, FS_CardinalityType
  <1>4. Threshold[r] \in Nat /\ MinCount[r] \in Nat
    BY AmlConstants
  <1> QED
    BY <1>1, <1>3, <1>4 DEF Crossed

----------------------------------------------------------------------------
(* What a step of the books leaves of the evidence                         *)

\* Vouchers that are posted pay and cross what they did.
LEMMA CrossedOnward ==
    ASSUME Onward, NEW c, NEW r, NEW vs \in SUBSET Posted
    PROVE  Paid(c, vs)' = Paid(c, vs) /\ Crossed(c, r, vs)' = Crossed(c, r, vs)
  <1>1. [x \in vs |-> voucher'[x].entry.debit[c]] = [x \in vs |-> voucher[x].entry.debit[c]]
    BY DEF Onward
  <1>2. Paid(c, vs)' = Paid(c, vs)
    BY <1>1 DEF Paid
  <1> QED
    BY <1>2 DEF Crossed

\* An alert that was proven stays proven, by the same vouchers.
LEMMA CarriesOnward ==
    ASSUME Onward, NEW a, NEW vs \in SUBSET Posted, Carries(vs, a)
    PROVE  Carries(vs, a)'
  <1>1. /\ Paid(a.key.customer, vs)' = Paid(a.key.customer, vs)
        /\ Crossed(a.key.customer, a.key.rule, vs)' = Crossed(a.key.customer, a.key.rule, vs)
    BY CrossedOnward
  <1>2. \A v \in vs : voucher'[v].day = voucher[v].day
    BY DEF Onward
  <1>3. \A v \in vs : Within(voucher'[v].day, a.key.rule, a.key.to)
    BY <1>2 DEF Carries
  <1>4. /\ a.total = Paid(a.key.customer, vs)' /\ a.count = Cardinality(vs)
        /\ Crossed(a.key.customer, a.key.rule, vs)' /\ a.vouchers \in Listings(vs)
    BY <1>1 DEF Carries
  <1>5. Carries(vs, a)' <=>
          /\ \A v \in vs : Within(voucher'[v].day, a.key.rule, a.key.to)
          /\ a.total = Paid(a.key.customer, vs)' /\ a.count = Cardinality(vs)
          /\ Crossed(a.key.customer, a.key.rule, vs)'
          /\ a.vouchers \in Listings(vs)
    BY DEF Carries, Within, Listings
  <1> QED
    BY <1>3, <1>4, <1>5

LEMMA ProvenOnward ==
    ASSUME Onward, NEW a, Proven(a)
    PROVE  Proven(a)'
  <1>1. PICK vs \in SUBSET Posted : Carries(vs, a)
    BY DEF Proven
  <1>2. vs \in SUBSET Posted'
    BY DEF Onward
  <1> QED
    BY <1>1, <1>2, CarriesOnward DEF Proven

\* The window of a posted voucher gains nothing posted before it.
LEMMA UpToOnward ==
    ASSUME AmlTypes, AmlTypes', PostingsTell, PostingsTell', Onward, NEW v \in Posted,
           NEW c, NEW r
    PROVE  /\ UpTo(v, c, r)' \subseteq UpTo(v, c, r)
           /\ WindowOf(v, c, r)' = WindowOf(v, c, r)
           /\ Parties(v)' = Parties(v)
  <1>1. voucher'[v].day = voucher[v].day /\ voucher'[v].entry = voucher[v].entry
        /\ Nth(v)' = Nth(v) /\ v \in Posted'
    BY DEF Onward
  <1>2. ASSUME NEW x \in UpTo(v, c, r)' PROVE x \in UpTo(v, c, r)
    <2>1. x \in Voucher /\ InBooks(x)' /\ voucher'[x].status = "POSTED"
          /\ Counts(x, c, r)' /\ Within(voucher'[x].day, r, voucher'[v].day)
          /\ Nth(x)' <= Nth(v)'
      BY DEF UpTo, Contributors, WithStatus, InBooks, Within
    <2>2. x \in Posted'
      BY <2>1 DEF PostingsTell
    <2>3. x \in Posted
      <3>1. Nth(x)' \in Nat /\ Nth(v) \in Nat
        BY <2>2, NthOf, NthNext
      <3>2. x \notin Posted => Nth(v) < Nth(x)'
        BY <2>2 DEF Onward
      <3> QED
        BY <1>1, <2>1, <3>1, <3>2
    <2>4. voucher[x].day = voucher'[x].day /\ voucher[x].entry = voucher'[x].entry
          /\ voucher[x].status = "POSTED" /\ Nth(x) = Nth(x)'
      BY <2>1, <2>3 DEF Onward
    <2>5. InBooks(x)
      BY <2>3, PostedInBooks
    <2> QED
      BY <1>1, <2>1, <2>4, <2>5 DEF UpTo, Contributors, WithStatus, Counts, Within
  <1> QED
    BY <1>1, <1>2 DEF WindowOf, Parties

\* A window that was heard of is heard of as long as its job keeps what it found.
LEMMA StillLookedAt ==
    ASSUME AmlIInv, AmlTypes', PostingsTell', Onward, alert \subseteq alert', NEW v \in Voucher,
           \/ evaluation'[v].phase \notin {"active", "done"}
           \/ /\ evaluation[v].phase \in {"active", "done"}
              /\ evaluation'[v].todo = evaluation[v].todo
              /\ evaluation'[v].found = evaluation[v].found
    PROVE  LookedAtBy(v)'
  <1> USE DEF AmlIInv
  <1>1. CASE evaluation'[v].phase \notin {"active", "done"}
    BY <1>1 DEF LookedAtBy
  <1>2. CASE /\ evaluation[v].phase \in {"active", "done"}
             /\ evaluation'[v].todo = evaluation[v].todo
             /\ evaluation'[v].found = evaluation[v].found
    <2>1. v \in Posted
      BY <1>2 DEF PostingsTell
    <2>2. Parties(v)' = Parties(v) /\ Parties(v) \subseteq Customer
      BY <2>1, UpToOnward DEF Parties
    <2> SUFFICES ASSUME NEW c \in Parties(v), NEW r \in Rule,
                        <<c, r>> \notin evaluation[v].todo, Crossed(c, r, UpTo(v, c, r))'
                 PROVE  Heard(v, c, r)'
      BY <1>2, <2>2 DEF LookedAtBy
    <2>3. PICK w, u : w = UpTo(v, c, r)' /\ u = UpTo(v, c, r)
      OBVIOUS
    <2>4. Crossed(c, r, w)'
      BY <2>3 DEF Crossed, Paid
    <2>5. w \in SUBSET u
      BY <2>1, <2>3, UpToOnward
    <2>6. u \subseteq Posted /\ u \in SUBSET Voucher /\ \A x \in u : InBooks(x)
      BY <2>3, ContributorsPosted, PostedInBooks DEF UpTo
    <2>7. Crossed(c, r, w)
      BY <2>4, <2>5, <2>6, CrossedOnward
    <2>8. Crossed(c, r, u)
      BY <2>2, <2>5, <2>6, <2>7, CrossedMore
    <2>9. Heard(v, c, r)
      BY <1>2, <2>3, <2>8 DEF LookedAt, LookedAtBy
    <2>10. WindowOf(v, c, r)' = WindowOf(v, c, r)
      BY <2>1, UpToOnward
    <2> QED
      BY <1>2, <2>9, <2>10 DEF Heard, Alerted
  <1> QED
    BY <1>1, <1>2

----------------------------------------------------------------------------
(* Steps of the books                                                      *)

\* What Announce does, posted or not, for a voucher not posted before.
LEMMA AnnounceStep ==
    ASSUME AmlTypes, PostingsTell, NEW v \in Voucher \ Posted, NEW posted \in BOOLEAN,
           Announce(v, posted)
    PROVE  /\ postings' \in Seq(Voucher)
           /\ \A i, j \in DOMAIN postings' : postings'[i] = postings'[j] => i = j
           /\ Posted' = IF posted THEN Posted \cup {v} ELSE Posted
           /\ \A x \in Posted : Nth(x)' = Nth(x)
           /\ posted => \A x \in Posted : Nth(x) < Nth(v)'
           /\ evaluation' = [evaluation EXCEPT ![v] = IF posted THEN Queued ELSE @]
  <1>1. CASE ~posted
    <2>1. postings' = postings
      BY <1>1 DEF Announce
    <2> QED
      BY <1>1, <2>1 DEF Announce, Posted, Nth, AmlTypes, PostingsTell
  <1>2. CASE posted
    <2>1. postings' = Append(postings, v) /\ postings \in Seq(Voucher) /\ Len(postings) \in Nat
      BY <1>2 DEF Announce, AmlTypes
    <2>2. /\ postings' \in Seq(Voucher)
          /\ Len(postings') = Len(postings) + 1
          /\ DOMAIN postings = 1..Len(postings)
          /\ DOMAIN postings' = 1..Len(postings) + 1
          /\ \A i \in 1..Len(postings) : postings'[i] = postings[i]
          /\ postings'[Len(postings) + 1] = v
      BY <2>1
    <2>3. \A i \in 1..Len(postings) : postings[i] # v
      BY <2>2 DEF Posted
    <2>4. \A i, j \in DOMAIN postings' : postings'[i] = postings'[j] => i = j
      <3>1. \A i, j \in 1..Len(postings) : postings[i] = postings[j] => i = j
        BY <2>2 DEF PostingsTell
      <3>2. \A i \in 1..Len(postings) + 1 : i \in 1..Len(postings) \/ i = Len(postings) + 1
        BY <2>1
      <3> QED
        BY <2>2, <2>3, <3>1, <3>2
    <2>5. Posted' = Posted \cup {v}
      <3>1. 1..Len(postings) + 1 = 1..Len(postings) \cup {Len(postings) + 1}
        BY <2>1
      <3> QED
        BY <2>2, <3>1 DEF Posted
    <2>6. ASSUME NEW x \in Posted PROVE Nth(x)' = Nth(x)
      <3>1. Nth(x) \in 1..Len(postings) /\ postings[Nth(x)] = x
        BY NthOf
      <3>2. Nth(x) \in DOMAIN postings' /\ postings'[Nth(x)] = x
        BY <2>1, <2>2, <3>1
      <3>3. \A j \in DOMAIN postings' : postings'[j] = x => j = Nth(x)
        BY <2>4, <3>2
      <3> QED
        BY <3>2, <3>3 DEF Nth
    <2>7. Nth(v)' = Len(postings) + 1
      <3>1. Len(postings) + 1 \in DOMAIN postings'
        BY <2>1, <2>2
      <3>2. \A j \in DOMAIN postings' : postings'[j] = v => j = Len(postings) + 1
        BY <2>2, <2>4, <3>1
      <3> QED
        BY <2>2, <3>1, <3>2 DEF Nth
    <2>8. \A x \in Posted : Nth(x) < Nth(v)'
      BY <2>1, <2>7, NthOf
    <2> QED
      BY <1>2, <2>2, <2>4, <2>5, <2>6, <2>8 DEF Announce
  <1> QED
    BY <1>1, <1>2

\* A queued job is a job with nothing done.
LEMMA QueuedJob ==
    /\ Queued = [phase |-> "waiting", todo |-> {}, found |-> Nothing]
    /\ Queued \in Evaluation /\ NoEvaluation \in Evaluation
  BY DEF Queued, NoEvaluation, Evaluation

\* A voucher that is entered has a row of its own.
LEMMA EnteredRow ==
    ASSUME NEW e \in Legs, NEW day \in Day, NEW atOnce \in BOOLEAN
    PROVE  /\ Entered(e, day, atOnce) \in Row /\ Entered(e, day, atOnce) # Nothing
           /\ Entered(e, day, atOnce).status = IF atOnce THEN "POSTED" ELSE "PENDING_AUTH"
           /\ Entered(e, day, atOnce).day = day
           /\ Entered(e, day, atOnce).entry = e
  BY AmlConstants DEF Entered, Row

\* What every step must show of the books and the jobs.
BooksStep == AmlTypes' /\ PostingsTell' /\ IdleJobs' /\ Onward

LEMMA CreateVoucherStep ==
    ASSUME AmlIInv, NEW v \in Voucher, NEW e \in Entry, NEW day \in WorkingDates,
           NEW atOnce \in BOOLEAN, CreateVoucher(v, e, day, atOnce)
    PROVE  BooksStep
  <1> USE DEF AmlIInv
  <1>1. ~InBooks(v) /\ v \in Voucher \ Posted /\ Announce(v, atOnce)
        /\ voucher' = [voucher EXCEPT ![v] = Entered(e, day, atOnce)]
        /\ UNCHANGED <<today, alert, setbacks>>
    BY DEF CreateVoucher, PostingsTell
  <1>2. e \in Legs /\ day \in Day
    BY DEF Legs, WorkingDates
  <1>3. /\ voucher'[v] \in Row /\ voucher'[v] # Nothing
        /\ voucher'[v].status = IF atOnce THEN "POSTED" ELSE "PENDING_AUTH"
        /\ \A x \in Voucher \ {v} : voucher'[x] = voucher[x]
    BY <1>1, <1>2, EnteredRow DEF AmlTypes
  <1>4. evaluation' = [evaluation EXCEPT ![v] = IF atOnce THEN Queued ELSE @]
    BY <1>1, AnnounceStep
  <1>5. AmlTypes'
    BY <1>1, <1>3, <1>4, AnnounceStep, QueuedJob DEF AmlTypes
  <1>6. Posted' = IF atOnce THEN Posted \cup {v} ELSE Posted
    BY <1>1, AnnounceStep
  <1>7. PostingsTell'
    <2>1. ASSUME NEW x \in Voucher \ {v}
          PROVE  /\ x \in Posted' <=> InBooks(x)' /\ voucher'[x].status # "PENDING_AUTH"
                 /\ x \in Posted' <=> evaluation'[x].phase # "none"
      BY <1>3, <1>4, <1>6 DEF PostingsTell, InBooks, AmlTypes
    <2>2. /\ v \in Posted' <=> InBooks(v)' /\ voucher'[v].status # "PENDING_AUTH"
          /\ v \in Posted' <=> evaluation'[v].phase # "none"
      BY <1>1, <1>3, <1>4, <1>6, QueuedJob DEF PostingsTell, InBooks, AmlTypes
    <2>3. \A i, j \in DOMAIN postings' : postings'[i] = postings'[j] => i = j
      BY <1>1, AnnounceStep
    <2> QED
      BY <2>1, <2>2, <2>3 DEF PostingsTell
  <1>8. IdleJobs'
    BY <1>4, QueuedJob DEF IdleJobs, AmlTypes
  <1>9. Onward
    <2>1. \A x \in Posted : voucher'[x] = voucher[x] /\ Nth(x)' = Nth(x)
      BY <1>1, <1>3, AnnounceStep, PostedInBooks
    <2>2. \A x \in Posted' \ Posted : atOnce /\ x = v
      BY <1>6
    <2>3. atOnce => \A x \in Posted : Nth(x) < Nth(v)'
      BY <1>1, AnnounceStep
    <2> QED
      BY <1>6, <2>1, <2>2, <2>3 DEF Onward
  <1> QED
    BY <1>5, <1>7, <1>8, <1>9 DEF BooksStep

LEMMA ApproveVoucherStep ==
    ASSUME AmlIInv, NEW v \in Voucher, ApproveVoucher(v)
    PROVE  BooksStep
  <1> USE DEF AmlIInv
  <1>1. /\ InBooks(v) /\ voucher[v].status = "PENDING_AUTH" /\ v \in Voucher \ Posted
        /\ Announce(v, TRUE)
        /\ voucher' = [voucher EXCEPT ![v].status = "POSTED"]
        /\ UNCHANGED <<today, alert, setbacks>>
    BY DEF ApproveVoucher, WithStatus, PostingsTell
  <1>2. voucher[v] \in Row
    BY <1>1, RowOf
  <1>3. /\ voucher'[v] \in Row /\ voucher'[v] # Nothing
        /\ voucher'[v].status = "POSTED"
        /\ \A x \in Voucher \ {v} : voucher'[x] = voucher[x]
    <2>1. voucher'[v] = [voucher[v] EXCEPT !.status = "POSTED"]
          /\ \A x \in Voucher \ {v} : voucher'[x] = voucher[x]
      BY <1>1 DEF AmlTypes
    <2>2. voucher'[v] \in Row /\ voucher'[v].status = "POSTED"
      BY <1>2, <2>1 DEF Row
    <2> QED
      BY <2>1, <2>2, AmlConstants
  <1>4. evaluation' = [evaluation EXCEPT ![v] = Queued]
    BY <1>1, AnnounceStep
  <1>5. AmlTypes'
    BY <1>1, <1>3, <1>4, AnnounceStep, QueuedJob DEF AmlTypes
  <1>6. Posted' = Posted \cup {v}
    BY <1>1, AnnounceStep
  <1>7. PostingsTell'
    <2>1. ASSUME NEW x \in Voucher \ {v}
          PROVE  /\ x \in Posted' <=> InBooks(x)' /\ voucher'[x].status # "PENDING_AUTH"
                 /\ x \in Posted' <=> evaluation'[x].phase # "none"
      BY <1>3, <1>4, <1>6 DEF PostingsTell, InBooks, AmlTypes
    <2>2. /\ v \in Posted' <=> InBooks(v)' /\ voucher'[v].status # "PENDING_AUTH"
          /\ v \in Posted' <=> evaluation'[v].phase # "none"
      BY <1>3, <1>4, <1>6, QueuedJob DEF InBooks, AmlTypes
    <2>3. \A i, j \in DOMAIN postings' : postings'[i] = postings'[j] => i = j
      BY <1>1, AnnounceStep
    <2> QED
      BY <2>1, <2>2, <2>3 DEF PostingsTell
  <1>8. IdleJobs'
    BY <1>4, QueuedJob DEF IdleJobs, AmlTypes
  <1>9. Onward
    <2>1. \A x \in Posted : voucher'[x] = voucher[x] /\ Nth(x)' = Nth(x)
      BY <1>1, <1>3, AnnounceStep, PostedInBooks
    <2>2. \A x \in Posted : Nth(x) < Nth(v)'
      BY <1>1, AnnounceStep
    <2> QED
      BY <1>6, <2>1, <2>2 DEF Onward
  <1> QED
    BY <1>5, <1>7, <1>8, <1>9 DEF BooksStep

\* The original leaves the windows it counted in; its contra voucher comes after it.
LEMMA ReverseVoucherStep ==
    ASSUME AmlIInv, NEW v \in Voucher, NEW contra \in Voucher, NEW day \in WorkingDates,
           NEW atOnce \in BOOLEAN, ReverseVoucher(v, contra, day, atOnce)
    PROVE  BooksStep
  <1> USE DEF AmlIInv
  <1> DEFINE new == Entered(Contra(voucher[v].entry), day, atOnce)
  <1>1. /\ InBooks(v) /\ voucher[v].status = "POSTED" /\ v \in Posted
        /\ ~InBooks(contra) /\ contra \in Voucher \ Posted /\ contra # v
        /\ Announce(contra, atOnce)
        /\ voucher' = [voucher EXCEPT ![v].status = "REVERSED", ![contra] = new]
        /\ UNCHANGED <<today, alert, setbacks>>
    BY DEF ReverseVoucher, WithStatus, PostingsTell, InBooks
  <1>2. voucher[v] \in Row /\ Contra(voucher[v].entry) \in Legs /\ day \in Day
    BY <1>1, RowOf, LegsType DEF WorkingDates
  <1>3. /\ new \in Row /\ new # Nothing
        /\ new.status = IF atOnce THEN "POSTED" ELSE "PENDING_AUTH"
    BY <1>2, EnteredRow
  <1> HIDE DEF new
  <1>4. /\ voucher'[v] = [voucher[v] EXCEPT !.status = "REVERSED"] /\ voucher'[contra] = new
        /\ \A x \in Voucher \ {v, contra} : voucher'[x] = voucher[x]
    BY <1>1 DEF AmlTypes
  <1>5. /\ voucher'[v] \in Row /\ voucher'[v] # Nothing
        /\ voucher'[v].status = "REVERSED" /\ voucher'[v].day = voucher[v].day
        /\ voucher'[v].entry = voucher[v].entry
    <2>1. voucher'[v] \in Row /\ voucher'[v].status = "REVERSED"
          /\ voucher'[v].day = voucher[v].day /\ voucher'[v].entry = voucher[v].entry
      BY <1>2, <1>4 DEF Row
    <2> QED
      BY <2>1, AmlConstants
  <1>6. evaluation' = [evaluation EXCEPT ![contra] = IF atOnce THEN Queued ELSE @]
    BY <1>1, AnnounceStep
  <1>7. Posted' = IF atOnce THEN Posted \cup {contra} ELSE Posted
    BY <1>1, AnnounceStep
  <1>8. AmlTypes'
    <2>1. voucher' \in [Voucher -> Row \cup {Nothing}]
      BY <1>1, <1>3, <1>4, <1>5 DEF AmlTypes
    <2> QED
      BY <1>1, <1>6, <2>1, AnnounceStep, QueuedJob DEF AmlTypes
  <1>9. PostingsTell'
    <2>1. ASSUME NEW x \in Voucher \ {v, contra}
          PROVE  /\ x \in Posted' <=> InBooks(x)' /\ voucher'[x].status # "PENDING_AUTH"
                 /\ x \in Posted' <=> evaluation'[x].phase # "none"
      BY <1>4, <1>6, <1>7 DEF PostingsTell, InBooks, AmlTypes
    <2>2. /\ contra \in Posted' <=> InBooks(contra)' /\ voucher'[contra].status # "PENDING_AUTH"
          /\ contra \in Posted' <=> evaluation'[contra].phase # "none"
      BY <1>1, <1>3, <1>4, <1>6, <1>7, QueuedJob DEF PostingsTell, InBooks, AmlTypes
    <2>3. /\ v \in Posted' <=> InBooks(v)' /\ voucher'[v].status # "PENDING_AUTH"
          /\ v \in Posted' <=> evaluation'[v].phase # "none"
      BY <1>1, <1>5, <1>6, <1>7 DEF PostingsTell, InBooks, AmlTypes
    <2>4. \A i, j \in DOMAIN postings' : postings'[i] = postings'[j] => i = j
      BY <1>1, AnnounceStep
    <2> QED
      BY <2>1, <2>2, <2>3, <2>4 DEF PostingsTell
  <1>10. IdleJobs'
    BY <1>6, QueuedJob DEF IdleJobs, AmlTypes
  <1>11. Onward
    <2>1. ASSUME NEW x \in Posted
          PROVE  /\ voucher'[x].day = voucher[x].day /\ voucher'[x].entry = voucher[x].entry
                 /\ voucher'[x].status = "POSTED" => voucher[x].status = "POSTED"
                 /\ Nth(x)' = Nth(x)
      <3>1. x = v \/ x \in Voucher \ {v, contra}
        BY <1>1, PostedInBooks
      <3> QED
        BY <1>1, <1>4, <1>5, <3>1, AnnounceStep
    <2>2. \A x \in Posted' \ Posted : atOnce /\ x = contra
      BY <1>7
    <2>3. atOnce => \A x \in Posted : Nth(x) < Nth(contra)'
      BY <1>1, AnnounceStep
    <2> QED
      BY <1>7, <2>1, <2>2, <2>3 DEF Onward
  <1> QED
    BY <1>8, <1>9, <1>10, <1>11 DEF BooksStep

\* The days and the jobs leave the books alone.
LEMMA BooksKept ==
    ASSUME UNCHANGED <<voucher, postings>>
    PROVE  Onward
  <1>1. Posted' = Posted /\ \A x : Nth(x)' = Nth(x)
    BY DEF Posted, Nth
  <1> QED
    BY <1>1 DEF Onward

----------------------------------------------------------------------------
(* Steps of jobs                                                           *)

\* What every step must show besides: that alerts are proven and windows heard of.
ScreenStep == AlertsProven' /\ FoundProven' /\ LookedAt'

\* The same of AlertsProven.
LEMMA AllProven ==
    AlertsProven <=> /\ \A a, b \in alert : a.key = b.key => a = b
                     /\ \A a \in alert : Proven(a)
  BY DEF AlertsProven, Proven, Posted

LEMMA AllProvenNext ==
    AlertsProven' <=> /\ \A a, b \in alert' : a.key = b.key => a = b
                      /\ \A a \in alert' : Proven(a)'
  BY DEF AlertsProven, Proven, Posted

\* A step that raises nothing, and finds nothing, keeps what is proven.
LEMMA NothingRaised ==
    ASSUME AmlIInv, Onward, alert' = alert,
           \A v \in Voucher : evaluation'[v].found \in {evaluation[v].found, Nothing}
    PROVE  AlertsProven' /\ FoundProven'
  <1>1. \A a : Proven(a) => Proven(a)'
    BY ProvenOnward
  <1>2. AlertsProven'
    BY <1>1, AllProven, AllProvenNext DEF AmlIInv
  <1>3. FoundProven'
    <2> SUFFICES ASSUME NEW v \in Voucher, evaluation'[v].found # Nothing
                 PROVE  Proven(evaluation[v].found)' /\ evaluation'[v].found = evaluation[v].found
      BY DEF FoundProven, Proven
    <2>1. PICK a : a = evaluation[v].found
      OBVIOUS
    <2>2. evaluation'[v].found = a /\ Proven(a)
      BY <2>1 DEF AmlIInv, FoundProven
    <2>3. Proven(a)'
      BY <1>1, <2>2
    <2> QED
      BY <2>1, <2>2, <2>3
  <1> QED
    BY <1>2, <1>3

\* A job that moves on leaves the books and the other jobs alone.
LEMMA EvaluationMoves ==
    ASSUME AmlIInv, NEW v \in Voucher, evaluation[v].phase # "none", NEW j \in Evaluation,
           evaluation' = [evaluation EXCEPT ![v] = j],
           j.phase # "none", j.phase = "done" => j.todo = {} /\ j.found = Nothing,
           UNCHANGED <<today, voucher, postings>>,
           alert' \subseteq Alert, setbacks' \in 0..MaxSetbacks
    PROVE  /\ BooksStep
           /\ evaluation'[v] = j
           /\ \A x \in Voucher \ {v} : evaluation'[x] = evaluation[x]
  <1> USE DEF AmlIInv
  <1>1. /\ evaluation'[v] = j /\ evaluation' \in [Voucher -> Evaluation]
        /\ \A x \in Voucher \ {v} : evaluation'[x] = evaluation[x]
    BY DEF AmlTypes
  <1>2. AmlTypes'
    BY <1>1 DEF AmlTypes
  <1>3. IdleJobs'
    BY <1>1 DEF IdleJobs
  <1>4. Onward /\ Posted' = Posted
    BY BooksKept DEF Posted
  <1>5. PostingsTell'
    BY <1>1, <1>4 DEF PostingsTell, InBooks
  <1> QED
    BY <1>1, <1>2, <1>3, <1>4, <1>5 DEF BooksStep

\* The windows of the other jobs are heard of as before.
LEMMA OthersLookedAt ==
    ASSUME AmlIInv, BooksStep, alert \subseteq alert', NEW v \in Voucher,
           \A x \in Voucher \ {v} : evaluation'[x] = evaluation[x],
           LookedAtBy(v)'
    PROVE  LookedAt'
  <1>1. ASSUME NEW x \in Voucher \ {v} PROVE LookedAtBy(x)'
    BY <1>1, StillLookedAt DEF BooksStep
  <1> QED
    BY <1>1 DEF LookedAt

\* A job with all its windows before it owes none of them yet.
LEMMA BeginStep ==
    ASSUME AmlIInv, NEW v \in Voucher, Begin(v)
    PROVE  BooksStep /\ ScreenStep
  <1> USE DEF AmlIInv
  <1> DEFINE j == [evaluation[v] EXCEPT !.phase = "active", !.todo = Parties(v) \X Rule]
  <1>1. /\ evaluation[v].phase = "waiting" /\ evaluation' = [evaluation EXCEPT ![v] = j]
        /\ UNCHANGED <<today, voucher, postings, alert, setbacks>>
    BY DEF Begin
  <1>2. j \in Evaluation /\ j.phase = "active" /\ j.todo = Parties(v) \X Rule
        /\ j.found = evaluation[v].found
    <2>1. Parties(v) \X Rule \in SUBSET (Customer \X Rule) /\ evaluation[v] \in Evaluation
      BY DEF Parties, AmlTypes
    <2> QED
      BY <2>1 DEF Evaluation
  <1> HIDE DEF j
  <1>3. /\ BooksStep /\ evaluation'[v] = j
        /\ \A x \in Voucher \ {v} : evaluation'[x] = evaluation[x]
    BY <1>1, <1>2, EvaluationMoves DEF AmlTypes
  <1>4. AlertsProven' /\ FoundProven'
    BY <1>1, <1>2, <1>3, NothingRaised DEF BooksStep
  <1>5. LookedAtBy(v)'
    <2>1. Parties(v)' = Parties(v)
      BY <1>1 DEF Parties
    <2> QED
      BY <1>2, <1>3, <2>1 DEF LookedAtBy
  <1> QED
    BY <1>1, <1>3, <1>4, <1>5, OthersLookedAt DEF ScreenStep

\* A window is found crossed, or what was posted before does not cross it.
LEMMA AggregateStep ==
    ASSUME AmlIInv, NEW v \in Voucher, NEW c \in Customer, NEW r \in Rule, Aggregate(v, c, r)
    PROVE  BooksStep /\ ScreenStep
  <1> USE DEF AmlIInv
  <1> DEFINE to  == voucher[v].day
             vs  == Contributors(c, r, to)
             hit(l) == [key |-> [rule |-> r, customer |-> c, to |-> to], total |-> Paid(c, vs),
                        count |-> Cardinality(vs), vouchers |-> l]
  <1>0. PICK listed \in Listings(vs) :
           evaluation' = [evaluation EXCEPT ![v].todo = @ \ {<<c, r>>},
                                ![v].found = IF Crossed(c, r, vs) THEN hit(listed) ELSE Nothing]
    BY DEF Aggregate
  <1>a. PICK found : found = hit(listed)
    OBVIOUS
  <1> DEFINE j   == [evaluation[v] EXCEPT !.todo = @ \ {<<c, r>>},
                                          !.found = IF Crossed(c, r, vs) THEN found ELSE Nothing]
  <1>1. /\ evaluation[v].phase = "active" /\ evaluation[v].found = Nothing
        /\ evaluation' = [evaluation EXCEPT ![v] = j]
        /\ UNCHANGED <<today, voucher, postings, alert, setbacks>>
    BY <1>0, <1>a DEF Aggregate, Working
  <1>2. v \in Posted /\ InBooks(v) /\ to \in Day
    BY <1>1, RowOf DEF PostingsTell
  <1>3. vs \subseteq Posted /\ vs \in SUBSET Voucher /\ \A x \in vs : InBooks(x)
    BY ContributorsPosted, PostedInBooks
  <1>4. found \in Alert /\ found # Nothing /\ found.key = WindowOf(v, c, r)
    <2>1. Paid(c, vs) \in Nat /\ Cardinality(vs) \in Nat
      BY <1>3, PaidMore, AmlConstants, FS_Subset, FS_CardinalityType
    <2>2. listed \in SUBSET Voucher
      BY <1>3 DEF Listings
    <2>3. [rule |-> r, customer |-> c, to |-> to] \in Key
      BY <1>2 DEF Key
    <2> HIDE DEF vs
    <2>4. found \in Alert
      BY <1>a, <2>1, <2>2, <2>3 DEF Alert
    <2> QED
      BY <1>a, <2>4, AmlConstants DEF WindowOf
  <1>5. Crossed(c, r, vs) => Proven(found)
    <2>1. \A x \in vs : Within(voucher[x].day, r, to)
      BY DEF Contributors
    <2> HIDE DEF vs, to
    <2> QED
      BY <1>0, <1>3, <1>a, <2>1 DEF Proven, Carries
  <1> HIDE DEF hit
  <1>6. /\ j \in Evaluation /\ j.phase = "active" /\ j.todo = evaluation[v].todo \ {<<c, r>>}
        /\ j.found = IF Crossed(c, r, vs) THEN found ELSE Nothing
    <2>1. evaluation[v] \in Evaluation
      BY DEF AmlTypes
    <2>2. (IF Crossed(c, r, vs) THEN found ELSE Nothing) \in Alert \cup {Nothing}
      BY <1>4
    <2> HIDE DEF vs
    <2> QED
      BY <1>1, <2>1, <2>2 DEF Evaluation
  <1> HIDE DEF j
  <1>7. /\ BooksStep /\ evaluation'[v] = j
        /\ \A x \in Voucher \ {v} : evaluation'[x] = evaluation[x]
    BY <1>1, <1>6, EvaluationMoves DEF AmlTypes
  <1>8. Onward
    BY <1>7 DEF BooksStep
  <1>9. AlertsProven'
    BY <1>1, <1>8, ProvenOnward, AllProven, AllProvenNext
  <1>10. FoundProven'
    <2>1. \A a : Proven(a) => Proven(a)'
      BY <1>8, ProvenOnward
    <2>2. ASSUME NEW x \in Voucher, evaluation'[x].found # Nothing
          PROVE  Proven(evaluation[x].found)'
      <3>1. PICK a : a = evaluation'[x].found
        OBVIOUS
      <3>2. Proven(a)
        <4>1. CASE x = v
          BY <1>5, <1>6, <1>7, <2>2, <3>1, <4>1
        <4>2. CASE x # v
          BY <1>7, <2>2, <3>1, <4>2 DEF FoundProven
        <4> QED
          BY <4>1, <4>2
      <3>3. Proven(a)'
        BY <2>1, <3>2
      <3> QED
        BY <3>1, <3>3 DEF Proven
    <2> QED
      BY <2>2 DEF FoundProven, Proven
  <1>11. LookedAtBy(v)'
    <2>1. Parties(v)' = Parties(v)
      BY <1>1 DEF Parties
    <2>2. \A d \in Customer, q \in Rule :
             /\ UpTo(v, d, q)' = UpTo(v, d, q)
             /\ WindowOf(v, d, q)' = WindowOf(v, d, q)
             /\ Crossed(d, q, UpTo(v, d, q))' = Crossed(d, q, UpTo(v, d, q))
             /\ Alerted(WindowOf(v, d, q))' = Alerted(WindowOf(v, d, q))
      BY <1>1 DEF UpTo, Contributors, WithStatus, InBooks, Counts, Within, Nth, WindowOf, Crossed,
                  Paid, Alerted
    <2> SUFFICES ASSUME NEW d \in Parties(v), NEW q \in Rule,
                        <<d, q>> \notin j.todo, Crossed(d, q, UpTo(v, d, q))
                 PROVE  Heard(v, d, q)'
      BY <1>7, <2>1, <2>2 DEF LookedAtBy, Parties
    <2>3. d \in Customer
      BY DEF Parties
    <2>4. CASE d = c /\ q = r
      <3>1. UpTo(v, c, r) \subseteq vs
        BY DEF UpTo
      <3>2. Crossed(c, r, vs)
        BY <1>3, <2>4, <3>1, CrossedMore
      <3>3. evaluation'[v].found # Nothing /\ evaluation'[v].found.key = WindowOf(v, c, r)'
        BY <1>4, <1>6, <1>7, <2>2, <3>2
      <3> QED
        BY <2>4, <3>3 DEF Heard
    <2>5. CASE <<d, q>> # <<c, r>>
      <3>1. <<d, q>> \notin evaluation[v].todo
        BY <1>6, <2>5
      <3>2. Alerted(WindowOf(v, d, q))
        BY <1>1, <3>1 DEF LookedAt, LookedAtBy, Heard
      <3> QED
        BY <2>2, <2>3, <3>2 DEF Heard
    <2> QED
      BY <2>4, <2>5
  <1> QED
    BY <1>1, <1>7, <1>9, <1>10, <1>11, OthersLookedAt DEF ScreenStep

\* An alert is raised once for its window, and the window is heard of still.
LEMMA RaiseStep ==
    ASSUME AmlIInv, NEW v \in Voucher, Raise(v)
    PROVE  BooksStep /\ ScreenStep
  <1> USE DEF AmlIInv
  <1> DEFINE j == [evaluation[v] EXCEPT !.found = Nothing]
  <1>0. PICK hit : hit = evaluation[v].found
    OBVIOUS
  <1>1. /\ evaluation[v].phase = "active" /\ hit # Nothing
        /\ alert' = IF Alerted(hit.key) THEN alert ELSE alert \cup {hit}
        /\ evaluation' = [evaluation EXCEPT ![v] = j]
        /\ UNCHANGED <<today, voucher, postings, setbacks>>
    BY <1>0 DEF Raise
  <1>2. hit \in Alert /\ Proven(hit) /\ evaluation[v] \in Evaluation
    BY <1>0, <1>1 DEF AmlTypes, Evaluation, FoundProven
  <1>3. /\ j \in Evaluation /\ j.phase = "active" /\ j.todo = evaluation[v].todo
        /\ j.found = Nothing
    BY <1>1, <1>2 DEF Evaluation
  <1> HIDE DEF j
  <1>4. /\ BooksStep /\ evaluation'[v] = j
        /\ \A x \in Voucher \ {v} : evaluation'[x] = evaluation[x]
    BY <1>1, <1>2, <1>3, EvaluationMoves DEF AmlTypes
  <1>5. \A a : Proven(a) => Proven(a)'
    BY <1>4, ProvenOnward DEF BooksStep
  <1>6. AlertsProven'
    <2>1. \A a, b \in alert' : a.key = b.key => a = b
      BY <1>1, AllProven DEF Alerted
    <2>2. \A a \in alert' : Proven(a)
      BY <1>1, <1>2, AllProven
    <2> QED
      BY <1>5, <2>1, <2>2, AllProvenNext
  <1>7. FoundProven'
    <2>1. ASSUME NEW x \in Voucher, evaluation'[x].found # Nothing
          PROVE  Proven(evaluation[x].found)'
      <3>1. x # v /\ evaluation'[x] = evaluation[x]
        BY <1>3, <1>4, <2>1
      <3>2. PICK a : a = evaluation[x].found
        OBVIOUS
      <3>3. Proven(a)'
        BY <1>5, <2>1, <3>1, <3>2 DEF FoundProven
      <3> QED
        BY <3>1, <3>2, <3>3 DEF Proven
    <2> QED
      BY <2>1 DEF FoundProven, Proven
  <1>8. LookedAtBy(v)'
    <2>1. Parties(v)' = Parties(v)
      BY <1>1 DEF Parties
    <2>2. \A d \in Customer, q \in Rule :
             /\ WindowOf(v, d, q)' = WindowOf(v, d, q)
             /\ Crossed(d, q, UpTo(v, d, q))' = Crossed(d, q, UpTo(v, d, q))
      BY <1>1 DEF UpTo, Contributors, WithStatus, InBooks, Counts, Within, Nth, WindowOf, Crossed,
                  Paid
    <2> SUFFICES ASSUME NEW d \in Parties(v), NEW q \in Rule,
                        <<d, q>> \notin evaluation[v].todo, Crossed(d, q, UpTo(v, d, q))
                 PROVE  Alerted(WindowOf(v, d, q))'
      BY <1>3, <1>4, <2>1, <2>2 DEF LookedAtBy, Parties, Heard
    <2>3. d \in Customer
      BY DEF Parties
    <2>4. Heard(v, d, q)
      BY <1>1 DEF LookedAt, LookedAtBy
    <2>5. Alerted(WindowOf(v, d, q)) \/ hit.key = WindowOf(v, d, q)
      BY <1>0, <2>4 DEF Heard
    <2>6. \E a \in alert' : a.key = WindowOf(v, d, q)
      BY <1>1, <2>5 DEF Alerted
    <2> QED
      BY <2>2, <2>3, <2>6 DEF Alerted
  <1> QED
    BY <1>1, <1>4, <1>6, <1>7, <1>8, OthersLookedAt DEF ScreenStep

\* The end of a job, a failure or a second delivery makes nothing unheard of.
LEMMA EndStep ==
    ASSUME AmlIInv, NEW v \in Voucher, Conclude(v) \/ BreakOff(v) \/ Redeliver(v)
    PROVE  BooksStep /\ ScreenStep
  <1> USE DEF AmlIInv
  <1>1. PICK j \in Evaluation :
           /\ evaluation' = [evaluation EXCEPT ![v] = j]
           /\ \/ /\ evaluation[v].phase = "active" /\ evaluation[v].found = Nothing
                 /\ j.phase = "done" /\ j.todo = evaluation[v].todo /\ j.todo = {}
                 /\ j.found = Nothing
              \/ j.phase \in {"waiting", "dead"} /\ j.found = Nothing
    <2>1. CASE Conclude(v)
      <3>1. evaluation[v] \in Evaluation
        BY DEF AmlTypes
      <3>2. [evaluation[v] EXCEPT !.phase = "done"] \in Evaluation
        BY <3>1 DEF Evaluation
      <3> QED
        BY <2>1, <3>1, <3>2 DEF Conclude, Working, Evaluation
    <2>2. CASE BreakOff(v)
      <3>1. \A phase \in {"waiting", "dead"} :
               LET j == [NoEvaluation EXCEPT !.phase = phase]
               IN  j \in Evaluation /\ j.phase = phase /\ j.found = Nothing
        BY DEF NoEvaluation, Evaluation
      <3> QED
        BY <2>2, <3>1 DEF BreakOff
    <2>3. CASE Redeliver(v)
      BY <2>3, QueuedJob DEF Redeliver
    <2> QED
      BY <2>1, <2>2, <2>3
  <1>2. /\ evaluation[v].phase # "none" /\ setbacks' \in 0..MaxSetbacks
        /\ UNCHANGED <<today, voucher, postings, alert>>
    BY AmlConstants DEF Conclude, Working, BreakOff, Redeliver, AmlTypes
  <1>3. /\ BooksStep /\ evaluation'[v] = j
        /\ \A x \in Voucher \ {v} : evaluation'[x] = evaluation[x]
    BY <1>1, <1>2, EvaluationMoves DEF AmlTypes
  <1>4. AlertsProven' /\ FoundProven'
    BY <1>1, <1>2, <1>3, NothingRaised DEF BooksStep
  <1>5. LookedAtBy(v)'
    BY <1>1, <1>2, <1>3, StillLookedAt DEF BooksStep
  <1> QED
    BY <1>2, <1>3, <1>4, <1>5, OthersLookedAt DEF ScreenStep

\* A posting queues a job, and raises nothing.
LEMMA PostsStep ==
    ASSUME AmlIInv, NEW v \in Voucher, Posts(v)
    PROVE  BooksStep /\ ScreenStep
  <1> USE DEF AmlIInv
  <1>1. BooksStep
    BY CreateVoucherStep, ApproveVoucherStep, ReverseVoucherStep DEF Posts
  <1>2. /\ alert' = alert
        /\ \E x \in Voucher, posted \in BOOLEAN : Announce(x, posted)
    BY DEF Posts, CreateVoucher, ApproveVoucher, ReverseVoucher
  <1>3. \A x \in Voucher : evaluation'[x] \in {evaluation[x], Queued}
    BY <1>2 DEF Announce, AmlTypes
  <1>4. AlertsProven' /\ FoundProven'
    BY <1>1, <1>2, <1>3, NothingRaised, QueuedJob DEF BooksStep
  <1>5. ASSUME NEW x \in Voucher PROVE LookedAtBy(x)'
    <2>1. \/ evaluation'[x].phase \notin {"active", "done"}
          \/ /\ evaluation[x].phase \in {"active", "done"}
             /\ evaluation'[x].todo = evaluation[x].todo
             /\ evaluation'[x].found = evaluation[x].found
      BY <1>3, QueuedJob
    <2> QED
      BY <1>1, <1>2, <2>1, StillLookedAt DEF BooksStep
  <1> QED
    BY <1>1, <1>4, <1>5 DEF ScreenStep, LookedAt

\* The days pass, or nothing happens.
LEMMA DayStep ==
    ASSUME AmlIInv, NextDay \/ UNCHANGED aml
    PROVE  BooksStep /\ ScreenStep
  <1> USE DEF AmlIInv
  <1>1. UNCHANGED <<voucher, postings, evaluation, alert, setbacks>> /\ today' \in Day
    BY AmlConstants DEF NextDay, aml, AmlTypes, Day
  <1>2. Onward /\ AmlTypes'
    BY <1>1, BooksKept DEF AmlTypes
  <1>3. PostingsTell' /\ IdleJobs'
    BY <1>1 DEF PostingsTell, Posted, InBooks, IdleJobs
  <1>4. AlertsProven' /\ FoundProven'
    BY <1>1, <1>2, NothingRaised
  <1>5. \A x \in Voucher : LookedAtBy(x)'
    BY <1>1, <1>2, <1>3, StillLookedAt
  <1> QED
    BY <1>2, <1>3, <1>4, <1>5 DEF BooksStep, ScreenStep, LookedAt

----------------------------------------------------------------------------
(* The screening                                                           *)

LEMMA AmlStart == AmlInit => AmlIInv
  <1> SUFFICES ASSUME AmlInit PROVE AmlIInv
    OBVIOUS
  <1>1. AmlTypes
    BY AmlConstants, QueuedJob DEF AmlInit, AmlTypes, Day
  <1>2. DOMAIN postings = {} /\ Posted = {}
    BY DEF AmlInit, Posted
  <1>3. PostingsTell /\ IdleJobs
    BY <1>2 DEF AmlInit, PostingsTell, IdleJobs, InBooks, NoEvaluation
  <1>4. AlertsProven /\ FoundProven /\ LookedAt
    BY DEF AmlInit, AlertsProven, FoundProven, LookedAt, LookedAtBy, NoEvaluation
  <1> QED
    BY <1>1, <1>3, <1>4 DEF AmlIInv

LEMMA AmlStep == AmlIInv /\ [AmlNext]_aml => AmlIInv'
  <1> SUFFICES ASSUME AmlIInv, [AmlNext]_aml PROVE BooksStep /\ ScreenStep
    BY DEF AmlIInv, BooksStep, ScreenStep
  <1>1. CASE NextDay \/ UNCHANGED aml
    BY <1>1, DayStep
  <1>2. ASSUME NEW v \in Voucher, Posts(v) PROVE BooksStep /\ ScreenStep
    BY <1>2, PostsStep
  <1>3. ASSUME NEW v \in Voucher, Screens(v) PROVE BooksStep /\ ScreenStep
    BY <1>3, BeginStep, AggregateStep, RaiseStep, EndStep DEF Screens
  <1> QED
    BY <1>1, <1>2, <1>3 DEF AmlNext

LEMMA AmlInvariant == AmlSpec => []AmlIInv
  BY AmlStart, AmlStep, PTL DEF AmlSpec

\* No alert is raised that posted vouchers do not carry, and none twice for a window,
\* whatever is posted, approved, reversed, repeated or fails between the queries
\* of a job (aml.worker.ts:157).
THEOREM AmlInvHolds == AmlSpec => []AmlInv
  <1>1. AmlIInv => AmlInv
    BY DEF AmlIInv, AmlInv
  <1> QED
    BY <1>1, AmlInvariant, PTL

\* Up to 200 vouchers, the slice of aml.worker.ts:223 loses none: what the evidence
\* names adds up to the total of the alert.
THEOREM EvidenceBelowLimit ==
    AmlSpec => [](\A a \in alert : a.count <= MaxListed => a.total = Paid(a.key.customer, a.vouchers))
  <1>1. AmlIInv => \A a \in alert : a.count <= MaxListed => a.total = Paid(a.key.customer, a.vouchers)
    <2> SUFFICES ASSUME AmlIInv, NEW a \in alert, a.count <= MaxListed
                 PROVE  a.total = Paid(a.key.customer, a.vouchers)
      OBVIOUS
    <2>1. PICK vs \in SUBSET Posted : Carries(vs, a)
      BY DEF AmlIInv, AlertsProven, Posted
    <2>2. IsFiniteSet(vs)
      BY AmlConstants, FS_Subset DEF AmlIInv, AmlTypes, Posted
    <2>3. a.vouchers \in SUBSET vs /\ Cardinality(a.vouchers) = Cardinality(vs)
      BY <2>1 DEF Carries, Listings, Listed
    <2>4. a.vouchers = vs
      BY <2>2, <2>3, FS_Subset
    <2> QED
      BY <2>1, <2>4 DEF Carries
  <1> QED
    BY <1>1, AmlInvariant, PTL

\* Of posted vouchers, one was posted last.
LEMMA Latest ==
    ASSUME AmlTypes, PostingsTell, NEW vs \in SUBSET Posted, vs # {}
    PROVE  \E v \in vs : \A x \in vs : Nth(x) <= Nth(v)
  <1> DEFINE After(v) == {x \in vs : Nth(v) <= Nth(x)}
             T == {After(v) : v \in vs}
  <1>1. IsFiniteSet(vs)
    <2>1. vs \subseteq Voucher
      BY PostedInBooks
    <2> QED
      BY <2>1, AmlConstants, FS_Subset
  <1>2. PICK s \in T : \A t \in T : ~(<<t, s>> \in StrictSubsetOrdering(vs))
    <2>1. IsWellFoundedOn(StrictSubsetOrdering(vs), SUBSET vs)
      BY <1>1, FS_StrictSubsetOrderingWellFounded, FS_FiniteSubsetsOfFinite
    <2>2. T \subseteq SUBSET vs /\ T # {}
      OBVIOUS
    <2> HIDE DEF T
    <2> QED
      BY <2>1, <2>2, WFMin
  <1>3. PICK v \in vs : s = After(v)
    OBVIOUS
  <1>4. ASSUME NEW x \in vs, ~(Nth(x) <= Nth(v)) PROVE FALSE
    <2>1. Nth(x) \in Nat /\ Nth(v) \in Nat /\ \A y \in vs : Nth(y) \in Nat
      BY NthOf
    <2>2. After(x) \subseteq After(v) /\ v \in After(v) /\ v \notin After(x)
      BY <1>4, <2>1
    <2>3. <<After(x), s>> \in StrictSubsetOrdering(vs)
      BY <1>3, <2>2 DEF StrictSubsetOrdering
    <2> QED
      BY <1>2, <2>3
  <1> QED
    BY <1>4

\* When no job is left, a window that ends on a day with a posting and has crossed
\* its threshold is alerted, unless a voucher of an earlier day was approved after
\* the last posting of that day: the job of the last posting has seen the rest
\* (aml.worker.ts:183).
THEOREM MissedOnlyLateHolds == AmlSpec => []MissedOnlyLate
  <1>1. ASSUME AmlIInv, \A v \in Voucher : evaluation[v].phase \in {"none", "done"},
               NEW c \in Customer, NEW r \in Rule, NEW to \in Day,
               Dated(c, to) # {}, Crossed(c, r, Contributors(c, r, to)),
               ~ \E late \in Contributors(c, r, to) : \A v \in Dated(c, to) : Nth(v) < Nth(late)
        PROVE  Alerted([rule |-> r, customer |-> c, to |-> to])
    <2> USE <1>1 DEF AmlIInv
    <2>1. \A v \in Dated(c, to) : v \in Posted /\ evaluation[v].phase = "done"
      BY DEF Dated, IdleJobs, PostingsTell
    <2>2. PICK v \in Dated(c, to) : \A x \in Dated(c, to) : Nth(x) <= Nth(v)
      BY <2>1, Latest
    <2>3. v \in Voucher /\ voucher[v].day = to /\ c \in Parties(v) /\ v \in Posted
          /\ evaluation[v].phase = "done" /\ evaluation[v].todo = {}
          /\ evaluation[v].found = Nothing
      BY <2>1 DEF Dated, IdleJobs
    <2>4. ASSUME NEW x \in Contributors(c, r, to) PROVE Nth(x) <= Nth(v)
      <3>1. PICK y \in Dated(c, to) : ~(Nth(y) < Nth(x))
        OBVIOUS
      <3>2. Nth(x) \in Nat /\ Nth(y) \in Nat /\ Nth(v) \in Nat
        BY <2>1, <2>3, ContributorsPosted, NthOf
      <3> QED
        BY <2>2, <3>1, <3>2
    <2>5. UpTo(v, c, r) = Contributors(c, r, to)
      BY <2>3, <2>4 DEF UpTo
    <2>6. Heard(v, c, r)
      BY <2>3, <2>5 DEF LookedAt, LookedAtBy
    <2> QED
      BY <2>3, <2>6 DEF Heard, WindowOf
  <1>2. AmlIInv => MissedOnlyLate
    BY <1>1 DEF MissedOnlyLate
  <1> QED
    BY <1>2, AmlInvariant, PTL

=============================================================================
