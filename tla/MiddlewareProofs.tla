-------------------------- MODULE MiddlewareProofs --------------------------
(***************************************************************************)
(* What the middleware around a handler keeps, for any number of requests: *)
(* that an idempotency key posts once, that answers are true and that a    *)
(* stored response stays, for any keys and bodies; that the counter of     *)
(* load shedding drifts by one leak only, that the shutdown cuts off by    *)
(* its hard exit only and refuses only whom the balancer sends too late,   *)
(* and that no stretch of the window sees too many logins, for any times.  *)
(***************************************************************************)
EXTENDS Idempotency, ApiProcess, FiniteSetTheorems, TLAPS

----------------------------------------------------------------------------
(* Idempotency                                                             *)


\* Who may still write the row of a key: the request that won the INSERT, until
\* its write has arrived or is lost.
Owns(r) == r \in claims /\ (r \notin settled \/ \E w \in writes : w.request = r)

Refusal == {"error", "gone"}

\* A request is told the truth at its end only; before, it can be given up.
NothingEarly == \A r \in Request : pc[r] # "over" => answer[r].kind \in {"none"} \cup Refusal

\* A claim is settled once, by its owner and with an answer.
SettledOnce ==
    /\ \A r \in settled : r \in claims /\ answer[r].kind # "none"
    /\ \A w \in writes : /\ w.request \in settled
                         /\ w.op = "release" => answer[w.request].kind \in Refusal
                         /\ w.op = "complete" => w.request \in posted
    /\ \A w, x \in writes : w.request = x.request => w = x

\* The row is that of its owner, of whom there is one.
OneOwner ==
    \A r \in Request : Owns(r) =>
        /\ record[KeyOf[r]] = [body |-> BodyOf[r], response |-> NoRequest]
        /\ \A q \in Request : Owns(q) /\ KeyOf[q] = KeyOf[r] => q = r

CommittedPosted == \A r \in Request : pc[r] = "committed" => r \in posted

\* A key no request was given up on has one claim, and nobody works without it.
Claimed(r) == /\ record[KeyOf[r]] # Absent
              /\ \A q \in claims : KeyOf[q] = KeyOf[r] => q = r
OneClaim ==
    \A r \in Request : ~Dropped(KeyOf[r]) =>
        /\ r \in claims => Claimed(r)
        /\ pc[r] \in {"run", "committed"} \/ r \in posted => r \in claims
        /\ pc[r] = "lookup" => record[KeyOf[r]] # Absent

\* Responses that are stored, mirrored or sent are those of vouchers.
Voucher(k, x) == \E r \in posted : KeyOf[r] = k /\ x = [body |-> BodyOf[r], response |-> r]
TrueCopies ==
    \A k \in Key : /\ Completed(k) => Voucher(k, record[k])
                   /\ fast[k] # Absent => Voucher(k, fast[k])
TrueAnswers ==
    \A r \in Request : answer[r].kind \in {"own", "replay"} => Truthful(r, answer[r].response)

KeyInv == /\ TypeOK /\ NothingEarly /\ SettledOnce /\ OneOwner /\ CommittedPosted
          /\ OneClaim /\ TrueCopies /\ TrueAnswers

----------------------------------------------------------------------------

LEMMA RecordsDiffer == \A x \in Record : x # Absent
  BY DEF Record, Absent

LEMMA NewRow ==
    ASSUME NEW r \in Request
    PROVE  /\ [body |-> BodyOf[r], response |-> NoRequest] \in Record
           /\ [body |-> BodyOf[r], response |-> r] \in Record
  BY DEF Record, Body

LEMMA KeyInit == Init => KeyInv
  <1> SUFFICES ASSUME Init PROVE KeyInv
    OBVIOUS
  <1> USE DEF Init
  <1>1. TypeOK
    BY DEF TypeOK, PC, Answer
  <1>2. NothingEarly /\ SettledOnce /\ OneOwner /\ CommittedPosted
    BY DEF NothingEarly, SettledOnce, OneOwner, Owns, CommittedPosted
  <1>3. OneClaim
    BY DEF OneClaim
  <1>4. \A r \in Request : answer[r].kind = "none"
    OBVIOUS
  <1>5. TrueCopies /\ TrueAnswers
    BY <1>4, IdempotencyConstants DEF TrueCopies, TrueAnswers, Completed
  <1> QED
    BY <1>1, <1>2, <1>3, <1>5 DEF KeyInv

\* What a response changes of the answers.
LEMMA Replied ==
    ASSUME TypeOK, NEW r \in Request, NEW a \in Answer, Reply(r, a)
    PROVE  /\ answer' \in [Request -> Answer]
           /\ answer'[r] = IF Unanswered(r) THEN a ELSE answer[r]
           /\ \A q \in Request \ {r} : answer'[q] = answer[q]
  <1>1. answer \in [Request -> Answer]
    BY DEF TypeOK
  <1> QED
    BY <1>1 DEF Reply

\* A key that was dropped stays so.
LEMMA DroppedStays ==
    ASSUME KeyInv, settled \subseteq settled',
           \A r \in Request : answer[r].kind # "none" => answer'[r] = answer[r]
    PROVE  \A k : Dropped(k) => Dropped(k)'
  <1>1. settled \subseteq Request
    BY DEF KeyInv, TypeOK
  <1> QED
    BY <1>1 DEF Dropped, Refusal

LEMMA Moved ==
    ASSUME TypeOK, NEW r \in Request, NEW p \in PC, Goto(r, p)
    PROVE  /\ pc' \in [Request -> PC] /\ pc'[r] = p
           /\ \A q \in Request \ {r} : pc'[q] = pc[q]
  <1>1. pc \in [Request -> PC]
    BY DEF TypeOK
  <1> QED
    BY <1>1 DEF Goto

\* What is sent and what is given up: a response that is not there yet, or stays.
LEMMA AnswersStay ==
    ASSUME TypeOK, NEW r \in Request, NEW a \in Answer, Reply(r, a)
    PROVE  \A q \in Request : answer[q].kind # "none" => answer'[q] = answer[q]
  BY Replied DEF Unanswered

\* A step of the request's code that touches neither the claim nor the row.
LEMMA OnlyMoves ==
    ASSUME KeyInv, NEW r \in Request, NEW p \in PC, Goto(r, p),
           UNCHANGED <<record, fast, claims, settled, writes, answer>>,
           \/ /\ UNCHANGED posted
              /\ p \in {"fast", "claim", "over", "failed"}
              /\ pc[r] # "over"
           \/ posted' = posted \cup {r} /\ p = "committed" /\ pc[r] = "run"
    PROVE  /\ NothingEarly' /\ SettledOnce' /\ OneOwner' /\ CommittedPosted' /\ OneClaim'
           /\ TrueCopies' /\ TrueAnswers'
  <1>1. /\ pc'[r] = p /\ \A q \in Request \ {r} : pc'[q] = pc[q]
        /\ posted \subseteq posted' /\ posted' \subseteq posted \cup {r}
    BY Moved DEF KeyInv
  <1> USE <1>1 DEF KeyInv
  <1>2. NothingEarly'
    BY DEF NothingEarly
  <1>3. SettledOnce'
    BY DEF SettledOnce
  <1>4. OneOwner'
    BY DEF OneOwner, Owns
  <1>5. CommittedPosted'
    BY DEF CommittedPosted
  <1>6. OneClaim'
    <2>1. \A k : Dropped(k)' <=> Dropped(k)
      BY DEF Dropped
    <2> QED
      BY <2>1 DEF OneClaim, Claimed
  <1>7. TrueCopies' /\ TrueAnswers'
    BY DEF TrueCopies, TrueAnswers, Completed, Voucher, Truthful
  <1> QED
    BY <1>2, <1>3, <1>4, <1>5, <1>6, <1>7

LEMMA SimpleStep ==
    ASSUME KeyInv, NEW r \in Request, Send(r) \/ Commit(r) \/ Fail(r)
    PROVE  KeyInv'
  <1>1. PICK p \in {"fast", "committed", "failed"} :
          /\ Goto(r, p)
          /\ UNCHANGED <<record, fast, claims, settled, writes, answer, struck, orphaned>>
          /\ \/ UNCHANGED posted /\ p # "committed" /\ pc[r] # "over"
             \/ posted' = posted \cup {r} /\ p = "committed" /\ pc[r] = "run"
    BY DEF Send, Commit, Fail
  <1>2. p \in PC
    BY DEF PC
  <1>3. TypeOK'
    BY <1>1, <1>2, Moved DEF KeyInv, TypeOK
  <1> QED
    BY <1>1, <1>2, <1>3, OnlyMoves DEF KeyInv

\* The request ends with an answer that is no success, or repeats a stored one.
LEMMA Ended ==
    ASSUME KeyInv, NEW r \in Request, pc[r] \in {"fast", "lookup"}, NEW a \in Answer,
           Reply(r, a), Goto(r, "over"),
           a.kind = "replay" => Truthful(r, a.response),
           a.kind \in {"conflict", "replay"},
           UNCHANGED <<record, claims, settled, posted, writes>>
    PROVE  NothingEarly' /\ SettledOnce' /\ OneOwner' /\ CommittedPosted' /\ OneClaim'
           /\ TrueAnswers'
  <1> USE DEF KeyInv
  <1>1. /\ pc'[r] = "over" /\ \A q \in Request \ {r} : pc'[q] = pc[q]
        /\ answer'[r] = IF answer[r].kind = "none" THEN a ELSE answer[r]
        /\ \A q \in Request \ {r} : answer'[q] = answer[q]
        /\ \A q \in Request : answer[q].kind # "none" => answer'[q] = answer[q]
    BY Moved, Replied, AnswersStay DEF PC, Unanswered
  <1>2. NothingEarly'
    BY <1>1 DEF NothingEarly
  <1>3. SettledOnce'
    <2>1. writes \subseteq Write /\ settled \subseteq Request
      BY DEF TypeOK
    <2> QED
      BY <1>1, <2>1 DEF SettledOnce
  <1>4. OneOwner'
    BY DEF OneOwner, Owns
  <1>5. CommittedPosted'
    BY <1>1 DEF CommittedPosted
  <1>6. OneClaim'
    <2>1. \A k : Dropped(k) => Dropped(k)'
      BY <1>1, DroppedStays
    <2> QED
      BY <1>1, <2>1 DEF OneClaim, Claimed
  <1>7. TrueAnswers'
    BY <1>1 DEF TrueAnswers, Truthful
  <1> QED
    BY <1>2, <1>3, <1>4, <1>5, <1>6, <1>7

LEMMA FastPathStep ==
    ASSUME KeyInv, NEW r \in Request, FastPath(r)
    PROVE  KeyInv'
  <1> USE DEF KeyInv
  <1> DEFINE k == KeyOf[r]
             hit == fast[k]
  <1>1. pc[r] = "fast" /\ k \in Key
    BY IdempotencyConstants DEF FastPath
  <1>2. UNCHANGED <<record, fast, claims, settled, posted, writes, struck, orphaned>>
    BY DEF FastPath
  <1>3. CASE Goto(r, "claim") /\ UNCHANGED answer
    <2>1. TypeOK'
      BY <1>2, <1>3, Moved DEF TypeOK, PC
    <2> QED
      BY <1>1, <1>2, <1>3, <2>1, OnlyMoves DEF PC
  <1>4. CASE hit # Absent /\ Goto(r, "over")
             /\ Reply(r, IF hit.body = BodyOf[r]
                         THEN [kind |-> "replay", response |-> hit.response]
                         ELSE [kind |-> "conflict"])
    <2>1. PICK q \in posted : KeyOf[q] = k /\ hit = [body |-> BodyOf[q], response |-> q]
      BY <1>1, <1>4 DEF TrueCopies, Voucher
    <2> DEFINE a == IF hit.body = BodyOf[r]
                    THEN [kind |-> "replay", response |-> hit.response]
                    ELSE [kind |-> "conflict"]
    <2>2. q \in Request /\ hit.response = q /\ hit.body = BodyOf[q]
      BY <2>1 DEF TypeOK
    <2>3. a \in Answer /\ a.kind \in {"conflict", "replay"}
      BY <2>2 DEF Answer
    <2>4. a.kind = "replay" => Truthful(r, a.response)
      BY <2>1, <2>2 DEF Truthful
    <2>5. Reply(r, a)
      BY <1>4
    <2> HIDE DEF a, hit
    <2>6. NothingEarly' /\ SettledOnce' /\ OneOwner' /\ CommittedPosted' /\ OneClaim' /\ TrueAnswers'
      BY <1>1, <1>2, <1>4, <2>3, <2>4, <2>5, Ended
    <2>7. TypeOK'
      BY <1>2, <1>4, <2>3, <2>5, Moved, Replied DEF TypeOK, PC
    <2>8. TrueCopies'
      BY <1>2 DEF TrueCopies, Completed, Voucher
    <2> QED
      BY <2>6, <2>7, <2>8
  <1> QED
    BY <1>3, <1>4 DEF FastPath

LEMMA ClaimStep ==
    ASSUME KeyInv, NEW r \in Request, Claim(r)
    PROVE  KeyInv'
  <1> USE DEF KeyInv
  <1> DEFINE k == KeyOf[r]
             new == [body |-> BodyOf[r], response |-> NoRequest]
  <1>1. pc[r] = "claim" /\ k \in Key
    BY IdempotencyConstants DEF Claim
  <1>2. UNCHANGED <<fast, settled, posted, answer, writes, struck>>
    BY DEF Claim
  <1>3. PICK p \in {"run", "lookup", "failed"} :
          /\ Goto(r, p)
          /\ \/ /\ record[k] = Absent /\ record' = [record EXCEPT ![k] = new]
                /\ claims' = claims \cup {r} /\ p = "run"
             \/ record[k] # Absent /\ UNCHANGED <<record, claims>> /\ p = "lookup"
             \/ UNCHANGED <<record, claims>> /\ p = "failed"
             \/ /\ record[k] = Absent /\ record' = [record EXCEPT ![k] = new]
                /\ UNCHANGED claims /\ p = "failed"
    BY DEF Claim, Claiming
  <1>4. /\ pc' \in [Request -> PC] /\ pc'[r] = p /\ p # "over" /\ p # "committed"
        /\ \A q \in Request \ {r} : pc'[q] = pc[q]
    BY <1>3, Moved DEF PC
  <1>5. NothingEarly' /\ CommittedPosted' /\ TrueAnswers'
    BY <1>1, <1>2, <1>4 DEF NothingEarly, CommittedPosted, TrueAnswers, Truthful
  <1>6. \A c : Dropped(c)' <=> Dropped(c)
    BY <1>2 DEF Dropped
  <1>o. orphaned' \subseteq Request
    BY DEF Claim, Late, TypeOK
  <1>7. CASE /\ record[k] = Absent /\ record' = [record EXCEPT ![k] = new]
             /\ \/ claims' = claims \cup {r} /\ p = "run"
                \/ UNCHANGED claims /\ p = "failed"
    <2>1. /\ claims \subseteq claims' /\ claims' \subseteq claims \cup {r}
          /\ p = "run" => r \in claims'
      BY <1>7
    <2>2. new \in Record /\ new # Absent /\ record[k] = Absent
      BY <1>7, NewRow, RecordsDiffer
    <2>3. /\ record' \in [Key -> {Absent} \cup Record] /\ record'[k] = new
          /\ \A c \in Key \ {k} : record'[c] = record[c]
      BY <1>1, <1>7, <2>2 DEF TypeOK
    <2>4. TypeOK'
      BY <1>2, <1>4, <1>o, <2>1, <2>3 DEF TypeOK
    <2>5. SettledOnce'
      BY <1>2, <2>1 DEF SettledOnce
    <2>6. \A q \in Request : KeyOf[q] = k => ~Owns(q)
      BY <2>2, NewRow, RecordsDiffer DEF OneOwner
    <2>7. OneOwner'
      <3>1. \A q \in Request : Owns(q)' => Owns(q) \/ q = r
        BY <1>2, <2>1 DEF Owns
      <3>2. \A q \in Request : KeyOf[q] \in Key
        BY IdempotencyConstants
      <3> QED
        BY <2>3, <2>6, <3>1, <3>2 DEF OneOwner
    <2>8. OneClaim'
      <3>1. ~Dropped(k) => \A q \in claims : KeyOf[q] # k
        BY <2>2 DEF OneClaim, Claimed, TypeOK
      <3>2. \A q \in Request : KeyOf[q] \in Key
        BY IdempotencyConstants
      <3>3. \A q \in Request : KeyOf[q] = k /\ ~Dropped(k) =>
               /\ q \in claims' => q = r
               /\ ~(pc[q] \in {"run", "committed"} \/ q \in posted)
               /\ record'[KeyOf[q]] # Absent
        BY <2>1, <2>2, <2>3, <3>1 DEF OneClaim
      <3>4. ASSUME NEW q \in Request, KeyOf[q] # k, ~Dropped(KeyOf[q])
            PROVE  /\ q \in claims' <=> q \in claims
                   /\ pc'[q] = pc[q] /\ record'[KeyOf[q]] = record[KeyOf[q]]
                   /\ \A x \in claims' : KeyOf[x] = KeyOf[q] => x \in claims
        BY <1>4, <2>1, <2>3, <3>2, <3>4
      <3>5. \A q \in Request : KeyOf[q] # k /\ ~Dropped(KeyOf[q]) =>
               /\ q \in claims' => Claimed(q)'
               /\ pc'[q] \in {"run", "committed"} \/ q \in posted' => q \in claims'
               /\ pc'[q] = "lookup" => record'[KeyOf[q]] # Absent
        BY <1>2, <3>4 DEF OneClaim, Claimed
      <3>6. \A q \in Request : KeyOf[q] = k /\ ~Dropped(k) =>
               /\ q \in claims' => Claimed(q)'
               /\ pc'[q] \in {"run", "committed"} \/ q \in posted' => q \in claims'
               /\ pc'[q] = "lookup" => record'[KeyOf[q]] # Absent
        <4>1. claims' \subseteq Request
          BY <2>4 DEF TypeOK
        <4> QED
          BY <1>2, <1>4, <2>1, <3>3, <4>1 DEF Claimed
      <3> QED
        BY <1>6, <3>5, <3>6 DEF OneClaim
    <2>9. TrueCopies'
      <3>1. new.response = NoRequest
        OBVIOUS
      <3>2. \A c \in Key : Completed(c)' => Completed(c) /\ record'[c] = record[c]
        BY <2>3, <3>1 DEF Completed
      <3> QED
        BY <1>2, <3>2 DEF TrueCopies, Voucher
    <2> QED
      BY <1>5, <2>4, <2>5, <2>7, <2>8, <2>9
  <1>8. CASE UNCHANGED <<record, claims>> /\ (p = "failed" \/ (p = "lookup" /\ record[k] # Absent))
    <2>1. TypeOK'
      BY <1>2, <1>4, <1>8, <1>o DEF TypeOK
    <2>2. SettledOnce' /\ OneOwner' /\ TrueCopies'
      BY <1>2, <1>8 DEF SettledOnce, OneOwner, Owns, TrueCopies, Completed, Voucher
    <2>3. OneClaim'
      BY <1>1, <1>2, <1>4, <1>6, <1>8 DEF OneClaim, Claimed
    <2> QED
      BY <1>5, <2>1, <2>2, <2>3
  <1> QED
    BY <1>3, <1>7, <1>8

LEMMA LookupStep ==
    ASSUME KeyInv, NEW r \in Request, Lookup(r)
    PROVE  KeyInv'
  <1> USE DEF KeyInv
  <1> DEFINE k == KeyOf[r]
             row == record[k]
  <1>1. pc[r] = "lookup" /\ k \in Key
    BY IdempotencyConstants DEF Lookup
  <1>2. UNCHANGED <<record, claims, settled, posted, writes, struck, orphaned>>
    BY DEF Lookup
  <1>3. CASE row = Absent /\ Goto(r, "run") /\ UNCHANGED <<answer, fast>>
    <2>1. /\ pc' \in [Request -> PC] /\ pc'[r] = "run"
          /\ \A q \in Request \ {r} : pc'[q] = pc[q]
      BY <1>3, Moved DEF PC
    <2>2. TypeOK'
      BY <1>2, <1>3, <2>1 DEF TypeOK
    <2>3. NothingEarly' /\ CommittedPosted' /\ TrueAnswers'
      BY <1>1, <1>2, <1>3, <2>1 DEF NothingEarly, CommittedPosted, TrueAnswers, Truthful
    <2>4. SettledOnce' /\ OneOwner' /\ TrueCopies'
      BY <1>2, <1>3 DEF SettledOnce, OneOwner, Owns, TrueCopies, Completed, Voucher
    <2>5. Dropped(k)
      BY <1>1, <1>3 DEF OneClaim
    <2>6. \A c : Dropped(c)' <=> Dropped(c)
      BY <1>2, <1>3 DEF Dropped
    <2>7. OneClaim'
      BY <1>2, <2>1, <2>5, <2>6 DEF OneClaim, Claimed
    <2> QED
      BY <2>2, <2>3, <2>4, <2>7
  <1>4. ASSUME NEW a \in Answer, Reply(r, a), Goto(r, "over"), a.kind \in {"conflict", "replay"},
               a.kind = "replay" => Truthful(r, a.response),
               \/ UNCHANGED fast
               \/ fast' = [fast EXCEPT ![k] = row] /\ row # Absent /\ row.response # NoRequest
        PROVE  KeyInv'
    <2>1. NothingEarly' /\ SettledOnce' /\ OneOwner' /\ CommittedPosted' /\ OneClaim' /\ TrueAnswers'
      BY <1>1, <1>2, <1>4, Ended
    <2>2. row \in {Absent} \cup Record
      BY <1>1 DEF TypeOK
    <2>3. fast' \in [Key -> {Absent} \cup Record]
      BY <1>4, <2>2 DEF TypeOK
    <2>4. TypeOK'
      BY <1>2, <1>4, <2>3, Moved, Replied DEF TypeOK, PC
    <2>5. \A c \in Key : fast'[c] # Absent => Voucher(c, fast'[c])
      <3>1. CASE UNCHANGED fast
        BY <3>1 DEF TrueCopies
      <3>2. CASE fast' = [fast EXCEPT ![k] = row] /\ row # Absent /\ row.response # NoRequest
        <4>1. Voucher(k, row)
          BY <1>1, <3>2 DEF TrueCopies, Completed
        <4> QED
          BY <3>2, <4>1 DEF TrueCopies, TypeOK
      <3> QED
        BY <1>4, <3>1, <3>2
    <2>6. TrueCopies'
      BY <1>2, <2>5 DEF TrueCopies, Completed, Voucher
    <2> QED
      BY <2>1, <2>4, <2>6
  <1>5. CASE row # Absent /\ Goto(r, "over") /\ Reply(r, [kind |-> "conflict"]) /\ UNCHANGED fast
    <2>1. [kind |-> "conflict"] \in Answer
      BY DEF Answer
    <2> QED
      BY <1>4, <1>5, <2>1
  <1>6. CASE /\ row # Absent /\ row.body = BodyOf[r] /\ row.response # NoRequest
             /\ Goto(r, "over") /\ Reply(r, [kind |-> "replay", response |-> row.response])
             /\ fast' \in {fast, [fast EXCEPT ![k] = row]}
    <2>1. PICK q \in posted : KeyOf[q] = k /\ row = [body |-> BodyOf[q], response |-> q]
      BY <1>1, <1>6 DEF TrueCopies, Completed, Voucher
    <2>2. q \in Request /\ row.response = q /\ row.body = BodyOf[q]
      BY <2>1 DEF TypeOK
    <2> DEFINE a == [kind |-> "replay", response |-> row.response]
    <2>3. a \in Answer /\ a.kind = "replay" /\ a.response = q
      BY <2>2 DEF Answer
    <2>4. Truthful(r, q)
      BY <1>6, <2>1, <2>2 DEF Truthful
    <2>5. Reply(r, a)
      BY <1>6
    <2> HIDE DEF a
    <2> QED
      BY <1>4, <1>6, <2>3, <2>4, <2>5
  <1>7. CASE Goto(r, "failed") /\ UNCHANGED <<answer, fast>>
    <2>1. TypeOK'
      BY <1>2, <1>7, Moved DEF TypeOK, PC
    <2> QED
      BY <1>1, <1>2, <1>7, <2>1, OnlyMoves DEF PC
  <1> QED
    BY <1>3, <1>5, <1>6, <1>7 DEF Lookup

\* A response, whether of the handler, of the deadline or of a client that went, or
\* one that was sent before.
LEMMA SettleKeeps ==
    ASSUME KeyInv, NEW r \in Request, NEW ok \in BOOLEAN, NEW a \in Answer,
           pc[r] # "over" \/ answer[r].kind \in Refusal,
           Settle(r, ok) \/ UNCHANGED <<settled, writes, fast>>, Reply(r, a),
           UNCHANGED <<record, claims, posted, struck, orphaned>>,
           ok => r \in posted,
           ~ok => a.kind \in Refusal,
           \/ a.kind \in Refusal
           \/ (a = [kind |-> "own", response |-> r] /\ r \in posted),
           \/ Goto(r, "over")
           \/ (UNCHANGED pc /\ a.kind \in Refusal)
    PROVE  KeyInv'
  <1> USE DEF KeyInv
  <1> DEFINE w == [op |-> IF ok THEN "complete" ELSE "release", request |-> r]
             new == [body |-> BodyOf[r], response |-> r]
  <1>1. /\ answer' \in [Request -> Answer]
        /\ answer'[r] = IF answer[r].kind = "none" THEN a ELSE answer[r]
        /\ \A q \in Request \ {r} : answer'[q] = answer[q]
        /\ \A q \in Request : answer[q].kind # "none" => answer'[q] = answer[q]
    BY Replied, AnswersStay DEF Unanswered
  <1>2. /\ pc' \in [Request -> PC] /\ \A q \in Request \ {r} : pc'[q] = pc[q]
        /\ pc'[r] = "over" \/ (pc'[r] = pc[r] /\ a.kind \in Refusal)
    BY Moved DEF PC, TypeOK
  <1>3. answer'[r].kind # "none" /\ (~ok => answer'[r].kind \in Refusal)
    BY <1>1 DEF NothingEarly, Refusal
  <1>4. w \in Write /\ w.request = r /\ (w.op = "complete" => ok) /\ (w.op = "release" => ~ok)
    BY DEF Write
  <1>5. \/ UNCHANGED <<settled, writes, fast>>
        \/ /\ r \in claims /\ r \notin settled
           /\ settled' = settled \cup {r} /\ writes' = writes \cup {w}
           /\ UNCHANGED fast \/ (ok /\ fast' = [fast EXCEPT ![KeyOf[r]] = new])
    BY DEF Settle, Wrapped
  <1> HIDE DEF w
  <1>6. settled \subseteq settled' /\ settled' \subseteq settled \cup {r}
    BY <1>5
  <1>7. new \in Record /\ KeyOf[r] \in Key
    BY NewRow, IdempotencyConstants
  <1>8. TypeOK'
    BY <1>1, <1>2, <1>4, <1>5, <1>7 DEF TypeOK
  <1>9. NothingEarly'
    BY <1>1, <1>2 DEF NothingEarly
  <1>10. SettledOnce'
    <2>1. writes \subseteq Write /\ settled \subseteq Request
      BY DEF TypeOK
    <2>2. /\ \A q \in settled : q \in claims' /\ answer'[q].kind # "none"
          /\ \A x \in writes : /\ x.request \in settled'
                               /\ x.op = "release" => answer'[x.request].kind \in Refusal
                               /\ x.op = "complete" => x.request \in posted'
      BY <1>1, <1>6, <2>1 DEF SettledOnce
    <2>3. CASE UNCHANGED <<settled, writes, fast>>
      BY <2>2, <2>3 DEF SettledOnce
    <2>4. CASE r \in claims /\ r \notin settled /\ settled' = settled \cup {r} /\ writes' = writes \cup {w}
      <3>1. \A x \in writes : x.request # w.request
        BY <1>4, <2>4 DEF SettledOnce
      <3>2. /\ w.op = "release" => answer'[w.request].kind \in Refusal
            /\ w.op = "complete" => w.request \in posted'
        BY <1>3, <1>4
      <3>3. w.request \in settled'
        BY <1>4, <2>4
      <3> QED
        BY <1>3, <2>2, <2>4, <3>1, <3>2, <3>3 DEF SettledOnce
    <2> QED
      BY <1>5, <2>3, <2>4
  <1>11. OneOwner'
    <2>1. \A q \in Request : Owns(q)' => Owns(q)
      BY <1>4, <1>5 DEF Owns
    <2> QED
      BY <2>1 DEF OneOwner
  <1>12. CommittedPosted'
    BY <1>2 DEF CommittedPosted
  <1>13. OneClaim'
    <2>1. \A c : Dropped(c) => Dropped(c)'
      BY <1>1, <1>6, DroppedStays
    <2>2. \A q \in Request : pc'[q] = "over" \/ pc'[q] = pc[q]
      BY <1>2
    <2> QED
      BY <2>1, <2>2 DEF OneClaim, Claimed
  <1>14. TrueCopies'
    <2>1. \A c \in Key : fast'[c] = fast[c] \/ (c = KeyOf[r] /\ fast'[c] = new /\ r \in posted)
      BY <1>5, <1>7 DEF TypeOK
    <2> QED
      BY <2>1 DEF TrueCopies, Completed, Voucher
  <1>15. TrueAnswers'
    <2>1. answer'[r] = answer[r] \/ answer'[r].kind \in Refusal
            \/ (answer'[r].response = r /\ r \in posted)
      BY <1>1
    <2>2. answer'[r].kind \in {"own", "replay"} => Truthful(r, answer'[r].response)
      BY <2>1 DEF TrueAnswers, Truthful, Refusal
    <2> QED
      BY <1>1, <2>2 DEF TrueAnswers, Truthful
  <1> QED
    BY <1>8, <1>9, <1>10, <1>11, <1>12, <1>13, <1>14, <1>15

LEMMA ResponseStep ==
    ASSUME KeyInv, NEW r \in Request, Respond(r) \/ Timeout(r) \/ Disconnect(r) \/ Closed503(r)
    PROVE  KeyInv'
  <1> DEFINE own == [kind |-> "own", response |-> r]
  <1>1. own \in Answer /\ [kind |-> "error"] \in Answer /\ [kind |-> "gone"] \in Answer
    BY DEF Answer
  <1>2. CASE Respond(r) /\ pc[r] = "committed"
    <2>1. r \in posted
      BY <1>2 DEF KeyInv, CommittedPosted
    <2>2. /\ Settle(r, TRUE) \/ UNCHANGED <<settled, writes, fast>>
          /\ Reply(r, own) /\ Goto(r, "over")
          /\ UNCHANGED <<record, claims, posted, struck, orphaned>>
      BY <1>2 DEF Respond
    <2> QED
      BY <1>1, <1>2, <2>1, <2>2, SettleKeeps
  <1>3. CASE Respond(r) /\ pc[r] = "failed"
    <2>1. /\ Settle(r, FALSE) \/ UNCHANGED <<settled, writes, fast>>
          /\ Reply(r, [kind |-> "error"]) /\ Goto(r, "over")
          /\ UNCHANGED <<record, claims, posted, struck, orphaned>>
      BY <1>3 DEF Respond
    <2> QED
      BY <1>1, <1>3, <2>1, SettleKeeps DEF Refusal
  <1>4. CASE Timeout(r)
    <2>1. /\ pc[r] # "over" /\ Settle(r, FALSE) /\ Reply(r, [kind |-> "error"])
          /\ UNCHANGED <<record, pc, claims, posted, struck, orphaned>>
      BY <1>4 DEF Timeout
    <2> QED
      BY <1>1, <2>1, SettleKeeps DEF Refusal
  <1>5. CASE Disconnect(r)
    <2>1. /\ pc[r] # "over" /\ Settle(r, FALSE) /\ Reply(r, [kind |-> "gone"])
          /\ UNCHANGED <<record, pc, claims, posted, struck, orphaned>>
      BY <1>5 DEF Disconnect
    <2> QED
      BY <1>1, <2>1, SettleKeeps DEF Refusal
  <1>6. CASE Closed503(r)
    <2>1. /\ answer[r].kind \in Refusal /\ Settle(r, FALSE)
          /\ UNCHANGED <<record, pc, claims, posted, struck, orphaned>>
      BY <1>6 DEF Closed503, Refusal
    <2>2. Reply(r, [kind |-> "error"])
      <3>1. answer \in [Request -> Answer] /\ answer' = answer
        BY <1>6 DEF Closed503, KeyInv, TypeOK
      <3>2. ~Unanswered(r)
        BY <1>6 DEF Closed503, Unanswered
      <3>3. [answer EXCEPT ![r] = answer[r]] = answer
        BY <3>1
      <3> QED
        BY <3>1, <3>2, <3>3, SMT DEF Reply
    <2> QED
      BY <1>1, <2>1, <2>2, SettleKeeps DEF Refusal
  <1> QED
    BY <1>2, <1>3, <1>4, <1>5, <1>6 DEF Respond

\* The write of the owner reaches the row: the claim becomes a stored response,
\* or is given back, for a request that was told of no success.
LEMMA StoreStep ==
    ASSUME KeyInv, NEW w \in Write, Store(w)
    PROVE  KeyInv'
  <1> USE DEF KeyInv
  <1> DEFINE r == w.request
             k == KeyOf[r]
             claim == [body |-> BodyOf[r], response |-> NoRequest]
             new == [body |-> BodyOf[r], response |-> r]
  <1>1. /\ w \in writes /\ writes' = writes \ {w}
        /\ UNCHANGED <<fast, pc, claims, settled, posted, answer, struck, orphaned>>
    BY DEF Store
  <1>2. r \in Request /\ k \in Key /\ w.op \in {"complete", "release"}
    BY IdempotencyConstants DEF Write
  <1>3. /\ r \in claims /\ r \in settled /\ Owns(r)
        /\ w.op = "release" => answer[r].kind \in Refusal
        /\ w.op = "complete" => r \in posted
        /\ \A x \in writes' : x.request # r
    BY <1>1 DEF SettledOnce, Owns
  <1>4. record[k] = claim
    BY <1>2, <1>3 DEF OneOwner
  <1>5. claim # Absent /\ new # Absent /\ new \in Record /\ new.response = r /\ new.body = BodyOf[r]
    BY <1>2, NewRow, RecordsDiffer
  <1>6. \/ w.op = "complete" /\ record' = [record EXCEPT ![k] = new]
        \/ w.op = "release" /\ record' = [record EXCEPT ![k] = Absent]
    <2>1. CASE w.op = "release"
      BY <2>1 DEF Store
    <2>2. CASE w.op = "complete"
      <3>1. record' = [record EXCEPT ![k] = [record[k] EXCEPT !.response = r]]
        BY <1>4, <1>5, <2>2 DEF Store
      <3>2. [claim EXCEPT !.response = r] = new
        OBVIOUS
      <3> QED
        BY <1>4, <2>2, <3>1, <3>2
    <2> QED
      BY <1>2, <2>1, <2>2
  <1>7. /\ record' \in [Key -> {Absent} \cup Record]
        /\ \A c \in Key \ {k} : record'[c] = record[c]
        /\ w.op = "complete" => record'[k] = new
        /\ w.op = "release" => record'[k] = Absent
    BY <1>2, <1>5, <1>6 DEF TypeOK
  <1> HIDE DEF claim, new
  <1>8. TypeOK'
    BY <1>1, <1>7 DEF TypeOK
  <1>9. NothingEarly' /\ CommittedPosted' /\ TrueAnswers'
    BY <1>1 DEF NothingEarly, CommittedPosted, TrueAnswers, Truthful
  <1>10. SettledOnce'
    BY <1>1 DEF SettledOnce
  <1>11. OneOwner'
    <2>1. \A q \in Request : Owns(q)' => Owns(q) /\ q # r
      BY <1>1, <1>3 DEF Owns
    <2>2. \A q \in Request : Owns(q)' => KeyOf[q] # k
      BY <1>2, <1>3, <2>1 DEF OneOwner
    <2>3. \A q \in Request : KeyOf[q] \in Key
      BY IdempotencyConstants
    <2> QED
      BY <1>7, <2>1, <2>2, <2>3 DEF OneOwner
  <1>12. OneClaim'
    <2>1. \A c : Dropped(c)' <=> Dropped(c)
      BY <1>1 DEF Dropped
    <2>2. w.op = "release" => Dropped(k)
      BY <1>3 DEF Dropped, Refusal
    <2>3. \A q \in Request : ~Dropped(KeyOf[q]) /\ record[KeyOf[q]] # Absent => record'[KeyOf[q]] # Absent
      <3>1. \A q \in Request : KeyOf[q] \in Key
        BY IdempotencyConstants
      <3> QED
        BY <1>2, <1>5, <1>7, <2>2, <3>1
    <2> QED
      BY <1>1, <2>1, <2>3 DEF OneClaim, Claimed
  <1>13. TrueCopies'
    <2>1. w.op = "complete" => r \in posted /\ KeyOf[r] = k /\ record'[k] = [body |-> BodyOf[r], response |-> r]
      BY <1>3, <1>7 DEF new
    <2>2. w.op = "complete" => Voucher(k, record'[k])
      BY <2>1 DEF Voucher
    <2>3. record'[k] # Absent => Voucher(k, record'[k])
      BY <1>2, <1>7, <2>2
    <2>4. \A c \in Key \ {k} : Completed(c)' => Voucher(c, record'[c])
      BY <1>7 DEF Completed, TrueCopies
    <2>5. \A c \in Key : /\ Completed(c)' => Voucher(c, record'[c])
                         /\ fast'[c] # Absent => Voucher(c, fast'[c])
      BY <1>1, <2>3, <2>4 DEF Completed, TrueCopies
    <2> QED
      BY <1>1, <2>5 DEF TrueCopies, Voucher
  <1> QED
    BY <1>8, <1>9, <1>10, <1>11, <1>12, <1>13

\* Writes that never arrive leave the claim as it is.
LEMMA FewerWrites ==
    ASSUME KeyInv, writes' \subseteq writes,
           UNCHANGED <<record, fast, claims, settled, posted>>,
           \A q \in Request : answer[q].kind # "none" => answer'[q] = answer[q],
           \A q \in Request : pc'[q] \in {pc[q], "over"}
    PROVE  SettledOnce' /\ OneOwner' /\ CommittedPosted' /\ OneClaim' /\ TrueCopies'
  <1> USE DEF KeyInv
  <1>1. SettledOnce'
    <2>1. writes \subseteq Write /\ settled \subseteq Request
      BY DEF TypeOK
    <2>2. \A q \in settled : answer'[q] = answer[q]
      BY <2>1 DEF SettledOnce
    <2> QED
      BY <2>1, <2>2 DEF SettledOnce
  <1>2. OneOwner'
    <2>1. \A q \in Request : Owns(q)' => Owns(q)
      BY DEF Owns
    <2> QED
      BY <2>1 DEF OneOwner
  <1>3. CommittedPosted'
    BY DEF CommittedPosted
  <1>4. OneClaim'
    <2>1. \A c : Dropped(c) => Dropped(c)'
      BY DroppedStays
    <2> QED
      BY <2>1 DEF OneClaim, Claimed
  <1>5. TrueCopies'
    BY DEF TrueCopies, Completed, Voucher
  <1> QED
    BY <1>1, <1>2, <1>3, <1>4, <1>5

LEMMA FaultStep ==
    ASSUME KeyInv,
           \/ \E w \in Write : LoseWrite(w)
           \/ \E r \in Request : Crash(r)
           \/ \E k \in Key : Evict(k)
    PROVE  KeyInv'
  <1> USE DEF KeyInv
  <1>1. ASSUME NEW w \in Write, LoseWrite(w) PROVE KeyInv'
    <2>1. /\ w \in writes /\ writes' = writes \ {w} /\ struck' = struck \cup {w.request}
          /\ UNCHANGED <<record, fast, pc, claims, settled, posted, answer, orphaned>>
      BY <1>1 DEF LoseWrite
    <2>2. w.request \in Request
      BY DEF Write
    <2>3. TypeOK'
      BY <2>1, <2>2 DEF TypeOK
    <2>4. NothingEarly' /\ TrueAnswers'
      BY <2>1 DEF NothingEarly, TrueAnswers, Truthful
    <2> QED
      BY <2>1, <2>3, <2>4, FewerWrites
  <1>2. ASSUME NEW r \in Request, Crash(r) PROVE KeyInv'
    <2>1. /\ writes' \subseteq writes /\ struck' = struck \cup {r}
          /\ Goto(r, "over") /\ Reply(r, [kind |-> "gone"])
          /\ UNCHANGED <<record, fast, claims, settled, posted, orphaned>>
      BY <1>2 DEF Crash
    <2>2. [kind |-> "gone"] \in Answer /\ "over" \in PC
      BY DEF Answer, PC
    <2>3. /\ pc' \in [Request -> PC] /\ pc'[r] = "over"
          /\ \A q \in Request \ {r} : pc'[q] = pc[q]
      BY <2>1, <2>2, Moved
    <2>4. /\ answer' \in [Request -> Answer]
          /\ answer'[r] = IF answer[r].kind = "none" THEN [kind |-> "gone"] ELSE answer[r]
          /\ \A q \in Request \ {r} : answer'[q] = answer[q]
          /\ \A q \in Request : answer[q].kind # "none" => answer'[q] = answer[q]
      BY <2>1, <2>2, Replied, AnswersStay DEF Unanswered
    <2>5. TypeOK'
      BY <2>1, <2>3, <2>4 DEF TypeOK
    <2>6. NothingEarly'
      BY <2>3, <2>4 DEF NothingEarly
    <2>7. TrueAnswers'
      BY <2>1, <2>4 DEF TrueAnswers, Truthful
    <2>8. \A q \in Request : pc'[q] \in {pc[q], "over"}
      BY <2>3
    <2> QED
      BY <2>1, <2>4, <2>5, <2>6, <2>7, <2>8, FewerWrites
  <1>3. ASSUME NEW k \in Key, Evict(k) PROVE KeyInv'
    <2>1. /\ fast' = [fast EXCEPT ![k] = Absent]
          /\ UNCHANGED <<record, pc, claims, settled, posted, answer, writes, struck, orphaned>>
      BY <1>3 DEF Evict
    <2>2. TypeOK'
      BY <2>1 DEF TypeOK
    <2>3. NothingEarly' /\ SettledOnce' /\ OneOwner' /\ CommittedPosted' /\ OneClaim' /\ TrueAnswers'
      BY <2>1 DEF NothingEarly, SettledOnce, OneOwner, Owns, CommittedPosted, OneClaim,
                  Claimed, Dropped, TrueAnswers, Truthful
    <2>4. TrueCopies'
      BY <2>1 DEF TrueCopies, Completed, Voucher, TypeOK
    <2> QED
      BY <2>2, <2>3, <2>4
  <1> QED
    BY <1>1, <1>2, <1>3

LEMMA KeyStep == KeyInv /\ [Next]_vars => KeyInv'
  <1> SUFFICES ASSUME KeyInv, [Next]_vars PROVE KeyInv'
    OBVIOUS
  <1>1. ASSUME NEW r \in Request, Send(r) \/ Serve(r) \/ Timeout(r) \/ Closed503(r) \/ Disconnect(r)
                                      \/ Crash(r)
        PROVE  KeyInv'
    BY <1>1, SimpleStep, FastPathStep, ClaimStep, LookupStep, ResponseStep, FaultStep DEF Serve
  <1>2. ASSUME NEW w \in Write, Store(w) \/ LoseWrite(w) PROVE KeyInv'
    BY <1>2, StoreStep, FaultStep
  <1>3. ASSUME NEW k \in Key, Evict(k) PROVE KeyInv'
    BY <1>3, FaultStep
  <1>4. CASE UNCHANGED vars
    <2>1. /\ UNCHANGED <<record, fast, claims, settled, posted, writes, struck, orphaned>>
          /\ UNCHANGED <<pc, answer>>
      BY <1>4 DEF vars
    <2>2. TypeOK' /\ NothingEarly' /\ TrueAnswers'
      BY <2>1 DEF KeyInv, TypeOK, NothingEarly, TrueAnswers, Truthful
    <2> QED
      BY <2>1, <2>2, FewerWrites DEF KeyInv
  <1> QED
    BY <1>1, <1>2, <1>3, <1>4 DEF Next

LEMMA KeyInvHolds == Spec => []KeyInv
  <1> QED
    BY KeyInit, KeyStep, PTL DEF Spec

----------------------------------------------------------------------------

\* idempotency.ts:100-117: INSERT picks one winner and only a request told of no
\* success gives its claim back, so a key posts one voucher unless it was dropped.
THEOREM IdempotencyInvHolds == Spec => []IdempotencyInv
  <1>1. KeyInv => IdempotencyInv
    <2> SUFFICES ASSUME KeyInv PROVE IdempotencyInv
      OBVIOUS
    <2>1. posted \subseteq Request
      BY DEF KeyInv, TypeOK
    <2>2. ASSUME NEW k \in Key, ~Dropped(k), NEW r \in posted, NEW q \in posted,
                 KeyOf[r] = k, KeyOf[q] = k
          PROVE  r = q
      BY <2>1, <2>2 DEF KeyInv, OneClaim, Claimed
    <2> QED
      BY <2>2 DEF IdempotencyInv, OneVoucher, KeyInv
  <1> QED
    BY <1>1, KeyInvHolds, PTL

\* Fast path, lookup and the wrapped res.json never tell of a voucher that was not
\* posted, or that another user or body asked for.
THEOREM ReplaysTrueHolds == Spec => []ReplaysTrue
  <1>1. KeyInv => ReplaysTrue
    <2> SUFFICES ASSUME KeyInv PROVE ReplaysTrue
      OBVIOUS
    <2> QED
      BY DEF KeyInv, TrueCopies, TrueAnswers, Voucher, ReplaysTrue
  <1> QED
    BY <1>1, KeyInvHolds, PTL

\* A stored response has no owner left, so no write that is still on its way can
\* replace it or delete it.
THEOREM ResponseKeptHolds == Spec => ResponseKept
  <1>1. KeyInv /\ [Next]_vars => \A k \in Key : Completed(k) => record'[k] = record[k]
    <2> SUFFICES ASSUME KeyInv, [Next]_vars, NEW k \in Key, Completed(k)
                 PROVE  record'[k] = record[k]
      OBVIOUS
    <2>1. record[k] # Absent /\ record \in [Key -> {Absent} \cup Record]
      BY DEF Completed, KeyInv, TypeOK
    <2>2. \A r \in Request : KeyOf[r] \in Key
      BY IdempotencyConstants
    <2>3. ASSUME NEW r \in Request, Claim(r) PROVE record'[k] = record[k]
      BY <2>1, <2>2, <2>3 DEF Claim, Claiming
    <2>4. ASSUME NEW w \in Write, Store(w) PROVE record'[k] = record[k]
      <3>1. w.request \in Request
        BY DEF Write
      <3>2. Owns(w.request)
        BY <2>4 DEF Store, Owns, KeyInv, SettledOnce
      <3>3. record[KeyOf[w.request]] = [body |-> BodyOf[w.request], response |-> NoRequest]
        BY <3>1, <3>2 DEF KeyInv, OneOwner
      <3>4. KeyOf[w.request] # k
        BY <3>3 DEF Completed
      <3> QED
        BY <2>1, <2>2, <2>4, <3>1, <3>4 DEF Store
    <2>5. ASSUME NEW r \in Request,
                 Send(r) \/ Serve(r) \/ Timeout(r) \/ Closed503(r) \/ Disconnect(r) \/ Crash(r)
          PROVE  record' = record \/ Claim(r)
      BY <2>5 DEF Send, Serve, FastPath, Lookup, Commit, Fail, Respond, Timeout, Closed503,
             Disconnect, Crash
    <2>6. (\E w \in Write : LoseWrite(w)) \/ (\E c \in Key : Evict(c)) \/ UNCHANGED vars
            => record' = record
      BY DEF LoseWrite, Evict, vars
    <2> QED
      BY <2>3, <2>4, <2>5, <2>6 DEF Next
  <1>2. UNCHANGED vars => \A k \in Key : Completed(k) => record'[k] = record[k]
    BY DEF vars
  <1>3. KeyInv /\ [Next]_vars => [\A k \in Key : Completed(k) => record'[k] = record[k]]_vars
    BY <1>1
  <1> QED
    BY <1>3, KeyInvHolds, PTL DEF Spec, ResponseKept

----------------------------------------------------------------------------
(* The API process                                                         *)


\* The balancer sends requests to a process that has listened, and to one that stops
\* no longer than it needs to notice.
RoutedListens == routed => boot = "listening" /\ (stage = "serve" \/ now - since <= LbLag)

\* The listener closes when the drain is over, or the hard limit is reached, unless
\* the process ends before it ever listened.
DrainedFirst ==
    \/ stage \in {"serve", "drain"}
    \/ stage = "error" /\ boot # "listening"
    \/ DrainDelay <= now - since
    \/ HardLimit <= now - since

\* Nothing has come before the process listens.
NobodyYet ==
    boot # "listening" => \A r \in Call : response[r] = "none" /\ handler[r] = "none"

\* Who is cut off by the end of the process, and whom the close waits for.
ResetByForce == \A r \in Call : response[r] = "reset" => stage = "forced"
ClosedWaits  == stage \in {"cache", "db", "clean", "error"} =>
                    \A r \in Call : response[r] \notin Pending

\* A handler that works was admitted.
WorkAdmitted ==
    \A r \in Call : handler[r] \in {"limiter", "working", "killed"} =>
                          response[r] \in {"open", "ended", "sent", "gone", "cut", "reset"}

LimiterOfLogins == \A r \in Call : handler[r] = "limiter" => r \in Login

\* What the comment on DRAIN_DELAY_MS asks for is enough.
LongDrain == DrainDelay > LbLag /\ HardLimit > LbLag => NobodyRefused

ShutdownInv == /\ ApiTypes /\ CounterTells /\ RoutedListens /\ NobodyYet /\ ResetByForce
               /\ ClosedWaits /\ WorkAdmitted /\ LimiterOfLogins /\ DrainedFirst /\ LongDrain

----------------------------------------------------------------------------
(* The counter                                                             *)

\* The responses the counter counts.
Counted(resp) == {r \in Call : resp[r] \in Pending \cup {"cut"}}

LEMMA CountedFinite ==
    ASSUME NEW resp
    PROVE  IsFiniteSet(Counted(resp)) /\ Cardinality(Counted(resp)) \in Nat
  BY ApiConstants, FS_Subset, FS_CardinalityType DEF Counted

\* What a response can be.
Shape == {"none", "refused", "reset"} \cup Pending \cup Closed

\* One response that begins to count adds one, one that ends takes one.
LEMMA CountOne ==
    ASSUME NEW f \in [Call -> Shape], NEW r \in Call, NEW x \in Shape
    PROVE  /\ r \notin Counted(f) /\ x \in Pending \cup {"cut"}
                => Cardinality(Counted(With(f, r, x))) = Cardinality(Counted(f)) + 1
           /\ r \in Counted(f) /\ x \notin Pending \cup {"cut"}
                => /\ Cardinality(Counted(With(f, r, x))) = Cardinality(Counted(f)) - 1
                   /\ Cardinality(Counted(f)) > 0
           /\ (r \in Counted(f) <=> x \in Pending \cup {"cut"})
                => Counted(With(f, r, x)) = Counted(f)
  <1> DEFINE g == With(f, r, x)
  <1>1. g \in [Call -> Shape] /\ g[r] = x /\ \A q \in Call \ {r} : g[q] = f[q]
    BY DEF With
  <1> HIDE DEF g
  <1>2. CASE r \notin Counted(f) /\ x \in Pending \cup {"cut"}
    <2>1. Counted(g) = Counted(f) \cup {r}
      BY <1>1, <1>2 DEF Counted
    <2> QED
      BY <1>2, <2>1, CountedFinite, FS_AddElement DEF g
  <1>3. CASE r \in Counted(f) /\ x \notin Pending \cup {"cut"}
    <2>1. Counted(g) = Counted(f) \ {r}
      BY <1>1, <1>3 DEF Counted
    <2>2. Cardinality(Counted(g)) = Cardinality(Counted(f)) - 1
      BY <1>3, <2>1, CountedFinite, FS_RemoveElement
    <2>3. Cardinality(Counted(g)) \in Nat /\ Cardinality(Counted(f)) \in Nat
      BY CountedFinite
    <2> QED
      BY <1>3, <2>2, <2>3 DEF g
  <1>4. CASE r \in Counted(f) <=> x \in Pending \cup {"cut"}
    <2>1. Counted(g) = Counted(f)
      BY <1>1, <1>4 DEF Counted
    <2> QED
      BY <1>4, <2>1 DEF g
  <1> QED
    BY <1>2, <1>3, <1>4

LEMMA CounterReads ==
    ASSUME CounterTells, Alive
    PROVE  inFlight = Cardinality(Counted(response))
  BY DEF CounterTells, Counted

LEMMA ResponseShape ==
    ASSUME ApiTypes
    PROVE  response \in [Call -> Shape]
  BY DEF ApiTypes, Shape

\* Types and counter are kept by every step that leaves the requests alone.
LEMMA IdleCounter ==
    ASSUME CounterTells, UNCHANGED <<response, inFlight>>, Alive' => Alive
    PROVE  CounterTells'
  BY DEF CounterTells

LEMMA RequestCounter ==
    ASSUME ApiTypes, CounterTells, RoutedListens, NEW r \in Call,
           Arrive(r) \/ Limit(r) \/ Handle(r) \/ Deadline(r) \/ Flush(r) \/ Leave(r)
    PROVE  /\ CounterTells'
           /\ inFlight' \in 0..MaxInFlight
  <1> USE ApiConstants
  <1>1. response \in [Call -> Shape]
    BY ResponseShape
  <1>2. inFlight \in 0..MaxInFlight /\ MaxInFlight \in Nat
    BY DEF ApiTypes
  <1>3. CounterTells' <=> (Alive' => inFlight' = Cardinality(Counted(response')))
    BY DEF CounterTells, Counted
  <1>a. UNCHANGED stage
    BY DEF Arrive, Limit, Handle, Deadline, Flush, Leave, process
  <1>b. CASE ~Alive
    <2>1. UNCHANGED inFlight
      BY <1>b DEF Arrive, Limit, Handle, Deadline, Flush, Leave, Listening, Alive, Exited
    <2> QED
      BY <1>2, <1>3, <1>a, <1>b, <2>1 DEF Alive
  <1>c. SUFFICES ASSUME Alive PROVE CounterTells' /\ inFlight' \in 0..MaxInFlight
    BY <1>b
  <1>4. inFlight = Cardinality(Counted(response))
    BY <1>c, CounterReads
  <1>5. \A x \in Shape : With(response, r, x) \in [Call -> Shape]
    BY <1>1 DEF With
  <1>6. \A q \in Call : q \in Counted(response) <=> response[q] \in {"open", "ended", "cut"}
    BY DEF Counted, Pending
  <1>7. CASE Arrive(r)
    <2>1. CASE UNCHANGED inFlight
      <3>1. \E x \in {"refused", "shed"} : response' = With(response, r, x)
        BY <1>2, <1>7, <2>1 DEF Arrive
      <3>2. r \notin Counted(response)
        BY <1>6, <1>7 DEF Arrive
      <3>3. Counted(response') = Counted(response)
        BY <1>1, <3>1, <3>2, CountOne DEF Pending, Shape, Closed
      <3> QED
        BY <1>2, <1>3, <1>4, <2>1, <3>3
    <2>2. CASE ~UNCHANGED inFlight
      <3>1. response' = With(response, r, "open") /\ inFlight' = inFlight + 1 /\ ~AtCapacity
        BY <1>7, <2>2 DEF Arrive
      <3>2. r \notin Counted(response)
        BY <1>6, <1>7 DEF Arrive
      <3>3. Cardinality(Counted(response')) = Cardinality(Counted(response)) + 1
        BY <1>1, <3>1, <3>2, CountOne DEF Pending, Shape, Closed
      <3>4. inFlight' \in 0..MaxInFlight
        BY <1>2, <3>1 DEF AtCapacity
      <3> QED
        BY <1>3, <1>4, <3>1, <3>3, <3>4
    <2> QED
      BY <2>1, <2>2
  <1>8. CASE Limit(r) \/ Handle(r) \/ Deadline(r)
    <2>1. response' = response \/ (response[r] = "open" /\ response' = With(response, r, "ended"))
      BY <1>8 DEF Limit, Handle, Deadline, EndResponse
    <2>2. Counted(response') = Counted(response)
      BY <1>1, <1>6, <2>1, CountOne DEF Pending, Shape, Closed
    <2>3. inFlight' = inFlight
      BY <1>8 DEF Limit, Handle, Deadline
    <2> QED
      BY <1>2, <1>3, <1>4, <2>2, <2>3
  <1>9. CASE Flush(r) \/ (Leave(r) /\ response[r] = "open")
    <2>1. \E x \in {"sent", "gone"} : response' = With(response, r, x)
      BY <1>9 DEF Flush, Leave
    <2>2. r \in Counted(response) /\ inFlight' = inFlight - 1
      BY <1>6, <1>9 DEF Flush, Leave
    <2>3. /\ Cardinality(Counted(response')) = Cardinality(Counted(response)) - 1
          /\ Cardinality(Counted(response)) > 0
      BY <1>1, <2>1, <2>2, CountOne DEF Pending, Shape, Closed
    <2> QED
      BY <1>2, <1>3, <1>4, <2>2, <2>3
  <1>10. CASE Leave(r) /\ response[r] # "open"
    <2>1. response[r] = "ended" /\ response' = With(response, r, "cut") /\ UNCHANGED inFlight
      BY <1>10 DEF Leave
    <2>2. Counted(response') = Counted(response)
      BY <1>1, <1>6, <2>1, CountOne DEF Pending, Shape, Closed
    <2> QED
      BY <1>2, <1>3, <1>4, <2>1, <2>2
  <1> QED
    BY <1>7, <1>8, <1>9, <1>10

LEMMA CounterInit == ApiInit => CounterTells
  <1> SUFFICES ASSUME ApiInit PROVE CounterTells
    OBVIOUS
  <1>1. Counted(response) = {} /\ inFlight = 0
    BY DEF ApiInit, Counted, Pending
  <1> QED
    BY <1>1, FS_EmptySet DEF CounterTells, Counted

----------------------------------------------------------------------------
(* The shutdown                                                            *)

LEMMA ShutdownInit == ApiInit => ShutdownInv
  <1> SUFFICES ASSUME ApiInit PROVE ShutdownInv
    OBVIOUS
  <1>1. ApiTypes
    <2>1. 0 \in 0..MaxTime /\ 0 \in 0..MaxInFlight
      BY ApiConstants
    <2>2. routed \in BOOLEAN /\ redis \in BOOLEAN
      BY DEF ApiInit
    <2> QED
      BY <2>1, <2>2 DEF ApiInit, ApiTypes
  <1>2. CounterTells
    BY CounterInit
  <1> QED
    BY <1>1, <1>2 DEF ApiInit, ShutdownInv, RoutedListens, NobodyYet, ResetByForce, ClosedWaits,
                      WorkAdmitted, LimiterOfLogins, DrainedFirst, LongDrain, NobodyRefused

\* Whoever is refused comes after the drain and before the balancer has noticed.
LEMMA RefusedBetween ==
    ASSUME ApiTypes, RoutedListens, DrainedFirst, NEW r \in Call, Arrive(r), response'[r] = "refused"
    PROVE  /\ now - since <= LbLag
           /\ DrainDelay <= now - since \/ HardLimit <= now - since
  <1>1. routed /\ ~Listening
    BY DEF Arrive, With, ApiTypes
  <1>2. boot = "listening" /\ stage \notin {"serve", "drain"}
    BY <1>1 DEF RoutedListens, Listening
  <1> QED
    BY <1>1, <1>2 DEF RoutedListens, DrainedFirst

LEMMA ShortDrain ==
    ASSUME ApiTypes, RoutedListens, DrainedFirst, NEW r \in Call, Arrive(r), response'[r] = "refused"
    PROVE  DrainDelay <= LbLag \/ HardLimit <= LbLag
  <1>1. now \in Int /\ since \in Int /\ LbLag \in Int /\ DrainDelay \in Int /\ HardLimit \in Int
    BY ApiConstants DEF ApiTypes
  <1> QED
    BY <1>1, RefusedBetween

\* The steps of the requests.
LEMMA RequestStep ==
    ASSUME ShutdownInv, NEW r \in Call,
           Arrive(r) \/ Limit(r) \/ Handle(r) \/ Deadline(r) \/ Flush(r) \/ Leave(r)
    PROVE  ShutdownInv'
  <1> USE ApiConstants
  <1>0. /\ ApiTypes /\ CounterTells /\ RoutedListens /\ NobodyYet /\ ResetByForce
        /\ ClosedWaits /\ WorkAdmitted /\ LimiterOfLogins /\ DrainedFirst /\ LongDrain
    BY DEF ShutdownInv
  <1>1. CounterTells' /\ inFlight' \in 0..MaxInFlight
    BY <1>0, RequestCounter
  <1>2. UNCHANGED <<now, process>>
    BY DEF Arrive, Limit, Handle, Deadline, Flush, Leave
  <1>3. Arrive(r) => boot = "listening" /\ (response'[r] # "refused" => Listening)
    BY <1>0 DEF RoutedListens, Arrive, Listening, With, ApiTypes
  <1>4. /\ \A q \in Call \ {r} : response'[q] = response[q] /\ handler'[q] = handler[q]
        /\ Arrive(r) => response'[r] \in {"refused", "shed", "open"} /\ response[r] = "none"
        /\ ~Arrive(r) => \/ response'[r] = response[r]
                         \/ response[r] = "open" /\ response'[r] = "ended"
                         \/ /\ response[r] \in {"open", "ended"}
                            /\ response'[r] \in {"sent", "gone", "cut"}
        /\ Arrive(r) => \/ handler'[r] = handler[r]
                        \/ response'[r] = "open" /\ handler'[r] \in {"limiter", "working"}
        /\ ~Arrive(r) => \/ handler'[r] = handler[r]
                         \/ handler[r] = "limiter" /\ handler'[r] = "working"
                         \/ handler'[r] = "done" /\ handler[r] # "none"
    BY <1>0, <1>3 DEF ApiTypes, Arrive, Limit, Handle, Deadline, Flush, Leave, With, EndResponse, Pending
  <1>5. ApiTypes'
    <2>1. response' \in [Call -> {"none", "refused", "reset"} \cup Pending \cup Closed]
      BY <1>0 DEF ApiTypes, Arrive, Limit, Handle, Deadline, Flush, Leave, With, EndResponse, Pending,
                  Closed
    <2>2. handler' \in [Call -> {"none", "limiter", "working", "done", "killed"}]
      BY <1>0 DEF ApiTypes, Arrive, Limit, Handle, Deadline, Flush, Leave, With
    <2>3. success' \subseteq Call
      BY <1>0 DEF ApiTypes, Arrive, Limit, Handle, Deadline, Flush, Leave
    <2>4. window' \subseteq passed' /\ passed' \subseteq [req : Login, at : 0..MaxTime, back : BOOLEAN]
      <3>1. CASE Limit(r)
        <4>1. handler[r] = "limiter"
          BY <3>1 DEF Limit
        <4>2. r \in Login => \A back \in BOOLEAN :
                 Member(r, back) \in [req : Login, at : 0..MaxTime, back : BOOLEAN]
          BY <1>0 DEF ApiTypes, Member
        <4> QED
          BY <1>0, <3>1, <4>1, <4>2 DEF ApiTypes, Limit, Recent, LimiterOfLogins
      <3>2. CASE Flush(r)
        BY <1>0, <3>2 DEF ApiTypes, Flush
      <3>3. CASE ~(Limit(r) \/ Flush(r))
        BY <1>0, <3>3 DEF ApiTypes, Arrive, Handle, Deadline, Leave
      <3> QED
        BY <3>1, <3>2, <3>3
    <2> QED
      BY <1>0, <1>1, <1>2, <2>1, <2>2, <2>3, <2>4 DEF ApiTypes, process
  <1>6. RoutedListens' /\ DrainedFirst'
    BY <1>0, <1>2 DEF RoutedListens, DrainedFirst, process
  <1>7. NobodyYet'
    BY <1>0, <1>2, <1>3, <1>4 DEF NobodyYet, process
  <1>8. ResetByForce'
    BY <1>0, <1>2, <1>4 DEF ResetByForce, process
  <1>12. LongDrain'
    <2>1. Arrive(r) /\ response'[r] = "refused" => DrainDelay <= LbLag \/ HardLimit <= LbLag
      BY <1>0, ShortDrain
    <2> QED
      BY <1>0, <1>4, <2>1 DEF LongDrain, NobodyRefused
  <1>9. ClosedWaits'
    BY <1>0, <1>2, <1>3, <1>4 DEF ClosedWaits, process, Listening, Pending
  <1>10. WorkAdmitted'
    BY <1>0, <1>4 DEF WorkAdmitted
  <1>11. LimiterOfLogins'
    BY <1>0 DEF LimiterOfLogins, ApiTypes, Arrive, Limit, Handle, Deadline, Flush, Leave, With
  <1> QED
    BY <1>1, <1>5, <1>6, <1>7, <1>8, <1>9, <1>10, <1>11, <1>12 DEF ShutdownInv

\* The steps of the process, but for its end.
ProcessStep == Boot \/ Route \/ Unroute \/ RedisChanges \/ Tick \/ Signal \/ Drain \/ Close
               \/ QuitCache

LEMMA ProcessKeeps ==
    ASSUME ShutdownInv, ProcessStep
    PROVE  ShutdownInv'
  <1> USE ApiConstants
  <1>0. /\ ApiTypes /\ CounterTells /\ RoutedListens /\ NobodyYet /\ ResetByForce
        /\ ClosedWaits /\ WorkAdmitted /\ LimiterOfLogins /\ DrainedFirst /\ LongDrain
    BY DEF ShutdownInv
  <1>1. UNCHANGED <<response, handler, success, inFlight>>
    BY DEF ProcessStep, Boot, Route, Unroute, RedisChanges, Tick, Signal, Drain, Close, QuitCache,
           work
  <1>2. Alive' => Alive
    BY DEF ProcessStep, Boot, Route, Unroute, RedisChanges, Tick, Signal, Drain, Close, QuitCache,
           process, Alive, Exited
  <1>3. CounterTells'
    BY <1>0, <1>1, <1>2, IdleCounter
  <1>4. ApiTypes'
    <2>1. now' \in 0..MaxTime /\ since' \in 0..MaxTime
      BY <1>0 DEF ProcessStep, Boot, Route, Unroute, RedisChanges, Tick, Signal, Drain, Close,
                  QuitCache, process, ApiTypes
    <2>2. /\ boot' \in {"none", "database", "listening"}
          /\ stage' \in {"serve"} \cup Stopping \cup Exited
      BY <1>0 DEF ProcessStep, Boot, Route, Unroute, RedisChanges, Tick, Signal, Drain, Close,
                  QuitCache, process, ApiTypes, Stopping, Exited
    <2>3. routed' \in BOOLEAN /\ redis' \in BOOLEAN
      BY <1>0 DEF ProcessStep, Boot, Route, Unroute, RedisChanges, Tick, Signal, Drain, Close,
                  QuitCache, process, ApiTypes
    <2>4. /\ window' \subseteq passed'
          /\ passed' \subseteq [req : Login, at : 0..MaxTime, back : BOOLEAN]
      BY <1>0 DEF ProcessStep, Boot, Route, Unroute, RedisChanges, Tick, Signal, Drain, Close,
                  QuitCache, work, ApiTypes
    <2> QED
      BY <1>0, <1>1, <2>1, <2>2, <2>3, <2>4 DEF ApiTypes
  <1>5. RoutedListens' /\ DrainedFirst'
    <2>0. /\ now \in Nat /\ since \in Nat /\ LbLag \in Nat /\ DrainDelay \in Nat /\ HardLimit \in Nat
          /\ routed \in BOOLEAN
      BY <1>0 DEF ApiTypes
    <2>1. CASE Tick
      <3>1. now' = now + 1 /\ UNCHANGED process
        BY <2>1 DEF Tick
      <3>2. routed /\ stage # "serve" => now - since < LbLag
        BY <2>0, <2>1 DEF Tick
      <3>3. RoutedListens'
        BY <1>0, <2>0, <3>1, <3>2 DEF RoutedListens, process
      <3>4. DrainedFirst'
        BY <1>0, <2>0, <3>1 DEF DrainedFirst, process
      <3> QED
        BY <3>3, <3>4
    <2>2. CASE Signal
      <3>1. stage' = "drain" /\ now' - since' = 0 /\ stage = "serve"
        BY <2>0, <2>2 DEF Signal
      <3> QED
        BY <1>0, <2>0, <2>2, <3>1 DEF RoutedListens, DrainedFirst, Signal
    <2>3. CASE Drain
      BY <1>0, <2>0, <2>3 DEF RoutedListens, DrainedFirst, Drain
    <2>4. CASE Boot
      BY <1>0, <2>0, <2>4 DEF RoutedListens, DrainedFirst, Boot, Alive, Exited
    <2>5. CASE Route \/ Unroute \/ RedisChanges \/ Close \/ QuitCache
      BY <1>0, <2>0, <2>5 DEF RoutedListens, DrainedFirst, Route, Unroute, RedisChanges, Close,
                             QuitCache, Ready
    <2> QED
      BY <2>1, <2>2, <2>3, <2>4, <2>5 DEF ProcessStep
  <1>6. NobodyYet'
    BY <1>0, <1>1 DEF ProcessStep, Boot, Route, Unroute, RedisChanges, Tick, Signal, Drain, Close,
                QuitCache, process, NobodyYet
  <1>7. ResetByForce'
    BY <1>0, <1>1 DEF ProcessStep, Boot, Route, Unroute, RedisChanges, Tick, Signal, Drain, Close,
                QuitCache, process, ResetByForce, Alive, Exited
  <1>8. ClosedWaits'
    BY <1>0, <1>1 DEF ProcessStep, Boot, Route, Unroute, RedisChanges, Tick, Signal, Drain, Close,
                QuitCache, process, ClosedWaits, NobodyYet, Pending
  <1>9. WorkAdmitted' /\ LimiterOfLogins' /\ LongDrain'
    BY <1>0, <1>1 DEF WorkAdmitted, LimiterOfLogins, LongDrain, NobodyRefused
  <1> QED
    BY <1>3, <1>4, <1>5, <1>6, <1>7, <1>8, <1>9 DEF ShutdownInv

\* The end of the process.
LEMMA EndKeeps ==
    ASSUME ShutdownInv, QuitDatabase \/ HardExit
    PROVE  ShutdownInv'
  <1> USE ApiConstants
  <1>0. /\ ApiTypes /\ CounterTells /\ RoutedListens /\ NobodyYet /\ ResetByForce
        /\ ClosedWaits /\ WorkAdmitted /\ LimiterOfLogins /\ DrainedFirst /\ LongDrain
    BY DEF ShutdownInv
  <1>1. PICK how \in Exited :
           /\ Die(how)
           /\ how \in {"clean", "error"} => stage = "db"
           /\ how = "forced" => stage \in Stopping /\ now - since >= HardLimit
    BY DEF QuitDatabase, HardExit, Exited
  <1>2. UNCHANGED <<now, boot, since, routed, redis, success, inFlight, window, passed>>
    BY <1>1 DEF QuitDatabase, HardExit, Die
  <1>3. /\ stage' = how
        /\ \A r \in Call :
              /\ response'[r] = IF response[r] \in Pending THEN "reset" ELSE response[r]
              /\ handler'[r] = IF handler[r] \in {"limiter", "working"} THEN "killed"
                               ELSE handler[r]
    BY <1>0, <1>1 DEF Die, ApiTypes
  <1>4. ApiTypes'
    <2>1. response' \in [Call -> {"none", "refused", "reset"} \cup Pending \cup Closed]
      BY <1>0, <1>1 DEF Die, ApiTypes
    <2>2. handler' \in [Call -> {"none", "limiter", "working", "done", "killed"}]
      BY <1>0, <1>1 DEF Die, ApiTypes
    <2> QED
      BY <1>0, <1>2, <1>3, <2>1, <2>2 DEF ApiTypes
  <1>5. CounterTells'
    BY <1>3 DEF CounterTells, Alive, Exited
  <1>6. now \in Int /\ since \in Int
    BY <1>0 DEF ApiTypes
  <1>7. RoutedListens' /\ DrainedFirst'
    BY <1>0, <1>1, <1>2, <1>3, <1>6 DEF RoutedListens, DrainedFirst, Stopping, Exited
  <1>8. NobodyYet'
    BY <1>0, <1>2, <1>3 DEF NobodyYet, Pending
  <1>9. ResetByForce'
    BY <1>0, <1>1, <1>3 DEF ResetByForce, ClosedWaits, Exited, Stopping
  <1>10. ClosedWaits'
    BY <1>3 DEF ClosedWaits, Pending
  <1>11. WorkAdmitted' /\ LimiterOfLogins' /\ LongDrain'
    BY <1>0, <1>3 DEF WorkAdmitted, LimiterOfLogins, LongDrain, NobodyRefused, Pending
  <1> QED
    BY <1>4, <1>5, <1>7, <1>8, <1>9, <1>10, <1>11 DEF ShutdownInv

LEMMA ShutdownStep == ShutdownInv /\ [ApiNext]_api => ShutdownInv'
  <1> SUFFICES ASSUME ShutdownInv, [ApiNext]_api PROVE ShutdownInv'
    OBVIOUS
  <1>1. CASE UNCHANGED api
    BY <1>1 DEF api, process, work, ShutdownInv, ApiTypes, CounterTells, Alive, RoutedListens,
                NobodyYet, ResetByForce, ClosedWaits, WorkAdmitted, LimiterOfLogins, DrainedFirst,
                LongDrain, NobodyRefused
  <1>2. CASE ApiNext
    BY <1>2, RequestStep, ProcessKeeps, EndKeeps DEF ApiNext, ProcessStep
  <1> QED
    BY <1>1, <1>2

\* The counter of load shedding counts the responses that are not out, and those
\* it lost track of because their client left after end() (loadShedding.ts:109-115).
THEOREM ApiInvHolds == ApiSpec => []ApiInv
  <1>1. ShutdownInv => ApiInv
    BY DEF ShutdownInv, ApiInv
  <1> QED
    BY <1>1, ShutdownInit, ShutdownStep, PTL DEF ApiSpec

\* The shutdown of server.ts:56-94 cuts a response off by the hard exit only, and
\* takes the database only from handlers that somebody has given up.
THEOREM ShutdownSparesHolds == ApiSpec => []ShutdownSpares
  <1>1. ShutdownInv => ShutdownSpares
    BY DEF ShutdownInv, ShutdownSpares, ResetByForce, ClosedWaits, WorkAdmitted, Pending
  <1> QED
    BY <1>1, ShutdownInit, ShutdownStep, PTL DEF ApiSpec

\* Whatever the delays are, a closed listener refuses requests only between the end of
\* the drain (or the hard exit) and the moment the balancer has noticed.
THEOREM RefusedInGapHolds == ApiSpec => RefusedInGap
  <1> DEFINE Gap == \A r \in Call : response[r] # "refused" /\ response'[r] = "refused" =>
                       /\ now - since <= LbLag
                       /\ DrainDelay <= now - since \/ HardLimit <= now - since
  <1>1. ShutdownInv /\ [ApiNext]_api => [Gap]_api
    <2> SUFFICES ASSUME ShutdownInv, ApiNext, NEW r \in Call,
                        response[r] # "refused", response'[r] = "refused"
                 PROVE  /\ now - since <= LbLag
                        /\ DrainDelay <= now - since \/ HardLimit <= now - since
      OBVIOUS
    <2>0. ApiTypes /\ RoutedListens /\ DrainedFirst
      BY DEF ShutdownInv
    <2>1. Arrive(r)
      <3>1. ASSUME NEW q \in Call, Arrive(q) \/ Limit(q) \/ Handle(q) \/ Deadline(q) \/ Flush(q)
                                    \/ Leave(q)
            PROVE  Arrive(r)
        BY <2>0, <3>1 DEF ApiTypes, Arrive, Limit, Handle, Deadline, Flush, Leave, With, EndResponse
      <3>2. ~ProcessStep
        BY DEF ProcessStep, Boot, Route, Unroute, RedisChanges, Tick, Signal, Drain, Close, QuitCache,
               work
      <3>3. ~(QuitDatabase \/ HardExit)
        BY <2>0 DEF QuitDatabase, HardExit, Die, ApiTypes
      <3> QED
        BY <3>1, <3>2, <3>3 DEF ApiNext, ProcessStep
    <2> QED
      BY <2>0, <2>1, RefusedBetween
  <1> QED
    BY <1>1, ShutdownInit, ShutdownStep, PTL DEF ApiSpec, RefusedInGap

\* What server.ts:41-42 asks of operations is enough: with a drain, and a hard limit,
\* longer than the balancer's lag no request meets a closed listener.
THEOREM LongDrainHolds == ApiSpec => [](DrainDelay > LbLag /\ HardLimit > LbLag => NobodyRefused)
  <1>1. ShutdownInv => (DrainDelay > LbLag /\ HardLimit > LbLag => NobodyRefused)
    BY DEF ShutdownInv, LongDrain
  <1> QED
    BY <1>1, ShutdownInit, ShutdownStep, PTL DEF ApiSpec

----------------------------------------------------------------------------
(* The limiter                                                             *)

\* What has passed lies in the past, and Redis has what is not too old to count.
Remembered == \A m \in passed : /\ m.at <= now
                                /\ m.at > now - Window => m \in window

\* The passes that count at time t.
Span(ms, t) == {m \in ms : t - Window < m.at /\ m.at <= t}

LEMMA SpanFinite ==
    ASSUME NEW ms \in SUBSET [req : Login, at : 0..MaxTime, back : BOOLEAN], NEW t
    PROVE  IsFiniteSet(ms) /\ IsFiniteSet(Span(ms, t)) /\ Cardinality(Span(ms, t)) \in Nat
  <1> DEFINE Times == (0..MaxTime) \X BOOLEAN
             Members == [req : Login, at : 0..MaxTime, back : BOOLEAN]
             f == [m \in Members |-> <<m.req, <<m.at, m.back>>>>]
  <1>1. IsFiniteSet(Login) /\ IsFiniteSet(0..MaxTime)
    BY ApiConstants, FS_Subset, FS_Interval
  <1>2. IsFiniteSet(BOOLEAN)
    <2>1. BOOLEAN = {TRUE} \cup {FALSE} /\ IsFiniteSet({TRUE})
      BY FS_Singleton
    <2>2. IsFiniteSet({TRUE} \cup {FALSE})
      BY <2>1, FS_AddElement
    <2> QED
      BY <2>1, <2>2
  <1>3. IsFiniteSet(Login \X Times)
    BY <1>1, <1>2, FS_Product
  <1>4. f \in Injection(Members, Login \X Times)
    BY DEF Injection, IsInjective
  <1>5. IsFiniteSet(Members)
    BY <1>3, <1>4, FS_Injection
  <1> QED
    BY <1>5, FS_Subset, FS_CardinalityType DEF Span

LEMMA ThrottleInit == ApiInit => Remembered /\ Throttled
  <1> SUFFICES ASSUME ApiInit PROVE Remembered /\ Throttled
    OBVIOUS
  <1>1. passed = {} /\ \A t \in 0..now : Span(passed, t) = {}
    BY DEF ApiInit, Span
  <1> QED
    BY <1>1, ApiConstants, FS_EmptySet DEF Remembered, Throttled, Span

\* A set of passes that shrinks stays within the maximum.
LEMMA FewerPass ==
    ASSUME ApiTypes, Throttled, passed' \subseteq passed, UNCHANGED now
    PROVE  Throttled'
  <1> SUFFICES ASSUME NEW t \in 0..now
               PROVE  Cardinality(Span(passed', t)) <= MaxFailures
    BY DEF Throttled, Span
  <1>1. passed \in SUBSET [req : Login, at : 0..MaxTime, back : BOOLEAN]
    BY DEF ApiTypes
  <1>2. IsFiniteSet(Span(passed, t)) /\ Span(passed', t) \subseteq Span(passed, t)
    BY <1>1, SpanFinite DEF Span
  <1>3. Cardinality(Span(passed', t)) <= Cardinality(Span(passed, t))
    BY <1>2, FS_Subset
  <1>4. Cardinality(Span(passed, t)) <= MaxFailures
    BY DEF Throttled, Span
  <1>5. passed' \in SUBSET [req : Login, at : 0..MaxTime, back : BOOLEAN]
    BY <1>1
  <1>6. Cardinality(Span(passed', t)) \in Nat /\ Cardinality(Span(passed, t)) \in Nat
    BY <1>1, <1>5, SpanFinite
  <1> QED
    BY <1>3, <1>4, <1>6, ApiConstants

\* A pass: the script has counted what lies in the window, and found room.
LEMMA OnePasses ==
    ASSUME ApiTypes, Remembered, Throttled, NEW r \in Login, NEW back \in BOOLEAN,
           Cardinality(Recent) < MaxFailures, UNCHANGED now,
           window' = Recent \cup {Member(r, back)},
           passed' = passed \cup {Member(r, back)}
    PROVE  Remembered' /\ Throttled'
  <1> USE ApiConstants
  <1> DEFINE m0 == Member(r, back)
             Members == [req : Login, at : 0..MaxTime, back : BOOLEAN]
  <1>1. /\ now \in 0..MaxTime /\ window \subseteq passed /\ passed \in SUBSET Members
        /\ m0 \in Members /\ m0.at = now
    BY DEF ApiTypes, Member
  <1>2. \A m \in passed : m.at \in Int /\ m.at <= now
    BY <1>1 DEF Remembered
  <1>3. Recent = Span(passed, now)
    BY <1>1, <1>2 DEF Recent, Span, Remembered
  <1> HIDE DEF m0
  <1>4. Remembered'
    BY <1>1, <1>2 DEF Remembered, Recent, m0
  <1>5. ASSUME NEW t \in 0..now
        PROVE  Cardinality(Span(passed', t)) <= MaxFailures
    <2>1. CASE t < now
      <3>1. Span(passed', t) = Span(passed, t)
        BY <1>1, <2>1 DEF Span, m0
      <3> QED
        BY <3>1 DEF Throttled, Span
    <2>2. CASE t = now
      <3>1. Span(passed', t) = Recent \cup {m0}
        BY <1>1, <1>3, <2>2 DEF Span, m0
      <3>2. IsFiniteSet(Recent) /\ Cardinality(Recent) \in Nat
        BY <1>1, <1>3, SpanFinite
      <3>3. Cardinality(Recent \cup {m0}) = IF m0 \in Recent THEN Cardinality(Recent)
                                            ELSE Cardinality(Recent) + 1
        BY <3>2, FS_AddElement
      <3> QED
        BY <3>1, <3>2, <3>3
    <2> QED
      BY <1>1, <2>1, <2>2
  <1> QED
    BY <1>4, <1>5 DEF Throttled, Span

\* Time passes: the next stretch has nothing that this one has not.
LEMMA TimePasses ==
    ASSUME ApiTypes, Remembered, Throttled, now' = now + 1, UNCHANGED <<window, passed>>
    PROVE  Remembered' /\ Throttled'
  <1> USE ApiConstants
  <1>1. /\ now \in Nat
        /\ passed \in SUBSET [req : Login, at : 0..MaxTime, back : BOOLEAN]
        /\ \A m \in passed : m.at \in Int /\ m.at <= now
    BY DEF ApiTypes, Remembered
  <1>2. Remembered'
    BY <1>1 DEF Remembered
  <1>3. ASSUME NEW t \in 0..now'
        PROVE  Cardinality(Span(passed, t)) <= MaxFailures
    <2>1. CASE t <= now
      BY <1>1, <2>1 DEF Throttled, Span
    <2>2. CASE t = now + 1
      <3>1. Span(passed, t) \subseteq Span(passed, now)
        BY <1>1, <2>2 DEF Span
      <3>2. Cardinality(Span(passed, t)) <= Cardinality(Span(passed, now))
        BY <1>1, <3>1, SpanFinite, FS_Subset
      <3>3. Cardinality(Span(passed, now)) <= MaxFailures
        BY <1>1 DEF Throttled, Span
      <3>4. Cardinality(Span(passed, t)) \in Nat /\ Cardinality(Span(passed, now)) \in Nat
        BY <1>1, SpanFinite
      <3> QED
        BY <3>2, <3>3, <3>4
    <2> QED
      BY <1>1, <2>1, <2>2
  <1> QED
    BY <1>2, <1>3 DEF Throttled, Span

LEMMA ThrottleStep ==
    ShutdownInv /\ Remembered /\ Throttled /\ [ApiNext]_api => Remembered' /\ Throttled'
  <1> SUFFICES ASSUME ShutdownInv, Remembered, Throttled, [ApiNext]_api
               PROVE  Remembered' /\ Throttled'
    OBVIOUS
  <1>1. ApiTypes /\ LimiterOfLogins
    BY DEF ShutdownInv
  <1>2. CASE \E r \in Call : Limit(r) /\ ~UNCHANGED <<window, passed>>
    <2>1. PICK r \in Call : Limit(r) /\ ~UNCHANGED <<window, passed>>
      BY <1>2
    <2>2. r \in Login /\ UNCHANGED now
      BY <1>1, <2>1 DEF Limit, LimiterOfLogins
    <2>3. CASE window' = Recent /\ UNCHANGED passed
      BY <1>1, <2>2, <2>3, FewerPass DEF Remembered, Recent
    <2>4. CASE \E back \in BOOLEAN : /\ Cardinality(Recent) < MaxFailures
                                     /\ window' = Recent \cup {Member(r, back)}
                                     /\ passed' = passed \cup {Member(r, back)}
      BY <1>1, <2>2, <2>4, OnePasses
    <2> QED
      BY <2>1, <2>3, <2>4 DEF Limit
  <1>3. CASE \E r \in Call : Flush(r)
    <2>1. PICK r \in Call : Flush(r)
      BY <1>3
    <2>2. UNCHANGED now /\ passed' \subseteq passed
      BY <2>1 DEF Flush
    <2>3. \A m \in passed' : m \in window => m \in window'
      BY <2>1 DEF Flush
    <2> QED
      BY <1>1, <2>2, <2>3, FewerPass DEF Remembered
  <1>4. CASE RedisChanges
    <2>1. UNCHANGED now /\ (UNCHANGED <<window, passed>> \/ passed' = {})
      BY <1>4 DEF RedisChanges
    <2> QED
      BY <1>1, <2>1, FewerPass DEF Remembered
  <1>5. CASE Tick
    BY <1>1, <1>5, TimePasses DEF Tick, work
  <1>6. CASE UNCHANGED <<now, window, passed>>
    BY <1>6 DEF Remembered, Throttled
  <1>7. \/ \E r \in Call : Limit(r) \/ Flush(r)
        \/ RedisChanges \/ Tick
        \/ UNCHANGED <<now, window, passed>>
    BY DEF ApiNext, api, process, work, Boot, Route, Unroute, Arrive, Handle, Deadline, Leave, Signal,
           Drain, Close, QuitCache, QuitDatabase, HardExit, Die
  <1>8. \A r \in Call : Limit(r) => UNCHANGED now
    BY DEF Limit
  <1> QED
    BY <1>2, <1>3, <1>4, <1>5, <1>6, <1>7, <1>8

\* The window of the login limiter (rateLimit.ts:73-97) slides: wherever a stretch
\* of its length is laid, it holds no more passes than the maximum.
THEOREM ThrottledHolds == ApiSpec => []Throttled
  BY ShutdownInit, ShutdownStep, ThrottleInit, ThrottleStep, PTL DEF ApiSpec
=============================================================================
