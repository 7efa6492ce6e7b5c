---------------------------- MODULE AmlScreening ----------------------------
(***************************************************************************)
(* The AML worker (workers/aml.worker.ts) beside the ledger it reads.  Each *)
(* posting publishes voucher.posted, and the consumer of the event adds up  *)
(* what every customer of the voucher has paid out in the window of each    *)
(* rule, in the ledger as it is by then, not as it was at the posting.      *)
(*                                                                          *)
(* A voucher carries the working date its entry was prepared on, also when  *)
(* the day changes meanwhile, or its last approval comes days later.        *)
(***************************************************************************)
EXTENDS Integers, Sequences, FiniteSets, Functions

CONSTANTS
    Voucher,
    Customer,
    Entry,      \* what tellers submit: the type, and what it takes and gives
    Rule,
    Code,       \* [Rule -> Nat], the order of their codes
    CashOnly,   \* the rules of kind CASH_THRESHOLD
    Window,     \* [Rule -> Nat], windowDays
    Threshold,  \* [Rule -> Nat]
    MinCount,   \* [Rule -> Nat], 0 for none
    MaxListed,  \* how many vouchers the evidence names: 200 in the code
    Nothing,    \* no row, or nothing found
    MaxDay,     \* bound: working days
    MaxSetbacks \* bound: failures and redeliveries

EntryType == [type : {"CASH", "TRANSFER"}, debit : [Customer -> Nat], credit : [Customer -> Nat]]

Day    == 0..MaxDay
Contra(e) == [type |-> e.type, debit |-> e.credit, credit |-> e.debit]
Legs   == Entry \cup {Contra(e) : e \in Entry}
Row    == [status : {"PENDING_AUTH", "POSTED", "REVERSED"}, day : Day, entry : Legs]

\* The dedupe key is rule, customer and window, here its last day.
Key    == [rule : Rule, customer : Customer, to : Day]

\* observedTotal, transactionCount and contributingVouchers of the evidence.
Alert  == [key : Key, total : Nat, count : Nat, vouchers : SUBSET Voucher]

ASSUME AmlConstants ==
    /\ IsFiniteSet(Voucher) /\ IsFiniteSet(Customer) /\ IsFiniteSet(Rule)
    /\ Entry \subseteq EntryType
    /\ CashOnly \subseteq Rule /\ Code \in [Rule -> Nat]
    /\ Window \in [Rule -> Nat] /\ Threshold \in [Rule -> Nat \ {0}] /\ MinCount \in [Rule -> Nat]
    /\ MaxListed \in Nat /\ MaxDay \in Nat /\ MaxSetbacks \in Nat
    /\ Nothing \notin Row /\ Nothing \notin Alert

VARIABLES
    today,       \* the working date of the branch
    voucher,     \* [Voucher -> its row, or Nothing]
    postings,    \* the vouchers in the order in which they were posted
    evaluation,  \* [Voucher -> its job in the queue aml]
    alert,       \* aml_alert
    setbacks

aml == <<today, voucher, postings, evaluation, alert, setbacks>>

Evaluation ==
    [phase : {"none", "waiting", "active", "done", "dead"},
     todo : SUBSET (Customer \X Rule), found : Alert \cup {Nothing}]

NoEvaluation == [phase |-> "none", todo |-> {}, found |-> Nothing]
Queued       == [NoEvaluation EXCEPT !.phase = "waiting"]

----------------------------------------------------------------------------
(* The ledger, as far as the screening depends on it                       *)

InBooks(v) == voucher[v] # Nothing
WithStatus(s) == {v \in Voucher : InBooks(v) /\ voucher[v].status = s}

\* buildContext reads the working date before the transaction, from a copy in
\* Redis that may be a little old.
WorkingDates == {d \in Day : d <= today /\ d + 1 >= today}

\* Some vouchers post at once, others wait for their approvals.
Entered(e, day, atOnce) ==
    [status |-> IF atOnce THEN "POSTED" ELSE "PENDING_AUTH", day |-> day, entry |-> e]

\* voucher.posted is written in the transaction that posts.
Announce(v, posted) ==
    /\ postings' = IF posted THEN Append(postings, v) ELSE postings
    /\ evaluation' = [evaluation EXCEPT ![v] = IF posted THEN Queued ELSE @]

CreateVoucher(v, e, day, atOnce) ==
    /\ ~InBooks(v)
    /\ voucher' = [voucher EXCEPT ![v] = Entered(e, day, atOnce)]
    /\ Announce(v, atOnce)
    /\ UNCHANGED <<today, alert, setbacks>>

ApproveVoucher(v) ==
    /\ v \in WithStatus("PENDING_AUTH")
    /\ voucher' = [voucher EXCEPT ![v].status = "POSTED"]
    /\ Announce(v, TRUE)
    /\ UNCHANGED <<today, alert, setbacks>>

\* The original is REVERSED as soon as the contra voucher is entered.
ReverseVoucher(v, contra, day, atOnce) ==
    /\ v \in WithStatus("POSTED") /\ ~InBooks(contra)
    /\ voucher' = [voucher EXCEPT ![v].status = "REVERSED",
                          ![contra] = Entered(Contra(voucher[v].entry), day, atOnce)]
    /\ Announce(contra, atOnce)
    /\ UNCHANGED <<today, alert, setbacks>>

NextDay ==
    /\ today < MaxDay
    /\ today' = today + 1
    /\ UNCHANGED <<voucher, postings, evaluation, alert, setbacks>>

----------------------------------------------------------------------------
(* evaluateVoucher                                                         *)

\* The customers of the accounts of a voucher, debited or credited.
Parties(v) == {c \in Customer : voucher[v].entry.debit[c] > 0 \/ voucher[v].entry.credit[c] > 0}

Counts(v, c, r) ==
    /\ voucher[v].entry.debit[c] > 0
    /\ r \in CashOnly => voucher[v].entry.type = "CASH"

\* BETWEEN takes both ends in: windowDays + 1 days.
Within(day, r, to) == day <= to /\ day + Window[r] >= to

\* Mutant: vouchers that wait for an approval count as well.
MoneyEntered(c, r, to) ==
    {v \in WithStatus("POSTED") \cup WithStatus("PENDING_AUTH") :
        Counts(v, c, r) /\ Within(voucher[v].day, r, to)}

\* aggregateWindow
Contributors(c, r, to) ==
    {v \in WithStatus("POSTED") : Counts(v, c, r) /\ Within(voucher[v].day, r, to)}

Paid(c, vs) == SumFunction([v \in vs |-> voucher[v].entry.debit[c]])

Crossed(c, r, vs) == Paid(c, vs) >= Threshold[r] /\ Cardinality(vs) >= MinCount[r]

Begin(v) ==
    /\ evaluation[v].phase = "waiting"
    /\ evaluation' = [evaluation EXCEPT ![v].phase = "active", ![v].todo = Parties(v) \X Rule]
    /\ UNCHANGED <<today, voucher, postings, alert, setbacks>>

Working(v) == evaluation[v].phase = "active" /\ evaluation[v].found = Nothing

\* Customer by customer, in any order, and for each the rules by their codes.
RulesLeft(c, todo) == {r \in Rule : <<c, r>> \in todo}
FirstOf(todo) ==
    {p \in todo :
        \A q \in todo :
            IF q[1] = p[1] THEN Code[p[2]] <= Code[q[2]]
            ELSE Cardinality(RulesLeft(p[1], todo)) <= Cardinality(RulesLeft(q[1], todo))}

\* slice(0, 200) of the ids in their order, which says nothing of the vouchers.
Listed(n)    == IF n <= MaxListed THEN n ELSE MaxListed
Listings(vs) == {listed \in SUBSET vs : Cardinality(listed) = Listed(Cardinality(vs))}

\* One query, for one customer and rule, as the ledger is now.
Aggregate(v, c, r) ==
    LET to == voucher[v].day
        vs == Contributors(c, r, to)
        hit(listed) == [key |-> [rule |-> r, customer |-> c, to |-> to], total |-> Paid(c, vs),
                        count |-> Cardinality(vs), vouchers |-> listed]
    IN  /\ Working(v) /\ <<c, r>> \in FirstOf(evaluation[v].todo)
        /\ \E listed \in Listings(vs) :
              evaluation' = [evaluation EXCEPT ![v].todo = @ \ {<<c, r>>},
                                ![v].found = IF Crossed(c, r, vs) THEN hit(listed) ELSE Nothing]
        /\ UNCHANGED <<today, voucher, postings, alert, setbacks>>

Alerted(k) == \E a \in alert : a.key = k

\* The unique dedupe_key turns a second alert away.
Raise(v) ==
    LET hit == evaluation[v].found
    IN  /\ evaluation[v].phase = "active" /\ hit # Nothing
        /\ alert' = IF Alerted(hit.key) THEN alert ELSE alert \cup {hit}
        /\ evaluation' = [evaluation EXCEPT ![v].found = Nothing]
        /\ UNCHANGED <<today, voucher, postings, setbacks>>

Conclude(v) ==
    /\ Working(v) /\ evaluation[v].todo = {}
    /\ evaluation' = [evaluation EXCEPT ![v].phase = "done"]
    /\ UNCHANGED <<today, voucher, postings, alert, setbacks>>

\* Mutant: the error is caught and logged.
BreakOffQuietly(v) ==
    /\ setbacks < MaxSetbacks /\ evaluation[v].phase = "active"
    /\ evaluation' = [evaluation EXCEPT ![v] = [NoEvaluation EXCEPT !.phase = "done"]]
    /\ setbacks' = setbacks + 1
    /\ UNCHANGED <<today, voucher, postings, alert>>

\* The attempt fails in the middle: it is tried again, or was the last one.
BreakOff(v) ==
    /\ setbacks < MaxSetbacks /\ evaluation[v].phase = "active"
    /\ \E phase \in {"waiting", "dead"} :
          evaluation' = [evaluation EXCEPT ![v] = [NoEvaluation EXCEPT !.phase = phase]]
    /\ setbacks' = setbacks + 1
    /\ UNCHANGED <<today, voucher, postings, alert>>

\* The event comes a second time, or its dead letter is replayed.
Redeliver(v) ==
    /\ \/ evaluation[v].phase = "dead" /\ UNCHANGED setbacks
       \/ evaluation[v].phase = "done" /\ setbacks < MaxSetbacks /\ setbacks' = setbacks + 1
    /\ evaluation' = [evaluation EXCEPT ![v] = Queued]
    /\ UNCHANGED <<today, voucher, postings, alert>>

----------------------------------------------------------------------------

AmlInit ==
    /\ today = 0
    /\ voucher = [v \in Voucher |-> Nothing]
    /\ postings = <<>>
    /\ evaluation = [v \in Voucher |-> NoEvaluation]
    /\ alert = {}
    /\ setbacks = 0

Posts(v) ==
    \/ \E e \in Entry, day \in WorkingDates, atOnce \in BOOLEAN :
          CreateVoucher(v, e, day, atOnce)
    \/ ApproveVoucher(v)
    \/ \E contra \in Voucher, day \in WorkingDates, atOnce \in BOOLEAN :
          ReverseVoucher(v, contra, day, atOnce)

Screens(v) ==
    \/ Begin(v)
    \/ \E c \in Customer, r \in Rule : Aggregate(v, c, r)
    \/ Raise(v) \/ Conclude(v) \/ BreakOff(v) \/ Redeliver(v)

AmlNext == NextDay \/ \E v \in Voucher : Posts(v) \/ Screens(v)

AmlSpec == AmlInit /\ [][AmlNext]_aml

----------------------------------------------------------------------------
(* Properties                                                              *)

AmlTypes ==
    /\ today \in Day
    /\ voucher \in [Voucher -> Row \cup {Nothing}]
    /\ postings \in Seq(Voucher)
    /\ evaluation \in [Voucher -> Evaluation]
    /\ alert \subseteq Alert
    /\ setbacks \in 0..MaxSetbacks

\* Vouchers that carry an alert: they lie in its window, its total and count are
\* theirs and cross the threshold, and it names as many of them as it may.
Carries(vs, a) ==
    LET k == a.key
    IN  /\ \A v \in vs : Within(voucher[v].day, k.rule, k.to)
        /\ a.total = Paid(k.customer, vs) /\ a.count = Cardinality(vs)
        /\ Crossed(k.customer, k.rule, vs)
        /\ a.vouchers \in Listings(vs)

\* Every alert is carried by vouchers that were posted, whatever became of them
\* since, and its evidence names them, as many as it may: nothing that was merely
\* entered raises one, and no window is alerted twice.  What it names adds up to the
\* total only if nothing was cut off (aml.worker.ts:221 asks for more).
AlertsProven ==
    /\ \A a, b \in alert : a.key = b.key => a = b
    /\ \A a \in alert : \E vs \in SUBSET {postings[i] : i \in DOMAIN postings} : Carries(vs, a)

\* What late, repeated and failed events keep: the types, and that alerts are
\* proven.
AmlInv == AmlTypes /\ AlertsProven

Nth(v) == CHOOSE i \in DOMAIN postings : postings[i] = v

\* The posted vouchers of a customer that are dated to, reversed since or not.
Dated(c, to) ==
    {v \in Voucher : evaluation[v] # NoEvaluation /\ voucher[v].day = to /\ c \in Parties(v)}

\* When no event is left, every window that ends on a day with a posting and
\* has crossed its threshold is alerted, whatever was posted while others were
\* evaluated, failed, came twice or were replayed: unless a voucher of an
\* earlier day was approved after the last posting of the window's last day, for
\* then only the windows that end on that earlier day are looked at again.
MissedOnlyLate ==
    (\A v \in Voucher : evaluation[v].phase \in {"none", "done"}) =>
        \A c \in Customer, r \in Rule, to \in Day :
            LET vs == Contributors(c, r, to)
            IN  Dated(c, to) # {} /\ Crossed(c, r, vs) =>
                    \/ Alerted([rule |-> r, customer |-> c, to |-> to])
                    \/ \E late \in vs : \A v \in Dated(c, to) : Nth(v) < Nth(late)

=============================================================================
