------------------------------- MODULE Ledger -------------------------------
(***************************************************************************)
(* The posting engine (modules/ledger/posting.service.ts and               *)
(* ledger.repository.ts) at the grain of committed transactions: each      *)
(* handler that commits is one action, a handler that throws rolls back    *)
(* and changes nothing, so it is no step at all.  The row locks that make  *)
(* the handlers atomic are the subject of module PostingLocks.             *)
(*                                                                         *)
(* Amounts are in the smallest unit of money.  The lines of a voucher are  *)
(* a sequence in the order of their numbers, and may name an account more  *)
(* than once.                                                              *)
(***************************************************************************)
EXTENDS Integers, Sequences, FiniteSets, FiniteSetsExt

CONSTANTS
    Voucher,        \* identifiers of vouchers (the bound on their number)
    NoVoucher,      \* reversal_of_id IS NULL
    Account,
    Branch,
    User,
    HomeBranch,     \* [User -> Branch], Actor.branchId
    MultiBranch,    \* the users with multiBranchAccess
    May,            \* [User -> permissions], what authorize() lets through
    Side,           \* [Account -> {"ASSET", "LIABILITY"}], product.balance_side
    Reserved,       \* [Account -> Int], lien + hold + minimum - overdraft limit
    Freeze,         \* [Account -> {"NONE", "DEBIT_BLOCKED", "TOTAL"}]
    Allows,         \* [Account -> product flags], see Channel
    Opening,        \* [Account -> Int], balances the seed leaves
    Policy,         \* rows of authorization_policy
    AnyBranch,      \* authorization_policy.branch_id IS NULL
    Entry           \* the sets of lines tellers submit, well formed or not

DrCr     == {"DEBIT", "CREDIT"}
TxnType  == {"CASH", "TRANSFER", "CLEARING"}
AnyType  == "ANY"                  \* authorization_policy.transaction_type IS NULL
Flag     == {"CASH", "TRANSFER"} \X DrCr

\* 0 stands for every amount that is not positive.
Line      == [account : Account, side : DrCr, amount : Nat]
EntryType == Seq(Line)

\* limit = 0 stands for max_amount IS NULL: a CHECK keeps max above min.
PolicyType == [branch : Branch \cup {AnyBranch}, type : TxnType \cup {AnyType},
               min : Nat, limit : Nat, approvals : Nat]

ASSUME LedgerConstants ==
    /\ NoVoucher \notin Voucher
    /\ AnyBranch \notin Branch
    /\ IsFiniteSet(Voucher) /\ IsFiniteSet(Account) /\ IsFiniteSet(User)
    /\ User # {}
    /\ HomeBranch \in [User -> Branch]
    /\ MultiBranch \subseteq User
    /\ May \in [User -> SUBSET {"voucher:create", "voucher:authorize", "voucher:reverse"}]
    /\ Side \in [Account -> {"ASSET", "LIABILITY"}]
    /\ Reserved \in [Account -> Int]
    /\ Freeze \in [Account -> {"NONE", "DEBIT_BLOCKED", "TOTAL"}]
    /\ Allows \in [Account -> SUBSET Flag]
    /\ Opening \in [Account -> Int]
    /\ Policy \subseteq PolicyType
    /\ Entry \subseteq EntryType

\* The same lines with every leg flipped, for a reversal.
Other(side) == IF side = "DEBIT" THEN "CREDIT" ELSE "DEBIT"
Flip(e)     == [i \in DOMAIN e |-> [e[i] EXCEPT !.side = Other(@)]]

NoEntry == <<>>

\* The lines a voucher can have: those of a teller, or the contra of such lines.
Legs == Entry \cup {Flip(e) : e \in Entry} \cup {NoEntry}

\* The totals of assertBalanced.
On(e, side) == [i \in DOMAIN e |-> IF e[i].side = side THEN e[i].amount ELSE 0]
Debits(e)   == SumFunction(On(e, "DEBIT"))
Credits(e)  == SumFunction(On(e, "CREDIT"))

VARIABLES
    status,     \* voucher.status, "NONE" before the row exists
    slip,       \* the columns of a voucher written once, with its lines
    steps,      \* rows of authorization_step
    balance,    \* account_balance.ledger_balance = cleared_balance
    after,      \* voucher_line.balance_after per voucher and line, <<>> for NULL
    lastSeq,    \* voucher_sequence.last_seq for the business date
    batch,      \* batch control totals, one batch per branch and type
    outbox      \* rows of outbox_event in the order they commit

vars == <<status, slip, steps, balance, after, lastSeq, batch, outbox>>

Status  == {"NONE", "PENDING_AUTH", "POSTED", "REJECTED", "REVERSED"}
Slip    == [branch : Branch, type : TxnType, maker : User, entry : Legs,
            required : Nat, number : Nat, reversalOf : Voucher \cup {NoVoucher}]
Step    == [voucher : Voucher, level : Nat, actor : User,
            decision : {"APPROVED", "REJECTED"}]
EventType == {"voucher.created", "voucher.posted", "voucher.rejected",
              "voucher.reversal_created"}
Event   == [type : EventType, voucher : Voucher]

----------------------------------------------------------------------------
(* Arithmetic of lines                                                     *)

\* Mutant: the comparison of the two totals is dropped.
UncheckedTotals(e) == Debits(e) > 0

\* assertBalanced; with positive lines it implies that there are two of them.
Balanced(e) == Debits(e) = Credits(e) /\ Debits(e) > 0

\* Every line amount must be positive.
Positive(e) == \A i \in DOMAIN e : e[i].amount > 0

\* signedDelta of each line, and netByAccount.
Signed(e) == [i \in DOMAIN e |-> IF e[i].side = "DEBIT" <=> Side[e[i].account] = "ASSET"
                                 THEN e[i].amount ELSE -e[i].amount]
Net(e, a) == SumFunctionOnSet(Signed(e), {i \in DOMAIN e : e[i].account = a})

\* The available-balance check against the balances bal (availableFrom).
Covers(bal, e) ==
    \A a \in Account : Net(e, a) < 0 => bal[a] - Reserved[a] >= -Net(e, a)

----------------------------------------------------------------------------
(* Rules an entry is checked against when it is created, and only then     *)

\* assertPostable: TOTAL also stands for a CLOSED account, which refuses the
\* same lines.
Postable(e) ==
    \A i \in DOMAIN e :
        /\ Freeze[e[i].account] # "TOTAL"
        /\ Freeze[e[i].account] = "DEBIT_BLOCKED" => e[i].side = "CREDIT"

\* A clearing voucher is checked against the transfer flags.
Channel(ty) == IF ty = "CASH" THEN "CASH" ELSE "TRANSFER"

\* assertTransactionTypeAllowed
TypeAllowed(e, ty) ==
    \A i \in DOMAIN e : <<Channel(ty), e[i].side>> \in Allows[e[i].account]

\* The slabs that match, and the ORDER BY that picks one of them.
Slabs(b, ty, amount) ==
    {p \in Policy : /\ p.branch \in {b, AnyBranch}
                    /\ p.type \in {ty, AnyType}
                    /\ p.min <= amount
                    /\ p.limit = 0 \/ amount < p.limit}

Beats(p, q) ==
    \/ p.branch # AnyBranch /\ q.branch = AnyBranch
    \/ /\ (p.branch = AnyBranch) = (q.branch = AnyBranch)
       /\ \/ p.type # AnyType /\ q.type = AnyType
          \/ (p.type = AnyType) = (q.type = AnyType) /\ p.min > q.min

\* findRequiredApprovals: the set of answers, of which a tie leaves several.
RequiredApprovals(b, ty, amount) ==
    LET s == Slabs(b, ty, amount)
    IN  IF s = {} THEN {1}
        ELSE {p.approvals : p \in {x \in s : \A q \in s : ~Beats(q, x)}}

----------------------------------------------------------------------------
(* Writes shared by the handlers                                           *)

\* Mutant: numbering by counting the vouchers that still stand.
CountedNumber(b) ==
    1 + Cardinality({v \in Voucher : /\ status[v] \notin {"NONE", "REJECTED"}
                                     /\ slip[v].branch = b})

\* nextVoucherNumber, inside the transaction that uses the number.
NextNumber(b) == lastSeq[b] + 1

Approvals(v) == {s \in steps : s.voucher = v /\ s.decision = "APPROVED"}
ActorsOf(v)  == {s.actor : s \in {t \in steps : t.voucher = v}}

\* Mutant: the running balance is the one from before the posting.
LateRunningBalance(v, e) ==
    /\ balance' = [a \in Account |-> balance[a] + Net(e, a)]
    /\ after' = [after EXCEPT ![v] = [i \in DOMAIN e |-> balance[e[i].account]]]

\* applyBalanceDelta once per account, and balance_after: every line of an account
\* gets the balance the whole voucher leaves on it.
MoveMoney(v, e) ==
    /\ balance' = [a \in Account |-> balance[a] + Net(e, a)]
    /\ after' = [after EXCEPT ![v] =
                   [i \in DOMAIN e |-> balance[e[i].account] + Net(e, e[i].account)]]

\* Mutant: the amount is taken off the control total.
TakeFromBatch(b, ty, amount) ==
    batch' = [batch EXCEPT ![b][ty] = [total |-> @.total - amount, count |-> @.count + 1]]

\* addToBatchTotals
AddToBatch(b, ty, amount) ==
    batch' = [batch EXCEPT ![b][ty] = [total |-> @.total + amount, count |-> @.count + 1]]

\* Mutant: the funds are not looked at again when the voucher posts.
PostUnchecked(v, s) ==
    /\ MoveMoney(v, s.entry)
    /\ AddToBatch(s.branch, s.type, Debits(s.entry))

\* applyPosting, but for the status column and the event, which every caller
\* writes along with its own.
Post(v, s) ==
    /\ Covers(balance, s.entry)
    /\ MoveMoney(v, s.entry)
    /\ AddToBatch(s.branch, s.type, Debits(s.entry))

NoPosting == UNCHANGED <<balance, after, batch>>

\* Mutant: of the events of one transaction only the first is written.
AnnounceFirst(types, v) == outbox' = Append(outbox, [type |-> types[1], voucher |-> v])

\* writeOutbox, in the transaction of the change it announces.
Announce(types, v) == outbox' = outbox \o [i \in 1..Len(types) |->
                                             [type |-> types[i], voucher |-> v]]

\* Insert voucher v with slip s under event ev; with no approval required it
\* posts at once.  st is the status column but for v.
Enter(v, s, st, ev) ==
    /\ status[v] = "NONE"
    /\ slip' = [slip EXCEPT ![v] = s]
    /\ lastSeq' = [lastSeq EXCEPT ![s.branch] = s.number]
    /\ UNCHANGED steps
    /\ \/ /\ s.required = 0
          /\ Post(v, s)
          /\ status' = [st EXCEPT ![v] = "POSTED"]
          /\ Announce(<<ev, "voucher.posted">>, v)
       \/ /\ s.required > 0
          /\ NoPosting
          /\ status' = [st EXCEPT ![v] = "PENDING_AUTH"]
          /\ Announce(<<ev>>, v)

----------------------------------------------------------------------------
(* Handlers                                                                *)

\* createVoucher: a teller enters lines at the branch they work in.
CreateVoucher(v, u, ty, e) ==
    /\ "voucher:create" \in May[u]
    /\ Positive(e)
    /\ Balanced(e)
    /\ Postable(e)
    /\ TypeAllowed(e, ty)
    /\ Covers(balance, e)
    /\ \E n \in RequiredApprovals(HomeBranch[u], ty, Debits(e)) :
          Enter(v, [branch |-> HomeBranch[u], type |-> ty, maker |-> u, entry |-> e,
                    required |-> n, number |-> NextNumber(HomeBranch[u]),
                    reversalOf |-> NoVoucher],
                status, "voucher.created")

\* Mutant: a voucher that is posted already takes an approval and posts again.
MayDecideLate(v, u) ==
    /\ status[v] \in {"PENDING_AUTH", "POSTED"}
    /\ slip[v].maker # u
    /\ u \notin ActorsOf(v)

\* Mutant: one checker may fill several levels.
MayDecideTwice(v, u) == status[v] = "PENDING_AUTH" /\ slip[v].maker # u

\* The checks approveVoucher and rejectVoucher share, with the voucher locked:
\* it is pending, the actor did not make it, and (a unique constraint on
\* authorization_step) has not decided on it before.
MayDecide(v, u) ==
    /\ status[v] = "PENDING_AUTH"
    /\ slip[v].maker # u
    /\ u \notin ActorsOf(v)

Decide(v, u, decision) ==
    steps' = steps \cup {[voucher |-> v, level |-> Cardinality(Approvals(v)) + 1,
                          actor |-> u, decision |-> decision]}

\* approveVoucher: the approval that fills the last level posts the voucher.
ApproveVoucher(v, u) ==
    /\ "voucher:authorize" \in May[u]
    /\ MayDecide(v, u)
    /\ Decide(v, u, "APPROVED")
    /\ UNCHANGED <<slip, lastSeq>>
    /\ \/ /\ Cardinality(Approvals(v)) + 1 >= slip[v].required
          /\ Post(v, slip[v])
          /\ status' = [status EXCEPT ![v] = "POSTED"]
          /\ Announce(<<"voucher.posted">>, v)
       \/ /\ Cardinality(Approvals(v)) + 1 < slip[v].required
          /\ NoPosting
          /\ UNCHANGED <<status, outbox>>

\* rejectVoucher
RejectVoucher(v, u) ==
    /\ "voucher:authorize" \in May[u]
    /\ MayDecide(v, u)
    /\ Decide(v, u, "REJECTED")
    /\ status' = [status EXCEPT ![v] = "REJECTED"]
    /\ Announce(<<"voucher.rejected">>, v)
    /\ UNCHANGED <<slip, lastSeq>>
    /\ NoPosting

ReversalsOf(v) == {w \in Voucher : status[w] # "NONE" /\ slip[w].reversalOf = v}

\* The contra voucher w of v as user u enters it.
Contra(v, u, n) ==
    [branch |-> HomeBranch[u], type |-> slip[v].type, maker |-> u,
     entry |-> Flip(slip[v].entry), required |-> n,
     number |-> NextNumber(HomeBranch[u]), reversalOf |-> v]

\* reverseVoucher: the original becomes REVERSED with the entry of the contra
\* voucher, whether or not that one still waits for approval.  The lines are
\* not put to Postable and TypeAllowed again.
ReverseVoucher(v, w, u) ==
    /\ "voucher:reverse" \in May[u]
    /\ status[v] = "POSTED"
    /\ HomeBranch[u] = slip[v].branch \/ u \in MultiBranch
    /\ ReversalsOf(v) = {}
    /\ \E n \in RequiredApprovals(HomeBranch[u], slip[v].type, Debits(slip[v].entry)) :
          Enter(w, Contra(v, u, n), [status EXCEPT ![v] = "REVERSED"],
                "voucher.reversal_created")

----------------------------------------------------------------------------

\* What slip holds for a voucher that does not exist; nothing reads it.
BlankSlip == [branch |-> CHOOSE b \in Branch : TRUE, type |-> "CASH",
              maker |-> CHOOSE u \in User : TRUE, entry |-> NoEntry, required |-> 0,
              number |-> 0, reversalOf |-> NoVoucher]

\* The seed: balances, no voucher of today yet, every batch empty.
Init ==
    /\ status = [v \in Voucher |-> "NONE"]
    /\ slip = [v \in Voucher |-> BlankSlip]
    /\ steps = {}
    /\ balance = Opening
    /\ after = [v \in Voucher |-> <<>>]
    /\ lastSeq = [b \in Branch |-> 0]
    /\ batch = [b \in Branch |-> [ty \in TxnType |-> [total |-> 0, count |-> 0]]]
    /\ outbox = <<>>

Next ==
    \E v \in Voucher, u \in User :
        \/ \E ty \in TxnType, e \in Entry : CreateVoucher(v, u, ty, e)
        \/ ApproveVoucher(v, u)
        \/ RejectVoucher(v, u)
        \/ \E w \in Voucher : ReverseVoucher(v, w, u)

Spec == Init /\ [][Next]_vars

----------------------------------------------------------------------------
(* Properties                                                              *)

Posted == {v \in Voucher : status[v] \in {"POSTED", "REVERSED"}}

TypeOK ==
    /\ status \in [Voucher -> Status]
    /\ slip \in [Voucher -> Slip]
    /\ steps \subseteq Step
    /\ balance \in [Account -> Int]
    /\ after \in [Voucher -> Seq(Int)]
    /\ lastSeq \in [Branch -> Nat]
    /\ batch \in [Branch -> [TxnType -> [total : Nat, count : Nat]]]
    /\ outbox \in Seq(Event)

\* The books balance: whatever sequence of postings and reversals ran, the sum
\* of the asset accounts less the sum of the liability accounts is what it was
\* when the branch opened (invariant 1 of posting.service.ts, carried from the
\* lines of one voucher to the balances of the bank).
Total(bal, side) == SumFunctionOnSet(bal, {a \in Account : Side[a] = side})
BooksBalance ==
    Total(balance, "ASSET") - Total(balance, "LIABILITY")
      = Total(Opening, "ASSET") - Total(Opening, "LIABILITY")

\* Every voucher that is POSTED or REVERSED has moved its money, and been added
\* to the control totals of its batch, exactly once, and no other has.
PostedIn(b, ty) == {v \in Posted : slip[v].branch = b /\ slip[v].type = ty}
PostedOnce ==
    /\ \A a \in Account :
          balance[a] = Opening[a] + SumFunction([v \in Posted |-> Net(slip[v].entry, a)])
    /\ \A b \in Branch, ty \in TxnType :
          /\ batch[b][ty].count = Cardinality(PostedIn(b, ty))
          /\ batch[b][ty].total =
                SumFunction([v \in PostedIn(b, ty) |-> Debits(slip[v].entry)])

\* A posting that takes money out of an account leaves it at or above its floor,
\* however many vouchers on that account were created and approved in between
\* (invariant 2: no debit takes an account below its available balance).
FundsKept ==
    [][\A a \in Account : balance'[a] < balance[a] => balance'[a] >= Reserved[a]]_vars

\* A voucher that moved money carries exactly the approvals its slab asks for,
\* on levels 1..n, by n different people none of whom made it; one that waits
\* has fewer (invariant 3).
FourEyes ==
    \A v \in Voucher :
        LET n == Cardinality(Approvals(v))
        IN  /\ v \in Posted => n = slip[v].required
            /\ status[v] = "PENDING_AUTH" => n < slip[v].required
            /\ {s.level : s \in Approvals(v)} = 1..n
            /\ Cardinality({s.actor : s \in Approvals(v)}) = n
            /\ slip[v].maker \notin ActorsOf(v)

\* Numbers of a branch and day are gapless and never reused, whatever became of
\* the vouchers that carry them (nextVoucherNumber).
GaplessNumbers ==
    \A b \in Branch :
        LET issued == {v \in Voucher : status[v] # "NONE" /\ slip[v].branch = b}
        IN  /\ {slip[v].number : v \in issued} = 1..lastSeq[b]
            /\ Cardinality(issued) = lastSeq[b]

\* The outbox tells of every voucher exactly what became of it, once and in
\* order (invariant 5: a change and its event commit together).  A reversal is
\* announced under the contra voucher, the original is not announced again.
EventsOn(v) == {i \in 1..Len(outbox) : outbox[i].voucher = v}
EventsTellAll ==
    \A v \in Voucher :
        LET entered == IF slip[v].reversalOf = NoVoucher THEN "voucher.created"
                       ELSE "voucher.reversal_created"
            ended == IF status[v] = "REJECTED" THEN "voucher.rejected" ELSE "voucher.posted"
        IN  \/ status[v] = "NONE" /\ EventsOn(v) = {}
            \/ /\ status[v] = "PENDING_AUTH"
               /\ \E i \in EventsOn(v) : EventsOn(v) = {i} /\ outbox[i].type = entered
            \/ /\ status[v] \in {"REJECTED", "POSTED", "REVERSED"}
               /\ \E i, j \in EventsOn(v) :
                     /\ EventsOn(v) = {i, j} /\ i < j
                     /\ outbox[i].type = entered /\ outbox[j].type = ended

\* The running balances on the lines are those of a statement read in posting
\* order, voucher by voucher: each equals the opening balance of its account and
\* every movement up to its voucher, all lines of this one included.  A comment,
\* schema.prisma:709, has the balance "after this line", which is so of the last line
\* of an account only.
Postings == {i \in 1..Len(outbox) : outbox[i].type = "voucher.posted"}
Told(i)  == outbox[i].voucher
MovedBy(js, a) == SumFunction([j \in js |-> Net(slip[Told(j)].entry, a)])
RunningBalances ==
    \A i \in Postings :
        LET e == slip[Told(i)].entry
        IN  /\ DOMAIN after[Told(i)] = DOMAIN e
            /\ \A k \in DOMAIN e :
                  LET a == e[k].account
                  IN  after[Told(i)][k] = Opening[a] + MovedBy({j \in Postings : j <= i}, a)

\* The engine with its slabs, channels, floors, numbers and tables is an
\* implementation of the life of a voucher that module VoucherLife describes:
\* no sequence of postings, decisions and reversals changes what was entered,
\* moves money twice or in part, or counts one person for two.
Lives  == [v \in Voucher |-> CASE status[v] = "NONE"         -> "none"
                               [] status[v] = "PENDING_AUTH" -> "waiting"
                               [] status[v] = "REJECTED"     -> "refused"
                               [] OTHER                      -> "posted"]
Makers  == [v \in Voucher |-> slip[v].maker]
Missing == [v \in Voucher |-> slip[v].required - Cardinality(Approvals(v))]
Effects == [v \in Voucher |-> [a \in Account |-> Net(slip[v].entry, a)]]
Signers == [v \in Voucher |-> {s.actor : s \in Approvals(v)}]
Undone  == {v \in Voucher : status[v] = "REVERSED"}

Life == INSTANCE VoucherLife WITH life <- Lives, maker <- Makers, missing <- Missing,
                                  effect <- Effects, signed <- Signers, undone <- Undone
KeepsPromises == Life!Spec

============================================================================
