---------------------------- MODULE LedgerService ----------------------------
(***************************************************************************)
(* What stands around a posting (ledger.service.ts, org.service.ts,        *)
(* org.repository.ts): the cached business date that lets a request in,    *)
(* the batch it resolves, the voucher it leaves, and the pages in which    *)
(* vouchers and statement lines are read meanwhile.  One branch, and one   *)
(* account that every voucher has one line on.  Day begin and day end are  *)
(* not in the repository; here they do what its enums and comments ask.    *)
(* The posting itself is module Ledger's.                                  *)
(***************************************************************************)
EXTENDS Integers, FiniteSets

CONSTANTS
    Request,     \* numbers; a request and the voucher it enters share one
    TypeOf,      \* [Request -> transaction type], the code of the batch
    LineOf,      \* [Request -> the number of the voucher's line on the account]
    MaxDate,     \* business dates (a bound)
    MaxAt,       \* values of createdAt, a timestamp that can be equal (a bound)
    Limit,       \* rows of a page
    MaxLoads     \* reads of the business date under way (a bound)

Date == 1..MaxDate
At   == 1..MaxAt
Type == {TypeOf[r] : r \in Request}

ASSUME ServiceConstants ==
    /\ Request \subseteq Nat /\ IsFiniteSet(Request)
    /\ \A r \in Request : LineOf[r] \in Nat
    /\ MaxDate \in Nat /\ MaxAt \in Nat /\ MaxLoads \in Nat
    /\ Limit \in Nat \ {0}

VARIABLES
    day,      \* business_date.status
    cache,    \* the copy of the current business date in Redis, or Nothing
    loads,    \* copies read whose load or SET is under way
    batch,    \* [Date -> [Type -> status and voucher_count]]
    req,      \* [Request -> how far it is, and the date it works on]
    row,      \* [Request -> the voucher, or NoRow]
    reading   \* a client that reads a list to its end, page by page

vars == <<day, cache, loads, batch, req, row, reading>>

Nothing == [date |-> 0, status |-> "MISS"]    \* no such key
NoDay   == [date |-> 0, status |-> "NULL"]    \* found none, cached like a row
NoRow   == [date |-> 0, status |-> "NONE", at |-> 0]
Start   == <<>>                               \* no cursor

\* What the query of findCurrentBusinessDate can return.
Copy == {NoDay} \cup [date : Date, status : {"OPEN", "CLOSING"}]

Stage  == {"new", "find", "create", "post", "done", "refused", "failed"}
RowType == [date : Date, status : {"PENDING_AUTH", "POSTED", "REJECTED"}, at : At]

----------------------------------------------------------------------------
(* The business date                                                       *)

\* The newest date that is OPEN or CLOSING.
CurrentDay ==
    LET live == {d \in Date : day[d] \in {"OPEN", "CLOSING"}}
    IN  IF live = {} THEN NoDay
        ELSE LET d == CHOOSE d \in live : \A e \in live : e <= d
             IN  [date |-> d, status |-> day[d]]

\* assertPostingAllowed on a copy of the row, and the lookup of its id.
Admit(r, copy) ==
    req' = [req EXCEPT ![r] =
              IF copy.status = "OPEN"
              THEN [stage |-> "find", date |-> copy.date]
              ELSE [stage |-> "refused", date |-> 0]]

\* buildContext with the key in Redis, or without: a load of its own, or the
\* load that another request has under way.
GateHit(r) ==
    /\ req[r].stage = "new" /\ cache # Nothing
    /\ Admit(r, cache)
    /\ UNCHANGED <<day, cache, loads, batch, row, reading>>

GateMiss(r) ==
    /\ req[r].stage = "new" /\ cache = Nothing
    /\ \/ /\ Cardinality(loads) < MaxLoads \/ CurrentDay \in loads
          /\ loads' = loads \cup {CurrentDay}
          /\ Admit(r, CurrentDay)
       \/ /\ \E copy \in loads : Admit(r, copy)
          /\ UNCHANGED loads
    /\ UNCHANGED <<day, cache, batch, row, reading>>

\* The SET that nobody waits for, which may be lost.
Fill ==
    \E copy \in loads :
        /\ loads' = loads \ {copy}
        /\ cache' \in {copy, cache}
        /\ UNCHANGED <<day, batch, req, row, reading>>

\* 60 seconds, eviction, or a restart of Redis.
Lapse ==
    /\ cache # Nothing
    /\ cache' = Nothing
    /\ UNCHANGED <<day, loads, batch, req, row, reading>>

\* Day begin, the start and the end of day end; invalidateBusinessDate is called,
\* unless the call is missed.
TurnDay(d, status) ==
    /\ day' = [day EXCEPT ![d] = status]
    /\ cache' \in {cache, Nothing}
    /\ UNCHANGED <<loads, req, row, reading>>

BeginDay(d) ==
    /\ day[d] = "PENDING" /\ \A e \in Date : e < d => day[e] = "CLOSED"
    /\ TurnDay(d, "OPEN") /\ UNCHANGED batch

\* The last date stays open (a bound).
BeginDayEnd(d) ==
    /\ day[d] = "OPEN" /\ d < MaxDate
    /\ TurnDay(d, "CLOSING") /\ UNCHANGED batch

\* Day end closes the batches there are.
EndDay(d) ==
    /\ day[d] = "CLOSING"
    /\ TurnDay(d, "CLOSED")
    /\ batch' = [batch EXCEPT ![d] = [ty \in Type |->
                    IF batch[d][ty].status = "OPEN"
                    THEN [batch[d][ty] EXCEPT !.status = "CLOSED"] ELSE batch[d][ty]]]

----------------------------------------------------------------------------
(* The batch and the voucher                                               *)

Goto(r, stage) == req' = [req EXCEPT ![r].stage = stage]

\* Mutant: a batch is a batch.
FindAnyStatus(r) ==
    /\ req[r].stage = "find"
    /\ Goto(r, IF batch[req[r].date][TypeOf[r]].status = "NONE" THEN "create" ELSE "post")
    /\ UNCHANGED <<day, cache, loads, batch, row, reading>>

\* resolveBatch: findUnique.
Find(r) ==
    /\ req[r].stage = "find"
    /\ Goto(r, CASE batch[req[r].date][TypeOf[r]].status = "NONE" -> "create"
                 [] batch[req[r].date][TypeOf[r]].status = "OPEN" -> "post"
                 [] OTHER -> "refused")
    /\ UNCHANGED <<day, cache, loads, batch, row, reading>>

\* resolveBatch: create.  The INSERT of the loser waits for the winner's commit
\* and fails, and so does the read after it: PostgreSQL has aborted their
\* transaction.
Create(r) ==
    LET d == req[r].date
        ty == TypeOf[r]
    IN  /\ req[r].stage = "create"
        /\ \/ /\ batch[d][ty].status = "NONE"
              /\ batch' = [batch EXCEPT ![d][ty].status = "OPEN"]
              /\ Goto(r, "post")
           \/ /\ batch[d][ty].status # "NONE"
              /\ Goto(r, "failed")
              /\ UNCHANGED batch
        /\ UNCHANGED <<day, cache, loads, row, reading>>

\* addToBatchTotals, which does not look at the status of the batch.
Add(d, ty) == batch' = [batch EXCEPT ![d][ty].count = @ + 1]

\* posting.createVoucher or posting.reverseVoucher with this context: refused by
\* a rule, left for approval, or posted at once.  createdAt was drawn before the
\* commit, on the clock of this process.
PostVoucher(r) ==
    /\ req[r].stage = "post"
    /\ \/ Goto(r, "failed") /\ UNCHANGED <<batch, row>>
       \/ \E at \in At, posts \in BOOLEAN :
             /\ row' = [row EXCEPT ![r] =
                          [date |-> req[r].date, at |-> at,
                           status |-> IF posts THEN "POSTED" ELSE "PENDING_AUTH"]]
             /\ IF posts THEN Add(req[r].date, TypeOf[r]) ELSE UNCHANGED batch
             /\ Goto(r, "done")
    /\ UNCHANGED <<day, cache, loads, reading>>

Pending(r) == row[r].status = "PENDING_AUTH"

\* Mutant: the approval counts in the batch of the date it is given on.
ApproveToday(r) ==
    /\ Pending(r) /\ CurrentDay # NoDay
    /\ row' = [row EXCEPT ![r].status = "POSTED"]
    /\ Add(CurrentDay.date, TypeOf[r])
    /\ UNCHANGED <<day, cache, loads, req, reading>>

\* approveVoucher, the last level, and rejectVoucher: neither looks at the day or
\* the batch again.
Approve(r) ==
    /\ Pending(r)
    /\ row' = [row EXCEPT ![r].status = "POSTED"]
    /\ Add(row[r].date, TypeOf[r])
    /\ UNCHANGED <<day, cache, loads, req, reading>>

Reject(r) ==
    /\ Pending(r)
    /\ row' = [row EXCEPT ![r].status = "REJECTED"]
    /\ UNCHANGED <<day, cache, loads, batch, req, reading>>

----------------------------------------------------------------------------
(* Pages                                                                   *)

\* The pairs a page is sorted by, and its cursor.
ListKey(r)      == <<row[r].at, r>>
StatementKey(r) == <<row[r].date, LineOf[r]>>
Less(p, q)      == p[1] < q[1] \/ (p[1] = q[1] /\ p[2] < q[2])

Idle == [what |-> "nothing"]
\* got: rows the client has; there: rows of the list from the first page on;
\* twice: a row came again; last: the cursors used so far.
Reading == [what : {"list", "statement"}, pending : BOOLEAN, more : BOOLEAN,
            cursor : (Nat \X Nat) \cup {Start}, got : SUBSET Request,
            there : SUBSET Request, twice : BOOLEAN, last : SUBSET (Nat \X Nat)]

\* The rows a list is about; a statement has the lines of a voucher of any status.
Listed(rd) == {r \in Request : row[r] # NoRow /\ (rd.pending => Pending(r))}

\* Mutant: the timestamp alone is the cursor.
PastTime(cursor, r) == cursor = Start \/ row[r].at < cursor[1]

\* listVouchers: the WHERE clause of the cursor.
PastList(cursor, r) == cursor = Start \/ Less(ListKey(r), cursor)

\* Mutant: the row of the cursor is read again.
PastOrAt(cursor, r) == cursor = Start \/ ~Less(cursor, StatementKey(r))

\* findStatementLines: the same, with the pair of the index.
PastStatement(cursor, r) == cursor = Start \/ Less(StatementKey(r), cursor)

Key(what, r)          == IF what = "list" THEN ListKey(r) ELSE StatementKey(r)
Past(what, cursor, r) == IF what = "list" THEN PastList(cursor, r)
                         ELSE PastStatement(cursor, r)

\* LIMIT + 1 rows in descending order, of which the last only tells that there is
\* more (buildPage, getStatement).  Rows with one key come in any order.
Page(rd) ==
    LET rest    == {r \in Listed(rd) : Past(rd.what, rd.cursor, r)}
        more    == Cardinality(rest) > Limit
        key(r)  == Key(rd.what, r)
    IN  \E P \in SUBSET rest :
          /\ Cardinality(P) = IF more THEN Limit ELSE Cardinality(rest)
          /\ \A r \in P, q \in rest \ P : ~Less(key(r), key(q))
          /\ LET cursor == CHOOSE k \in {key(r) : r \in P} : \A r \in P : ~Less(key(r), k)
             IN  reading' = [rd EXCEPT
                   !.more   = more,
                   !.cursor = IF more THEN cursor ELSE Start,
                   !.got    = rd.got \cup P,
                   !.there  = rd.there \cap Listed(rd),
                   !.twice  = rd.twice \/ P \cap rd.got # {},
                   !.last   = IF more THEN rd.last \cup {cursor} ELSE rd.last]

FirstPage ==
    /\ reading = Idle
    /\ \E what \in {"list", "statement"}, pending \in BOOLEAN :
          /\ what = "statement" => ~pending
          /\ Page([what |-> what, pending |-> pending, more |-> TRUE, cursor |-> Start,
                   got |-> {}, there |-> Request, twice |-> FALSE, last |-> {}])
    /\ UNCHANGED <<day, cache, loads, batch, req, row>>

NextPage ==
    /\ reading # Idle /\ reading.more
    /\ Page(reading)
    /\ UNCHANGED <<day, cache, loads, batch, req, row>>

----------------------------------------------------------------------------

Init ==
    /\ day = [d \in Date |-> IF d = 1 THEN "OPEN" ELSE "PENDING"]
    /\ cache = Nothing /\ loads = {}
    /\ batch = [d \in Date |-> [ty \in Type |-> [status |-> "NONE", count |-> 0]]]
    /\ req = [r \in Request |-> [stage |-> "new", date |-> 0]]
    /\ row = [r \in Request |-> NoRow]
    /\ reading = Idle

Next ==
    \/ \E r \in Request : \/ GateHit(r) \/ GateMiss(r) \/ Find(r) \/ Create(r)
                          \/ PostVoucher(r) \/ Approve(r) \/ Reject(r)
    \/ \E d \in Date : BeginDay(d) \/ BeginDayEnd(d) \/ EndDay(d)
    \/ Fill \/ Lapse \/ FirstPage \/ NextPage

Spec == Init /\ [][Next]_vars

----------------------------------------------------------------------------
(* Properties                                                              *)

TypeOK ==
    /\ day \in [Date -> {"PENDING", "OPEN", "CLOSING", "CLOSED"}]
    /\ cache \in Copy \cup {Nothing} /\ loads \subseteq Copy
    /\ batch \in [Date -> [Type -> [status : {"NONE", "OPEN", "CLOSED"}, count : Nat]]]
    /\ req \in [Request -> [stage : Stage, date : Date \cup {0}]]
    /\ row \in [Request -> RowType \cup {NoRow}]
    /\ reading \in Reading \cup {Idle}

\* When the control totals of a day are final.  That the day and its batches are
\* closed (ledger.service.ts:29) is not enough: a request may have resolved its
\* batch before, a voucher may wait for approval, and as long as a type has no
\* batch, a copy of the date from when it was open lets a request open one.
OpenCopy(d) == [date |-> d, status |-> "OPEN"] \in loads \cup {cache}
Settled(d) ==
    /\ day[d] = "CLOSED"
    /\ \A ty \in Type : batch[d][ty].status # "OPEN"
    /\ \A r \in Request : /\ ~(req[r].stage = "post" /\ req[r].date = d)
                          /\ Pending(r) => row[r].date # d
    /\ (\E ty \in Type : batch[d][ty].status = "NONE") =>
          /\ ~OpenCopy(d)
          /\ \A r \in Request : ~(req[r].stage \in {"find", "create"} /\ req[r].date = d)
FinalTotals == [][\A d \in Date : Settled(d) => Settled(d)' /\ batch'[d] = batch[d]]_vars

\* A batch counts the vouchers of its day and type that are posted, at whatever
\* time they came and however stale the date was that let them in.
TotalsTell ==
    \A d \in Date, ty \in Type :
        batch[d][ty].count =
            Cardinality({r \in Request : /\ TypeOf[r] = ty /\ row[r] # NoRow
                                         /\ row[r].date = d /\ row[r].status = "POSTED"})

\* What postings, decisions and the turn of the day keep: the types, and that a
\* batch's totals are its vouchers'.
ServiceInv == TypeOK /\ TotalsTell

\* Whoever reads the vouchers of a branch to the end gets every voucher that was
\* on the list all the while, and none twice, whatever was inserted and decided
\* between the pages (pagination.ts:12).
ListedOnce ==
    reading # Idle => (reading.what = "list" =>
        ~reading.twice /\ (~reading.more => reading.there \subseteq reading.got))

\* Of a statement this is true but for ties: the cursor (date, line number) is
\* not unique, and a page that ends on it skips the lines of other vouchers with
\* the same two.
StatementSkipsTies ==
    reading # Idle => (reading.what = "statement" =>
        /\ ~reading.twice
        /\ ~reading.more => \A r \in reading.there \ reading.got :
                               StatementKey(r) \in reading.last)
=============================================================================
