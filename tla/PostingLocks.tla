---------------------------- MODULE PostingLocks ----------------------------
(***************************************************************************)
(* The handlers of posting.service.ts statement by statement, as database  *)
(* transactions at READ COMMITTED that interleave: what a transaction      *)
(* writes is seen by the others when it commits, what it reads it may hold *)
(* stale, and only the row locks it takes keep the rows it read.  Module   *)
(* Ledger is what the transactions promise together: each one that commits *)
(* does so as if it had run alone (Implements).                            *)
(***************************************************************************)
EXTENDS Ledger

CONSTANTS
    Txn,        \* database connections, one transaction at a time on each
    Rank,       \* [Account -> Nat], the order of account ids
    Types       \* the transaction types of the vouchers tellers enter

ASSUME LockConstants ==
    /\ Rank \in [Account -> Nat]
    /\ \A a, b \in Account : Rank[a] = Rank[b] => a = b
    /\ Types \subseteq TxnType

VARIABLES
    version,    \* account_balance.version
    job,        \* what runs on each connection and what it has read
    held        \* [Txn -> SUBSET Row], the row locks each transaction holds

lvars == <<vars, version, job, held>>

Row == ({"voucher"} \X Voucher) \cup ({"balance"} \X Account)
         \cup ({"sequence"} \X Branch) \cup ({"batch"} \X (Branch \X TxnType))

\* v is the voucher the transaction inserts or decides on, of the one it reverses.
Command == [op : {"create", "approve", "reject", "reverse"}, user : User, v : Voucher,
            of : Voucher \cup {NoVoucher}, branch : Branch, type : TxnType, entry : Legs]

\* need is required_approvals, posts says that applyPosting is still to come (or
\* done); given and number are what was read of authorization_step and
\* voucher_sequence, bal and ver what was read of the balances in read.
Job == [cmd : Command, phase : {"voucher", "balances", "sequence", "batch", "commit"},
        need : Nat, posts : BOOLEAN, given : Nat, number : Nat,
        read : SUBSET Account, bal : [Account -> Int], ver : [Account -> Nat]]

Idle == [phase |-> "idle"]
Running(t) == job[t] # Idle

----------------------------------------------------------------------------
(* Row locks                                                               *)

Touched(e) == {e[i].account : i \in DOMAIN e}
Unread(j)  == Touched(j.cmd.entry) \ j.read

\* Mutant: rows are locked as the voucher lists them.
ListedNext(j) ==
    LET e == j.cmd.entry
        todo == {i \in DOMAIN e : e[i].account \in Unread(j)}
    IN  {e[i].account : i \in {k \in todo : \A l \in todo : k <= l}}

\* lockBalancesForUpdate: ORDER BY account_id, so one statement locks its rows
\* from the lowest id up.
NextBalance(j) == {a \in Unread(j) : \A b \in Unread(j) : Rank[a] <= Rank[b]}

\* The rows of which the next statement of t locks one; none before COMMIT.
Wanted(t) ==
    LET j == job[t]
    IN  CASE j.phase = "voucher" ->
               {<<"voucher", IF j.cmd.op = "reverse" THEN j.cmd.of ELSE j.cmd.v>>}
          [] j.phase = "balances" -> {<<"balance", a>> : a \in NextBalance(j)}
          [] j.phase = "sequence" -> {<<"sequence", j.cmd.branch>>}
          [] j.phase = "batch"    -> {<<"batch", <<j.cmd.branch, j.cmd.type>>>>}
          [] OTHER                -> {}

Free(t, row) == \A u \in Txn \ {t} : row \notin held[u]

\* t gets the lock on row, and goes on as job j.
Lock(t, row, j) ==
    /\ Free(t, row)
    /\ held' = [held EXCEPT ![t] = @ \cup {row}]
    /\ job' = [job EXCEPT ![t] = j]
    /\ UNCHANGED <<vars, version>>

\* The end of a transaction releases its locks.
Release(t) == held' = [held EXCEPT ![t] = {}] /\ job' = [job EXCEPT ![t] = Idle]

Rollback(t) == Release(t) /\ UNCHANGED <<vars, version>>

----------------------------------------------------------------------------
(* Statements                                                              *)

Fresh(v) == status[v] = "NONE" /\ \A u \in Txn : Running(u) => job[u].cmd.v # v

\* The handler is called; what it reads before its first lock never changes.
Begin(t, cmd, phase, need) ==
    /\ ~Running(t)
    /\ job' = [job EXCEPT ![t] =
                 [cmd |-> cmd, phase |-> phase, need |-> need,
                  posts |-> cmd.op \in {"create", "reverse"} /\ need = 0,
                  given |-> 0, number |-> 0, read |-> {},
                  bal |-> [a \in Account |-> 0], ver |-> [a \in Account |-> 0]]]
    /\ UNCHANGED <<vars, version, held>>

BeginCreate(t, u, v, ty, e) ==
    /\ "voucher:create" \in May[u]
    /\ Fresh(v)
    /\ Positive(e)
    /\ Balanced(e)
    /\ \E n \in RequiredApprovals(HomeBranch[u], ty, Debits(e)) :
          Begin(t, [op |-> "create", user |-> u, v |-> v, of |-> NoVoucher,
                    branch |-> HomeBranch[u], type |-> ty, entry |-> e], "balances", n)

BeginDecision(t, u, v, op) ==
    /\ "voucher:authorize" \in May[u]
    /\ status[v] # "NONE"
    /\ Begin(t, [op |-> op, user |-> u, v |-> v, of |-> NoVoucher, branch |-> slip[v].branch,
                 type |-> slip[v].type, entry |-> slip[v].entry], "voucher", slip[v].required)

BeginReverse(t, u, v, w) ==
    /\ "voucher:reverse" \in May[u]
    /\ status[v] # "NONE"
    /\ HomeBranch[u] = slip[v].branch \/ u \in MultiBranch
    /\ Fresh(w)
    /\ \E n \in RequiredApprovals(HomeBranch[u], slip[v].type, Debits(slip[v].entry)) :
          Begin(t, [op |-> "reverse", user |-> u, v |-> w, of |-> v,
                    branch |-> HomeBranch[u], type |-> slip[v].type,
                    entry |-> Flip(slip[v].entry)], "voucher", n)

\* What the handlers find wrong with a voucher they have just locked.
Acceptable(c) ==
    CASE c.op \in {"approve", "reject"} -> MayDecide(c.v, c.user)
      [] c.op = "reverse"               -> status[c.of] = "POSTED" /\ ReversalsOf(c.of) = {}

\* What the voucher row and the count of approvals tell t, if it may go on.
Judge(t) ==
    LET c    == job[t].cmd
        n    == Cardinality(Approvals(c.v))
        last == c.op = "approve" /\ n + 1 >= job[t].need
    IN  [job[t] EXCEPT !.given = n,
                       !.posts = @ \/ last,
                       !.phase = CASE c.op = "reverse" -> "sequence"
                                   [] last             -> "balances"
                                   [] OTHER            -> "commit"]

\* Mutant: the voucher is read without FOR UPDATE.
ReadVoucher(t) ==
    /\ Running(t) /\ job[t].phase = "voucher"
    /\ Acceptable(job[t].cmd)
    /\ job' = [job EXCEPT ![t] = Judge(t)]
    /\ UNCHANGED <<vars, version, held>>

\* lockVoucherForUpdate, the checks behind it and countApprovals.
LockVoucher(t) ==
    /\ Running(t) /\ job[t].phase = "voucher"
    /\ Acceptable(job[t].cmd)
    /\ \E row \in Wanted(t) : Lock(t, row, Judge(t))

\* The next row of lockBalancesForUpdate.
LockBalance(t) ==
    /\ Running(t) /\ job[t].phase = "balances"
    /\ \E a \in NextBalance(job[t]) :
          Lock(t, <<"balance", a>>,
               [job[t] EXCEPT !.read = @ \cup {a},
                              !.bal[a] = balance[a],
                              !.ver[a] = version[a],
                              !.phase = IF Unread(job[t]) # {a} THEN "balances"
                                        ELSE IF job[t].cmd.op = "create" THEN "sequence"
                                        ELSE "batch"])

\* Mutant: the available balance is not looked at again.
CoveredOnce(j) == j.cmd.op = "create" => Covers(j.bal, j.cmd.entry)

\* The available-balance check, against the balances as they were locked.
Covered(j) == Covers(j.bal, j.cmd.entry)

\* createVoucher checks its lines once it holds the balances.
LinesOK(j) ==
    j.cmd.op = "create" =>
        Postable(j.cmd.entry) /\ TypeAllowed(j.cmd.entry, j.cmd.type) /\ Covered(j)

\* nextVoucherNumber: ON CONFLICT DO UPDATE waits for the row and counts on.
LockSequence(t) ==
    /\ Running(t) /\ job[t].phase = "sequence"
    /\ LinesOK(job[t])
    /\ \E row \in Wanted(t) :
          Lock(t, row, [job[t] EXCEPT !.number = NextNumber(job[t].cmd.branch),
                                      !.phase = IF ~job[t].posts THEN "commit"
                                                ELSE IF job[t].cmd.op = "create" THEN "batch"
                                                ELSE "balances"])

\* applyPosting, from its check of the balances to its UPDATE of the batch.  The
\* rows that createVoucher has locked before are only read again.
LockBatch(t) ==
    /\ Running(t) /\ job[t].phase = "batch"
    /\ Covered(job[t])
    /\ \E row \in Wanted(t) : Lock(t, row, [job[t] EXCEPT !.phase = "commit"])

\* applyBalanceDelta finds the version it expects.
VersionsMatch(t) == \A a \in job[t].read : version[a] = job[t].ver[a]

\* The writes of applyPosting.  balance_after comes from the balance as read.
Apply(t) ==
    LET j == job[t]
        e == j.cmd.entry
    IN  /\ VersionsMatch(t)
        /\ balance' = [a \in Account |-> balance[a] + Net(e, a)]
        /\ after' = [after EXCEPT ![j.cmd.v] =
              [i \in DOMAIN e |-> j.bal[e[i].account] + Net(e, e[i].account)]]
        /\ version' = [a \in Account |-> IF a \in j.read THEN version[a] + 1 ELSE version[a]]
        /\ AddToBatch(j.cmd.branch, j.cmd.type, Debits(e))

ApplyOrNot(t) ==
    \/ job[t].posts /\ Apply(t)
    \/ ~job[t].posts /\ NoPosting /\ UNCHANGED version

\* COMMIT of createVoucher and reverseVoucher; reversal_of_id is unique.
CommitEntry(t) ==
    LET j == job[t]
        c == j.cmd
    IN  /\ Running(t) /\ j.phase = "commit" /\ c.op \in {"create", "reverse"}
        /\ c.op = "reverse" => ReversalsOf(c.of) = {}
        /\ slip' = [slip EXCEPT ![c.v] =
              [branch |-> c.branch, type |-> c.type, maker |-> c.user, entry |-> c.entry,
               required |-> j.need, number |-> j.number, reversalOf |-> c.of]]
        /\ lastSeq' = [lastSeq EXCEPT ![c.branch] = j.number]
        /\ status' = [x \in Voucher |->
              CASE x = c.v  -> IF j.posts THEN "POSTED" ELSE "PENDING_AUTH"
                [] x = c.of -> "REVERSED"
                [] OTHER    -> status[x]]
        /\ Announce(<<IF c.op = "create" THEN "voucher.created" ELSE "voucher.reversal_created">>
                      \o (IF j.posts THEN <<"voucher.posted">> ELSE <<>>), c.v)
        /\ UNCHANGED steps
        /\ ApplyOrNot(t)
        /\ Release(t)

\* Unique on (voucher_id, level) and on (voucher_id, actor_id).
StepUnique(j) ==
    \A s \in steps : s.voucher = j.cmd.v => s.level # j.given + 1 /\ s.actor # j.cmd.user

\* COMMIT of approveVoucher and rejectVoucher.
CommitDecision(t) ==
    LET j == job[t]
        c == j.cmd
    IN  /\ Running(t) /\ j.phase = "commit" /\ c.op \in {"approve", "reject"}
        /\ StepUnique(j)
        /\ steps' = steps \cup {[voucher |-> c.v, level |-> j.given + 1, actor |-> c.user,
                                 decision |-> IF c.op = "approve" THEN "APPROVED" ELSE "REJECTED"]}
        /\ status' = [status EXCEPT ![c.v] = CASE c.op = "reject" -> "REJECTED"
                                               [] j.posts -> "POSTED"
                                               [] OTHER -> @]
        /\ Announce(CASE c.op = "reject" -> <<"voucher.rejected">>
                      [] j.posts -> <<"voucher.posted">>
                      [] OTHER -> <<>>, c.v)
        /\ UNCHANGED <<slip, lastSeq>>
        /\ ApplyOrNot(t)
        /\ Release(t)

\* A check throws, and the transaction rolls back.
Refuse(t) ==
    LET j == job[t]
    IN  /\ Running(t)
        /\ CASE j.phase = "voucher"  -> /\ \E row \in Wanted(t) : Free(t, row)
                                        /\ ~Acceptable(j.cmd)
             [] j.phase = "sequence" -> ~LinesOK(j)
             [] j.phase = "batch"    -> ~Covered(j)
             [] j.phase = "commit"   -> \/ j.posts /\ ~VersionsMatch(t)
                                        \/ j.cmd.op = "reverse" /\ ReversalsOf(j.cmd.of) # {}
                                        \/ j.cmd.op \in {"approve", "reject"} /\ ~StepUnique(j)
             [] OTHER                -> FALSE
        /\ Rollback(t)

Waits(t) == Running(t) /\ Wanted(t) # {} /\ \A row \in Wanted(t) : ~Free(t, row)

\* lock_timeout, or the deadlock detector of the database, ends a wait.
GiveUp(t) == Waits(t) /\ Rollback(t)

\* The process or its connection is lost.
Crash(t) == Running(t) /\ Rollback(t)

----------------------------------------------------------------------------

LocksInit ==
    /\ Init
    /\ version = [a \in Account |-> 0]
    /\ job = [t \in Txn |-> Idle]
    /\ held = [t \in Txn |-> {}]

Start(t) ==
    \E u \in User, v \in Voucher :
        \/ \E ty \in Types, e \in Entry : BeginCreate(t, u, v, ty, e)
        \/ \E op \in {"approve", "reject"} : BeginDecision(t, u, v, op)
        \/ \E w \in Voucher : BeginReverse(t, u, v, w)

Advance(t) ==
    \/ LockVoucher(t)
    \/ LockBalance(t)
    \/ LockSequence(t)
    \/ LockBatch(t)
    \/ CommitEntry(t)
    \/ CommitDecision(t)
    \/ Refuse(t)
    \/ GiveUp(t)

LocksNext == \E t \in Txn : Start(t) \/ Advance(t) \/ Crash(t)

LocksSpec == LocksInit /\ [][LocksNext]_lvars

----------------------------------------------------------------------------
(* Properties                                                              *)

LocksTypeOK ==
    /\ version \in [Account -> Nat]
    /\ held \in [Txn -> SUBSET Row]
    /\ \A t \in Txn : Running(t) => job[t] \in Job

\* Transactions that interleave do together what Ledger says each does alone:
\* every commit is a step of Ledger, everything else leaves the books as they are.
Implements == Spec

\* What a transaction has read under a lock is still true when it uses it: the
\* voucher it judged, the approvals it counted, the number it drew and every
\* balance with its version.  So ConcurrencyError ("should be unreachable") and
\* the unique constraints behind the locks never fire.
ReadsHold ==
    \A t \in Txn : Running(t) =>
        LET j == job[t]
        IN  /\ j.phase # "voucher" /\ j.cmd.op # "create" => Acceptable(j.cmd)
            /\ j.phase # "voucher" /\ j.cmd.op \in {"approve", "reject"} =>
                  j.given = Cardinality(Approvals(j.cmd.v))
            /\ j.number # 0 => j.number = NextNumber(j.cmd.branch)
            /\ \A a \in j.read : j.bal[a] = balance[a] /\ j.ver[a] = version[a]

\* What every interleaving of the transactions keeps: the types, and that reads
\* under a lock hold.
LocksInv == LocksTypeOK /\ ReadsHold

\* A set of transactions each of which waits for another of them.
WaitsFor(t, u) == Waits(t) /\ u # t /\ held[u] \cap Wanted(t) # {}
Deadlocked(S)  == S # {} /\ \A t \in S : \E u \in S : WaitsFor(t, u)

\* Vouchers that are entered and decided, in whatever order they list their
\* accounts, never wait for each other in a circle: every deadlock has a
\* reversal in it that posts at once.
OnlyReversalsDeadlock ==
    \A S \in SUBSET Txn : Deadlocked(S) =>
        \E t \in S : job[t].cmd.op = "reverse" /\ job[t].posts

=============================================================================
