# LedgerCore in TLA+

Specifications of the ledger for a bank's branches under `src/` (the backend
`ledgercore`: TypeScript, PostgreSQL, Redis, BullMQ; the web client
`ledgercore-web`), checked with TLC, and theorems about them proved with TLAPS.
Line numbers in the modules refer to the sources;
`PROJECT.json` maps every definition to the lines it models.

## 1. The system

| Component | Code (under `ledgercore/src`) | State | Operations | Must be right |
|---|---|---|---|---|
| Posting | `modules/ledger/posting.service.ts`, `ledger.repository.ts` | vouchers, lines, approval steps, balances with versions, batch totals, voucher sequences, outbox rows | create, approve, reject, reverse | money is conserved, each voucher posts once, four eyes, gapless numbers, no overdraft, every change announced |
| Row locks | the same, with `shared/db/prisma.ts` | locks of PostgreSQL, what each transaction has read | the statements of the four handlers, rollback, lock timeout | a read under a lock still holds when it is used; no deadlock |
| Ledger service | `ledger.service.ts`, `shared/http/pagination.ts` | batches of the day, cursors of pages | buildContext, resolveBatch, lists, statements, trial balance | one batch per day and type, totals that are its vouchers', pages that neither skip nor repeat |
| Idempotency | `middleware/idempotency.ts`, `timeout.ts` | `idempotency_key`, a mirror in Redis, writes under way | claim, look up, replay, complete, release, time out, close | one key does its work once, an answer is the answer to this request |
| Outbox relay | `shared/outbox/relay.ts` | `outbox_event` | claim a batch, publish, mark SENT or FAILED | at least once to every consumer |
| Queue, consumers | `shared/queue/bullmq.ts`, `workers/consumer.ts` | jobs in Redis, `dead_letter` | enqueue, attempt, retry, bury, replay | no job disappears silently, an effect is not repeated |
| Workers | `workers/{audit,notification,aml,maintenance}.worker.ts` | audit rows, alerts, messages, partitions | one handler each | see the queue |
| Sessions | `modules/identity/refreshToken.*` | `refresh_token` families | open, rotate, detect reuse, revoke, purge | a family never forks, what is revoked stays revoked, a session ends |
| Identity | `modules/identity/identity.*`, `password*`, `token.service.ts` | users, password hashes, lockout | login, refresh, logout, change password | old passwords and sessions die with a change |
| Circuit breaker | `shared/resilience/circuitBreaker.ts` | one per process and gateway | execute | one probe at a time, never stuck |
| Cache | `shared/cache/cacheAside.ts`, `redis.ts` | Redis, loads under way per process | read through, invalidate | staleness is bounded |
| Distributed lock | `shared/cache/lock.ts` | a key with expiry, a counter | acquire, extend, release | nobody frees another's lock, fences grow |
| Organisation | `modules/org/*` | branches, business day and its cached copy | findCurrentBusinessDate, assertPostingAllowed | no posting to a day that is final |
| Request pipeline | `middleware/{loadShedding,rateLimit,authenticate,authorize}.ts` | counters | admit or refuse | counters do not drift |
| Processes | `server.ts`, `worker.ts`, `app.ts` | listeners, connections | start, drain, stop | nothing is cut off half way |
| Web client | `ledgercore-web/src/lib`, `features/auth` | access token, user and query cache of a tab | sign in, query, retry, 401, sign out | nobody sees another's rows; no tab is stuck |
| Money, HTTP, logging, metrics, health, configuration | the rest of `shared/` | none that others depend on | | |

How they interact. A request passes the pipeline and the idempotency middleware
and calls a posting handler, which is **one database transaction** that takes row
locks and writes its outbox row itself. The relay, in the worker process, claims
outbox rows in a transaction of its own and publishes each to one BullMQ queue
per consumer; a consumer's last failure is a dead letter in PostgreSQL, replayed
by hand. Sessions, identity and the cache share the `user` row. The components
meet in shared rows and in messages, never in shared memory, except for the
breaker, the in-flight map of the cache and the counters of the pipeline.

What is hard here: transactions at READ COMMITTED that interleave between
statements; the idempotency key whose claim can be released while the work goes
on; redelivery and partial failure between the database, Redis and BullMQ;
revocations racing rotations; results that arrive after the state they were
meant for. `PROJECT.json` lists each hazard at its line, with the properties
that would catch it.

## 2. Modules

| Module | Models | Built on |
|---|---|---|
| `VoucherLife` | what posting promises: the life of a voucher, its signatures and its effect | |
| `Ledger` | the four posting handlers, each atomic | implements `VoucherLife` |
| `PostingLocks` | the same handlers statement by statement, with row locks | extends `Ledger`, implements it |
| `LedgerService` | the business date, the batch, the voucher's day, and pages of lists and statements | stands around `Ledger`, whose postings are one of its steps |
| `Idempotency` | the idempotency middleware around a posting | |
| `Outbox` | relay, queue, consumers, dead letters | |
| `Sessions` | refresh-token families and the password | |
| `UserCache` | the user row with its lockout, and the copy authenticate reads | |
| `AmlScreening` | the AML worker beside the ledger it adds up | |
| `CircuitBreaker` | the breaker in front of the SMS gateway | |
| `ApiProcess` | load shedding, the deadline, the login limiter and the life of the process | |
| `WebSession` | a tab of the web client: session, user, query cache, calls under way | |
| `SumTheorems` | sums over finite sets: what the books and the AML windows add up to | |
| `LedgerProofs` | theorems about `Ledger` | `Ledger`, `SumTheorems` |
| `RefinementProofs` | that `Ledger` implements `VoucherLife`, and `PostingLocks` implements `Ledger` | `PostingLocks`, `LedgerProofs` |
| `ServiceProofs` | theorems about `LedgerService` | `LedgerService` |
| `MiddlewareProofs` | theorems about the middleware | `Idempotency`, `ApiProcess` |
| `SessionsProofs` | theorems about the two ends of a session | `Sessions`, `WebSession` |
| `UserCacheProofs` | theorems about `UserCache` | `UserCache` |
| `WorkerProofs` | theorems about the worker process | `Outbox`, `CircuitBreaker`, `AmlScreening`, `SumTheorems` |
| `MC…` | values of the constants for TLC | |

Modules of one component keep a **type invariant and its safety invariants in one
conjunction** (`LocksInv`, `IdempotencyInv`, `OutboxInv`, `SessionsInv`,
`UserCacheInv`, `AmlInv`, `BreakerInv`, `WebInv`, `ApiInv`, `ServiceInv`) where the types alone
would say little; the parts have names and comments of their own. Where a module
of theorems extends two of them, one keeps the usual names and the other has
longer ones: `ApiSpec`, `ClientSpec`, `BreakerSpec`, `AmlSpec` beside `Spec`,
`evaluation` beside `job`.

### VoucherLife and Ledger

`VoucherLife` knows no policies, numbers or tables: a voucher is entered once, its
effect on the balances is fixed then, and enters them once and in full when as
many people as it needs have signed it, none of them its maker; it may be refused
instead, and undone once by a voucher with the opposite effect.

`Ledger` has `status`, `slip` (the voucher row with its lines, a sequence in which
an account may stand more than once), `steps` (`authorization_step`), `balance`,
`after` (`balance_after` of every line),
`lastSeq` (`voucher_sequence`), `batch` (control totals) and `outbox`. One action
per handler: `CreateVoucher`, `ApproveVoucher`, `RejectVoucher`,
`ReverseVoucher`; `Enter`, `Post` and `Decide` are the parts they share, as in
the code (`applyPosting`, the insert of a voucher, `authorization_step`).
A handler that throws rolls back, so its checks are guards. Accounts, products,
roles and slabs (`Policy`) are constants: no handler changes them. Amounts are
integers (the code uses decimals of two places, with no rounding in these
handlers), one business day, one open batch per branch and type. Where
`findRequiredApprovals` leaves the order of equally specific slabs to the
database, `RequiredApprovals` is a set.

`KeepsPromises` is `VoucherLife!Spec` under the mapping written above it (`Lives`,
`Makers`, `Missing`, `Effects`, `Signers`, `Undone`): a voucher that is REVERSED
is still posted, and undone; the signatures it misses are the approvals required
less the rows there are.

### PostingLocks

`job` holds what each connection is executing and what it has read, `held` its
row locks. An action is one statement that takes a lock (`LockVoucher`,
`LockBalance` in order of id, `LockSequence`, `LockBatch`) or the COMMIT
(`CommitEntry`, `CommitDecision`) that writes everything from what was read
earlier; `Refuse`, `GiveUp` (lock timeout or deadlock victim) and `Crash` roll
back. `Implements` is the specification of `Ledger`: each commit is one of its
steps, computed from possibly stale reads, and everything else stutters. So, with
`KeepsPromises`, the statements implement `VoucherLife` (`InterleavedPromises`).

### LedgerService

A request goes through `GateHit` or `GateMiss` (`buildContext`, with the business
date from Redis, from a load of its own or from one another request has under
way), `Find` and `Create` (`resolveBatch`) and `PostVoucher` (module `Ledger`'s
transaction: refused, waiting, or posted); `Approve` and `Reject` come whenever
they like. `Fill` is the SET nobody waits for, `Lapse` the end of the copy. Day
begin and day end are not in the repository: `BeginDay`, `BeginDayEnd` and
`EndDay` move `business_date.status` as the enum and the comments on it say, and
call `invalidateBusinessDate`, whose DEL may get lost. In the same state a client
reads a list or a statement (`FirstPage`, `NextPage`); `got`, `there`, `twice` and
`last` record what it got, what was there all the while, whether a row came again,
and the cursors it used. createdAt is drawn before the commit, on the clock of a
process, so a new row may sort anywhere. The model takes createdAt at the
resolution the cursor carries, milliseconds; the column could hold microseconds,
but Prisma draws the value in JavaScript (`@default(now())` of the client).

### Idempotency

`record` is the row of the key, `fast` its mirror in Redis, `writes` the
completing UPDATE and the releasing DELETE, which the code does not await.
A response is named by the request whose handler made it, so a replay can be
told from the truth. Redis may miss at any time (`FastPath`, `Evict`). The INSERT of
a claim may fail, or only seem to (`Claim`), and it may return when the deadline has
answered long since. After that answer a handler's own response mostly does not get
as far as the wrapped res.json (`Reaches`; `Located` are the requests answered by
`created`), and 'close', which would release the claim, fires soon after the 503
(`Closed503`). `struck` remembers that a crash or a lost write left the claim without
an owner, `orphaned` that the INSERT returned, or failed, with nobody left to settle
it.

### Outbox

`row`, the transaction of each `relay`, `stray` calls nobody waits for any more
(Promise.all rejects at the first failure), `job` by job id, `letter`, and `told`,
which counts the effects of the work on an event. BullMQ is external: it hands
out a waiting job, keeps finished ones for a while, redelivers the job of a dead
worker, and fails a job that stalled more than `maxStalledCount` times
(`MaxStalled`; createConsumer leaves it at the library's default) without running
the processor. `lost` names the two ways in which work is known to go missing.

### Sessions

`token` is the committed table, a family is named by its first token. A
revocation is an UPDATE of many rows: `RevokeSees` fixes the rows the statement
sees, `RevokeRow` locks them one at a time, `CommitRevocation` makes it visible.
A rotation locks its token (`LockToken`) and commits later (`CommitRotation`).
Passwords are named by the request that set them.

### UserCache

`user` is the row: the columns `authenticate` decides on (`copy`), and the count
and end of the lockout. What can be seen of it has versions, and `age` tells how
long ago each was replaced. `entry` is the copy in Redis, `load` the in-flight
map of each process, `fills` the SETs nobody awaits. `Login`, `RecordFailed`,
`RecordSuccess` are statements of `login`, `Ask` to `Judge` a call of `cached`
and what is decided on its value, `Store` and `Forget` a write and its
`invalidateUser`. That Redis is away, or that its own circuit breaker is open (redis.ts:145), shows as a miss,
a lost SET or a lost DEL.
A new hash for an old password changes nothing that is looked at, and is left
out here; sessions are in `Sessions`.

### AmlScreening

`voucher` and `postings` are the ledger as far as payments of customers go: who
paid what, on which date, posted in which order, reversed since or not.
`evaluation` is the AML job of each posting: `Begin`, then one `Aggregate` (a query
of the ledger as it is then) and possibly one `Raise` (the INSERT with its dedupe
key) per customer and rule, `Conclude`; `BreakOff` and `Redeliver` stand for the
harness, which `Outbox` has in full. The total and the count of an alert are those
of all that contributed, its evidence names at most `MaxListed` of them (200 in the
code), which ones is left to the query. Rules do not change while the model runs.

### CircuitBreaker

`Pass`, `HalfOpen`, `Probe` are `execute` up to the await, `Succeed`, `Break`,
`Excuse` what comes after it, for each of several overlapping calls.

### ApiProcess

A request `Arrive`s where the balancer sends it: shed, or counted and passed to
the limiter (logins) or the handler. `response` follows the response object and
its connection, `handler` the work, which nobody aborts: after a `Deadline` or a
`Leave` it goes on. 'finish' is `Flush`, 'close' is `Leave`. `Limit` is the Lua
script, one atomic step, with a Redis that is away or whose answer comes late.
`passed` keeps what `window`, the sorted set, forgets by age. The process `Boot`s,
is `Signal`led, `Drain`s, `Close`s, quits Redis and the database or is cut by
`HardExit`; the balancer routes while readiness says 200 and has seen a 503 at the
latest `LbLag` after it began. server.ts:27-31 asks that the drain outlast that lag.
Nothing of the kind is assumed: the deployment drains for 10 seconds (server.ts:44)
and cuts at 15 (config/index.ts:32), while the balancer takes 20 to notice
(deploy/terraform/edge.tf:58-62).

### WebSession

The person signs in (two calls, login and who-am-I), signs out, reloads, or goes
back; the server answers each call at any time later, and an answer is an action
of its own (`SignedIn`, `Identified`, `SignInFails`, `GetRows`, `QueryFails`,
`Unauthorized`). `call` has what a call carries: the token it was sent with, and
whether its query is still in the cache. `overlapped` remembers that two sign-ins
were under way at once.

## 3. Runs

| Run | Checks | States | Bounds, and why they are enough |
|---|---|---|---|
| `ledger` | TypeOK, BooksBalance, PostedOnce, FourEyes, GaplessNumbers, EventsTellAll, RunningBalances, FundsKept, KeepsPromises | 162 thousand | three vouchers: an original, its reversal, and a third that competes for the same funds; two branches, with a reversal from the other one; entries that need 0, 1 and 2 approvals, overlapping slabs and no slab; lines that do not balance, two lines on one account, an account frozen for debits; savings that cover one withdrawal but not two |
| `locks` | LocksInv, OnlyReversalsDeadlock, Implements | 133 thousand | two connections (every race the code guards against is between two), two accounts locked in opposite order of listing, a transfer that posts at once and one that needs approval |
| `ledger_service` | ServiceInv, ListedOnce, StatementSkipsTies, FinalTotals | 2.2 million | three vouchers: two race for one batch and a third has one of its own; two dates, the first of which closes; two values of createdAt, so that rows tie; two vouchers whose lines share a number; pages of one row, so that every row is a page boundary |
| `idempotency` | IdempotencyInv, ReplaysTrue, ResponseKept, Answered, ClaimSettles | 310 thousand | a first attempt and its retry, which meets it in every state, and a request with the same key and another body |
| `idempotency_retry` | RetryPostsOnce, violated | | as `idempotency`, two requests |
| `outbox` | OutboxInv, ReplayedTakenUp, Delivered | 558 thousand | one event, two queues (the smallest fan-out), two relays (SKIP LOCKED matters), an operator, two attempts and three faults: two use up the attempts or stall the job for good, the third hits the letter, the replay or the relay |
| `sessions` | SessionsInv, SessionEnds, OverIsOver | 389 thousand | four requests and three tokens: login, two rotations and a revocation that race; the clock runs to expiry and purge |
| `user_cache` | UserCacheInv, BoundedStaleness | 2.4 million | three requests in two processes: a load is shared in one and raced by the other; two wrong passwords lock, two changes of the row, copies and loads of one tick, so that a fill can outlast a DEL and a hit the lock |
| `aml` | AmlInv, MissedOnlyLate | 955 thousand | three vouchers: two that complete a window and a third that comes late, or a reversal, or is one more than the evidence lists (two); two customers, a rule for cash over two days and one for several payments on one; two days; one fault |
| `breaker` | BreakerInv, TriesAgain | 1 thousand | four calls, thresholds 3 and 2: late results of both kinds meet a probe |
| `web_session` | WebInv, Heals | 1.4 million | two people, so that rows can be somebody else's; two calls under way, three tokens: an old session's call meets a sign-in and the session it opens, or two sign-ins meet |
| `api_process` | ApiInv, ShutdownSpares, Throttled, RefusedInGap, Stops | 1.3 million | three requests for two slots, so that one is shed; two logins for a window of two ticks that admits one, so that the window slides between them; a drain of one tick and a balancer that lags two, so that it routes to a closed listener, a hard limit of two, and a clock that ends with it: a shutdown begins at any point of the start and of every request |

`MaxFaults`, `MaxSetbacks`, `MaxStalled`, `MaxAttempts`, `MaxTold`, `MaxTime`, `MaxVersion`,
`MaxDay`, `MaxDate`, `MaxAt`, `MaxLoads`, `MaxLogins` and the sizes of the sets are
the only bounds of the models. `MaxListed` is the code's own, 200 there and two in
the runs. `MaxLoad` is an assumption: the statement timeout and the command
timeout of Redis end a load, and no process is suspended for longer. Deadlock
checking is off where a run may stop: vouchers, tokens, requests, dates and faults
are finite in number. Symmetry is used only in runs without liveness.

Each property has a mutant in `PROJECT.json`: a plausible mistake in one
definition, written out beside it and marked `Mutant:`, which makes TLC find the
property violated.

### Fairness

* `Idempotency!FairSpec`: handlers and statements end, and 'close' follows a response
  that was sent or whose socket died; clients promise nothing.
* `Outbox!FairSpec`: the poll loop of `startRelay` reschedules itself in a
  `finally`, and workers take jobs that wait. Operators, purges and strays
  promise nothing, and faults stop after `MaxFaults`.
* `CircuitBreaker!FairBreakerSpec`: `withTimeout` ends every call, the clock runs, and
  there is another message to send some day.
* `ApiProcess!FairApiSpec`: timers fire (the clock, the request deadline, the drain
  and the hard limit) and the balancer polls. No handler, client, Redis command
  or disconnect is assumed to end: `Stops` rests on `hardExit` alone.
* `WebSession!FairClientSpec`: axios gives up after 20 seconds, an answer that is there
  is looked at, a back-off elapses, and a query of the mounted shell that has
  nothing to show is asked. The person promises nothing.

`Ledger`, `PostingLocks`, `LedgerService`, `Sessions`, `UserCache` and
`AmlScreening` are checked for safety only.

### What the code does not do

`idempotency_retry` shows where the code does not do what a comment in it says
(`findings` in `PROJECT.json` quotes it): a retry posts twice when the first
attempt outlives its client or its deadline.

The models show more of the kind, which are part of what the actions do and have
no run of their own.

Posting and the business day:

* of several lines of a voucher on one account, which posting.service.ts:222 allows,
  each stores the balance after the whole voucher (:547-552), although
  schema.prisma:709 has it "after this line was applied" (`Post`; `RunningBalances`
  says what is stored);
* a rejected reversal leaves its original REVERSED (posting.service.ts:675), and
  nothing can reverse it again (:588);
* a reversal that posts at once takes the voucher sequence and then the balances,
  the entry of a voucher the other way round, so there is a cycle to form, which
  ledger.repository.ts:55 denies; `OnlyReversalsDeadlock` shows it is the only
  cause;
* the reversal of a deposit debits an account frozen for debits, since
  `reverseVoucher` does not call `assertPostable` (`ReverseVoucher`);
* the totals of a closed batch still move, and a batch can be opened in a closed
  day: an approval looks at neither (`Approve`), and a request let in by an old
  copy of the date opens the batch lazily (`Create`); that the date is closed is
  not enough for its totals to be final, as ledger.service.ts:29 has it, and
  `Settled` says what is;
* of two requests that open the first batch of a type at once, the loser fails:
  its second read runs in the transaction the unique violation has aborted
  (ledger.service.ts:63-67, `Create`);
* the cursor of a statement is (date, line number), which lines of different
  vouchers share: a page that ends on a tie skips the rest of the tie
  (`StatementSkipsTies` says that it skips nothing else).

Idempotency, outbox and workers:

* a request that is told of an error need not give its claim back, as
  idempotency.ts:54 has it, with no crash and no lost write: when its INSERT returns
  after the deadline's 503 has gone out and been closed, or fails only in appearance,
  nothing is left to settle it (`Claim`, `Reaches`);
* a request that lost the INSERT and then finds no row runs the handler without
  a claim (`Lookup`), and a key whose completing UPDATE is lost, whose process
  dies, or whose INSERT has nobody left to settle it, stays "in progress" (`struck`
  and `orphaned` in `Idempotency`; `ClaimSettles` excepts exactly these);
* a job that fails half way sends its first messages again (`Perform`), and one
  that stalls too often fails without a dead letter (`Stall`; `lost` in `Outbox`
  records it, and `NothingLost` allows exactly that and a failed INSERT of the
  letter);
* two operators replay one dead letter, which consumer.ts:153 says the stamp
  prevents: both look before either stamps (`Look`, `Requeue`, `Stamp`);
* a window that a late approval completes is never alerted, although
  aml.worker.ts:49 calls a false negative the worst possible failure: the voucher
  has the date of its entry, and only the window that ends there is looked at
  again (`ApproveVoucher`, `Aggregate`; `MissedOnlyLate` excepts exactly this);
* the vouchers that an alert names need not add up to its total, when there were
  more than the 200 it lists, although "which transactions made up this total?" is
  what they are for (aml.worker.ts:43-46; `Listings`, `AlertsProven`);
* a window has one day more than its rule says, both ends included (`Within`),
  and seeding edits rules in place, which schema.prisma:938 rules out.

Identity and the cache:

* `changePassword` stores the password (identity.service.ts:232) and revokes the
  sessions (:270) in two transactions: a login or a refresh between them, or a
  process that dies there, leaves a session of the old password;
* a successor that commits during the revocation of its family survives it
  (`RevokeSees`), and a login that upgrades a weak hash may undo a password
  change (`Rehash`);
* a change made inside the application need not be visible at once, as
  identity.repository.ts:78 says: a load that read before it may fill the cache
  after its DEL, or the DEL is lost (`FillArrives`, `Forget`); the copy is then
  out of date for its ten seconds and the time of the load, which is longer than
  "at most the TTL" (cacheAside.ts:189) and what `BoundedStaleness` allows;
* the status LOCKED outlives `lockedUntil`, and only somebody at the database
  can lift it (`Login`, `RecordSuccess`);
* in HALF_OPEN the late result of an earlier call lowers `probing` and lets a
  second probe through (`Succeed`, `Excuse`).

The process and the client:

* the balancer still routes to a listener that is closed, which server.ts:40-42
  rules out: the drain is 10 seconds, and 2 x 10 have to pass before the balancer
  gives the process up (edge.tf:61-62; `RefusedInGap` says when it can be);
* the counter of load shedding never gets back the slot of a client that leaves
  between end() and 'finish' (loadShedding.ts:112-115, `Leave`; `CounterTells`
  allows exactly this);
* the limiter lets everyone through while Redis is away, and counts a login whose
  answer came late or whose ZREM was lost (`Limit`, `Flush`);
* a handler abandoned by the deadline or by its client may still be running when
  the database goes, "after the last query" (server.ts:32) as it may be;
* a late 401 to a call of an earlier session clears the new one (api.ts:122-126,
  `Unauthorized`), and one that arrives between the two calls of a sign-in leaves
  a user without a token until the next query is refused (`Heals`);
* Back during a sign-in mounts a second form; if both sign-ins succeed, the token
  may be one person's and the name on the screen the other's, in spite of
  AuthProvider.tsx:31-32 (`NoMixing` excepts exactly this);
* signing out in the client does not call the server: the refresh token lives on.

## 4. Proofs

TLC checks small instances; TLAPS proves the following for every value of the
constants, from the assumptions named in the modules (`LedgerConstants`,
`LockConstants`, `ServiceConstants`, `IdempotencyConstants`, `OutboxConstants`,
`SessionConstants`, `UserCacheConstants`, `AmlConstants`, `BreakerConstants`,
`ApiConstants`, `WebConstants`): that sets are finite, that the marks for "nothing"
are none of the things they stand beside, and what the code checks at its start.
Every safety property that a run checks is stated by a theorem.

The books:

* `KeepsPromisesHolds` (`Spec => KeepsPromises`, `RefinementProofs`): `Ledger`
  implements `VoucherLife`. `MappedAt` and `MappedNext` say what the mapping makes
  of one voucher before and after a step, `MappedSame` that the others keep their
  image. `EnterMaps` shows the shared part `Enter` to be `VoucherLife!Enter`;
  one lemma per handler adds what is its own (`CreateMaps`, `ApproveMaps`,
  `RejectMaps`, `ReverseMaps`). That an approval lowers what is missing by exactly
  one, and comes from somebody new, needs `FourEyesInv`.
* `TypeCorrect` (`Spec => []TypeOK` for `Ledger`). The inductive invariant is
  `TypeInv`: `TypeOK` and that `steps` is finite, without which the number of
  approvals, a cardinality, is no number.
* `FourEyesHolds` (`Spec => []FourEyes`). `FourEyes` is not inductive: that a new
  voucher starts without decisions rests on there being none for vouchers that do
  not exist. `FourEyesInv` adds this (`Unborn`) and `TypeInv`. The step is proved
  per handler, through lemmas on what entering a voucher and deciding on one do
  to the sets of approvals and actors, and to their sizes.
* `FundsKeptHolds` (`Spec => FundsKept`), an action property from `TypeInv`:
  `Covers` is looked at in the step that moves the money.
* `BooksBalanceHolds`, `PostedOnceHolds`, `RunningBalancesHolds`,
  `GaplessNumbersHolds` and `EventsTellAllHolds` for `Ledger`. No one of them is
  inductive; together with two more they are, `BooksInv`. `LinesBalanced`: whatever
  has been entered balances, so an approval weeks later, which does not look at the
  lines again, keeps assets less liabilities what they were. `StatementSum`: the balance of an
  account is its opening balance and all that the outbox says was posted to it,
  without which `balance_after` of the new lines, computed from the balance, would not
  continue the statement. A step is looked at twice: for the voucher it enters
  (`Enters`, `EntersNone`) and for the money it moves (`Moves`, `MovesNone`), and a
  handler is a pair of these. What the books add up are folds. Induction over a set
  is out of reach, but a smallest set that is an exception is not: subsets of a
  finite set are well-founded under inclusion (`SmallestSet`), and from there
  `SumTheorems` has that a fold exists and is one, that any element may be taken
  first (`SumRemove`), how sums add, split and differ, and that the lines may be
  summed account by account (`SumGroups`, from which `NetOfSide`).
* `ImplementsHolds`, `LocksInvHolds` and `OnlyReversalsDeadlockHolds` for
  `PostingLocks`, all its properties. The inductive invariant `LocksIInv` says of
  every transaction under way (`Sound`): its command fits the vouchers it names
  (`Ordered`), its phase tells what it has read so far (`Reached`), the balances in
  order of account (`InOrder`), it holds exactly the locks on what it has read
  (`Locked`), and what it has read is so (`Current`). With `Exclusive`, no row
  locked twice, the COMMIT of another changes none of this: `CommitWrites` says
  which rows a COMMIT writes, all of them locked or its own new voucher, and
  `CommitDisturbsNot` that `Sound` of the others does not look at these. `AppliesNow`,
  `EntryCommits` and `DecisionCommits` then show that what is written from the
  earlier reads is what `Ledger` computes from the rows of now, so each COMMIT is a
  handler run alone, and `InterleavedPromises` carries what is proved of `Ledger`
  over to transactions that interleave, as `InterleavedBooks` does of the books.
  `NoCircle` goes backwards through the order of the locks: whoever waits for a batch
  waits for somebody at his COMMIT; then nobody in a circle waits for a batch, so
  nobody for a sequence, and of those that wait for balances the one that wants the
  highest account (`HighestAccount`) has nobody to wait for. A reversal that posts at
  once draws its number before its balances, and is the exception the property names.
* `ServiceInvHolds`, `FinalTotalsHolds`, `ListedOnceHolds` and
  `StatementSkipsTiesHolds` for `LedgerService`, all its properties. `StateTyped`
  adds to the types that a request past the gate has a date and no row yet.
  `FinalStep` goes through the actions: a settled date lets nobody in, because
  `CurrentDay` is never a closed one and no copy is left that says otherwise.
  The pages rest on `PagesInv`: the rows read are not before the cursor, and the
  rows that were there all the while are read, or still ahead, or share the
  cursor's pair; `PageKeeps` shows one page to keep it, from the order of the
  pairs (`LessOrder`) and that a finite page has a least one (`MinKey`); between
  pages it holds because no voucher ever changes its pair (`KeyStays`). Totals are
  cardinalities, which a voucher that becomes POSTED raises by one (`OneMore`).

The middleware:

* `IdempotencyInvHolds`, `ReplaysTrueHolds` and `ResponseKeptHolds` for
  `Idempotency`, its safety properties. None is inductive; `KeyInv` is. Its core is
  `OneOwner`: a request owns the row of its key from the INSERT until its write has
  arrived or is lost, of owners there is one, and the row is still the bare claim.
  So the write that arrives finds its own claim (`StoreStep`), and a stored response
  has no owner left. `OneClaim` says that a key nobody was given up on has one
  claim and that only its holder works; a row goes away only by a release, which
  `SettledOnce` ties to an answer that was an error or to a client that had gone.
  `TrueCopies` and `TrueAnswers` follow every response from the voucher to the row,
  the mirror and the client. A crash and a lost write only take writes away
  (`FewerWrites`).
* `ApiInvHolds`, `ShutdownSparesHolds` and `RefusedInGapHolds` for `ApiProcess`, from
  `ShutdownInv`, for any delays in any order. That no response is cut off but by the
  hard exit rests on what the close waited for (`ClosedWaits`), on whom the hard exit
  resets (`ResetByForce`), and on handlers being admitted ones (`WorkAdmitted`). Who
  is still routed finds the listener open, or the balancer has not had its time yet
  (`RoutedListens`), and a listener closes only after the drain or at the hard limit
  (`DrainedFirst`); so a refusal falls between the two (`RefusedBetween`).
  `LongDrainHolds` is what server.ts:41-42 has in mind: when both delays are longer
  than the lag (`LongDrain`) nobody is refused. `ThrottledHolds` adds `Remembered`:
  Redis still has every pass that is not too old to count.

Sessions and identity:

* `SessionsInvHolds`, `SessionEndsHolds` and `OverIsOverHolds` for `Sessions`. The
  inductive invariant `SessionsIInv` has a part on the rows (`Rows`): a family is
  named by a token that was issued, one of it is live, and a token that has a
  successor has one and is used. A part on each request (`At`): a rotation under
  way (`Rotates`) holds the lock of a token that is live and unused, and has drawn a
  successor nobody has stored and an expiry its session allows; what a revocation
  has marked, it holds. And a part on two (`Apart`): they hold different rows and
  have drawn different successors. So a COMMIT that rotates replaces the one live
  token by another, and one that revokes leaves none. That the expiry cannot creep
  (`ExpiryKept`) needs the first row of the family; when it has been purged, its
  time is over, and so is that of all that came of it.
* `WebInvHolds` for `WebSession`. `NoMixing` says nothing of the calls under way, so
  `TabInv` follows them: what each `Carries`, and that a tab in which no two sign-ins
  overlapped is one person's (`OnePersons`). While a sign-in is under way the tab is
  nobody's and the token that of the sign-in, if a late 401 has not taken it;
  afterwards the token, the rows and every query that still counts are those of the
  user shown. A query of an earlier user may still be answered, but `Dropped` has
  taken it out of the cache.
* `UserCacheInvHolds` for `UserCache`: until somebody gets in, the count of wrong
  passwords is the number of logins that failed. `CountInv` adds to the invariant of
  the cache, below, that a request has an outcome only when its work is done and only
  logins come to where passwords are counted (`Stage`), and that the count is never
  above the number of failed logins, equals it until a login gets in, and at the
  threshold finds the account LOCKED (`CountsAll`).
* `BoundedStalenessHolds` (`Spec => BoundedStaleness`) for `UserCache`. The step of
  a request says nothing of how old its copy is, so the age is followed from the
  row on: what has not been replaced has no age (`CurrentIsFresh`), a load or a
  SET under way carries a version that is out of date for no longer than the load
  or the SET has been under way (`LoadsAreYoung`, `FillsAreYoung`), and the age of
  the copy in Redis and the time it has left make at most `Ttl + MaxLoad`
  (`EntryDiesInTime`). `StalenessInv` is these and the types; every step keeps
  them, and `Hit` and `LoadReturns`, the only ways to a copy, follow from them.

The workers:

* `OutboxInvHolds` and `ReplayedTakenUpHolds` for `Outbox`. The core of `OutboxIInv`
  is that work a consumer has been given, as far as the queue, the letters, the rows
  and the relays about to commit tell (`Known`), is `Safe`: done, in a job, lost and
  logged, or in a letter that is open (`OpenFor`). Open is more than not replayed: an
  operator who has enqueued the job of a letter may have died before the stamp, or
  be about to stamp what a second operator reads as untouched, and then the job may
  have been worked off and be gone while the letter still waits. So a letter counts
  only while nobody has enqueued its work and nothing is left of such a job.
  `NamedFor` keeps the names of jobs honest, `Progress` ties what a job has done to
  what has happened, `Publishing` and `Looking` the calls of relays and operators to
  rows and letters that are there.
* `AmlInvHolds` and `MissedOnlyLateHolds` for `AmlScreening`, from `AmlIInv`.
  `PostingsTell` ties the order of the postings to the rows and the jobs. Every step
  is `Onward`: what is posted keeps its day and its lines, is not brought back from
  its reversal, and what comes is posted after it. So the vouchers that carry
  an alert, raised or only found (`Proven`), carry it for ever (`CarriesOnward`),
  although some may have been reversed and the evidence need not name them all;
  `EvidenceBelowLimit` says that it adds up where it does. For the windows, `LookedAt`: a job that is through with a
  window has seen every voucher posted up to its own, so if those that still count
  cross the threshold the window is heard of. What a job saw besides, or did not see
  since, is left to later jobs. Reversals only shrink that set, and fewer vouchers
  cross nothing that more do not (`CrossedMore`, from `SumSplit`). When all jobs are
  done, the job of the posting that came last (`Latest`) on the window's last day
  has seen all but the vouchers posted after it, which are the exception the
  property names.
* `BreakerInvHolds` for `CircuitBreaker`, from `BreakerTypeCorrect` and
  `ProbeIsUnderWay`: `ProbeUnderWay` is inductive given the types, since every end of
  a call in HALF_OPEN lowers the flag or leaves the state.

Only model-checked is liveness, which is out of the prover's reach, as is ENABLED:
`Answered` and `ClaimSettles` of `Idempotency`, `Delivered` of `Outbox`,
`TriesAgain` of `CircuitBreaker`, `Heals` of `WebSession`, `Stops` of `ApiProcess`.
`RetryPostsOnce` is the property that is violated. No module declares a RECURSIVE
operator.

## 5. Plan

Written in this order, the behaviour that matters most first: `Ledger`, its
proofs, `PostingLocks`, `Idempotency`, `Outbox`, `Sessions`, `CircuitBreaker`,
`UserCache` and its proof, `AmlScreening`; then `VoucherLife` and the proof that
`Ledger` implements it, `ApiProcess` and `LedgerService` with their proofs,
`WebSession`, the proofs about `Idempotency` and `PostingLocks`, and those about
the books, `Sessions`, `WebSession`, `Outbox`, `UserCache` and `AmlScreening`.

What would come next: an abstract specification of delivery that `Outbox`
implements, with its refinement as a theorem; expiry and fencing of the
distributed lock once something uses it.

### Not modelled

* **Distributed lock** (`shared/cache/lock.ts`): nothing but its tests calls it, so
  there is no work whose protection could be stated.
* **Day begin and day end** are not in the repository; `LedgerService` has them
  only as the environment that turns the day.
* **Trial balance, listings of users, sessions, branches**: single SELECTs that
  change nothing and are read in one piece.
* **Maintenance**: ensurePartitions and the purge of idempotency keys, which a key
  outlives every retry considered; the shutdown of the worker process, which
  appears in `Outbox` as a crash.
* **Money**: decimal arithmetic of a library; no operation of the handlers rounds.
* **Cryptography, HTTP envelopes, validation, logging, metrics, health reports,
  configuration, error formatting, seeds, migrations, the pages of the web client,
  deployment**: they keep no state the properties above depend on. Constraints of
  the schema appear where an operation depends on them.
