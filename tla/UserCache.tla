----------------------------- MODULE UserCache -----------------------------
(***************************************************************************)
(* The row of one user and its copy in Redis: what authenticate goes by.   *)
(* Every call reads the user through cached() (shared/cache/cacheAside.ts, *)
(* identity.repository.ts findUserById), logins read the row itself and    *)
(* count wrong passwords in it, and every write is followed by a DEL of    *)
(* the copy.  Several processes share the row and the copy; a load under   *)
(* way is shared only within a process.                                    *)
(*                                                                         *)
(* Time passes in ticks.  The states of the row that a copy can show are   *)
(* numbered, and age tells for how long each has been out of date.         *)
(***************************************************************************)
EXTENDS Integers, FiniteSets

CONSTANTS
    Process,
    Request,
    RunsOn,     \* [Request -> Process]
    None,
    Threshold,  \* FAILED_LOGIN_THRESHOLD
    LockFor,    \* LOCK_DURATION_MS, in ticks
    Ttl,        \* ttlSeconds, in ticks
    MaxLoad,    \* how long a load takes from the query to the SET, in ticks
    MaxVersion  \* bound: how often password or status change

ASSUME UserCacheConstants ==
    /\ IsFiniteSet(Request)
    /\ RunsOn \in [Request -> Process]
    /\ Threshold \in Nat \ {0} /\ LockFor \in Nat
    /\ Ttl \in Nat /\ MaxLoad \in Nat /\ MaxVersion \in Nat

VARIABLES
    user,       \* the row: what is cached of it, and the columns of the lockout
    age,        \* [version -> ticks since it was replaced]
    entry,      \* the copy in Redis, and how many ticks it has left
    load,       \* [Process -> None or the load in the inFlight map]
    fills,      \* SETs on their way to Redis, not awaited
    req

vars == <<user, age, entry, load, fills, req>>

Version == 0..MaxVersion
Status  == {"ACTIVE", "LOCKED", "DISABLED"}
Copy    == [version : Version, password : Version, status : Status]
User    == [copy : Copy, failed : 0..(Threshold + Cardinality(Request)), locked : 0..LockFor]

\* A password is named by the version that brought it.  "query" is before the
\* database reads the row, "read" after.
Load == [phase : {"query"}] \cup [phase : {"read"}, copy : Copy, old : 0..MaxLoad]
Fill == [copy : Copy, old : 0..MaxLoad]

\* known is the password a client types, or the one its token was issued for.
Req == [op : {"none", "login", "call", "change"},
        phase : {"idle", "look", "wait", "got", "fail", "succeed", "store", "forget", "over"},
        known : Version \cup {None}, copy : Copy \cup {None}, failed : Nat,
        outcome : {"none", "refused", "failed", "in", "error"}]

NoRequest == [op |-> "none", phase |-> "idle", known |-> None, copy |-> None, failed |-> 0,
              outcome |-> "none"]

In(r, phase)        == req[r].phase = phase
Goto(r, phase)      == req' = [req EXCEPT ![r].phase = phase]
Done(r, outcome)    == [NoRequest EXCEPT !.op = req[r].op, !.phase = "over", !.outcome = outcome]
Over(r, outcome)    == req' = [req EXCEPT ![r] = Done(r, outcome)]
Got(r, copy)        == [req[r] EXCEPT !.phase = "got", !.copy = copy]

----------------------------------------------------------------------------
(* login reads the row and not the copy                                    *)

\* The lock, the status and the password are looked at in this order; a wrong
\* password is one the row does not have.
Login(r) ==
    /\ In(r, "idle")
    /\ \/ /\ user.locked > 0 \/ user.copy.status # "ACTIVE"
          /\ req' = [req EXCEPT ![r] = [NoRequest EXCEPT !.op = "login", !.phase = "over",
                                                         !.outcome = "refused"]]
       \/ /\ user.locked = 0 /\ user.copy.status = "ACTIVE"
          /\ \E right \in BOOLEAN :
                req' = [req EXCEPT ![r] =
                          [NoRequest EXCEPT !.op = "login", !.failed = user.failed,
                                            !.phase = IF right THEN "succeed" ELSE "fail"]]
    /\ UNCHANGED <<user, age, entry, load, fills>>

\* The row after its n-th wrong password.
Counted(n) ==
    [user EXCEPT !.failed = n,
                 !.locked = IF n >= Threshold THEN LockFor ELSE @,
                 !.copy = IF n >= Threshold /\ @.status # "LOCKED"
                          THEN [user.copy EXCEPT !.status = "LOCKED",
                                                 !.version = user.copy.version + 1] ELSE @]

\* Mutant: the count is the one the login has read.
RecordReadCount(r) ==
    /\ In(r, "fail")
    /\ user' = Counted(req[r].failed + 1)
    /\ user'.copy.version \in Version
    /\ req' = [req EXCEPT ![r].phase = "forget", ![r].outcome = "failed"]
    /\ UNCHANGED <<age, entry, load, fills>>

\* recordFailedLogin, one UPDATE.
RecordFailed(r) ==
    /\ In(r, "fail")
    /\ user' = Counted(user.failed + 1)
    /\ user'.copy.version \in Version
    /\ req' = [req EXCEPT ![r].phase = "forget", ![r].outcome = "failed"]
    /\ UNCHANGED <<age, entry, load, fills>>

\* recordSuccessfulLogin lifts the lock, but leaves the status.
RecordSuccess(r) ==
    /\ In(r, "succeed")
    /\ user' = [user EXCEPT !.failed = 0, !.locked = 0]
    /\ req' = [req EXCEPT ![r].phase = "forget", ![r].outcome = "in"]
    /\ UNCHANGED <<age, entry, load, fills>>

\* invalidateUser: the DEL, unless Redis is away.
Forget(r) ==
    /\ In(r, "forget")
    /\ entry' \in {None, entry}
    /\ Over(r, req[r].outcome)
    /\ UNCHANGED <<user, age, load, fills>>

----------------------------------------------------------------------------
(* cached()                                                                *)

\* A request with an access token, or one to change the password, for which
\* the user types the current one.
Ask(r, op, known) ==
    /\ In(r, "idle")
    /\ known <= user.copy.password
    /\ req' = [req EXCEPT ![r] = [NoRequest EXCEPT !.op = op, !.phase = "look", !.known = known]]
    /\ UNCHANGED <<user, age, entry, load, fills>>

\* Mutant: a hit renews the time the copy has left.
HitAndRenew(r) ==
    /\ In(r, "look") /\ entry # None
    /\ req' = [req EXCEPT ![r] = Got(r, entry.copy)]
    /\ entry' = [entry EXCEPT !.left = Ttl]
    /\ UNCHANGED <<user, age, load, fills>>

Hit(r) ==
    /\ In(r, "look") /\ entry # None
    /\ req' = [req EXCEPT ![r] = Got(r, entry.copy)]
    /\ UNCHANGED <<user, age, entry, load, fills>>

\* A miss, or Redis away: join the load of this process, or start one.
Miss(r) ==
    LET p == RunsOn[r]
    IN  /\ In(r, "look")
        /\ load' = [load EXCEPT ![p] = IF @ = None THEN [phase |-> "query"] ELSE @]
        /\ Goto(r, "wait")
        /\ UNCHANGED <<user, age, entry, fills>>

\* The database answers the query.
LoadReads(p) ==
    /\ load[p] = [phase |-> "query"]
    /\ load' = [load EXCEPT ![p] = [phase |-> "read", copy |-> user.copy, old |-> 0]]
    /\ UNCHANGED <<user, age, entry, fills, req>>

Waiting(p) == {r \in Request : RunsOn[r] = p /\ In(r, "wait")}

\* The promise resolves for everyone who waits, and the SET is sent.
LoadReturns(p) ==
    /\ load[p] # None /\ load[p].phase = "read"
    /\ load' = [load EXCEPT ![p] = None]
    /\ fills' = fills \cup {[copy |-> load[p].copy, old |-> load[p].old]}
    /\ req' = [r \in Request |-> IF r \in Waiting(p) THEN Got(r, load[p].copy) ELSE req[r]]
    /\ UNCHANGED <<user, age, entry>>

LoadFails(p) ==
    /\ load[p] # None
    /\ load' = [load EXCEPT ![p] = None]
    /\ req' = [r \in Request |-> IF r \in Waiting(p) THEN Done(r, "error") ELSE req[r]]
    /\ UNCHANGED <<user, age, entry, fills>>

\* The SET reaches Redis, or is lost.
FillArrives(f) ==
    /\ f \in fills
    /\ fills' = fills \ {f}
    /\ entry' \in {entry, [copy |-> f.copy, left |-> Ttl]}
    /\ UNCHANGED <<user, age, load, req>>

----------------------------------------------------------------------------
(* What the copy is used for                                               *)

\* resolveActor and authenticate: the account is active, and the token is of
\* the password it has.  changePassword asks for the password only.
Judge(r) ==
    /\ In(r, "got")
    /\ \/ /\ req[r].op = "call" /\ req[r].copy.status = "ACTIVE"
          /\ req[r].known = req[r].copy.password
          /\ Over(r, "in")
       \/ /\ req[r].op = "call"
          /\ req[r].copy.status # "ACTIVE" \/ req[r].known # req[r].copy.password
          /\ Over(r, "refused")
       \/ /\ req[r].op = "change" /\ req[r].known = req[r].copy.password
          /\ Goto(r, "store")
       \/ /\ req[r].op = "change" /\ req[r].known # req[r].copy.password
          /\ Over(r, "refused")
    /\ UNCHANGED <<user, age, entry, load, fills>>

\* updatePasswordHash
Store(r) ==
    LET next == user.copy.version + 1
    IN  /\ In(r, "store") /\ next \in Version
        /\ user' = [user EXCEPT !.copy.version = next, !.copy.password = next]
        /\ req' = [req EXCEPT ![r].phase = "forget", ![r].outcome = "in"]
        /\ UNCHANGED <<age, entry, load, fills>>

----------------------------------------------------------------------------

\* Somebody disables or enables the account by hand, and nothing tells Redis.
Outside ==
    \E s \in {"ACTIVE", "DISABLED"} \ {user.copy.status} :
        /\ user.copy.status # "LOCKED"
        /\ user.copy.version < MaxVersion
        /\ user' = [user EXCEPT !.copy.status = s, !.copy.version = @ + 1]
        /\ UNCHANGED <<age, entry, load, fills, req>>

\* Redis drops the copy when its time is up, or for want of memory.
Evict ==
    /\ entry # None
    /\ entry' = None
    /\ UNCHANGED <<user, age, load, fills, req>>

\* Ages are counted as far as they matter.
Outdated == Ttl + MaxLoad + 1

Older(x) == [x EXCEPT !.old = @ + 1]

\* Time passes, but no load or SET outlasts MaxLoad: the timeouts of statements
\* and of Redis commands see to it.
Tick ==
    /\ \A p \in Process : load[p] # None /\ load[p].phase = "read" => load[p].old < MaxLoad
    /\ \A f \in fills : f.old < MaxLoad
    /\ user' = [user EXCEPT !.locked = IF @ = 0 THEN 0 ELSE @ - 1]
    /\ age' = [v \in Version |-> IF v < user.copy.version /\ age[v] < Outdated
                                 THEN age[v] + 1 ELSE age[v]]
    /\ entry' = IF entry # None /\ entry.left > 0 THEN [entry EXCEPT !.left = @ - 1] ELSE None
    /\ load' = [p \in Process |-> IF load[p] # None /\ load[p].phase = "read"
                                  THEN Older(load[p]) ELSE load[p]]
    /\ fills' = {Older(f) : f \in fills}
    /\ UNCHANGED req

Init ==
    /\ user = [copy |-> [version |-> 0, password |-> 0, status |-> "ACTIVE"],
               failed |-> 0, locked |-> 0]
    /\ age = [v \in Version |-> 0]
    /\ entry = None
    /\ load = [p \in Process |-> None]
    /\ fills = {}
    /\ req = [r \in Request |-> NoRequest]

Next ==
    \/ \E r \in Request :
          \/ Login(r) \/ RecordFailed(r) \/ RecordSuccess(r) \/ Forget(r)
          \/ \E op \in {"call", "change"}, known \in Version : Ask(r, op, known)
          \/ Hit(r) \/ Miss(r) \/ Judge(r) \/ Store(r)
    \/ \E p \in Process : LoadReads(p) \/ LoadReturns(p) \/ LoadFails(p)
    \/ \E f \in fills : FillArrives(f)
    \/ Outside \/ Evict \/ Tick

Spec == Init /\ [][Next]_vars

----------------------------------------------------------------------------
(* Properties                                                              *)

TypeOK ==
    /\ user \in User
    /\ age \in [Version -> 0..Outdated]
    /\ entry \in [copy : Copy, left : 0..Ttl] \cup {None}
    /\ load \in [Process -> Load \cup {None}]
    /\ fills \subseteq Fill
    /\ req \in [Request -> Req]

\* No request is ever decided on a user row that was replaced longer ago than
\* the copy lives and a load takes, whatever DELs are lost, whichever loads
\* overtake a write and however often the copy is read: a locked or disabled
\* account and a changed password take effect by then.
BoundedStaleness ==
    [][\A r \in Request :
          ~In(r, "got") /\ In(r, "got")' => age[req'[r].copy.version] <= Ttl + MaxLoad]_vars

\* No wrong password goes uncounted: as long as nobody has logged in, the count
\* is the number of logins that failed, in whatever order they overlap, and
\* from the threshold on the account is locked.
FailuresCounted ==
    LET failed == {r \in Request : req[r].outcome = "failed"}
    IN  /\ user.failed >= Threshold => user.copy.status # "ACTIVE"
        /\ (\A r \in Request : req[r].op = "login" => req[r].outcome # "in") =>
              user.failed = Cardinality(failed)

\* What overlapping logins keep: the types, and that every wrong password is
\* counted.
UserCacheInv == TypeOK /\ FailuresCounted

============================================================================
