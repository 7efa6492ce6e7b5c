-------------------------- MODULE UserCacheProofs --------------------------
(***************************************************************************)
(* That no request is decided on a row replaced too long ago, and that no  *)
(* wrong password goes uncounted, for every number of requests and         *)
(* processes and every length of the times.                                *)
(***************************************************************************)
EXTENDS UserCache, FiniteSetTheorems, TLAPS

\* The types the argument needs; how far the failures count is not among them.
CacheType ==
    /\ user \in [copy : Copy, failed : Nat, locked : 0..LockFor]
    /\ age \in [Version -> 0..Outdated]
    /\ entry \in [copy : Copy, left : 0..Ttl] \cup {None}
    /\ load \in [Process -> Load \cup {None}]
    /\ fills \subseteq Fill
    /\ req \in [Request -> Req]

\* What has not been replaced has no age.
CurrentIsFresh == \A v \in Version : v >= user.copy.version => age[v] = 0

\* What was read, and is on its way to Redis, has been out of date for no longer
\* than it has been on its way.
LoadsAreYoung ==
    \A p \in Process :
        load[p] # None /\ load[p].phase = "read" => age[load[p].copy.version] <= load[p].old

FillsAreYoung == \A f \in fills : age[f.copy.version] <= f.old

\* The copy in Redis dies before it is too old.
EntryDiesInTime ==
    entry # None => age[entry.copy.version] + entry.left <= Ttl + MaxLoad

StalenessInv ==
    CacheType /\ CurrentIsFresh /\ LoadsAreYoung /\ FillsAreYoung /\ EntryDiesInTime

----------------------------------------------------------------------------
(* Types                                                                   *)

\* What a request becomes has the type of a request.
LEMMA DoneType ==
    ASSUME CacheType, NEW r \in Request, NEW o \in {"refused", "failed", "in", "error"}
    PROVE  Done(r, o) \in Req
  BY DEF CacheType, Done, NoRequest, Req

LEMMA GotType ==
    ASSUME CacheType, NEW r \in Request, NEW c \in Copy
    PROVE  /\ Got(r, c) \in Req
           /\ Got(r, c).copy = c
  BY DEF CacheType, Got, Req

LEMMA VersionFacts ==
    /\ Version \subseteq Nat /\ 0 \in Version
    /\ \A v, w \in Version : v + 1 \in Version /\ w >= v + 1 => w >= v
  BY UserCacheConstants DEF Version

\* The row a step leaves: the lockout and the copy keep their types, and the
\* version does not go back.
LEMMA CountedType ==
    ASSUME CacheType, NEW n \in Nat, Counted(n).copy.version \in Version
    PROVE  /\ Counted(n) \in [copy : Copy, failed : Nat, locked : 0..LockFor]
           /\ Counted(n).copy.version >= user.copy.version
  <1> USE UserCacheConstants
  <1>1. /\ user \in [copy : Copy, failed : Nat, locked : 0..LockFor]
        /\ user.copy \in Copy /\ user.copy.version \in Version
    BY DEF CacheType, Copy
  <1>l. 0 \in 0..LockFor /\ LockFor \in 0..LockFor
    OBVIOUS
  <1>2. CASE n >= Threshold /\ user.copy.status # "LOCKED"
    <2> DEFINE c == [user.copy EXCEPT !.status = "LOCKED", !.version = @ + 1]
    <2>1. Counted(n) = [user EXCEPT !.failed = n, !.locked = LockFor, !.copy = c]
      BY <1>1, <1>2 DEF Counted
    <2>2. Counted(n).copy = c /\ c.version = user.copy.version + 1
      BY <1>1, <2>1 DEF Copy
    <2>3. c \in Copy
      BY <1>1, <2>2 DEF Copy, Status
    <2> HIDE DEF c
    <2>4. Counted(n) \in [copy : Copy, failed : Nat, locked : 0..LockFor]
      BY <1>1, <1>l, <2>1, <2>3
    <2>5. Counted(n).copy.version >= user.copy.version
      BY <1>1, <2>2 DEF Version
    <2> QED
      BY <2>4, <2>5
  <1>3. CASE ~(n >= Threshold /\ user.copy.status # "LOCKED")
    <2>1. Counted(n).copy = user.copy
      BY <1>1, <1>3 DEF Counted
    <2>2. Counted(n) = [user EXCEPT !.failed = n,
                                    !.locked = IF n >= Threshold THEN LockFor ELSE user.locked]
      BY <1>1, <1>3 DEF Counted
    <2>3. Counted(n) \in [copy : Copy, failed : Nat, locked : 0..LockFor]
      BY <1>1, <1>l, <2>2
    <2> QED
      BY <1>1, <2>1, <2>3 DEF Version
  <1> QED
    BY <1>2, <1>3

LEMMA InitStaleness == Init => StalenessInv
  <1> SUFFICES ASSUME Init PROVE StalenessInv
    OBVIOUS
  <1> USE UserCacheConstants
  <1>1. CacheType
    <2>1. user \in [copy : Copy, failed : Nat, locked : 0..LockFor]
      <3>1. [version |-> 0, password |-> 0, status |-> "ACTIVE"] \in Copy
        BY DEF Copy, Version, Status
      <3> QED
        BY <3>1 DEF Init
    <2>2. age \in [Version -> 0..Outdated]
      BY DEF Init, Outdated
    <2>3. req \in [Request -> Req]
      <3>1. NoRequest \in Req
        BY DEF NoRequest, Req
      <3> QED
        BY <3>1 DEF Init
    <2>4. load \in [Process -> Load \cup {None}] /\ fills \subseteq Fill /\ entry = None
      BY DEF Init
    <2> QED
      BY <2>1, <2>2, <2>3, <2>4 DEF CacheType
  <1> QED
    BY <1>1 DEF Init, StalenessInv, CurrentIsFresh, LoadsAreYoung, FillsAreYoung, EntryDiesInTime

----------------------------------------------------------------------------
(* The steps                                                               *)

\* A step that only moves requests on.
LEMMA RequestsStep ==
    ASSUME StalenessInv, UNCHANGED <<user, age, entry, load, fills>>, req' \in [Request -> Req]
    PROVE  StalenessInv'
  BY DEF StalenessInv, CacheType, CurrentIsFresh, LoadsAreYoung, FillsAreYoung, EntryDiesInTime

\* A step that writes the row, and does not take its version back.
LEMMA WriteStep ==
    ASSUME StalenessInv, UNCHANGED <<age, entry, load, fills>>, req' \in [Request -> Req],
           user' \in [copy : Copy, failed : Nat, locked : 0..LockFor],
           user'.copy.version >= user.copy.version
    PROVE  StalenessInv'
  <1>1. CacheType'
    BY DEF StalenessInv, CacheType
  <1>2. CurrentIsFresh'
    <2>1. user.copy.version \in Int /\ user'.copy.version \in Int
      BY DEF StalenessInv, CacheType, Copy, Version
    <2> QED
      BY <2>1 DEF StalenessInv, CurrentIsFresh, Version
  <1> QED
    BY <1>1, <1>2 DEF StalenessInv, LoadsAreYoung, FillsAreYoung, EntryDiesInTime

\* A step of Redis that only drops or keeps the copy.
LEMMA DropStep ==
    ASSUME StalenessInv, UNCHANGED <<user, age, load, fills>>, req' \in [Request -> Req],
           entry' \in {None, entry}
    PROVE  StalenessInv'
  BY DEF StalenessInv, CacheType, CurrentIsFresh, LoadsAreYoung, FillsAreYoung, EntryDiesInTime

LEMMA RequestNext ==
    ASSUME StalenessInv, NEW r \in Request,
           \/ Login(r) \/ RecordFailed(r) \/ RecordSuccess(r) \/ Forget(r)
           \/ \E op \in {"call", "change"}, known \in Version : Ask(r, op, known)
           \/ Hit(r) \/ Judge(r) \/ Store(r)
    PROVE  StalenessInv'
  <1> USE UserCacheConstants
  <1>0. /\ CacheType /\ req \in [Request -> Req] /\ req[r] \in Req
        /\ user \in [copy : Copy, failed : Nat, locked : 0..LockFor]
        /\ user.copy \in Copy /\ user.copy.version \in Version
    BY DEF StalenessInv, CacheType, Copy
  <1>1. CASE Login(r)
    <2>1. /\ [NoRequest EXCEPT !.op = "login", !.phase = "over", !.outcome = "refused"] \in Req
          /\ \A p \in {"succeed", "fail"} :
                [NoRequest EXCEPT !.op = "login", !.failed = user.failed, !.phase = p] \in Req
      BY <1>0 DEF NoRequest, Req
    <2>2. req' \in [Request -> Req]
      BY <1>0, <1>1, <2>1 DEF Login
    <2> QED
      BY <1>1, <2>2, RequestsStep DEF Login
  <1>2. CASE RecordFailed(r)
    <2>1. req' \in [Request -> Req]
      BY <1>0, <1>2 DEF RecordFailed, Req
    <2>2. user' = Counted(user.failed + 1) /\ user.failed + 1 \in Nat
          /\ Counted(user.failed + 1).copy.version \in Version
      BY <1>0, <1>2 DEF RecordFailed
    <2>3. /\ user' \in [copy : Copy, failed : Nat, locked : 0..LockFor]
          /\ user'.copy.version >= user.copy.version
      BY <1>0, <2>2, CountedType
    <2> QED
      BY <1>2, <2>1, <2>3, WriteStep DEF RecordFailed
  <1>3. CASE RecordSuccess(r)
    <2>1. req' \in [Request -> Req]
      BY <1>0, <1>3 DEF RecordSuccess, Req
    <2>2. /\ user' \in [copy : Copy, failed : Nat, locked : 0..LockFor]
          /\ user'.copy = user.copy
      <3>1. 0 \in 0..LockFor
        OBVIOUS
      <3> QED
        BY <1>0, <1>3, <3>1 DEF RecordSuccess
    <2>3. user'.copy.version >= user.copy.version
      BY <1>0, <2>2 DEF Version
    <2> QED
      BY <1>3, <2>1, <2>2, <2>3, WriteStep DEF RecordSuccess
  <1>4. CASE Forget(r)
    <2>1. req' \in [Request -> Req]
      BY <1>0, <1>4 DEF Forget, Over, Done, NoRequest, Req
    <2> QED
      BY <1>4, <2>1, DropStep DEF Forget
  <1>5. ASSUME NEW op \in {"call", "change"}, NEW known \in Version, Ask(r, op, known)
        PROVE  StalenessInv'
    <2>1. req' \in [Request -> Req]
      BY <1>0, <1>5 DEF Ask, NoRequest, Req
    <2> QED
      BY <1>5, <2>1, RequestsStep DEF Ask
  <1>6. CASE Hit(r)
    <2>1. entry.copy \in Copy
      BY <1>0, <1>6 DEF Hit, CacheType
    <2>2. req' \in [Request -> Req]
      BY <1>0, <1>6, <2>1, GotType DEF Hit
    <2> QED
      BY <1>6, <2>2, RequestsStep DEF Hit
  <1>7. CASE Judge(r)
    <2>1. \/ req' = [req EXCEPT ![r] = Done(r, "in")]
          \/ req' = [req EXCEPT ![r] = Done(r, "refused")]
          \/ req' = [req EXCEPT ![r].phase = "store"]
      BY <1>7 DEF Judge, Over, Goto
    <2>2. req' \in [Request -> Req]
      <3>1. Done(r, "in") \in Req /\ Done(r, "refused") \in Req
        BY <1>0, DoneType
      <3>2. [req[r] EXCEPT !.phase = "store"] \in Req
        BY <1>0 DEF Req
      <3> QED
        BY <1>0, <2>1, <3>1, <3>2
    <2> QED
      BY <1>7, <2>2, RequestsStep DEF Judge
  <1>8. CASE Store(r)
    <2>1. req' \in [Request -> Req]
      BY <1>0, <1>8 DEF Store, Req
    <2> DEFINE next == user.copy.version + 1
    <2>2. next \in Version /\ user' = [user EXCEPT !.copy.version = next, !.copy.password = next]
      BY <1>8 DEF Store
    <2>3. user'.copy \in Copy /\ user'.copy.version = next
      BY <1>0, <2>2 DEF Copy
    <2>4. user' \in [copy : Copy, failed : Nat, locked : 0..LockFor]
      BY <1>0, <2>2, <2>3
    <2>5. user'.copy.version >= user.copy.version
      BY <1>0, <2>3 DEF Version
    <2> QED
      BY <1>8, <2>1, <2>4, <2>5, WriteStep DEF Store
  <1> QED
    BY <1>1, <1>2, <1>3, <1>4, <1>5, <1>6, <1>7, <1>8

\* A miss starts a load that has read nothing yet, or joins one.
LEMMA MissNext ==
    ASSUME StalenessInv, NEW r \in Request, Miss(r)
    PROVE  StalenessInv'
  <1> DEFINE p == RunsOn[r]
  <1>1. /\ CacheType /\ req \in [Request -> Req] /\ load \in [Process -> Load \cup {None}]
        /\ p \in Process
    BY UserCacheConstants DEF StalenessInv, CacheType
  <1>2. /\ load' = [load EXCEPT ![p] = IF load[p] = None THEN [phase |-> "query"] ELSE load[p]]
        /\ req' = [req EXCEPT ![r].phase = "wait"]
        /\ UNCHANGED <<user, age, entry, fills>>
    BY DEF Miss, Goto
  <1>3. req' \in [Request -> Req]
    BY <1>1, <1>2 DEF Req
  <1>4. load' \in [Process -> Load \cup {None}]
    BY <1>1, <1>2 DEF Load
  <1>5. CacheType'
    BY <1>1, <1>2, <1>3, <1>4 DEF CacheType
  <1>6. \A q \in Process : load'[q] = load[q] \/ load'[q] = [phase |-> "query"]
    BY <1>1, <1>2
  <1>7. LoadsAreYoung'
    BY <1>2, <1>6 DEF StalenessInv, LoadsAreYoung
  <1> QED
    BY <1>2, <1>5, <1>7 DEF StalenessInv, CurrentIsFresh, FillsAreYoung, EntryDiesInTime

LEMMA LoadReadsNext ==
    ASSUME StalenessInv, NEW p \in Process, LoadReads(p)
    PROVE  StalenessInv'
  <1> DEFINE new == [phase |-> "read", copy |-> user.copy, old |-> 0]
  <1>1. /\ CacheType /\ load \in [Process -> Load \cup {None}]
        /\ user.copy \in Copy /\ user.copy.version \in Version
    BY DEF StalenessInv, CacheType, Copy
  <1>2. /\ load' = [load EXCEPT ![p] = new]
        /\ UNCHANGED <<user, age, entry, fills, req>>
    BY DEF LoadReads
  <1>3. new \in Load
    BY <1>1, UserCacheConstants DEF Load
  <1>4. CacheType'
    BY <1>1, <1>2, <1>3 DEF CacheType
  <1>5. age[user.copy.version] = 0
    BY <1>1 DEF StalenessInv, CurrentIsFresh, Version
  <1>6. \A q \in Process : load'[q] = load[q] \/ load'[q] = new
    BY <1>1, <1>2
  <1>7. LoadsAreYoung'
    <2>1. age[new.copy.version] <= new.old
      BY <1>5
    <2> QED
      BY <1>2, <1>6, <2>1 DEF StalenessInv, LoadsAreYoung
  <1> QED
    BY <1>2, <1>4, <1>7 DEF StalenessInv, CurrentIsFresh, FillsAreYoung, EntryDiesInTime

\* What the load of a process has read, when it returns.
LEMMA Returned ==
    ASSUME StalenessInv, NEW p \in Process, load[p] # None, load[p].phase = "read"
    PROVE  /\ load[p].copy \in Copy /\ load[p].copy.version \in Version
           /\ load[p].old \in 0..MaxLoad
           /\ age[load[p].copy.version] <= load[p].old
  <1>1. load[p] \in [phase : {"read"}, copy : Copy, old : 0..MaxLoad]
    BY DEF StalenessInv, CacheType, Load
  <1> QED
    BY <1>1 DEF StalenessInv, LoadsAreYoung, Copy

LEMMA LoadReturnsNext ==
    ASSUME StalenessInv, NEW p \in Process, LoadReturns(p)
    PROVE  StalenessInv'
  <1> DEFINE fill == [copy |-> load[p].copy, old |-> load[p].old]
  <1>1. /\ CacheType /\ load \in [Process -> Load \cup {None}] /\ req \in [Request -> Req]
    BY DEF StalenessInv, CacheType
  <1>2. /\ load[p] # None /\ load[p].phase = "read"
        /\ load' = [load EXCEPT ![p] = None]
        /\ fills' = fills \cup {fill}
        /\ req' = [r \in Request |-> IF r \in Waiting(p) THEN Got(r, load[p].copy) ELSE req[r]]
        /\ UNCHANGED <<user, age, entry>>
    BY DEF LoadReturns
  <1>3. /\ load[p].copy \in Copy /\ load[p].old \in 0..MaxLoad
        /\ age[load[p].copy.version] <= load[p].old
    BY <1>2, Returned
  <1>4. req' \in [Request -> Req]
    BY <1>1, <1>2, <1>3, GotType
  <1>5. CacheType'
    BY <1>1, <1>2, <1>3, <1>4 DEF CacheType, Fill
  <1>6. LoadsAreYoung'
    BY <1>1, <1>2 DEF StalenessInv, LoadsAreYoung
  <1>7. FillsAreYoung'
    BY <1>2, <1>3 DEF StalenessInv, FillsAreYoung
  <1> QED
    BY <1>2, <1>5, <1>6, <1>7 DEF StalenessInv, CurrentIsFresh, EntryDiesInTime

LEMMA LoadFailsNext ==
    ASSUME StalenessInv, NEW p \in Process, LoadFails(p)
    PROVE  StalenessInv'
  <1>1. /\ CacheType /\ load \in [Process -> Load \cup {None}] /\ req \in [Request -> Req]
    BY DEF StalenessInv, CacheType
  <1>2. req' \in [Request -> Req]
    BY <1>1, DoneType DEF LoadFails
  <1>3. CacheType'
    BY <1>1, <1>2 DEF CacheType, LoadFails
  <1>4. LoadsAreYoung'
    BY <1>1 DEF StalenessInv, LoadsAreYoung, LoadFails
  <1> QED
    BY <1>3, <1>4 DEF StalenessInv, CurrentIsFresh, FillsAreYoung, EntryDiesInTime, LoadFails

LEMMA FillArrivesNext ==
    ASSUME StalenessInv, NEW f \in fills, FillArrives(f)
    PROVE  StalenessInv'
  <1> DEFINE new == [copy |-> f.copy, left |-> Ttl]
  <1>1. /\ CacheType /\ f \in Fill /\ f.copy \in Copy /\ f.copy.version \in Version
        /\ f.old \in 0..MaxLoad /\ age[f.copy.version] <= f.old
        /\ age[f.copy.version] \in 0..Outdated
    BY DEF StalenessInv, CacheType, FillsAreYoung, Fill, Copy
  <1>2. /\ fills' = fills \ {f} /\ entry' \in {entry, new}
        /\ UNCHANGED <<user, age, load, req>>
    BY DEF FillArrives
  <1>3. CacheType'
    <2>1. new \in [copy : Copy, left : 0..Ttl]
      BY <1>1, UserCacheConstants
    <2> QED
      BY <1>1, <1>2, <2>1 DEF CacheType
  <1>4. EntryDiesInTime'
    <2>1. age[new.copy.version] + new.left <= Ttl + MaxLoad
      BY <1>1, UserCacheConstants DEF Outdated
    <2> QED
      BY <1>2, <2>1 DEF StalenessInv, EntryDiesInTime
  <1> QED
    BY <1>2, <1>3, <1>4 DEF StalenessInv, CurrentIsFresh, LoadsAreYoung, FillsAreYoung

LEMMA OutsideNext ==
    ASSUME StalenessInv, Outside
    PROVE  StalenessInv'
  <1>1. PICK s \in {"ACTIVE", "DISABLED"} :
            /\ user.copy.version < MaxVersion
            /\ user' = [user EXCEPT !.copy.status = s, !.copy.version = user.copy.version + 1]
            /\ UNCHANGED <<age, entry, load, fills, req>>
    BY DEF Outside
  <1>2. /\ user \in [copy : Copy, failed : Nat, locked : 0..LockFor]
        /\ user.copy \in Copy /\ user.copy.version \in Version /\ req \in [Request -> Req]
    BY DEF StalenessInv, CacheType, Copy
  <1>3. user.copy.version + 1 \in Version /\ user.copy.version + 1 >= user.copy.version
    BY <1>1, <1>2, UserCacheConstants DEF Version
  <1>4. user'.copy \in Copy /\ user'.copy.version = user.copy.version + 1
    BY <1>1, <1>2, <1>3 DEF Copy, Status
  <1>5. user' \in [copy : Copy, failed : Nat, locked : 0..LockFor]
    BY <1>1, <1>2, <1>4
  <1> QED
    BY <1>1, <1>2, <1>3, <1>4, <1>5, WriteStep

\* Time makes a version of the row older by at most what it adds to the age of
\* the loads and SETs that carry it, and takes from the life of the copy.
LEMMA TickNext ==
    ASSUME StalenessInv, Tick
    PROVE  StalenessInv'
  <1> USE UserCacheConstants
  <1>1. /\ user \in [copy : Copy, failed : Nat, locked : 0..LockFor]
        /\ age \in [Version -> 0..Outdated]
        /\ entry \in [copy : Copy, left : 0..Ttl] \cup {None}
        /\ load \in [Process -> Load \cup {None}]
        /\ fills \subseteq Fill /\ req \in [Request -> Req]
        /\ user.copy \in Copy /\ user.copy.version \in Version
    BY DEF StalenessInv, CacheType, Copy
  <1>2. /\ user' = [user EXCEPT !.locked = IF user.locked = 0 THEN 0 ELSE user.locked - 1]
        /\ age' = [v \in Version |-> IF v < user.copy.version /\ age[v] < Outdated
                                     THEN age[v] + 1 ELSE age[v]]
        /\ entry' = IF entry # None /\ entry.left > 0
                    THEN [entry EXCEPT !.left = entry.left - 1] ELSE None
        /\ load' = [q \in Process |-> IF load[q] # None /\ load[q].phase = "read"
                                      THEN Older(load[q]) ELSE load[q]]
        /\ fills' = {Older(f) : f \in fills}
        /\ req' = req
    BY DEF Tick
  <1>3. /\ \A v \in Version : age'[v] \in 0..Outdated /\ age'[v] <= age[v] + 1
        /\ age' \in [Version -> 0..Outdated]
    <2>1. Outdated \in Nat
      BY DEF Outdated
    <2>2. ASSUME NEW v \in Version
          PROVE  age'[v] \in 0..Outdated /\ age'[v] <= age[v] + 1
      <3>1. age[v] \in 0..Outdated
        BY <1>1
      <3>2. age'[v] = age[v] \/ (age'[v] = age[v] + 1 /\ age[v] < Outdated)
        BY <1>2
      <3> QED
        BY <2>1, <3>1, <3>2
    <2>3. age' = [v \in Version |-> age'[v]]
      BY <1>2
    <2> QED
      BY <2>2, <2>3
  <1>4. /\ user' \in [copy : Copy, failed : Nat, locked : 0..LockFor]
        /\ user'.copy = user.copy
    <2>1. (IF user.locked = 0 THEN 0 ELSE user.locked - 1) \in 0..LockFor
      BY <1>1
    <2> QED
      BY <1>1, <1>2, <2>1
  <1>5. ASSUME NEW q \in Process, load[q] # None, load[q].phase = "read"
        PROVE  /\ Older(load[q]) \in [phase : {"read"}, copy : Copy, old : 0..MaxLoad]
               /\ Older(load[q]).copy = load[q].copy
               /\ Older(load[q]).old = load[q].old + 1
    <2>1. load[q] \in [phase : {"read"}, copy : Copy, old : 0..MaxLoad]
      BY <1>1, <1>5 DEF Load
    <2>2. load[q].old < MaxLoad
      BY <1>5 DEF Tick
    <2> QED
      BY <2>1, <2>2 DEF Older
  <1>6. ASSUME NEW f \in fills
        PROVE  /\ Older(f) \in Fill
               /\ Older(f).copy = f.copy /\ Older(f).old = f.old + 1
    <2>1. f \in [copy : Copy, old : 0..MaxLoad] /\ f.old < MaxLoad
      BY <1>1 DEF Tick, Fill
    <2> QED
      BY <2>1 DEF Older, Fill
  <1>7. CacheType'
    <2>1. load' \in [Process -> Load \cup {None}]
      BY <1>1, <1>2, <1>5 DEF Load
    <2>2. fills' \subseteq Fill
      BY <1>2, <1>6
    <2>3. entry' \in [copy : Copy, left : 0..Ttl] \cup {None}
      BY <1>1, <1>2
    <2> QED
      BY <1>1, <1>2, <1>3, <1>4, <2>1, <2>2, <2>3 DEF CacheType
  <1>8. CurrentIsFresh'
    <2>1. \A v \in Version : v >= user.copy.version => age'[v] = age[v]
      BY <1>1, <1>2 DEF Version
    <2> QED
      BY <1>4, <2>1 DEF StalenessInv, CurrentIsFresh
  <1>9. LoadsAreYoung'
    <2> SUFFICES ASSUME NEW q \in Process, load'[q] # None, load'[q].phase = "read"
                 PROVE  age'[load'[q].copy.version] <= load'[q].old
      BY DEF LoadsAreYoung
    <2>1. load[q] # None /\ load[q].phase = "read" /\ load'[q] = Older(load[q])
      BY <1>2
    <2>2. load[q].copy.version \in Version /\ load[q].old \in 0..MaxLoad
          /\ age[load[q].copy.version] <= load[q].old
      BY <2>1, Returned
    <2>3. load'[q].copy = load[q].copy /\ load'[q].old = load[q].old + 1
      BY <1>5, <2>1
    <2>4. age[load[q].copy.version] \in Int /\ age'[load[q].copy.version] \in Int
          /\ age'[load[q].copy.version] <= age[load[q].copy.version] + 1
      BY <1>1, <1>3, <2>2
    <2> QED
      BY <2>2, <2>3, <2>4
  <1>10. FillsAreYoung'
    <2> SUFFICES ASSUME NEW f \in fills
                 PROVE  age'[Older(f).copy.version] <= Older(f).old
      BY <1>2 DEF FillsAreYoung
    <2>1. f.copy.version \in Version /\ f.old \in 0..MaxLoad /\ age[f.copy.version] <= f.old
      BY <1>1 DEF StalenessInv, FillsAreYoung, Fill, Copy
    <2>2. age[f.copy.version] \in Int /\ age'[f.copy.version] \in Int
          /\ age'[f.copy.version] <= age[f.copy.version] + 1
      BY <1>1, <1>3, <2>1
    <2> QED
      BY <1>6, <2>1, <2>2
  <1>11. EntryDiesInTime'
    <2> SUFFICES ASSUME entry' # None
                 PROVE  age'[entry'.copy.version] + entry'.left <= Ttl + MaxLoad
      BY DEF EntryDiesInTime
    <2>1. /\ entry \in [copy : Copy, left : 0..Ttl] /\ entry # None
          /\ entry'.copy = entry.copy /\ entry'.left = entry.left - 1
      BY <1>1, <1>2
    <2>2. /\ entry.copy.version \in Version /\ entry.left \in 0..Ttl
          /\ age[entry.copy.version] + entry.left <= Ttl + MaxLoad
      BY <2>1 DEF StalenessInv, EntryDiesInTime, Copy
    <2>3. age[entry.copy.version] \in Int /\ age'[entry.copy.version] \in Int
          /\ age'[entry.copy.version] <= age[entry.copy.version] + 1
      BY <1>1, <1>3, <2>2
    <2> QED
      BY <2>1, <2>2, <2>3
  <1> QED
    BY <1>7, <1>8, <1>9, <1>10, <1>11 DEF StalenessInv

\* Every step keeps the invariant.
LEMMA NextStaleness == StalenessInv /\ [Next]_vars => StalenessInv'
  <1> SUFFICES ASSUME StalenessInv, [Next]_vars PROVE StalenessInv'
    OBVIOUS
  <1>1. CASE UNCHANGED vars
    <2>1. req' \in [Request -> Req]
      BY <1>1 DEF vars, StalenessInv, CacheType
    <2> QED
      BY <1>1, <2>1, RequestsStep DEF vars
  <1>2. ASSUME NEW r \in Request,
               \/ Login(r) \/ RecordFailed(r) \/ RecordSuccess(r) \/ Forget(r)
               \/ \E op \in {"call", "change"}, known \in Version : Ask(r, op, known)
               \/ Hit(r) \/ Judge(r) \/ Store(r)
        PROVE  StalenessInv'
    BY <1>2, RequestNext
  <1>3. ASSUME NEW r \in Request, Miss(r) PROVE StalenessInv'
    BY <1>3, MissNext
  <1>4. ASSUME NEW p \in Process, LoadReads(p) \/ LoadReturns(p) \/ LoadFails(p)
        PROVE  StalenessInv'
    BY <1>4, LoadReadsNext, LoadReturnsNext, LoadFailsNext
  <1>5. ASSUME NEW f \in fills, FillArrives(f) PROVE StalenessInv'
    BY <1>5, FillArrivesNext
  <1>6. CASE Outside
    BY <1>6, OutsideNext
  <1>7. CASE Evict
    <2>1. req' \in [Request -> Req]
      BY <1>7 DEF Evict, StalenessInv, CacheType
    <2> QED
      BY <1>7, <2>1, DropStep DEF Evict
  <1>8. CASE Tick
    BY <1>8, TickNext
  <1> QED
    BY <1>1, <1>2, <1>3, <1>4, <1>5, <1>6, <1>7, <1>8 DEF Next

----------------------------------------------------------------------------
(* What the invariant is for                                               *)

\* The step BoundedStaleness is about.
YoungEnough ==
    \A r \in Request : ~In(r, "got") /\ In(r, "got")' => age[req'[r].copy.version] <= Ttl + MaxLoad

\* A request gets its copy from Redis or from a load, and from nowhere else.
LEMMA StalenessStep == StalenessInv /\ [Next]_vars => [YoungEnough]_vars
  <1> SUFFICES ASSUME StalenessInv, Next,
                      NEW r \in Request, ~In(r, "got"), In(r, "got")'
               PROVE  age[req'[r].copy.version] <= Ttl + MaxLoad
    BY DEF YoungEnough
  <1>0. /\ CacheType /\ req \in [Request -> Req] /\ req[r] \in Req
        /\ load \in [Process -> Load \cup {None}]
    BY DEF StalenessInv, CacheType
  <1>1. ASSUME NEW s \in Request, Hit(s)
        PROVE  age[req'[r].copy.version] <= Ttl + MaxLoad
    <2>1. entry # None /\ entry \in [copy : Copy, left : 0..Ttl]
      BY <1>0, <1>1 DEF Hit, CacheType
    <2>2. age[entry.copy.version] + entry.left <= Ttl + MaxLoad
          /\ age[entry.copy.version] \in Int /\ entry.left \in Nat
      BY <1>0, <2>1 DEF StalenessInv, EntryDiesInTime, CacheType, Copy
    <2>3. r = s
      BY <1>0, <1>1 DEF Hit, In
    <2>4. req'[r].copy = entry.copy
      BY <1>0, <1>1, <2>1, <2>3, GotType DEF Hit
    <2> QED
      BY <2>2, <2>4, UserCacheConstants
  <1>2. ASSUME NEW p \in Process, LoadReturns(p)
        PROVE  age[req'[r].copy.version] <= Ttl + MaxLoad
    <2>1. /\ load[p].copy \in Copy /\ load[p].copy.version \in Version
          /\ load[p].old \in 0..MaxLoad /\ age[load[p].copy.version] <= load[p].old
          /\ age[load[p].copy.version] \in Int
      BY <1>0, <1>2, Returned DEF LoadReturns, CacheType
    <2>2. r \in Waiting(p)
      BY <1>2 DEF LoadReturns, In
    <2>3. req'[r].copy = load[p].copy
      BY <1>0, <1>2, <2>1, <2>2, GotType DEF LoadReturns
    <2> QED
      BY <2>1, <2>3, UserCacheConstants
  <1>3. ASSUME NEW s \in Request,
               \/ Login(s) \/ RecordFailed(s) \/ RecordSuccess(s) \/ Forget(s)
               \/ \E op \in {"call", "change"}, known \in Version : Ask(s, op, known)
               \/ Miss(s) \/ Judge(s) \/ Store(s)
        PROVE  FALSE
    <2>1. \A q \in Request \ {s} : req'[q] = req[q]
      BY <1>0, <1>3 DEF Login, RecordFailed, RecordSuccess, Forget, Ask, Miss, Judge, Store, Over, Goto
    <2>2. req'[s].phase # "got"
      <3>1. CASE Login(s)
        BY <1>0, <3>1 DEF Login, NoRequest
      <3>2. CASE RecordFailed(s) \/ RecordSuccess(s) \/ Store(s)
        BY <1>0, <3>2 DEF RecordFailed, RecordSuccess, Store, Req
      <3>3. CASE Forget(s)
        BY <1>0, <3>3 DEF Forget, Over, Done, NoRequest
      <3>4. ASSUME NEW op \in {"call", "change"}, NEW known \in Version, Ask(s, op, known)
            PROVE  req'[s].phase # "got"
        BY <1>0, <3>4 DEF Ask, NoRequest
      <3>5. CASE Miss(s)
        BY <1>0, <3>5 DEF Miss, Goto, Req
      <3>6. CASE Judge(s)
        BY <1>0, <3>6 DEF Judge, Over, Goto, Done, NoRequest, Req
      <3> QED
        BY <1>3, <3>1, <3>2, <3>3, <3>4, <3>5, <3>6
    <2> QED
      BY <2>1, <2>2 DEF In
  <1>4. ASSUME NEW p \in Process, LoadFails(p) PROVE FALSE
    <2>1. req'[r] = req[r] \/ req'[r] = Done(r, "error")
      BY <1>4 DEF LoadFails
    <2>2. Done(r, "error").phase = "over"
      BY DEF Done, NoRequest
    <2> QED
      BY <2>1, <2>2 DEF In
  <1>5. CASE \/ \E p \in Process : LoadReads(p)
             \/ \E f \in fills : FillArrives(f)
             \/ Outside \/ Evict \/ Tick
    BY <1>5 DEF LoadReads, FillArrives, Outside, Evict, Tick, In
  <1> QED
    BY <1>1, <1>2, <1>3, <1>4, <1>5 DEF Next

\* No request is decided on a row of the user that was replaced longer ago than
\* the copy lives and a load takes, for every number of requests and processes.
THEOREM BoundedStalenessHolds == Spec => BoundedStaleness
  <1>1. Spec => []StalenessInv
    BY InitStaleness, NextStaleness, PTL DEF Spec
  <1>2. StalenessInv /\ [Next]_vars => [YoungEnough]_vars
    BY StalenessStep
  <1>3. Spec => [][YoungEnough]_vars
    BY <1>1, <1>2, PTL DEF Spec
  <1> QED
    BY <1>3, PTL DEF BoundedStaleness, YoungEnough

----------------------------------------------------------------------------
(* Counting wrong passwords                                                *)

\* A request has an outcome when its work is done, and not before; only logins
\* get to where passwords are counted.
Stage(r) ==
    /\ req[r].outcome # "none" => req[r].phase \in {"forget", "over"}
    /\ req[r].phase \in {"succeed", "fail"} => req[r].op = "login"

Failed   == {r \in Request : req[r].outcome = "failed"}
NobodyIn == \A r \in Request : req[r].op = "login" => req[r].outcome # "in"

\* The count is that of the failed logins, or less once somebody has come in; an
\* account at the threshold is locked, from where no step of the program takes it.
CountsAll ==
    /\ user.failed <= Cardinality(Failed)
    /\ NobodyIn => user.failed = Cardinality(Failed)
    /\ user.failed >= Threshold => user.copy.status = "LOCKED"

CountInv == StalenessInv /\ (\A r \in Request : Stage(r)) /\ CountsAll

\* What a request becomes that is neither counted nor comes in with a login.
Keeps(r) ==
    /\ Stage(r)'
    /\ req'[r].outcome = "failed" <=> req[r].outcome = "failed"
    /\ req[r].op = "login" /\ req[r].outcome = "in"
         => req'[r].op = "login" /\ req'[r].outcome = "in"

\* Sets of requests have a size.
LEMMA FailedFinite ==
    /\ IsFiniteSet(Failed) /\ Cardinality(Failed) \in Nat
    /\ Cardinality(Failed) <= Cardinality(Request) /\ Cardinality(Request) \in Nat
  BY UserCacheConstants, FS_Subset, FS_CardinalityType DEF Failed

\* A step that counts nobody, and leaves a locked account locked.
LEMMA CountsNobody ==
    ASSUME CountInv, StalenessInv', user'.failed = user.failed,
           user.copy.status = "LOCKED" => user'.copy.status = "LOCKED",
           \A r \in Request : Keeps(r)
    PROVE  CountInv'
  <1>1. Failed' = Failed
    BY DEF Failed, Keeps
  <1>2. NobodyIn' => NobodyIn
    BY DEF NobodyIn, Keeps
  <1>3. CountsAll'
    BY <1>1, <1>2 DEF CountInv, CountsAll
  <1> QED
    BY <1>3 DEF CountInv, Keeps

\* A wrong password makes the count and the number of failed logins one more.
LEMMA RecordFailedCounts ==
    ASSUME CountInv, StalenessInv', NEW r \in Request, RecordFailed(r)
    PROVE  CountInv'
  <1>0. /\ req \in [Request -> Req] /\ user.failed \in Nat /\ Threshold \in Nat
        /\ user \in [copy : Copy, failed : Nat, locked : 0..LockFor]
        /\ user.copy \in Copy /\ Stage(r) /\ CountsAll
    BY UserCacheConstants DEF CountInv, StalenessInv, CacheType
  <1>1. /\ req'[r].outcome = "failed" /\ req'[r].phase = "forget" /\ req'[r].op = "login"
        /\ \A s \in Request \ {r} : req'[s] = req[s]
    BY <1>0 DEF RecordFailed, In, Stage, Req
  <1>2. r \notin Failed
    BY <1>0 DEF Failed, RecordFailed, In, Stage
  <1>3. Failed' = Failed \cup {r}
    BY <1>1 DEF Failed
  <1>4. Cardinality(Failed)' = Cardinality(Failed) + 1
    BY <1>2, <1>3, FailedFinite, FS_AddElement
  <1>5. /\ user'.failed = user.failed + 1
        /\ user.failed + 1 >= Threshold => user'.copy.status = "LOCKED"
    <2>1. PICK n : n = user.failed + 1
      OBVIOUS
    <2>2. user' = Counted(n)
      BY <2>1 DEF RecordFailed
    <2>3. Counted(n).failed = n /\ (n >= Threshold => Counted(n).copy.status = "LOCKED")
      <3>1. CASE n >= Threshold /\ user.copy.status # "LOCKED"
        BY <1>0, <3>1 DEF Counted, Copy
      <3>2. CASE ~(n >= Threshold /\ user.copy.status # "LOCKED")
        BY <1>0, <3>2 DEF Counted, Copy
      <3> QED
        BY <3>1, <3>2
    <2> QED
      BY <2>1, <2>2, <2>3
  <1>6. NobodyIn' => NobodyIn
    <2>1. req[r].outcome # "in"
      BY <1>0 DEF RecordFailed, In, Stage
    <2> QED
      BY <1>1, <2>1 DEF NobodyIn
  <1>7. CountsAll'
    BY <1>0, <1>4, <1>5, <1>6, FailedFinite DEF CountsAll
  <1>8. \A s \in Request : Stage(s)'
    BY <1>1 DEF CountInv, Stage
  <1> QED
    BY <1>7, <1>8 DEF CountInv

\* A login that comes in takes the count back to none.
LEMMA RecordSuccessCounts ==
    ASSUME CountInv, StalenessInv', NEW r \in Request, RecordSuccess(r)
    PROVE  CountInv'
  <1>0. /\ req \in [Request -> Req] /\ Stage(r)
        /\ user \in [copy : Copy, failed : Nat, locked : 0..LockFor]
    BY DEF CountInv, StalenessInv, CacheType
  <1>1. /\ req'[r].outcome = "in" /\ req'[r].phase = "forget" /\ req'[r].op = "login"
        /\ \A s \in Request \ {r} : req'[s] = req[s]
    BY <1>0 DEF RecordSuccess, In, Stage, Req
  <1>2. user'.failed = 0
    BY <1>0 DEF RecordSuccess
  <1>3. Failed' = Failed
    <2>1. r \notin Failed
      BY <1>0 DEF Failed, RecordSuccess, In, Stage
    <2> QED
      BY <1>1, <2>1 DEF Failed
  <1>4. ~NobodyIn'
    BY <1>1 DEF NobodyIn
  <1>5. CountsAll'
    BY <1>2, <1>3, <1>4, FailedFinite, UserCacheConstants DEF CountsAll
  <1>6. \A s \in Request : Stage(s)'
    BY <1>1 DEF CountInv, Stage
  <1> QED
    BY <1>5, <1>6 DEF CountInv

\* Every other step of a request has it keep an outcome it has, and gives it
\* none that is counted.
LEMMA RequestKeeps ==
    ASSUME CountInv, NEW r \in Request,
           \/ Login(r) \/ Forget(r)
           \/ \E op \in {"call", "change"}, known \in Version : Ask(r, op, known)
           \/ Hit(r) \/ Miss(r) \/ Judge(r) \/ Store(r)
    PROVE  /\ Keeps(r)
           /\ \A s \in Request \ {r} : req'[s] = req[s]
  <1>0. req \in [Request -> Req] /\ Stage(r)
    BY DEF CountInv, StalenessInv, CacheType
  <1>q. PICK q : q = req[r] /\ q \in Req
    BY <1>0
  <1>1. CASE Login(r)
    BY <1>0, <1>1 DEF Login, In, NoRequest, Keeps, Stage
  <1>2. CASE Forget(r)
    BY <1>0, <1>2 DEF Forget, In, Over, Done, NoRequest, Keeps, Stage
  <1>3. ASSUME NEW op \in {"call", "change"}, NEW known \in Version, Ask(r, op, known)
        PROVE  Keeps(r) /\ \A s \in Request \ {r} : req'[s] = req[s]
    BY <1>0, <1>3 DEF Ask, In, NoRequest, Keeps, Stage
  <1>4. CASE Hit(r)
    <2>1. PICK c : c = entry.copy
      OBVIOUS
    <2>2. /\ req'[r] = [q EXCEPT !.phase = "got", !.copy = c]
          /\ \A s \in Request \ {r} : req'[s] = req[s]
      BY <1>0, <1>q, <1>4, <2>1 DEF Hit, Got
    <2>3. req[r].outcome = "none"
      BY <1>0, <1>4 DEF Hit, In, Stage
    <2> QED
      BY <1>q, <2>2, <2>3 DEF Keeps, Stage, Req
  <1>5. CASE Miss(r)
    BY <1>0, <1>q, <1>5 DEF Miss, Goto, In, Keeps, Stage, Req
  <1>6. CASE Judge(r)
    <2>1. \/ req' = [req EXCEPT ![r] = Done(r, "in")] /\ req[r].op = "call"
          \/ req' = [req EXCEPT ![r] = Done(r, "refused")]
          \/ req' = [req EXCEPT ![r] = [q EXCEPT !.phase = "store"]]
      BY <1>0, <1>q, <1>6 DEF Judge, Over, Goto
    <2>2. /\ \A s \in Request \ {r} : req'[s] = req[s]
          /\ \/ req'[r] = Done(r, "in") \/ req'[r] = Done(r, "refused")
             \/ req'[r] = [q EXCEPT !.phase = "store"]
      BY <1>0, <2>1
    <2>3. req[r].outcome = "none"
      BY <1>0, <1>6 DEF Judge, In, Stage, Req
    <2> QED
      BY <1>q, <2>2, <2>3 DEF Done, NoRequest, Keeps, Stage, Req
  <1>7. CASE Store(r)
    <2>1. /\ req'[r].outcome = "in" /\ req'[r].phase = "forget"
          /\ \A s \in Request \ {r} : req'[s] = req[s]
      BY <1>0, <1>7 DEF Store, Req
    <2>2. req[r].outcome = "none"
      BY <1>0, <1>7 DEF Store, In, Stage, Req
    <2> QED
      BY <2>1, <2>2 DEF Keeps, Stage
  <1> QED
    BY <1>1, <1>2, <1>3, <1>4, <1>5, <1>6, <1>7

\* Every step keeps the count right.
LEMMA CountStep ==
    ASSUME CountInv, [Next]_vars
    PROVE  CountInv'
  <1>0. /\ StalenessInv' /\ req \in [Request -> Req]
        /\ user \in [copy : Copy, failed : Nat, locked : 0..LockFor] /\ user.copy \in Copy
    BY NextStaleness DEF CountInv, StalenessInv, CacheType
  <1>s. \A r \in Request : Stage(r) /\ (req'[r] = req[r] => Keeps(r))
    BY DEF CountInv, Keeps, Stage
  <1>1. ASSUME NEW r \in Request,
               \/ Login(r) \/ Forget(r)
               \/ \E op \in {"call", "change"}, known \in Version : Ask(r, op, known)
               \/ Hit(r) \/ Miss(r) \/ Judge(r) \/ Store(r)
        PROVE  CountInv'
    <2>1. \A s \in Request : Keeps(s)
      BY <1>1, <1>s, RequestKeeps
    <2>2. user'.failed = user.failed /\ user'.copy.status = user.copy.status
      <3>1. CASE Store(r)
        BY <1>0, <3>1 DEF Store, Copy
      <3>2. CASE ~Store(r)
        BY <1>1, <3>2 DEF Login, Forget, Ask, Hit, Miss, Judge
      <3> QED
        BY <3>1, <3>2
    <2> QED
      BY <1>0, <2>1, <2>2, CountsNobody
  <1>2. ASSUME NEW r \in Request, RecordFailed(r) PROVE CountInv'
    BY <1>0, <1>2, RecordFailedCounts
  <1>3. ASSUME NEW r \in Request, RecordSuccess(r) PROVE CountInv'
    BY <1>0, <1>3, RecordSuccessCounts
  <1>4. ASSUME NEW p \in Process, LoadReturns(p) PROVE CountInv'
    <2>1. \A r \in Request : Keeps(r)
      <3> SUFFICES ASSUME NEW r \in Request PROVE Keeps(r)
        OBVIOUS
      <3>1. CASE r \in Waiting(p)
        <4>1. PICK q : q = req[r] /\ q \in Req /\ q.phase = "wait"
          BY <1>0, <3>1 DEF Waiting, In
        <4>2. req'[r] = [q EXCEPT !.phase = "got", !.copy = load[p].copy]
          BY <1>4, <3>1, <4>1 DEF LoadReturns, Got
        <4> QED
          BY <1>s, <4>1, <4>2 DEF Keeps, Stage, Req
      <3>2. CASE r \notin Waiting(p)
        BY <1>4, <1>s, <3>2 DEF LoadReturns
      <3> QED
        BY <3>1, <3>2
    <2> QED
      BY <1>0, <1>4, <2>1, CountsNobody DEF LoadReturns
  <1>5. ASSUME NEW p \in Process, LoadFails(p) PROVE CountInv'
    <2>1. \A r \in Request : Keeps(r)
      <3> SUFFICES ASSUME NEW r \in Request PROVE Keeps(r)
        OBVIOUS
      <3>1. CASE r \in Waiting(p)
        <4>1. req[r].phase = "wait" /\ req'[r] = Done(r, "error")
          BY <1>5, <3>1 DEF LoadFails, Waiting, In
        <4> QED
          BY <1>s, <4>1 DEF Keeps, Stage, Done, NoRequest
      <3>2. CASE r \notin Waiting(p)
        BY <1>5, <1>s, <3>2 DEF LoadFails
      <3> QED
        BY <3>1, <3>2
    <2> QED
      BY <1>0, <1>5, <2>1, CountsNobody DEF LoadFails
  <1>6. CASE \/ \E p \in Process : LoadReads(p)
             \/ \E f \in fills : FillArrives(f)
             \/ Evict \/ UNCHANGED vars
    <2>1. user' = user /\ req' = req
      BY <1>6 DEF LoadReads, FillArrives, Evict, vars
    <2> QED
      BY <1>0, <1>s, <2>1, CountsNobody
  <1>7. CASE Outside
    <2>1. /\ req' = req /\ user'.failed = user.failed /\ user.copy.status # "LOCKED"
      BY <1>0, <1>7 DEF Outside
    <2> QED
      BY <1>0, <1>s, <2>1, CountsNobody
  <1>8. CASE Tick
    <2>1. /\ req' = req /\ user'.failed = user.failed /\ user'.copy = user.copy
      BY <1>0, <1>8 DEF Tick
    <2> QED
      BY <1>0, <1>s, <2>1, CountsNobody
  <1> QED
    BY <1>1, <1>2, <1>3, <1>4, <1>5, <1>6, <1>7, <1>8 DEF Next

\* Nobody has typed a password at first.
LEMMA InitCount == Init => CountInv
  <1> SUFFICES ASSUME Init PROVE CountInv
    OBVIOUS
  <1>1. StalenessInv
    BY InitStaleness
  <1>2. \A r \in Request : req[r] = NoRequest
    BY DEF Init
  <1>3. Failed = {} /\ \A r \in Request : Stage(r)
    BY <1>2 DEF Failed, Stage, NoRequest
  <1>4. CountsAll
    BY <1>3, FS_EmptySet, UserCacheConstants DEF CountsAll, Init
  <1> QED
    BY <1>1, <1>3, <1>4 DEF CountInv

\* However logins overlap, every wrong password is counted, and an account is not
\* active from the threshold on (recordFailedLogin is one UPDATE); and the count
\* stays within the number of logins, as its type has it.
THEOREM UserCacheInvHolds == Spec => []UserCacheInv
  <1>1. Spec => []CountInv
    <2>1. CountInv /\ [Next]_vars => CountInv'
      BY CountStep
    <2> QED
      BY InitCount, <2>1, PTL DEF Spec
  <1>2. CountInv => UserCacheInv
    <2> SUFFICES ASSUME CountInv PROVE UserCacheInv
      OBVIOUS
    <2>1. /\ CacheType /\ CountsAll /\ user.failed \in Nat /\ Threshold \in Nat
          /\ user \in [copy : Copy, failed : Nat, locked : 0..LockFor]
      BY UserCacheConstants DEF CountInv, StalenessInv, CacheType
    <2>2. user.failed \in 0..(Threshold + Cardinality(Request))
      BY <2>1, FailedFinite DEF CountsAll
    <2>3. user \in User
      BY <2>1, <2>2 DEF User
    <2>4. TypeOK
      BY <2>1, <2>3 DEF TypeOK, CacheType
    <2>5. FailuresCounted
      BY <2>1 DEF FailuresCounted, CountsAll, NobodyIn, Failed
    <2> QED
      BY <2>4, <2>5 DEF UserCacheInv
  <1> QED
    BY <1>1, <1>2, PTL
=============================================================================
