---------------------------- MODULE ServiceProofs ----------------------------
(***************************************************************************)
(* That the totals of a batch are its vouchers', when they are final, and  *)
(* what a client misses that reads page by page, for any number of         *)
(* requests, dates and types and any size of the pages.                    *)
(***************************************************************************)
EXTENDS LedgerService, FiniteSetTheorems, WellFoundedInduction, TLAPS

----------------------------------------------------------------------------
(* Types                                                                   *)

\* What the step after the gate works on.
ReqTyped == \A r \in Request :
    /\ req[r].stage \in {"find", "create", "post"} => req[r].date \in Date
    /\ req[r].stage \in {"new", "find", "create", "post"} => row[r] = NoRow

\* What a batch keeps.
Totals == [status : {"NONE", "OPEN", "CLOSED"}, count : Nat]

\* All but the client that reads.
StateTyped ==
    /\ day \in [Date -> {"PENDING", "OPEN", "CLOSING", "CLOSED"}]
    /\ cache \in Copy \cup {Nothing} /\ loads \subseteq Copy
    /\ batch \in [Date -> [Type -> Totals]]
    /\ req \in [Request -> [stage : Stage, date : Date \cup {0}]]
    /\ row \in [Request -> RowType \cup {NoRow}]
    /\ ReqTyped

\* Among finitely many pairs there is one that no other is before.
LEMMA MinKey ==
    ASSUME NEW P, IsFiniteSet(P), P # {}, NEW f \in [P -> Nat \X Nat]
    PROVE  \E r \in P : \A q \in P : ~Less(f[q], f[r])
  <1> DEFINE before(r) == {q \in P : Less(f[q], f[r])}
             T == {before(r) : r \in P}
  <1>1. \A r \in P : before(r) \in SUBSET P /\ IsFiniteSet(before(r))
    BY FS_Subset
  <1>2. T \subseteq FiniteSubsetsOf(P) /\ T # {}
    <2>1. ASSUME NEW B \in T PROVE B \in FiniteSubsetsOf(P)
      <3>1. PICK r \in P : B = before(r)
        OBVIOUS
      <3> QED
        BY <1>1, <3>1 DEF FiniteSubsetsOf
    <2>2. PICK r \in P : before(r) \in T
      OBVIOUS
    <2> HIDE DEF T
    <2> QED
      BY <2>1, <2>2
  <1>3. IsWellFoundedOn(StrictSubsetOrdering(P), FiniteSubsetsOf(P))
    BY FS_StrictSubsetOrderingWellFounded
  <1> HIDE DEF T
  <1>4. PICK B \in T : \A C \in T : <<C, B>> \notin StrictSubsetOrdering(P)
    BY <1>2, <1>3, WFMin
  <1>5. PICK r \in P : B = before(r)
    BY <1>4 DEF T
  <1>6. ASSUME NEW q \in P, Less(f[q], f[r])
        PROVE  FALSE
    <2>1. \A a, b \in P : /\ f[a][1] \in Nat /\ f[a][2] \in Nat
                          /\ f[b][1] \in Nat /\ f[b][2] \in Nat
      OBVIOUS
    <2>2. q \in before(r) /\ q \notin before(q) /\ before(q) \subseteq before(r)
      BY <1>6, <2>1 DEF Less
    <2>3. <<before(q), before(r)>> \in StrictSubsetOrdering(P)
      BY <2>2 DEF StrictSubsetOrdering
    <2> QED
      BY <1>4, <1>5, <2>3 DEF T
  <1> QED
    BY <1>6

\* The current business date is one that is not closed.
LEMMA CurrentDayLives ==
    ASSUME day \in [Date -> {"PENDING", "OPEN", "CLOSING", "CLOSED"}]
    PROVE  /\ CurrentDay \in Copy
           /\ CurrentDay # NoDay => CurrentDay.date \in Date /\ day[CurrentDay.date] # "CLOSED"
  <1> DEFINE live == {d \in Date : day[d] \in {"OPEN", "CLOSING"}}
             newest(d) == \A e \in live : e <= d
  <1>1. CASE live = {}
    BY <1>1 DEF CurrentDay, Copy
  <1>2. CASE live # {}
    <2> DEFINE f == [d \in live |-> <<MaxDate - d, 0>>]
    <2>1. MaxDate \in Nat /\ live \subseteq 1..MaxDate
      BY ServiceConstants DEF Date
    <2>2. IsFiniteSet(live)
      <3>1. IsFiniteSet(1..MaxDate)
        BY <2>1, FS_Interval
      <3> QED
        BY <2>1, <3>1, FS_Subset
    <2>3. f \in [live -> Nat \X Nat]
      BY <2>1
    <2>4. PICK d \in live : \A e \in live : ~Less(f[e], f[d])
      BY <1>2, <2>2, <2>3, MinKey
    <2>5. ASSUME NEW e \in live PROVE e <= d
      <3>1. f[e] = <<MaxDate - e, 0>> /\ f[d] = <<MaxDate - d, 0>>
        OBVIOUS
      <3>2. ~Less(<<MaxDate - e, 0>>, <<MaxDate - d, 0>>)
        BY <2>4, <3>1
      <3>3. e \in Int /\ d \in Int
        BY <2>1
      <3>4. ~(MaxDate - e < MaxDate - d)
        BY <3>2 DEF Less
      <3> QED
        BY <2>1, <3>3, <3>4
    <2> DEFINE c == CHOOSE x \in live : newest(x)
    <2>6. c \in live
      BY <2>4, <2>5
    <2>7. CurrentDay = [date |-> c, status |-> day[c]]
      BY <1>2 DEF CurrentDay
    <2> HIDE DEF c
    <2> QED
      BY <2>6, <2>7 DEF Copy
  <1> QED
    BY <1>1, <1>2

LEMMA TypedInit == Init => StateTyped
  <1> SUFFICES ASSUME Init PROVE StateTyped
    OBVIOUS
  <1>1. ReqTyped
    BY DEF Init, ReqTyped
  <1>2. batch \in [Date -> [Type -> Totals]]
    <2> DEFINE none == [status |-> "NONE", count |-> 0]
    <2>1. none \in Totals
      BY DEF Totals
    <2>2. [ty \in Type |-> none] \in [Type -> Totals]
      BY <2>1
    <2>3. batch = [d \in Date |-> [ty \in Type |-> none]]
      BY DEF Init
    <2> QED
      BY <2>2, <2>3
  <1> QED
    BY <1>1, <1>2 DEF Init, StateTyped, Stage, Copy

\* The gate admits to a date, or refuses.
LEMMA AdmitTyped ==
    ASSUME StateTyped, NEW r \in Request, NEW copy \in Copy, req[r].stage = "new",
           Admit(r, copy), UNCHANGED row
    PROVE  /\ req' \in [Request -> [stage : Stage, date : Date \cup {0}]]
           /\ ReqTyped'
  <1>1. copy.status = "OPEN" => copy.date \in Date
    BY DEF Copy, NoDay
  <1> QED
    BY <1>1 DEF Admit, StateTyped, ReqTyped, Stage

\* One field of one batch changes.
LEMMA OneBatch ==
    ASSUME StateTyped, NEW d \in Date, NEW ty \in Type, NEW x \in Totals,
           batch' = [batch EXCEPT ![d] = [batch[d] EXCEPT ![ty] = x]]
    PROVE  /\ batch' \in [Date -> [Type -> Totals]]
           /\ \A e \in Date, t \in Type :
                 batch'[e][t] = IF e = d /\ t = ty THEN x ELSE batch[e][t]
  BY DEF StateTyped, Totals

LEMMA AddTyped ==
    ASSUME StateTyped, NEW d \in Date, NEW ty \in Type, Add(d, ty)
    PROVE  /\ batch' \in [Date -> [Type -> Totals]]
           /\ \A e \in Date, t \in Type :
                 /\ batch'[e][t].status = batch[e][t].status
                 /\ batch'[e][t].count = IF e = d /\ t = ty THEN batch[e][t].count + 1
                                         ELSE batch[e][t].count
  <1> DEFINE x == [batch[d][ty] EXCEPT !.count = @ + 1]
  <1>1. batch[d][ty] \in Totals
    BY DEF StateTyped, Totals
  <1>2. x \in Totals /\ x.status = batch[d][ty].status /\ x.count = batch[d][ty].count + 1
    BY <1>1 DEF Totals
  <1>3. batch' = [batch EXCEPT ![d] = [batch[d] EXCEPT ![ty] = x]]
    BY DEF Add
  <1> HIDE DEF x
  <1> QED
    BY <1>2, <1>3, OneBatch

LEMMA CreateTyped ==
    ASSUME StateTyped, NEW r \in Request, Create(r)
    PROVE  /\ batch' \in [Date -> [Type -> Totals]]
           /\ \A e \in Date, t \in Type :
                 /\ batch'[e][t].count = batch[e][t].count
                 /\ batch'[e][t] = batch[e][t] \/ (e = req[r].date /\ t = TypeOf[r])
           /\ batch'[req[r].date][TypeOf[r]].status = batch[req[r].date][TypeOf[r]].status
                \/ batch[req[r].date][TypeOf[r]].status = "NONE"
  <1> DEFINE d == req[r].date
             ty == TypeOf[r]
             x == [batch[d][ty] EXCEPT !.status = "OPEN"]
  <1>1. d \in Date /\ ty \in Type
    BY DEF StateTyped, ReqTyped, Create, Type
  <1>2. batch[d][ty] \in Totals
    BY <1>1 DEF StateTyped, Totals
  <1>3. x \in Totals /\ x.count = batch[d][ty].count
    BY <1>2 DEF Totals
  <1>4. CASE UNCHANGED batch
    BY <1>4 DEF StateTyped, Totals
  <1>5. CASE ~UNCHANGED batch
    <2>1. batch' = [batch EXCEPT ![d] = [batch[d] EXCEPT ![ty] = x]]
      BY <1>5 DEF Create
    <2>2. batch[d][ty].status = "NONE"
      BY <1>5 DEF Create
    <2> HIDE DEF x, d, ty
    <2>3. /\ batch' \in [Date -> [Type -> Totals]]
          /\ \A e \in Date, t \in Type :
                batch'[e][t] = IF e = d /\ t = ty THEN x ELSE batch[e][t]
      BY <1>1, <1>3, <2>1, OneBatch
    <2> QED
      BY <1>1, <1>3, <2>2, <2>3 DEF d, ty
  <1> QED
    BY <1>4, <1>5

\* Day end touches the statuses of one day.
LEMMA EndDayTyped ==
    ASSUME StateTyped, NEW d \in Date, EndDay(d)
    PROVE  /\ batch' \in [Date -> [Type -> Totals]]
           /\ \A e \in Date, t \in Type : batch'[e][t].count = batch[e][t].count
           /\ \A e \in Date : e # d => batch'[e] = batch[e]
  <1> DEFINE x(t) == IF batch[d][t].status = "OPEN"
                     THEN [batch[d][t] EXCEPT !.status = "CLOSED"] ELSE batch[d][t]
  <1>1. \A t \in Type : batch[d][t] \in Totals
    BY DEF StateTyped, Totals
  <1>2. \A t \in Type : x(t) \in Totals /\ x(t).count = batch[d][t].count
    BY <1>1 DEF Totals
  <1>3. batch' = [batch EXCEPT ![d] = [t \in Type |-> x(t)]]
    BY DEF EndDay
  <1>4. batch \in [Date -> [Type -> Totals]]
    BY DEF StateTyped, Totals
  <1> HIDE DEF x
  <1>5. [t \in Type |-> x(t)] \in [Type -> Totals]
    BY <1>2
  <1>6. batch' \in [Date -> [Type -> Totals]]
    BY <1>3, <1>4, <1>5
  <1>7. \A e \in Date, t \in Type : batch'[e][t] = IF e = d THEN x(t) ELSE batch[e][t]
    BY <1>3, <1>4
  <1>8. \A e \in Date : e # d => batch'[e] = batch[e]
    BY <1>3, <1>4
  <1> QED
    BY <1>2, <1>6, <1>7, <1>8

\* The row of a voucher that is entered, or decided.
LEMMA RowTyped ==
    ASSUME StateTyped, NEW r \in Request, NEW x \in RowType, row' = [row EXCEPT ![r] = x]
    PROVE  /\ row' \in [Request -> RowType \cup {NoRow}] /\ row'[r] = x
           /\ \A q \in Request \ {r} : row'[q] = row[q]
  BY DEF StateTyped

LEMMA PostTyped ==
    ASSUME StateTyped, NEW r \in Request, PostVoucher(r)
    PROVE  /\ req[r].stage = "post" /\ row[r] = NoRow /\ req[r].date \in Date
           /\ \/ UNCHANGED <<row, batch>>
              \/ \E x \in RowType :
                    /\ row' = [row EXCEPT ![r] = x] /\ x.date = req[r].date
                    /\ \/ x.status = "POSTED" /\ Add(x.date, TypeOf[r])
                       \/ x.status = "PENDING_AUTH" /\ UNCHANGED batch
  <1>1. req[r].stage = "post" /\ row[r] = NoRow /\ req[r].date \in Date
    BY DEF PostVoucher, StateTyped, ReqTyped
  <1>2. CASE ~UNCHANGED <<row, batch>>
    <2>1. PICK at \in At, posts \in BOOLEAN :
             /\ row' = [row EXCEPT ![r] =
                          [date |-> req[r].date, at |-> at,
                           status |-> IF posts THEN "POSTED" ELSE "PENDING_AUTH"]]
             /\ IF posts THEN Add(req[r].date, TypeOf[r]) ELSE UNCHANGED batch
      BY <1>2 DEF PostVoucher
    <2> DEFINE x == [date |-> req[r].date, at |-> at,
                     status |-> IF posts THEN "POSTED" ELSE "PENDING_AUTH"]
    <2>2. x \in RowType /\ x.date = req[r].date
      BY <1>1 DEF RowType
    <2>3. \/ x.status = "POSTED" /\ Add(x.date, TypeOf[r])
          \/ x.status = "PENDING_AUTH" /\ UNCHANGED batch
      BY <2>1
    <2> HIDE DEF x
    <2> QED
      BY <1>1, <2>1, <2>2, <2>3 DEF x
  <1> QED
    BY <1>1, <1>2

\* A decision changes the status only.
LEMMA DecisionTyped ==
    ASSUME StateTyped, NEW r \in Request, Approve(r) \/ Reject(r)
    PROVE  /\ Pending(r) /\ row[r] \in RowType /\ row[r].date \in Date
           /\ \E x \in RowType :
                 /\ row' = [row EXCEPT ![r] = x] /\ x.date = row[r].date /\ x.at = row[r].at
                 /\ \/ x.status = "POSTED" /\ Add(x.date, TypeOf[r])
                    \/ x.status = "REJECTED" /\ UNCHANGED batch
  <1>1. Pending(r) /\ row[r] \in RowType /\ row[r].date \in Date
    BY DEF StateTyped, Approve, Reject, Pending, RowType, NoRow
  <1>2. CASE Approve(r)
    <2> DEFINE x == [row[r] EXCEPT !.status = "POSTED"]
    <2>1. x \in RowType /\ x.date = row[r].date /\ x.at = row[r].at /\ x.status = "POSTED"
      BY <1>1 DEF RowType
    <2>2. row' = [row EXCEPT ![r] = x] /\ Add(row[r].date, TypeOf[r])
      BY <1>2 DEF Approve
    <2> HIDE DEF x
    <2> QED
      BY <1>1, <2>1, <2>2
  <1>3. CASE Reject(r)
    <2> DEFINE x == [row[r] EXCEPT !.status = "REJECTED"]
    <2>1. x \in RowType /\ x.date = row[r].date /\ x.at = row[r].at /\ x.status = "REJECTED"
      BY <1>1 DEF RowType
    <2>2. row' = [row EXCEPT ![r] = x] /\ UNCHANGED batch
      BY <1>3 DEF Reject
    <2> HIDE DEF x
    <2> QED
      BY <1>1, <2>1, <2>2
  <1> QED
    BY <1>2, <1>3

\* Steps of the gate, of the date, of the batch, and of the vouchers.
LEMMA TypedStep == StateTyped /\ [Next]_vars => StateTyped'
  <1> SUFFICES ASSUME StateTyped, [Next]_vars PROVE StateTyped'
    OBVIOUS
  <1> USE DEF StateTyped
  <1>1. ASSUME NEW r \in Request, GateHit(r) PROVE StateTyped'
    <2>1. cache \in Copy /\ req[r].stage = "new" /\ Admit(r, cache) /\ UNCHANGED row
      BY <1>1 DEF GateHit
    <2> QED
      BY <1>1, <2>1, AdmitTyped DEF GateHit
  <1>2. ASSUME NEW r \in Request, GateMiss(r) PROVE StateTyped'
    <2>1. PICK copy \in Copy : Admit(r, copy) /\ loads' \subseteq loads \cup {copy}
      BY <1>2, CurrentDayLives DEF GateMiss
    <2>2. req[r].stage = "new" /\ UNCHANGED row
      BY <1>2 DEF GateMiss
    <2> QED
      BY <1>2, <2>1, <2>2, AdmitTyped DEF GateMiss
  <1>3. CASE Fill
    <2>1. PICK copy \in loads : loads' = loads \ {copy} /\ cache' \in {copy, cache}
      BY <1>3 DEF Fill
    <2> QED
      BY <1>3, <2>1 DEF Fill, ReqTyped
  <1>4. CASE Lapse
    BY <1>4 DEF Lapse, ReqTyped
  <1>5. ASSUME NEW d \in Date, BeginDay(d) \/ BeginDayEnd(d) \/ EndDay(d) PROVE StateTyped'
    <2>1. PICK status \in {"OPEN", "CLOSING", "CLOSED"} : TurnDay(d, status)
      BY <1>5 DEF BeginDay, BeginDayEnd, EndDay
    <2>2. batch' \in [Date -> [Type -> Totals]]
      BY <1>5, EndDayTyped DEF BeginDay, BeginDayEnd
    <2> QED
      BY <2>1, <2>2 DEF TurnDay, ReqTyped
  <1>6. ASSUME NEW r \in Request, Find(r) PROVE StateTyped'
    <2>1. PICK stage \in {"create", "post", "refused"} : Goto(r, stage)
      BY <1>6 DEF Find
    <2> QED
      BY <1>6, <2>1 DEF Find, Goto, ReqTyped, Stage
  <1>7. ASSUME NEW r \in Request, Create(r) PROVE StateTyped'
    <2>1. PICK stage \in {"post", "failed"} : Goto(r, stage)
      BY <1>7 DEF Create
    <2>2. batch' \in [Date -> [Type -> Totals]]
      BY <1>7, CreateTyped
    <2> QED
      BY <1>7, <2>1, <2>2 DEF Create, Goto, ReqTyped, Stage
  <1>8. ASSUME NEW r \in Request, PostVoucher(r) PROVE StateTyped'
    <2>1. PICK stage \in {"done", "failed"} : Goto(r, stage)
      BY <1>8 DEF PostVoucher
    <2>2. /\ batch' \in [Date -> [Type -> Totals]]
          /\ row' \in [Request -> RowType \cup {NoRow}]
          /\ \A q \in Request \ {r} : row'[q] = row[q]
      <3>1. TypeOf[r] \in Type
        BY DEF Type
      <3> QED
        BY <1>8, <3>1, PostTyped, AddTyped, RowTyped
    <2>3. /\ req' \in [Request -> [stage : Stage, date : Date \cup {0}]]
          /\ req'[r].stage = stage
          /\ \A q \in Request \ {r} : req'[q] = req[q]
      BY <2>1 DEF Goto, Stage
    <2>4. ReqTyped'
      BY <2>2, <2>3 DEF ReqTyped
    <2> QED
      BY <1>8, <2>2, <2>3, <2>4 DEF PostVoucher
  <1>9. ASSUME NEW r \in Request, Approve(r) \/ Reject(r) PROVE StateTyped'
    <2>1. TypeOf[r] \in Type
      BY DEF Type
    <2>2. /\ batch' \in [Date -> [Type -> Totals]]
          /\ row' \in [Request -> RowType \cup {NoRow}]
          /\ \A q \in Request \ {r} : row'[q] = row[q]
      BY <1>9, <2>1, DecisionTyped, AddTyped, RowTyped
    <2>3. req[r].stage \notin {"new", "find", "create", "post"}
      BY <1>9 DEF Approve, Reject, Pending, ReqTyped, NoRow
    <2> QED
      BY <1>9, <2>2, <2>3 DEF Approve, Reject, ReqTyped
  <1>10. CASE FirstPage \/ NextPage \/ UNCHANGED vars
    BY <1>10 DEF FirstPage, NextPage, vars, ReqTyped
  <1> QED
    BY <1>1, <1>2, <1>3, <1>4, <1>5, <1>6, <1>7, <1>8, <1>9, <1>10 DEF Next

THEOREM TypedHolds == Spec => []StateTyped
  BY TypedInit, TypedStep, PTL DEF Spec

----------------------------------------------------------------------------
(* Final totals                                                            *)

\* A settled date stays settled, and its batches as they are: a step that could
\* change them works on another date.
LEMMA FinalStep ==
    ASSUME StateTyped, NEW d \in Date, Settled(d), [Next]_vars
    PROVE  Settled(d)' /\ batch'[d] = batch[d]
  <1> DEFINE open == [date |-> d, status |-> "OPEN"]
             lacks == \E ty \in Type : batch[d][ty].status = "NONE"
             busy(q) == q.stage \in {"find", "create"} /\ q.date = d
             closed == day'[d] = "CLOSED" /\ batch'[d] = batch[d]
             quiet == \A r \in Request : ~(req'[r].stage = "post" /\ req'[r].date = d)
             decided == \A r \in Request : row'[r].status = "PENDING_AUTH" => row'[r].date # d
             unseen == lacks => open \notin loads' /\ open # cache'
             idle == lacks => \A r \in Request : ~busy(req'[r])
             goal == closed /\ quiet /\ decided /\ unseen /\ idle
  <1>1. /\ day[d] = "CLOSED"
        /\ \A ty \in Type : batch[d][ty].status # "OPEN"
        /\ \A r \in Request : ~(req[r].stage = "post" /\ req[r].date = d)
        /\ \A r \in Request : row[r].status = "PENDING_AUTH" => row[r].date # d
        /\ lacks => open \notin loads /\ open # cache
        /\ lacks => \A r \in Request : ~busy(req[r])
    BY DEF Settled, OpenCopy, Pending
  <1>2. SUFFICES goal
    BY <1>1 DEF Settled, OpenCopy, Pending
  \* The gate lets nobody in to this date.
  <1>3. ASSUME NEW r \in Request, NEW copy \in Copy, Admit(r, copy), lacks => copy # open
        PROVE  quiet /\ idle
    <2>1. \A q \in Request \ {r} : req'[q] = req[q]
      BY <1>3 DEF Admit, StateTyped
    <2>2. req'[r].stage \in {"find", "refused"}
      BY <1>3 DEF Admit, StateTyped
    <2>3. ASSUME lacks, busy(req'[r]) PROVE FALSE
      <3>1. copy.status = "OPEN" /\ copy.date = d
        BY <1>3, <2>3 DEF Admit, StateTyped
      <3> QED
        BY <1>3, <2>3, <3>1 DEF Copy, NoDay
    <2> QED
      BY <1>1, <2>1, <2>2, <2>3
  <1>4. ASSUME NEW r \in Request, GateHit(r) PROVE goal
    <2>1. cache \in Copy /\ Admit(r, cache)
      BY <1>4 DEF GateHit, StateTyped
    <2>2. quiet /\ idle
      BY <1>1, <1>3, <2>1
    <2> QED
      BY <1>1, <1>4, <2>2 DEF GateHit
  <1>5. ASSUME NEW r \in Request, GateMiss(r) PROVE goal
    <2>1. CurrentDay \in Copy /\ CurrentDay # open
      BY <1>1, CurrentDayLives DEF StateTyped, NoDay
    <2>2. PICK copy \in loads \cup {CurrentDay} :
             Admit(r, copy) /\ loads' \subseteq loads \cup {CurrentDay}
      BY <1>5 DEF GateMiss
    <2>3. copy \in Copy /\ (lacks => copy # open)
      BY <1>1, <2>1, <2>2 DEF StateTyped
    <2>4. quiet /\ idle
      BY <1>3, <2>2, <2>3
    <2> QED
      BY <1>1, <1>5, <2>1, <2>2, <2>4 DEF GateMiss
  <1>6. CASE Fill
    <2>1. PICK copy \in loads : loads' = loads \ {copy} /\ cache' \in {copy, cache}
      BY <1>6 DEF Fill
    <2> QED
      BY <1>1, <1>6, <2>1 DEF Fill
  <1>7. CASE Lapse
    BY <1>1, <1>7 DEF Lapse, Nothing
  <1>8. ASSUME NEW e \in Date, BeginDay(e) \/ BeginDayEnd(e) \/ EndDay(e) PROVE goal
    <2>1. PICK status \in {"OPEN", "CLOSING", "CLOSED"} : TurnDay(e, status)
      BY <1>8 DEF BeginDay, BeginDayEnd, EndDay
    <2>2. e # d
      BY <1>1, <1>8 DEF BeginDay, BeginDayEnd, EndDay
    <2>3. batch'[d] = batch[d]
      BY <1>8, <2>2, EndDayTyped DEF BeginDay, BeginDayEnd
    <2>4. day'[d] = "CLOSED"
      BY <1>1, <2>1, <2>2 DEF TurnDay, StateTyped
    <2>5. open # Nothing
      BY DEF Nothing
    <2> QED
      BY <1>1, <2>1, <2>3, <2>4, <2>5 DEF TurnDay
  \* A request that goes on to a stage other than the last before the posting.
  <1>9. ASSUME NEW r \in Request, NEW stage \in Stage, Goto(r, stage),
               stage # "find",
               stage = "post" => req[r].date # d,
               lacks /\ stage = "create" => req[r].date # d
        PROVE  quiet /\ idle
    <2>1. \A q \in Request \ {r} : req'[q] = req[q]
      BY <1>9 DEF Goto, StateTyped
    <2>2. req'[r].stage = stage /\ req'[r].date = req[r].date
      BY <1>9 DEF Goto, StateTyped
    <2> QED
      BY <1>1, <1>9, <2>1, <2>2
  <1>10. ASSUME NEW r \in Request, Find(r) PROVE goal
    <2> DEFINE b == batch[req[r].date][TypeOf[r]].status
    <2>1. TypeOf[r] \in Type /\ req[r].stage = "find"
      BY <1>10 DEF Find, Type
    <2>2. PICK stage \in {"create", "post", "refused"} :
             /\ Goto(r, stage)
             /\ stage = "create" => b = "NONE"
             /\ stage = "post" => b = "OPEN"
      BY <1>10 DEF Find
    <2>3. quiet /\ idle
      BY <1>1, <1>9, <2>1, <2>2 DEF Stage
    <2> QED
      BY <1>1, <1>10, <2>3 DEF Find
  <1>11. ASSUME NEW r \in Request, Create(r) PROVE goal
    <2>1. TypeOf[r] \in Type /\ req[r].stage = "create" /\ req[r].date \in Date
      BY <1>11 DEF Create, Type, StateTyped, ReqTyped
    <2>2. CASE req[r].date = d
      <3>1. batch[d][TypeOf[r]].status # "NONE"
        BY <1>1, <2>1, <2>2
      <3>2. Goto(r, "failed") /\ UNCHANGED batch
        BY <1>11, <2>2, <3>1 DEF Create
      <3>3. quiet /\ idle
        BY <1>9, <3>2 DEF Stage
      <3> QED
        BY <1>1, <1>11, <3>2, <3>3 DEF Create
    <2>3. CASE req[r].date # d
      <3>1. PICK stage \in {"post", "failed"} : Goto(r, stage)
        BY <1>11 DEF Create
      <3>2. quiet /\ idle
        BY <1>9, <2>3, <3>1 DEF Stage
      <3>3. batch'[d] = batch[d]
        BY <1>11, <2>3 DEF Create, StateTyped
      <3> QED
        BY <1>1, <1>11, <3>2, <3>3 DEF Create
    <2> QED
      BY <2>2, <2>3
  <1>12. ASSUME NEW e \in Date, NEW ty \in Type, Add(e, ty), e # d
         PROVE  batch'[d] = batch[d]
    BY <1>12 DEF Add, StateTyped
  <1>13. ASSUME NEW r \in Request, PostVoucher(r) PROVE goal
    <2>1. TypeOf[r] \in Type /\ req[r].date # d
      BY <1>1, <1>13 DEF PostVoucher, Type
    <2>2. PICK stage \in {"done", "failed"} : Goto(r, stage)
      BY <1>13 DEF PostVoucher
    <2>3. quiet /\ idle
      BY <1>9, <2>2 DEF Stage
    <2>4. batch'[d] = batch[d] /\ decided
      <3>1. CASE UNCHANGED <<row, batch>>
        BY <1>1, <3>1
      <3>2. CASE ~UNCHANGED <<row, batch>>
        <4>1. PICK x \in RowType :
                /\ row' = [row EXCEPT ![r] = x] /\ x.date = req[r].date
                /\ Add(x.date, TypeOf[r]) \/ UNCHANGED batch
          BY <1>13, <3>2, PostTyped
        <4>2. x.date \in Date
          BY DEF RowType
        <4>3. batch'[d] = batch[d]
          BY <1>12, <2>1, <4>1, <4>2
        <4> QED
          BY <1>1, <2>1, <4>1, <4>3, RowTyped
      <3> QED
        BY <3>1, <3>2
    <2> QED
      BY <1>1, <1>13, <2>3, <2>4 DEF PostVoucher
  <1>14. ASSUME NEW r \in Request, Approve(r) \/ Reject(r) PROVE goal
    <2>1. TypeOf[r] \in Type /\ row[r].date # d
      BY <1>1, <1>14 DEF Approve, Reject, Pending, Type
    <2>2. PICK x \in RowType :
             /\ row' = [row EXCEPT ![r] = x] /\ x.date = row[r].date
             /\ Add(x.date, TypeOf[r]) \/ UNCHANGED batch
      BY <1>14, DecisionTyped
    <2>3. x.date \in Date
      BY DEF RowType
    <2>4. batch'[d] = batch[d]
      BY <1>12, <2>1, <2>2, <2>3
    <2>5. decided
      BY <1>1, <2>1, <2>2, RowTyped
    <2> QED
      BY <1>1, <1>14, <2>4, <2>5 DEF Approve, Reject
  <1>15. CASE FirstPage \/ NextPage \/ UNCHANGED vars
    BY <1>1, <1>15 DEF FirstPage, NextPage, vars
  <1> QED
    BY <1>4, <1>5, <1>6, <1>7, <1>8, <1>10, <1>11, <1>13, <1>14, <1>15 DEF Next

\* The totals of a settled business date are final, whatever copies of the date
\* and whatever requests are about (ledger.service.ts:29).
THEOREM FinalTotalsHolds == Spec => FinalTotals
  <1>1. StateTyped /\ [Next]_vars => [\A d \in Date : Settled(d) => Settled(d)' /\ batch'[d] = batch[d]]_vars
    BY FinalStep
  <1> QED
    BY <1>1, TypedHolds, PTL DEF Spec, FinalTotals

----------------------------------------------------------------------------
(* Pages                                                                   *)

\* A voucher that exists has a pair of each order; that pair never changes.
LEMMA KeyType ==
    ASSUME StateTyped, NEW what, NEW r \in Request, row[r] # NoRow
    PROVE  Key(what, r) \in Nat \X Nat
  <1>1. row[r] \in RowType /\ row[r].at \in Nat /\ row[r].date \in Nat
    BY ServiceConstants DEF StateTyped, RowType, At, Date
  <1> QED
    BY <1>1, ServiceConstants DEF Key, ListKey, StatementKey

LEMMA KeyStays ==
    ASSUME StateTyped, [Next]_vars, ~(FirstPage \/ NextPage), NEW r \in Request, row[r] # NoRow
    PROVE  row'[r] # NoRow /\ row'[r].at = row[r].at /\ row'[r].date = row[r].date
  <1>1. ASSUME NEW q \in Request, PostVoucher(q) PROVE row'[r] = row[r]
    <2>1. q # r
      BY <1>1, PostTyped
    <2> QED
      BY <1>1, <2>1 DEF PostVoucher, StateTyped
  <1>2. ASSUME NEW q \in Request, Approve(q) \/ Reject(q)
        PROVE  row'[r] # NoRow /\ row'[r].at = row[r].at /\ row'[r].date = row[r].date
    <2>1. PICK x \in RowType :
            row' = [row EXCEPT ![q] = x] /\ x.date = row[q].date /\ x.at = row[q].at
      BY <1>2, DecisionTyped
    <2>2. x # NoRow
      BY DEF RowType, NoRow
    <2> QED
      BY <2>1, <2>2, RowTyped
  <1>3. CASE UNCHANGED row
    BY <1>3
  <1> QED
    BY <1>1, <1>2, <1>3
    DEF Next, vars, GateHit, GateMiss, Find, Create, BeginDay, BeginDayEnd, EndDay, TurnDay,
        Fill, Lapse

\* The order of the pairs.
LEMMA LessOrder ==
    ASSUME NEW p \in Nat \X Nat, NEW q \in Nat \X Nat, NEW s \in Nat \X Nat
    PROVE  /\ Less(p, q) /\ Less(q, s) => Less(p, s)
           /\ ~Less(p, p)
           /\ Less(p, q) \/ Less(q, p) \/ p = q
  BY DEF Less

\* A line that has the pair of a cursor used.
Skipped(rd, r) == rd.what = "statement" /\ StatementKey(r) \in rd.last

\* What the client knows between two pages.
PagesInv == reading # Idle =>
    /\ reading \in Reading /\ ~reading.twice
    /\ \A r \in reading.got \cup reading.there : row[r] # NoRow
    /\ reading.more =>
          /\ reading.cursor \in Nat \X Nat
          /\ \A r \in reading.got : ~Less(Key(reading.what, r), reading.cursor)
          /\ \A r \in reading.there : \/ Less(Key(reading.what, r), reading.cursor)
                                      \/ r \in reading.got \/ Skipped(reading, r)
    /\ ~reading.more => \A r \in reading.there : r \in reading.got \/ Skipped(reading, r)

\* What a page may be asked with: a cursor that parts the rows read from the rest.
Asked(rd) ==
    /\ rd \in Reading /\ ~rd.twice
    /\ \A r \in rd.got : row[r] # NoRow /\ ~Past(rd.what, rd.cursor, r)
    /\ \A r \in rd.there : \/ row[r] # NoRow => Past(rd.what, rd.cursor, r)
                           \/ r \in rd.got \/ Skipped(rd, r)

LEMMA PageKeeps ==
    ASSUME StateTyped, NEW rd, Asked(rd), Page(rd), UNCHANGED row
    PROVE  PagesInv'
  <1> DEFINE rest == {r \in Listed(rd) : Past(rd.what, rd.cursor, r)}
             more == Cardinality(rest) > Limit
             key(r) == Key(rd.what, r)
  <1>1. PICK P \in SUBSET rest :
          /\ Cardinality(P) = IF more THEN Limit ELSE Cardinality(rest)
          /\ \A r \in P, q \in rest \ P : ~Less(key(r), key(q))
          /\ LET cursor == CHOOSE k \in {key(r) : r \in P} : \A r \in P : ~Less(key(r), k)
             IN  reading' = [rd EXCEPT
                   !.more   = more,
                   !.cursor = IF more THEN cursor ELSE Start,
                   !.got    = rd.got \cup P,
                   !.there  = rd.there \cap Listed(rd),
                   !.twice  = rd.twice \/ P \cap rd.got # {},
                   !.last   = IF more THEN rd.last \cup {cursor} ELSE rd.last]
    BY DEF Page
  <1> DEFINE cursor == CHOOSE k \in {key(r) : r \in P} : \A r \in P : ~Less(key(r), k)
  <1>2. /\ rest \subseteq Request /\ IsFiniteSet(rest) /\ IsFiniteSet(P)
        /\ Cardinality(rest) \in Nat /\ Cardinality(P) \in Nat
        /\ Cardinality(P) = Cardinality(rest) => P = rest
    <2>1. rest \subseteq Request
      BY DEF Listed
    <2>2. IsFiniteSet(rest)
      BY <2>1, ServiceConstants, FS_Subset
    <2> QED
      BY <2>1, <2>2, FS_Subset, FS_CardinalityType
  <1>3. \A r \in rest : r \in Request /\ row[r] # NoRow /\ key(r) \in Nat \X Nat
    BY KeyType DEF Listed
  \* The cursor is the pair of a row of the page, and no row of the page is after it.
  <1>4. more => /\ \E p \in P : cursor = key(p)
                /\ \A r \in P : ~Less(key(r), cursor)
                /\ cursor \in Nat \X Nat
    <2>1. SUFFICES ASSUME more
                   PROVE  /\ \E p \in P : cursor = key(p)
                          /\ \A r \in P : ~Less(key(r), cursor)
      BY <1>3
    <2>2. P # {}
      BY <1>1, <2>1, FS_EmptySet, ServiceConstants
    <2> DEFINE f == [r \in P |-> key(r)]
    <2>3. f \in [P -> Nat \X Nat]
      BY <1>3
    <2>4. PICK p \in P : \A q \in P : ~Less(f[q], f[p])
      BY <1>2, <2>2, <2>3, MinKey
    <2>5. \E k \in {key(r) : r \in P} : \A r \in P : ~Less(key(r), k)
      BY <2>4
    <2> QED
      BY <2>5
  <1> DEFINE rn == reading'
  <1>5. /\ rn.what = rd.what /\ rn.pending = rd.pending /\ rn.more = more
        /\ rn.cursor = IF more THEN cursor ELSE Start
        /\ rn.got = rd.got \cup P /\ rn.there = rd.there \cap Listed(rd)
        /\ rn.twice = (rd.twice \/ P \cap rd.got # {})
        /\ rn.last = IF more THEN rd.last \cup {cursor} ELSE rd.last
        /\ rn = [what |-> rn.what, pending |-> rn.pending, more |-> rn.more,
                 cursor |-> rn.cursor, got |-> rn.got, there |-> rn.there,
                 twice |-> rn.twice, last |-> rn.last]
    BY <1>1 DEF Asked, Reading
  <1> HIDE DEF cursor, key
  <1>6. rn \in Reading
    <2>1. /\ rd.what \in {"list", "statement"} /\ rd.pending \in BOOLEAN /\ rd.got \subseteq Request
          /\ rd.there \subseteq Request /\ rd.last \subseteq Nat \X Nat /\ rd.twice \in BOOLEAN
      BY DEF Asked, Reading
    <2>2. /\ rn.what \in {"list", "statement"} /\ rn.pending \in BOOLEAN /\ rn.more \in BOOLEAN
          /\ rn.twice \in BOOLEAN
      BY <1>5, <2>1
    <2>3. rn.got \subseteq Request /\ rn.there \subseteq Request
      BY <1>2, <1>5, <2>1
    <2>4. rn.cursor \in (Nat \X Nat) \cup {Start} /\ rn.last \subseteq Nat \X Nat
      BY <1>4, <1>5, <2>1
    <2> HIDE DEF rn
    <2> QED
      BY <1>5, <2>2, <2>3, <2>4 DEF Reading
  <1>7. ~rn.twice
    BY <1>1, <1>5 DEF Asked
  <1>8. \A r \in rn.got \cup rn.there : row[r] # NoRow
    BY <1>1, <1>3, <1>5 DEF Asked, Listed
  <1>9. \A r \in rn.there : \/ r \in rest \/ r \in rn.got \/ Skipped(rd, r)
    BY <1>5 DEF Asked, Listed
  <1>10. \A r \in Request : Skipped(rd, r) => rn.what = "statement" /\ StatementKey(r) \in rn.last
    BY <1>5 DEF Skipped
  <1>11. \A r : Past(rd.what, rd.cursor, r) <=> rd.cursor = Start \/ Less(key(r), rd.cursor)
    BY DEF Past, PastList, PastStatement, Key, key
  <1>12. \A r \in rn.there :
            \/ more /\ Less(key(r), cursor)
            \/ r \in rn.got
            \/ rn.what = "statement" /\ StatementKey(r) \in rn.last
    <2> SUFFICES ASSUME NEW r \in rn.there, r \in rest, r \notin P,
                        ~(more /\ Less(key(r), cursor))
                 PROVE  rn.what = "statement" /\ StatementKey(r) \in rn.last
      BY <1>5, <1>6, <1>9, <1>10 DEF Reading
    <2>1. more
      BY <1>1, <1>2
    <2>2. PICK p \in P : cursor = key(p)
      BY <1>4, <2>1
    <2>3. ~Less(cursor, key(r))
      BY <1>1, <2>2 DEF key
    <2>4. key(r) = key(p)
      BY <1>3, <2>1, <2>2, <2>3, LessOrder
    <2>5. rd.what # "list"
      BY <2>4 DEF key, Key, ListKey
    <2>6. rd.what = "statement"
      BY <2>5 DEF Asked, Reading
    <2>7. StatementKey(r) = cursor
      BY <2>2, <2>4, <2>6 DEF key, Key
    <2> QED
      BY <1>5, <2>1, <2>6, <2>7
  <1>13. more => \A r \in rn.got : ~Less(key(r), cursor)
    <2> SUFFICES ASSUME more, NEW r \in rd.got, Less(key(r), cursor) PROVE FALSE
      BY <1>4, <1>5
    <2>1. PICK p \in P : cursor = key(p)
      BY <1>4
    <2>2. r \in Request /\ row[r] # NoRow /\ rd.cursor # Start /\ ~Less(key(r), rd.cursor)
      BY <1>11 DEF Asked, Reading
    <2>3. Less(key(p), rd.cursor) /\ rd.cursor \in Nat \X Nat
      BY <1>11, <2>2 DEF Asked, Reading
    <2>4. key(r) \in Nat \X Nat /\ key(p) \in Nat \X Nat
      BY <1>3, <2>2, KeyType DEF key
    <2> QED
      BY <2>1, <2>2, <2>3, <2>4, LessOrder
  <1>14. ~more => \A r \in rn.there : r \in rn.got \/ (rn.what = "statement" /\ StatementKey(r) \in rn.last)
    BY <1>12
  <1> HIDE DEF more, rest
  <1> QED
    BY <1>4, <1>5, <1>6, <1>7, <1>8, <1>12, <1>13, <1>14
    DEF PagesInv, Skipped, Key, key, ListKey, StatementKey

LEMMA PagesStep == StateTyped /\ PagesInv /\ [Next]_vars => PagesInv'
  <1> SUFFICES ASSUME StateTyped, PagesInv, [Next]_vars PROVE PagesInv'
    OBVIOUS
  <1>1. CASE FirstPage
    <2>1. PICK what \in {"list", "statement"}, pending \in BOOLEAN :
            Page([what |-> what, pending |-> pending, more |-> TRUE, cursor |-> Start,
                  got |-> {}, there |-> Request, twice |-> FALSE, last |-> {}])
      BY <1>1 DEF FirstPage
    <2> DEFINE rd == [what |-> what, pending |-> pending, more |-> TRUE, cursor |-> Start,
                      got |-> {}, there |-> Request, twice |-> FALSE, last |-> {}]
    <2>2. rd \in Reading
      BY DEF Reading
    <2>3. Asked(rd)
      BY <2>2 DEF Asked, Past, PastList, PastStatement
    <2>4. UNCHANGED row
      BY <1>1 DEF FirstPage
    <2> HIDE DEF rd
    <2> QED
      BY <2>1, <2>3, <2>4, PageKeeps DEF rd
  <1>2. CASE NextPage
    <2>1. reading # Idle /\ reading.more /\ Page(reading) /\ UNCHANGED row
      BY <1>2 DEF NextPage
    <2>2. reading.cursor # Start
      BY <2>1 DEF PagesInv, Start
    <2>3. Asked(reading)
      BY <2>1, <2>2 DEF Asked, PagesInv, Past, PastList, PastStatement, Key
    <2> QED
      BY <2>1, <2>3, PageKeeps
  <1>3. CASE ~(FirstPage \/ NextPage)
    <2>1. UNCHANGED reading
      BY <1>3 DEF Next, vars, GateHit, GateMiss, Find, Create, PostVoucher, Approve, Reject,
                  BeginDay, BeginDayEnd, EndDay, TurnDay, Fill, Lapse
    <2>2. ASSUME reading # Idle, NEW r \in reading.got \cup reading.there
          PROVE  /\ row'[r] # NoRow
                 /\ ListKey(r)' = ListKey(r) /\ StatementKey(r)' = StatementKey(r)
      <3>1. r \in Request /\ row[r] # NoRow
        BY <2>2 DEF PagesInv, Reading
      <3> QED
        BY <1>3, <3>1, KeyStays DEF ListKey, StatementKey
    <2> QED
      BY <2>1, <2>2 DEF PagesInv, Key, Skipped
  <1> QED
    BY <1>1, <1>2, <1>3

\* What the client knows between two pages is true, whatever is entered and
\* decided meanwhile.
THEOREM PagesHold == Spec => []PagesInv
  <1>1. Init => PagesInv
    BY DEF Init, PagesInv
  <1> QED
    BY <1>1, TypedHolds, PagesStep, PTL DEF Spec

\* Reading the vouchers of a branch to the end returns each that was there all the
\* while, once (voucher.repository.ts: the pair of createdAt and id is unique).
THEOREM ListedOnceHolds == Spec => []ListedOnce
  <1>1. PagesInv => ListedOnce
    BY DEF PagesInv, ListedOnce, Skipped
  <1> QED
    BY <1>1, PagesHold, PTL

\* A statement misses a line only if a page ended on one of the same date and
\* number (ledger.repository.ts: the cursor of findStatementLines is not unique).
THEOREM StatementSkipsTiesHolds == Spec => []StatementSkipsTies
  <1>1. PagesInv => StatementSkipsTies
    BY DEF PagesInv, StatementSkipsTies, Skipped
  <1> QED
    BY <1>1, PagesHold, PTL

----------------------------------------------------------------------------
(* Totals                                                                  *)

\* The vouchers a batch counts.
Counted(d, ty) == {r \in Request : /\ TypeOf[r] = ty /\ row[r] # NoRow
                                   /\ row[r].date = d /\ row[r].status = "POSTED"}

LEMMA CountedFinite ==
    ASSUME NEW d, NEW ty
    PROVE  IsFiniteSet(Counted(d, ty)) /\ Cardinality(Counted(d, ty)) \in Nat
  BY ServiceConstants, FS_Subset, FS_CardinalityType DEF Counted

\* A row that becomes POSTED is one voucher more, of its date and type; any other
\* change of a row that is not POSTED leaves the counts alone.
LEMMA OneMore ==
    ASSUME StateTyped, TotalsTell, NEW r \in Request, NEW x \in RowType,
           row' = [row EXCEPT ![r] = x], row[r].status # "POSTED",
           \/ x.status = "POSTED" /\ Add(x.date, TypeOf[r])
           \/ x.status # "POSTED" /\ UNCHANGED batch
    PROVE  TotalsTell'
  <1>1. row'[r] = x /\ x # NoRow /\ \A q \in Request \ {r} : row'[q] = row[q]
    <2>1. x # NoRow
      BY DEF RowType, NoRow
    <2> QED
      BY <2>1, RowTyped
  <1>2. x.date \in Date /\ TypeOf[r] \in Type
    BY DEF RowType, Type
  <1>3. ASSUME NEW d \in Date, NEW ty \in Type
        PROVE  batch'[d][ty].count = Cardinality(Counted(d, ty)')
    <2>1. batch[d][ty].count = Cardinality(Counted(d, ty))
      BY DEF TotalsTell, Counted
    <2>2. CASE x.status = "POSTED" /\ Add(x.date, TypeOf[r]) /\ d = x.date /\ ty = TypeOf[r]
      <3>1. Counted(d, ty)' = Counted(d, ty) \cup {r} /\ r \notin Counted(d, ty)
        BY <1>1, <2>2 DEF Counted
      <3>2. batch'[d][ty].count = batch[d][ty].count + 1
        BY <1>2, <2>2, AddTyped
      <3> QED
        BY <2>1, <3>1, <3>2, CountedFinite, FS_AddElement
    <2>3. CASE ~(x.status = "POSTED" /\ Add(x.date, TypeOf[r]) /\ d = x.date /\ ty = TypeOf[r])
      <3>1. Counted(d, ty)' = Counted(d, ty)
        BY <1>1, <2>3 DEF Counted
      <3>2. batch'[d][ty].count = batch[d][ty].count
        BY <1>2, <2>3, AddTyped
      <3> QED
        BY <2>1, <3>1, <3>2
    <2> QED
      BY <2>2, <2>3
  <1> QED
    BY <1>3 DEF TotalsTell, Counted

LEMMA TotalsStep == StateTyped /\ TotalsTell /\ [Next]_vars => TotalsTell'
  <1> SUFFICES ASSUME StateTyped, TotalsTell, [Next]_vars PROVE TotalsTell'
    OBVIOUS
  <1>1. ASSUME NEW r \in Request, PostVoucher(r) PROVE TotalsTell'
    <2>1. row[r] = NoRow /\ row[r].status # "POSTED"
      BY <1>1, PostTyped DEF NoRow
    <2>2. CASE UNCHANGED <<row, batch>>
      BY <2>2 DEF TotalsTell
    <2>3. CASE ~UNCHANGED <<row, batch>>
      <3>1. PICK x \in RowType :
              /\ row' = [row EXCEPT ![r] = x]
              /\ \/ x.status = "POSTED" /\ Add(x.date, TypeOf[r])
                 \/ x.status = "PENDING_AUTH" /\ UNCHANGED batch
        BY <1>1, <2>3, PostTyped
      <3> QED
        BY <2>1, <3>1, OneMore
    <2> QED
      BY <2>2, <2>3
  <1>2. ASSUME NEW r \in Request, Approve(r) \/ Reject(r) PROVE TotalsTell'
    <2>1. row[r].status # "POSTED"
      BY <1>2 DEF Approve, Reject, Pending
    <2>2. PICK x \in RowType :
            /\ row' = [row EXCEPT ![r] = x] /\ x.date = row[r].date
            /\ \/ x.status = "POSTED" /\ Add(x.date, TypeOf[r])
               \/ x.status = "REJECTED" /\ UNCHANGED batch
      BY <1>2, DecisionTyped
    <2> QED
      BY <2>1, <2>2, OneMore
  <1>3. ASSUME UNCHANGED row,
               \A e \in Date, t \in Type : batch'[e][t].count = batch[e][t].count
        PROVE  TotalsTell'
    BY <1>3 DEF TotalsTell
  <1>4. ASSUME NEW r \in Request, Create(r) PROVE TotalsTell'
    BY <1>3, <1>4, CreateTyped DEF Create
  <1>5. ASSUME NEW d \in Date, BeginDay(d) \/ BeginDayEnd(d) \/ EndDay(d) PROVE TotalsTell'
    <2>1. UNCHANGED row
      BY <1>5 DEF BeginDay, BeginDayEnd, EndDay, TurnDay
    <2>2. \A e \in Date, t \in Type : batch'[e][t].count = batch[e][t].count
      BY <1>5, EndDayTyped DEF BeginDay, BeginDayEnd
    <2> QED
      BY <1>3, <2>1, <2>2
  <1>6. CASE UNCHANGED <<row, batch>>
    BY <1>3, <1>6
  <1> QED
    BY <1>1, <1>2, <1>4, <1>5, <1>6
    DEF Next, vars, GateHit, GateMiss, Find, Fill, Lapse, FirstPage, NextPage

LEMMA TotalsInit == Init => TotalsTell
  <1> SUFFICES ASSUME Init, NEW d \in Date, NEW ty \in Type
               PROVE  batch[d][ty].count = Cardinality(Counted(d, ty))
    BY DEF TotalsTell, Counted
  <1>1. Counted(d, ty) = {}
    BY DEF Init, Counted
  <1>2. batch[d][ty].count = 0
    BY DEF Init
  <1> QED
    BY <1>1, <1>2, FS_EmptySet

\* The control totals of a batch are those of the vouchers of its date and type that
\* are posted, at whatever time they came and whatever copy of the date let them in
\* (ledger.service.ts: resolveBatch and addToBatchTotals).
THEOREM ServiceInvHolds == Spec => []ServiceInv
  <1>1. StateTyped /\ PagesInv /\ TotalsTell => ServiceInv
    BY DEF StateTyped, PagesInv, ServiceInv, TypeOK, Totals
  <1>2. Spec => []TotalsTell
    BY TypedHolds, TotalsInit, TotalsStep, PTL DEF Spec
  <1> QED
    BY <1>1, <1>2, TypedHolds, PagesHold, PTL
=============================================================================
