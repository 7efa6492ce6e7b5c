---------------------------- MODULE LedgerProofs ----------------------------
(***************************************************************************)
(* Theorems about the posting engine, for every set of accounts, users,    *)
(* branches, slabs and entries: types, four eyes, floors of accounts, and  *)
(* the books, whose totals are sums (SumTheorems).                         *)
(***************************************************************************)
EXTENDS Ledger, SumTheorems, SequenceTheorems

----------------------------------------------------------------------------
(* Facts about the operators the handlers are built from.                  *)

\* The blank slip of a voucher that does not exist is a slip.
LEMMA BlankSlipType == BlankSlip \in Slip
  BY LedgerConstants DEF BlankSlip, Slip, TxnType, Legs

\* Flipping the legs of lines gives lines, and flipping them twice gives the same.
LEMMA FlipTwice ==
  ASSUME NEW e \in EntryType
  PROVE  Flip(e) \in EntryType /\ Flip(Flip(e)) = e
  <1>1. PICK n \in Nat : e \in [1..n -> Line]
    BY SeqDef DEF EntryType
  <1>2. \A i \in 1..n : /\ e[i] = [account |-> e[i].account, side |-> e[i].side,
                                   amount |-> e[i].amount]
                        /\ e[i].side \in DrCr /\ e[i].amount \in Nat
                        /\ e[i].account \in Account
    BY <1>1 DEF Line
  <1>3. \A i \in 1..n : Flip(e)[i] = [account |-> e[i].account, side |-> Other(e[i].side),
                                      amount |-> e[i].amount]
    BY <1>1, <1>2 DEF Flip
  <1>4. DOMAIN Flip(e) = 1..n /\ Flip(e) = [i \in 1..n |-> Flip(e)[i]]
    BY <1>1 DEF Flip
  <1>5. Flip(e) \in [1..n -> Line]
    <2>1. \A i \in 1..n : Other(e[i].side) \in DrCr
      BY DEF Other, DrCr
    <2>2. ASSUME NEW i \in 1..n PROVE Flip(e)[i] \in Line
      <3>1. PICK a \in Account, d \in DrCr, m \in Nat :
               Flip(e)[i] = [account |-> a, side |-> d, amount |-> m]
        BY <1>2, <1>3, <2>1
      <3> QED
        BY <3>1 DEF Line
    <2> QED
      BY <1>4, <2>2
  <1>6. Flip(e) \in EntryType
    BY <1>5, SeqDef DEF EntryType
  <1>7. \A i \in 1..n : Flip(Flip(e))[i] = e[i]
    <2>1. \A i \in 1..n : Flip(Flip(e))[i] = [Flip(e)[i] EXCEPT !.side = Other(@)]
      BY <1>4 DEF Flip
    <2>2. \A i \in 1..n : Other(Other(e[i].side)) = e[i].side
      BY <1>2 DEF Other, DrCr
    <2>3. ASSUME NEW i \in 1..n
          PROVE  Flip(Flip(e))[i] = [account |-> e[i].account, side |-> e[i].side,
                                     amount |-> e[i].amount]
      <3>1. PICK a, d, m : /\ a = e[i].account /\ d = e[i].side /\ m = e[i].amount
                           /\ Flip(e)[i] = [account |-> a, side |-> Other(d), amount |-> m]
        BY <1>3
      <3>2. Flip(Flip(e))[i] = [account |-> a, side |-> Other(Other(d)), amount |-> m]
        BY <2>1, <3>1
      <3> QED
        BY <2>2, <3>1, <3>2
    <2> QED
      BY <1>2, <2>3
  <1>8. Flip(Flip(e)) = [i \in 1..n |-> Flip(Flip(e))[i]]
    BY <1>4 DEF Flip
  <1> QED
    BY <1>1, <1>6, <1>7, <1>8

\* The lines of a reversal, and of its reversal, are again ones the model knows.
LEMMA FlipLegs == ASSUME NEW e \in Legs PROVE Flip(e) \in Legs
  <1>1. CASE e \in Entry
    BY <1>1 DEF Legs
  <1>2. CASE e \in {Flip(d) : d \in Entry}
    BY <1>2, FlipTwice, LedgerConstants DEF Legs
  <1>3. CASE e = NoEntry
    <2>1. Flip(NoEntry) = NoEntry
      BY DEF Flip, NoEntry
    <2> QED
      BY <1>3, <2>1 DEF Legs
  <1>4. QED
    BY <1>1, <1>2, <1>3 DEF Legs

\* The lines of a voucher, of its reversal and of no voucher are lines.
LEMMA LegsType == Legs \subseteq EntryType
  <1>1. NoEntry \in EntryType
    BY DEF NoEntry, EntryType
  <1> QED
    BY <1>1, FlipTwice, LedgerConstants DEF Legs

\* What a voucher has: finitely many lines, each with an account, a side and an
\* amount.
LEMMA LinesOf ==
  ASSUME NEW e \in Legs
  PROVE  /\ DOMAIN e = 1..Len(e) /\ Len(e) \in Nat /\ IsFiniteSet(DOMAIN e)
         /\ \A i \in DOMAIN e : e[i].account \in Account /\ e[i].side \in DrCr
                                /\ e[i].amount \in Nat
  <1>1. e \in Seq(Line)
    BY LegsType DEF EntryType
  <1>2. DOMAIN e = 1..Len(e) /\ Len(e) \in Nat /\ \A i \in 1..Len(e) : e[i] \in Line
    BY <1>1, LenProperties, ElementOfSeq
  <1>3. IsFiniteSet(1..Len(e))
    BY <1>2, FS_Interval
  <1> QED
    BY <1>2, <1>3 DEF Line

\* What a voucher debits in all, and what it credits, is an amount.
LEMMA LinesSum ==
  ASSUME NEW e \in Legs
  PROVE  Debits(e) \in Nat /\ Credits(e) \in Nat
  <1>1. ASSUME NEW side PROVE SumFunction(On(e, side)) \in Nat
    <2>1. DOMAIN On(e, side) = DOMAIN e /\ IsFiniteSet(DOMAIN e)
      BY LinesOf DEF On
    <2>2. \A i \in DOMAIN e : On(e, side)[i] \in Nat
      BY LinesOf DEF On
    <2> QED
      BY <2>1, <2>2, SumNat DEF SumFunction
  <1> QED
    BY <1>1 DEF Debits, Credits

\* signedDelta of every line is an integer, so any of them add up to one.
LEMMA SignedType ==
  ASSUME NEW e \in Legs
  PROVE  DOMAIN Signed(e) = DOMAIN e /\ Summable(Signed(e), DOMAIN e)
  <1>1. \A i \in DOMAIN e : Signed(e)[i] \in Int
    BY LinesOf DEF Signed
  <1> QED
    BY <1>1, LinesOf DEF Signed, Summable

\* signedDelta, netted per account, is an integer.
LEMMA NetType == ASSUME NEW e \in Legs, NEW a PROVE Net(e, a) \in Int
  <1>1. PICK s : s = {i \in DOMAIN e : e[i].account = a}
    OBVIOUS
  <1>2. Summable(Signed(e), s)
    BY <1>1, SignedType, FS_Subset DEF Summable
  <1> QED
    BY <1>1, <1>2, SumInt DEF Net

\* The number of approvals a voucher is given is a natural number.
LEMMA RequiredType ==
  ASSUME NEW b, NEW ty, NEW amount, NEW n \in RequiredApprovals(b, ty, amount)
  PROVE  n \in Nat
  BY LedgerConstants DEF RequiredApprovals, Slabs, PolicyType

----------------------------------------------------------------------------
(* Type correctness.  Levels count approvals, so the rows of               *)
(* authorization_step have to be finite as well as well typed.             *)

TypeInv == TypeOK /\ IsFiniteSet(steps)

\* countApprovals counts: the approvals of a voucher are finitely many.
LEMMA ApprovalsCount ==
  ASSUME TypeInv, NEW v
  PROVE  /\ IsFiniteSet(Approvals(v))
         /\ Cardinality(Approvals(v)) \in Nat
  <1>1. Approvals(v) \subseteq steps
    BY DEF Approvals
  <1>2. QED
    BY <1>1, FS_Subset, FS_CardinalityType DEF TypeInv

\* The writes of a posting keep balances, running balances and batches typed.
LEMMA PostType ==
  ASSUME TypeInv, NEW v \in Voucher, NEW s \in Slip, Post(v, s)
  PROVE  /\ balance' \in [Account -> Int]
         /\ after' \in [Voucher -> Seq(Int)]
         /\ batch' \in [Branch -> [TxnType -> [total : Nat, count : Nat]]]
  <1>1. s.entry \in Legs /\ s.branch \in Branch /\ s.type \in TxnType
    BY DEF Slip
  <1>2. \A a \in Account : balance[a] + Net(s.entry, a) \in Int
    BY <1>1, NetType DEF TypeInv, TypeOK
  <1>3. balance' \in [Account -> Int] /\ after' \in [Voucher -> Seq(Int)]
    <2> DEFINE e == s.entry
               row == [i \in DOMAIN e |-> balance[e[i].account] + Net(e, e[i].account)]
    <2>1. row \in [1..Len(e) -> Int] /\ Len(e) \in Nat
      BY <1>1, <1>2, LinesOf
    <2>2. row \in Seq(Int)
      BY <2>1, SeqDef
    <2>3. after' = [after EXCEPT ![v] = row] /\ balance' = [a \in Account |-> balance[a] + Net(e, a)]
      BY DEF Post, MoveMoney
    <2> HIDE DEF row, e
    <2>4. \A a \in Account : balance[a] + Net(e, a) \in Int
      BY <1>2 DEF e
    <2> QED
      BY <2>2, <2>3, <2>4 DEF TypeInv, TypeOK
  <1>4. Debits(s.entry) \in Nat
    BY <1>1, LinesSum
  <1>5. batch' \in [Branch -> [TxnType -> [total : Nat, count : Nat]]]
    <2> DEFINE old == batch[s.branch][s.type]
               new == [total |-> old.total + Debits(s.entry), count |-> old.count + 1]
    <2>1. old \in [total : Nat, count : Nat]
      BY <1>1 DEF TypeInv, TypeOK
    <2>2. new \in [total : Nat, count : Nat]
      BY <2>1, <1>4
    <2>3. batch' = [batch EXCEPT ![s.branch] = [batch[s.branch] EXCEPT ![s.type] = new]]
      BY DEF Post, AddToBatch
    <2>4. QED
      BY <1>1, <2>2, <2>3 DEF TypeInv, TypeOK
  <1>6. QED
    BY <1>3, <1>5

\* writeOutbox appends events, so the outbox stays a sequence of events.
LEMMA AnnounceType ==
  ASSUME outbox \in Seq(Event), NEW v \in Voucher, NEW types \in Seq(EventType),
         Announce(types, v)
  PROVE  outbox' \in Seq(Event)
  <1> DEFINE new == [i \in 1..Len(types) |-> [type |-> types[i], voucher |-> v]]
  <1>1. new \in Seq(Event)
    BY DEF Event, EventType
  <1>2. outbox' = outbox \o new
    BY DEF Announce
  <1>3. QED
    BY <1>1, <1>2, ConcatProperties

\* Entering a voucher, with or without posting it, keeps the tables typed.
LEMMA EnterType ==
  ASSUME TypeInv, NEW v \in Voucher, NEW s \in Slip,
         NEW st \in [Voucher -> Status],
         NEW ev \in {"voucher.created", "voucher.reversal_created"},
         Enter(v, s, st, ev)
  PROVE  TypeInv'
  <1>1. slip' \in [Voucher -> Slip] /\ lastSeq' \in [Branch -> Nat] /\ steps' = steps
    BY DEF Enter, TypeInv, TypeOK, Slip
  <1>2. status' \in [Voucher -> Status]
    BY DEF Enter, Status
  <1>3. outbox' \in Seq(Event)
    <2> /\ <<ev, "voucher.posted">> \in Seq(EventType)
        /\ <<ev>> \in Seq(EventType)
      BY DEF EventType
    <2>1. CASE Announce(<<ev, "voucher.posted">>, v)
      BY <2>1, AnnounceType DEF TypeInv, TypeOK
    <2>2. CASE Announce(<<ev>>, v)
      BY <2>2, AnnounceType DEF TypeInv, TypeOK
    <2>3. QED
      BY <2>1, <2>2 DEF Enter
  <1>4. /\ balance' \in [Account -> Int]
        /\ after' \in [Voucher -> Seq(Int)]
        /\ batch' \in [Branch -> [TxnType -> [total : Nat, count : Nat]]]
    <2>1. CASE Post(v, s)
      BY <2>1, PostType
    <2>2. CASE NoPosting
      BY <2>2 DEF NoPosting, TypeInv, TypeOK
    <2>3. QED
      BY <2>1, <2>2 DEF Enter
  <1>5. QED
    BY <1>1, <1>2, <1>3, <1>4 DEF TypeInv, TypeOK

\* An approval or rejection adds one finite, well-typed row of authorization_step.
LEMMA DecideType ==
  ASSUME TypeInv, NEW v \in Voucher, NEW u \in User,
         NEW d \in {"APPROVED", "REJECTED"}, Decide(v, u, d)
  PROVE  steps' \subseteq Step /\ IsFiniteSet(steps')
  <1> DEFINE step == [voucher |-> v, level |-> Cardinality(Approvals(v)) + 1,
                      actor |-> u, decision |-> d]
  <1>1. step \in Step
    BY ApprovalsCount DEF Step
  <1>2. steps' = steps \cup {step}
    BY DEF Decide
  <1>3. IsFiniteSet(steps \cup {step})
    BY FS_AddElement DEF TypeInv
  <1>4. QED
    BY <1>1, <1>2, <1>3 DEF TypeInv, TypeOK

\* Every handler takes well-typed tables to well-typed tables.
THEOREM TypeStep == TypeInv /\ [Next]_vars => TypeInv'
  <1> SUFFICES ASSUME TypeInv, [Next]_vars PROVE TypeInv'
    OBVIOUS
  <1> USE DEF TypeInv
  <1>1. ASSUME NEW v \in Voucher, NEW u \in User, NEW ty \in TxnType, NEW e \in Entry,
               CreateVoucher(v, u, ty, e)
        PROVE  TypeInv'
    <2>1. PICK n \in RequiredApprovals(HomeBranch[u], ty, Debits(e)) :
             Enter(v, [branch |-> HomeBranch[u], type |-> ty, maker |-> u, entry |-> e,
                       required |-> n, number |-> NextNumber(HomeBranch[u]),
                       reversalOf |-> NoVoucher], status, "voucher.created")
      BY <1>1 DEF CreateVoucher
    <2>2. n \in Nat /\ NextNumber(HomeBranch[u]) \in Nat
      BY RequiredType, LedgerConstants DEF NextNumber, TypeOK
    <2>3. e \in Legs
      BY DEF Legs
    <2>4. [branch |-> HomeBranch[u], type |-> ty, maker |-> u, entry |-> e,
           required |-> n, number |-> NextNumber(HomeBranch[u]),
           reversalOf |-> NoVoucher] \in Slip
      BY <2>2, <2>3, LedgerConstants DEF Slip
    <2>5. QED
      BY <2>1, <2>4, EnterType DEF TypeOK
  <1>2. ASSUME NEW v \in Voucher, NEW u \in User, ApproveVoucher(v, u)
        PROVE  TypeInv'
    <2>1. steps' \subseteq Step /\ IsFiniteSet(steps')
      BY <1>2, DecideType DEF ApproveVoucher
    <2>2. slip[v] \in Slip /\ <<"voucher.posted">> \in Seq(EventType)
      BY DEF TypeOK, EventType
    <2>3. CASE Post(v, slip[v]) /\ status' = [status EXCEPT ![v] = "POSTED"]
               /\ Announce(<<"voucher.posted">>, v)
      <3>1. outbox' \in Seq(Event)
        BY <2>2, <2>3, AnnounceType DEF TypeOK
      <3>2. QED
        BY <1>2, <2>1, <2>2, <2>3, <3>1, PostType DEF ApproveVoucher, TypeOK, Status
    <2>4. CASE NoPosting /\ UNCHANGED <<status, outbox>>
      BY <1>2, <2>1, <2>4 DEF ApproveVoucher, NoPosting, TypeOK
    <2>5. QED
      BY <1>2, <2>3, <2>4 DEF ApproveVoucher
  <1>3. ASSUME NEW v \in Voucher, NEW u \in User, RejectVoucher(v, u)
        PROVE  TypeInv'
    <2>1. steps' \subseteq Step /\ IsFiniteSet(steps')
      BY <1>3, DecideType DEF RejectVoucher
    <2>2. outbox' \in Seq(Event)
      <3>1. <<"voucher.rejected">> \in Seq(EventType)
        BY DEF EventType
      <3>2. QED
        BY <1>3, <3>1, AnnounceType DEF RejectVoucher, TypeOK
    <2>3. QED
      BY <1>3, <2>1, <2>2 DEF RejectVoucher, NoPosting, TypeOK, Status
  <1>4. ASSUME NEW v \in Voucher, NEW w \in Voucher, NEW u \in User, ReverseVoucher(v, w, u)
        PROVE  TypeInv'
    <2>1. PICK n \in RequiredApprovals(HomeBranch[u], slip[v].type, Debits(slip[v].entry)) :
             Enter(w, Contra(v, u, n), [status EXCEPT ![v] = "REVERSED"],
                   "voucher.reversal_created")
      BY <1>4 DEF ReverseVoucher
    <2>2. n \in Nat /\ NextNumber(HomeBranch[u]) \in Nat
      BY RequiredType, LedgerConstants DEF NextNumber, TypeOK
    <2>3. Contra(v, u, n) \in Slip
      BY <2>2, FlipLegs, LedgerConstants DEF Contra, Slip, TypeOK
    <2>4. [status EXCEPT ![v] = "REVERSED"] \in [Voucher -> Status]
      BY DEF TypeOK, Status
    <2>5. QED
      BY <2>1, <2>3, <2>4, EnterType
  <1>5. CASE UNCHANGED vars
    BY <1>5 DEF vars, TypeOK
  <1>6. QED
    BY <1>1, <1>2, <1>3, <1>4, <1>5 DEF Next

\* Type correctness together with the finiteness of authorization_step, which
\* countApprovals needs, in every reachable state.
THEOREM TypeInvariant == Spec => []TypeInv
  <1>1. Init => TypeInv
    BY BlankSlipType, FS_EmptySet, LedgerConstants
    DEF Init, TypeInv, TypeOK, Status, TxnType
  <1>2. QED
    BY <1>1, TypeStep, PTL DEF Spec

\* TypeOK: every reachable state is well typed, whatever the constants.
THEOREM TypeCorrect == Spec => []TypeOK
  <1>1. TypeInv => TypeOK
    BY DEF TypeInv
  <1>2. QED
    BY <1>1, TypeInvariant, PTL

----------------------------------------------------------------------------
(* Four eyes.  FourEyes is not inductive alone: that a new voucher has no  *)
(* decisions yet rests on there being none for vouchers that do not exist. *)

Unborn == \A v \in Voucher : status[v] = "NONE" => ActorsOf(v) = {}

FourEyesInv == TypeInv /\ Unborn /\ FourEyes

\* A new voucher comes without decisions, and leaves those of others alone.
LEMMA EnterFourEyes ==
  ASSUME FourEyesInv, NEW v \in Voucher, NEW s \in Slip, NEW st \in [Voucher -> Status],
         \A w \in Voucher \ {v} : st[w] = status[w] \/ {st[w], status[w]} = {"POSTED", "REVERSED"},
         NEW ev, Enter(v, s, st, ev)
  PROVE  Unborn' /\ FourEyes'
  <1>1. steps' = steps /\ status[v] = "NONE" /\ slip'[v] = s
        /\ \A w \in Voucher \ {v} : slip'[w] = slip[w]
    BY DEF Enter, FourEyesInv, TypeInv, TypeOK
  <1>2. \A w \in Voucher \ {v} : status'[w] = st[w]
    BY DEF Enter
  <1>3. status'[v] = (IF s.required = 0 THEN "POSTED" ELSE "PENDING_AUTH")
    BY DEF Enter
  <1>4. \A w : Approvals(w)' = Approvals(w) /\ ActorsOf(w)' = ActorsOf(w)
    BY <1>1 DEF Approvals, ActorsOf
  <1>5. Approvals(v) = {} /\ ActorsOf(v) = {}
    BY <1>1 DEF FourEyesInv, Unborn, ActorsOf, Approvals
  <1>6. Unborn'
    BY <1>2, <1>3, <1>4, <1>5 DEF Unborn, FourEyesInv
  <1>7. ASSUME NEW w \in Voucher
        PROVE  LET n == Cardinality(Approvals(w)')
               IN  /\ w \in Posted' => n = slip'[w].required
                   /\ status'[w] = "PENDING_AUTH" => n < slip'[w].required
                   /\ {x.level : x \in Approvals(w)'} = 1..n
                   /\ Cardinality({x.actor : x \in Approvals(w)'}) = n
                   /\ slip'[w].maker \notin ActorsOf(w)'
    <2>1. CASE w = v
      <3>1. Cardinality({}) = 0
        BY FS_EmptySet
      <3>2. {x.level : x \in {}} = 1..0 /\ {x.actor : x \in {}} = {}
        OBVIOUS
      <3>3. s.required \in Nat
        BY DEF Slip
      <3>4. QED
        BY <1>1, <1>3, <1>4, <1>5, <2>1, <3>1, <3>2, <3>3 DEF Posted
    <2>2. CASE w # v
      BY <1>1, <1>2, <1>4, <2>2 DEF FourEyesInv, FourEyes, Posted
    <2>3. QED
      BY <2>1, <2>2
  <1>8. QED
    BY <1>6, <1>7 DEF FourEyes

\* A decision adds one row for a person who had none on this voucher.
LEMMA DecideFourEyes ==
  ASSUME FourEyesInv, NEW v \in Voucher, NEW u \in User, MayDecide(v, u),
         NEW d \in {"APPROVED", "REJECTED"}, Decide(v, u, d)
  PROVE  LET n == Cardinality(Approvals(v))
             m == IF d = "APPROVED" THEN n + 1 ELSE n
         IN  /\ n \in Nat
             /\ Cardinality(Approvals(v)') = m
             /\ {x.level : x \in Approvals(v)'} = 1..m
             /\ Cardinality({x.actor : x \in Approvals(v)'}) = m
             /\ slip[v].maker \notin ActorsOf(v)'
             /\ \A w : w # v => Approvals(w)' = Approvals(w) /\ ActorsOf(w)' = ActorsOf(w)
  <1> DEFINE n == Cardinality(Approvals(v))
             step == [voucher |-> v, level |-> n + 1, actor |-> u, decision |-> d]
  <1>1. steps' = steps \cup {step}
    BY DEF Decide
  <1>2. n \in Nat /\ IsFiniteSet(Approvals(v))
    BY ApprovalsCount DEF FourEyesInv
  <1>3. ASSUME NEW w, w # v
        PROVE  Approvals(w)' = Approvals(w) /\ ActorsOf(w)' = ActorsOf(w)
    <2>1. step.voucher # w
      BY <1>3
    <2>2. {t \in steps' : t.voucher = w} = {t \in steps : t.voucher = w}
      <3> HIDE DEF step
      <3>1. QED
        BY <1>1, <2>1
    <2>3. Approvals(w)' = Approvals(w)
      <3> HIDE DEF step
      <3>1. QED
        BY <1>1, <2>1 DEF Approvals
    <2>4. ActorsOf(w)' = ActorsOf(w)
      BY <2>2, Zenon DEF ActorsOf
    <2>5. QED
      BY <2>3, <2>4
  <1>4. slip[v].maker \notin ActorsOf(v)'
    <2>1. ASSUME NEW t \in steps', t.voucher = v PROVE t.actor # slip[v].maker
      <3>1. CASE t = step
        BY <3>1 DEF MayDecide
      <3>2. CASE t \in steps
        <4>1. t.actor \in ActorsOf(v)
          BY <2>1, <3>2 DEF ActorsOf
        <4>2. QED
          BY <4>1 DEF FourEyesInv, FourEyes
      <3>3. QED
        BY <1>1, <3>1, <3>2
    <2>2. QED
      BY <2>1 DEF ActorsOf
  <1>5. CASE d = "REJECTED"
    <2>1. Approvals(v)' = Approvals(v)
      BY <1>1, <1>5 DEF Approvals
    <2>2. QED
      BY <1>2, <1>3, <1>4, <1>5, <2>1 DEF FourEyesInv, FourEyes
  <1>6. CASE d = "APPROVED"
    <2> DEFINE actors == {x.actor : x \in Approvals(v)}
    <2>1. Approvals(v)' = Approvals(v) \cup {step}
      BY <1>1, <1>6 DEF Approvals
    <2>2. u \notin actors
      <3>1. \A x \in Approvals(v) : x \in {t \in steps : t.voucher = v}
        BY DEF Approvals
      <3>2. \A x \in Approvals(v) : x.actor \in ActorsOf(v)
        BY <3>1 DEF ActorsOf
      <3>3. u \notin ActorsOf(v)
        BY DEF MayDecide
      <3>4. QED
        BY <3>2, <3>3
    <2>3. step \notin Approvals(v)
      <3>1. step.actor = u
        OBVIOUS
      <3>2. QED
        BY <2>2, <3>1
    <2>4. Cardinality(Approvals(v)') = n + 1
      BY <1>2, <2>1, <2>3, FS_AddElement
    <2>5. {x.level : x \in Approvals(v)'} = (1..n) \cup {n + 1}
      <3>1. {x.level : x \in Approvals(v)} = 1..n
        BY DEF FourEyesInv, FourEyes
      <3>2. step.level = n + 1
        OBVIOUS
      <3>3. {x.level : x \in Approvals(v) \cup {step}}
              = {x.level : x \in Approvals(v)} \cup {step.level}
        OBVIOUS
      <3> HIDE DEF step
      <3>4. QED
        BY <2>1, <3>1, <3>2, <3>3
    <2>6. {x.actor : x \in Approvals(v)'} = actors \cup {u}
      <3>1. step.actor = u
        OBVIOUS
      <3> HIDE DEF step
      <3>2. QED
        BY <2>1, <3>1
    <2>7. IsFiniteSet(actors) /\ Cardinality(actors) = n
      <3>1. Approvals(v) \subseteq Step
        BY DEF Approvals, FourEyesInv, TypeInv, TypeOK
      <3>2. actors \subseteq User
        BY <3>1 DEF Step
      <3>3. IsFiniteSet(actors)
        BY <3>2, FS_Subset, LedgerConstants
      <3>4. Cardinality(actors) = n
        BY DEF FourEyesInv, FourEyes
      <3>5. QED
        BY <3>3, <3>4
    <2>8. Cardinality(actors \cup {u}) = n + 1
      <3> HIDE DEF actors
      <3>1. QED
        BY <2>2, <2>7, FS_AddElement
    <2>9. (1..n) \cup {n + 1} = 1..(n + 1)
      BY <1>2
    <2>10. QED
      <3> HIDE DEF actors, step
      <3>1. QED
        BY <1>2, <1>3, <1>4, <1>6, <2>4, <2>5, <2>6, <2>8, <2>9
  <1>7. QED
    BY <1>5, <1>6

\* What is left to show of one voucher after a decision on v.
LEMMA DecidedFourEyes ==
  ASSUME FourEyesInv, NEW v \in Voucher, NEW u \in User, MayDecide(v, u),
         NEW d \in {"APPROVED", "REJECTED"}, Decide(v, u, d), slip' = slip,
         \A w \in Voucher \ {v} : status'[w] = status[w],
         LET m == Cardinality(Approvals(v)')
         IN  \/ status'[v] = "REJECTED"
             \/ status'[v] = "POSTED" /\ m = slip[v].required
             \/ status'[v] = "PENDING_AUTH" /\ m < slip[v].required
  PROVE  Unborn' /\ FourEyes'
  <1>1. /\ \A w : w # v => Approvals(w)' = Approvals(w) /\ ActorsOf(w)' = ActorsOf(w)
        /\ {x.level : x \in Approvals(v)'} = 1..Cardinality(Approvals(v)')
        /\ Cardinality({x.actor : x \in Approvals(v)'}) = Cardinality(Approvals(v)')
        /\ slip[v].maker \notin ActorsOf(v)'
    BY DecideFourEyes
  <1>2. Unborn'
    BY <1>1 DEF Unborn, FourEyesInv
  <1>3. ASSUME NEW w \in Voucher
        PROVE  LET n == Cardinality(Approvals(w)')
               IN  /\ w \in Posted' => n = slip'[w].required
                   /\ status'[w] = "PENDING_AUTH" => n < slip'[w].required
                   /\ {x.level : x \in Approvals(w)'} = 1..n
                   /\ Cardinality({x.actor : x \in Approvals(w)'}) = n
                   /\ slip'[w].maker \notin ActorsOf(w)'
    <2>1. CASE w = v
      BY <1>1, <2>1 DEF Posted
    <2>2. CASE w # v
      BY <1>1, <2>2 DEF FourEyesInv, FourEyes, Posted
    <2>3. QED
      BY <2>1, <2>2
  <1>4. QED
    BY <1>2, <1>3 DEF FourEyes

\* No handler breaks the four-eyes rule: the decisions on a voucher are of
\* different people, fill its levels in order, and post it with the last one.
THEOREM FourEyesStep == FourEyesInv /\ [Next]_vars => FourEyesInv'
  <1> SUFFICES ASSUME FourEyesInv, [Next]_vars PROVE Unborn' /\ FourEyes'
    BY TypeStep DEF FourEyesInv
  <1>t. TypeInv
    BY DEF FourEyesInv
  <1>1. ASSUME NEW v \in Voucher, NEW u \in User, NEW ty \in TxnType, NEW e \in Entry,
               CreateVoucher(v, u, ty, e)
        PROVE  Unborn' /\ FourEyes'
    <2>1. PICK n \in RequiredApprovals(HomeBranch[u], ty, Debits(e)) :
             Enter(v, [branch |-> HomeBranch[u], type |-> ty, maker |-> u, entry |-> e,
                       required |-> n, number |-> NextNumber(HomeBranch[u]),
                       reversalOf |-> NoVoucher], status, "voucher.created")
      BY <1>1 DEF CreateVoucher
    <2>2. [branch |-> HomeBranch[u], type |-> ty, maker |-> u, entry |-> e,
           required |-> n, number |-> NextNumber(HomeBranch[u]),
           reversalOf |-> NoVoucher] \in Slip
      BY <1>t, RequiredType, LedgerConstants DEF NextNumber, TypeInv, TypeOK, Legs, Slip
    <2>3. QED
      BY <1>t, <2>1, <2>2, EnterFourEyes DEF TypeInv, TypeOK
  <1>2. ASSUME NEW v \in Voucher, NEW u \in User, ApproveVoucher(v, u)
        PROVE  Unborn' /\ FourEyes'
    <2> DEFINE n == Cardinality(Approvals(v))
    <2>1. n \in Nat /\ Cardinality(Approvals(v)') = n + 1
      BY <1>2, DecideFourEyes DEF ApproveVoucher
    <2>2. n < slip[v].required /\ slip[v].required \in Nat /\ status[v] = "PENDING_AUTH"
      BY <1>2, <1>t DEF ApproveVoucher, MayDecide, FourEyesInv, FourEyes, TypeInv, TypeOK, Slip
    <2>3. \/ status'[v] = "POSTED" /\ n + 1 = slip[v].required
          \/ status'[v] = "PENDING_AUTH" /\ n + 1 < slip[v].required
      BY <1>2, <1>t, <2>1, <2>2 DEF ApproveVoucher, TypeInv, TypeOK
    <2>4. slip' = slip /\ \A w \in Voucher \ {v} : status'[w] = status[w]
      BY <1>2, <1>t DEF ApproveVoucher, TypeInv, TypeOK
    <2>5. MayDecide(v, u) /\ Decide(v, u, "APPROVED")
      BY <1>2 DEF ApproveVoucher
    <2>6. QED
      BY <2>1, <2>3, <2>4, <2>5, DecidedFourEyes
  <1>3. ASSUME NEW v \in Voucher, NEW u \in User, RejectVoucher(v, u)
        PROVE  Unborn' /\ FourEyes'
    <2>1. /\ MayDecide(v, u) /\ Decide(v, u, "REJECTED") /\ slip' = slip
          /\ status'[v] = "REJECTED" /\ \A w \in Voucher \ {v} : status'[w] = status[w]
      BY <1>3, <1>t DEF RejectVoucher, TypeInv, TypeOK
    <2>2. QED
      BY <2>1, DecidedFourEyes
  <1>4. ASSUME NEW v \in Voucher, NEW w \in Voucher, NEW u \in User, ReverseVoucher(v, w, u)
        PROVE  Unborn' /\ FourEyes'
    <2>1. PICK n \in RequiredApprovals(HomeBranch[u], slip[v].type, Debits(slip[v].entry)) :
             Enter(w, Contra(v, u, n), [status EXCEPT ![v] = "REVERSED"],
                   "voucher.reversal_created")
      BY <1>4 DEF ReverseVoucher
    <2>2. n \in Nat /\ NextNumber(HomeBranch[u]) \in Nat
      BY <1>t, RequiredType, LedgerConstants DEF NextNumber, TypeInv, TypeOK
    <2>3. Contra(v, u, n) \in Slip
      BY <1>t, <2>2, FlipLegs, LedgerConstants DEF Contra, Slip, TypeInv, TypeOK
    <2>4. /\ [status EXCEPT ![v] = "REVERSED"] \in [Voucher -> Status]
          /\ \A x \in Voucher : \/ [status EXCEPT ![v] = "REVERSED"][x] = status[x]
                               \/ {[status EXCEPT ![v] = "REVERSED"][x], status[x]}
                                    = {"POSTED", "REVERSED"}
      BY <1>4, <1>t DEF ReverseVoucher, TypeInv, TypeOK, Status
    <2>5. QED
      BY <2>1, <2>3, <2>4, EnterFourEyes
  <1>5. CASE UNCHANGED vars
    BY <1>5 DEF vars, FourEyesInv, Unborn, FourEyes, Posted, Approvals, ActorsOf
  <1>6. QED
    BY <1>1, <1>2, <1>3, <1>4, <1>5 DEF Next

\* The inductive invariant behind four eyes holds in every reachable state.
THEOREM FourEyesInvariant == Spec => []FourEyesInv
  <1>1. Init => FourEyesInv
    <2> SUFFICES ASSUME Init PROVE FourEyesInv
      OBVIOUS
    <2>1. TypeInv
      BY BlankSlipType, FS_EmptySet, LedgerConstants
      DEF Init, TypeInv, TypeOK, Status, TxnType
    <2>2. \A v : Approvals(v) = {} /\ ActorsOf(v) = {}
      BY DEF Init, Approvals, ActorsOf
    <2>3. Cardinality({}) = 0 /\ {x.level : x \in {}} = 1..0 /\ {x.actor : x \in {}} = {}
      BY FS_EmptySet
    <2>4. FourEyes
      BY <2>2, <2>3 DEF FourEyes, Init, Posted
    <2>5. QED
      BY <2>1, <2>2, <2>4 DEF FourEyesInv, Unborn
  <1>2. QED
    BY <1>1, FourEyesStep, PTL DEF Spec

\* FourEyes: in every reachable state a voucher that moved money was approved by
\* as many different people as its slab asks for, none of them its maker.
THEOREM FourEyesHolds == Spec => []FourEyes
  <1>1. FourEyesInv => FourEyes
    BY DEF FourEyesInv
  <1>2. QED
    BY <1>1, FourEyesInvariant, PTL

----------------------------------------------------------------------------
(* Money leaves an account only within its available balance.              *)

FundsStep == \A a \in Account : balance'[a] < balance[a] => balance'[a] >= Reserved[a]

\* A posting takes its money after Covers has looked at the same balances.
LEMMA PostKeepsFunds ==
  ASSUME TypeInv, NEW v, NEW s, s.entry \in Legs, Post(v, s)
  PROVE  FundsStep
  <1> SUFFICES ASSUME NEW a \in Account, balance'[a] < balance[a]
               PROVE  balance'[a] >= Reserved[a]
    BY DEF FundsStep
  <1>1. balance[a] \in Int /\ Net(s.entry, a) \in Int /\ Reserved[a] \in Int
    BY NetType, LedgerConstants DEF TypeInv, TypeOK
  <1>2. balance'[a] = balance[a] + Net(s.entry, a)
    BY DEF Post, MoveMoney
  <1>3. Net(s.entry, a) < 0
    BY <1>1, <1>2
  <1>4. balance[a] - Reserved[a] >= -Net(s.entry, a)
    BY <1>3 DEF Post, Covers
  <1>5. QED
    BY <1>1, <1>2, <1>4

\* A voucher that posts as it is entered keeps the floor of its accounts too.
LEMMA EnterKeepsFunds ==
  ASSUME TypeInv, NEW v, NEW s, s.entry \in Legs, NEW st, NEW ev, Enter(v, s, st, ev)
  PROVE  FundsStep
  <1>1. CASE Post(v, s)
    BY <1>1, PostKeepsFunds
  <1>2. CASE NoPosting
    BY <1>2 DEF NoPosting, FundsStep, TypeInv, TypeOK
  <1>3. QED
    BY <1>1, <1>2 DEF Enter

\* No handler takes an account that loses money below its floor.
THEOREM FundsKeptStep == TypeInv /\ [Next]_vars => FundsStep
  <1> SUFFICES ASSUME TypeInv, [Next]_vars PROVE FundsStep
    OBVIOUS
  <1>0. CASE balance' = balance
    BY <1>0 DEF FundsStep, TypeInv, TypeOK
  <1>1. ASSUME NEW v \in Voucher, NEW u \in User, NEW ty \in TxnType, NEW e \in Entry,
               CreateVoucher(v, u, ty, e)
        PROVE  FundsStep
    BY <1>1, EnterKeepsFunds DEF CreateVoucher, Legs
  <1>2. ASSUME NEW v \in Voucher, NEW u \in User, ApproveVoucher(v, u)
        PROVE  FundsStep
    <2>1. slip[v].entry \in Legs
      BY DEF TypeInv, TypeOK, Slip
    <2>2. QED
      BY <1>0, <1>2, <2>1, PostKeepsFunds DEF ApproveVoucher, NoPosting
  <1>3. ASSUME NEW v \in Voucher, NEW u \in User, RejectVoucher(v, u)
        PROVE  FundsStep
    BY <1>0, <1>3 DEF RejectVoucher, NoPosting
  <1>4. ASSUME NEW v \in Voucher, NEW w \in Voucher, NEW u \in User, ReverseVoucher(v, w, u)
        PROVE  FundsStep
    <2>1. \A n : Contra(v, u, n).entry \in Legs
      BY FlipLegs DEF Contra, TypeInv, TypeOK, Slip
    <2>2. QED
      BY <1>4, <2>1, EnterKeepsFunds DEF ReverseVoucher
  <1>5. CASE UNCHANGED vars
    BY <1>0, <1>5 DEF vars
  <1>6. QED
    BY <1>1, <1>2, <1>3, <1>4, <1>5 DEF Next

\* FundsKept: no step takes an account down to less than its floor, however many
\* vouchers were created against the same money before one of them posted.
THEOREM FundsKeptHolds == Spec => FundsKept
  <1>1. TypeInv /\ [Next]_vars =>
          [\A a \in Account : balance'[a] < balance[a] => balance'[a] >= Reserved[a]]_vars
    BY FundsKeptStep DEF FundsStep
  <1>2. QED
    BY <1>1, TypeInvariant, PTL DEF Spec, FundsKept


----------------------------------------------------------------------------
(* The books.  BooksBalance, RunningBalances and PostedOnce are sums over  *)
(* what has been posted, so a step is looked at twice: for the money it    *)
(* moves, if any, and for the voucher it enters, if any.                   *)

\* Vouchers that exist have lines that balance.
LinesBalanced == \A v \in Voucher : status[v] # "NONE" => Balanced(slip[v].entry)

\* The balance of an account is the last line of its statement.
StatementSum == \A a \in Account : balance[a] = Opening[a] + MovedBy(Postings, a)

\* What each handler keeps of the books, with the types it rests on.
BooksInv ==
  /\ TypeInv
  /\ LinesBalanced
  /\ GaplessNumbers
  /\ EventsTellAll
  /\ PostedOnce
  /\ BooksBalance
  /\ StatementSum
  /\ RunningBalances

\* The step enters voucher v, under the number that follows, and no other.
Enters(v) ==
  /\ status[v] = "NONE" /\ status'[v] # "NONE"
  /\ slip'[v] \in Slip
  /\ Balanced(slip'[v].entry)
  /\ slip'[v].number = lastSeq[slip'[v].branch] + 1
  /\ lastSeq' = [lastSeq EXCEPT ![slip'[v].branch] = slip'[v].number]
  /\ \A w \in Voucher \ {v} : slip'[w] = slip[w] /\ (status'[w] = "NONE" <=> status[w] = "NONE")

\* The step enters no voucher.
EntersNone ==
  /\ slip' = slip /\ lastSeq' = lastSeq
  /\ \A w \in Voucher : (status'[w] = "NONE" <=> status[w] = "NONE")

\* The step posts voucher v, and the last event it writes says so.
Moves(v) ==
  /\ v \notin Posted /\ Posted' = Posted \cup {v}
  /\ \A w \in Posted : slip'[w] = slip[w]
  /\ MoveMoney(v, slip'[v].entry)
  /\ AddToBatch(slip'[v].branch, slip'[v].type, Debits(slip'[v].entry))
  /\ \A i \in 1..Len(outbox) : outbox'[i] = outbox[i]
  /\ Len(outbox') > Len(outbox)
  /\ outbox'[Len(outbox')].voucher = v
  /\ Postings' = Postings \cup {Len(outbox')}

\* The step posts nothing, and the outbox tells of no posting.
MovesNone ==
  /\ balance' = balance /\ after' = after /\ batch' = batch
  /\ Posted' = Posted
  /\ \A w \in Posted : slip'[w] = slip[w]
  /\ \A i \in 1..Len(outbox) : outbox'[i] = outbox[i]
  /\ Postings' = Postings

\* What EventsTellAll says of one voucher.
Tells(v) ==
  LET entered == IF slip[v].reversalOf = NoVoucher THEN "voucher.created"
                 ELSE "voucher.reversal_created"
      ended == IF status[v] = "REJECTED" THEN "voucher.rejected" ELSE "voucher.posted"
  IN  \/ status[v] = "NONE" /\ EventsOn(v) = {}
      \/ /\ status[v] = "PENDING_AUTH"
         /\ \E i \in EventsOn(v) : EventsOn(v) = {i} /\ outbox[i].type = entered
      \/ /\ status[v] \in {"REJECTED", "POSTED", "REVERSED"}
         /\ \E i, j \in EventsOn(v) :
               /\ EventsOn(v) = {i, j} /\ i < j
               /\ outbox[i].type = entered /\ outbox[j].type = ended

\* EventsTellAll says Tells of every voucher.
LEMMA TellsAll == EventsTellAll <=> \A v \in Voucher : Tells(v)
  BY DEF EventsTellAll, Tells

----------------------------------------------------------------------------
(* Steps                                                                   *)

\* One event is written behind the others.
LEMMA AnnounceOne ==
  ASSUME outbox \in Seq(Event), NEW t, NEW v, Announce(<<t>>, v)
  PROVE  /\ Len(outbox) \in Nat /\ Len(outbox') = Len(outbox) + 1
         /\ \A i \in 1..Len(outbox) : outbox'[i] = outbox[i]
         /\ outbox'[Len(outbox) + 1] = [type |-> t, voucher |-> v]
         /\ \A w : EventsOn(w)' = EventsOn(w) \cup (IF w = v THEN {Len(outbox) + 1} ELSE {})
         /\ Postings' = Postings \cup (IF t = "voucher.posted" THEN {Len(outbox) + 1} ELSE {})
  <1> DEFINE n == Len(outbox)
             new == <<[type |-> t, voucher |-> v]>>
  <1>1. [i \in 1..Len(<<t>>) |-> [type |-> <<t>>[i], voucher |-> v]] = new
    OBVIOUS
  <1>2. outbox' = outbox \o new
    BY <1>1 DEF Announce
  <1>3. n \in Nat /\ Len(outbox') = n + 1
    BY <1>2
  <1>4. \A i \in 1..n : outbox'[i] = outbox[i]
    BY <1>2
  <1>5. outbox'[n + 1] = [type |-> t, voucher |-> v]
    BY <1>2
  <1>6. 1..Len(outbox') = (1..n) \cup {n + 1} /\ n + 1 \notin 1..n
    BY <1>3
  <1>7. outbox'[n + 1].type = t /\ outbox'[n + 1].voucher = v
    BY <1>5
  <1> HIDE DEF new
  <1>8. ASSUME NEW w
        PROVE  EventsOn(w)' = EventsOn(w) \cup (IF w = v THEN {n + 1} ELSE {})
    BY <1>4, <1>6, <1>7 DEF EventsOn
  <1>9. Postings' = Postings \cup (IF t = "voucher.posted" THEN {n + 1} ELSE {})
    BY <1>4, <1>6, <1>7 DEF Postings
  <1> QED
    BY <1>3, <1>4, <1>5, <1>8, <1>9

\* Two events of one transaction are written one behind the other.
LEMMA AnnounceTwo ==
  ASSUME outbox \in Seq(Event), NEW t, NEW u, NEW v, Announce(<<t, u>>, v), t # "voucher.posted"
  PROVE  /\ Len(outbox) \in Nat /\ Len(outbox') = Len(outbox) + 2
         /\ \A i \in 1..Len(outbox) : outbox'[i] = outbox[i]
         /\ outbox'[Len(outbox) + 1] = [type |-> t, voucher |-> v]
         /\ outbox'[Len(outbox) + 2] = [type |-> u, voucher |-> v]
         /\ \A w : EventsOn(w)' =
              EventsOn(w) \cup (IF w = v THEN {Len(outbox) + 1, Len(outbox) + 2} ELSE {})
         /\ Postings' = Postings \cup (IF u = "voucher.posted" THEN {Len(outbox) + 2} ELSE {})
  <1> DEFINE n == Len(outbox)
             new == <<[type |-> t, voucher |-> v], [type |-> u, voucher |-> v]>>
  <1>1. [i \in 1..Len(<<t, u>>) |-> [type |-> <<t, u>>[i], voucher |-> v]] = new
    OBVIOUS
  <1>2. outbox' = outbox \o new
    BY <1>1 DEF Announce
  <1>3. n \in Nat /\ Len(outbox') = n + 2
    BY <1>2
  <1>4. \A i \in 1..n : outbox'[i] = outbox[i]
    BY <1>2
  <1>5. /\ outbox'[n + 1] = [type |-> t, voucher |-> v]
        /\ outbox'[n + 2] = [type |-> u, voucher |-> v]
    BY <1>2
  <1>6. 1..Len(outbox') = (1..n) \cup {n + 1, n + 2}
    BY <1>3
  <1>7. /\ outbox'[n + 1].type = t /\ outbox'[n + 1].voucher = v
        /\ outbox'[n + 2].type = u /\ outbox'[n + 2].voucher = v
    BY <1>5
  <1> HIDE DEF new
  <1>8. ASSUME NEW w
        PROVE  EventsOn(w)' = EventsOn(w) \cup (IF w = v THEN {n + 1, n + 2} ELSE {})
    BY <1>4, <1>6, <1>7 DEF EventsOn
  <1>9. Postings' = Postings \cup (IF u = "voucher.posted" THEN {n + 2} ELSE {})
    BY <1>4, <1>6, <1>7 DEF Postings
  <1> QED
    BY <1>3, <1>4, <1>5, <1>8, <1>9

\* The contra of lines that balance is lines that balance.
LEMMA FlipBalanced == ASSUME NEW e \in Legs, Balanced(e) PROVE Balanced(Flip(e))
  <1>1. DOMAIN Flip(e) = DOMAIN e
    BY DEF Flip
  <1>2. \A i \in DOMAIN e : /\ Flip(e)[i].amount = e[i].amount
                            /\ Flip(e)[i].side = Other(e[i].side)
    <2>1. e \in Seq(Line)
      BY LegsType DEF EntryType
    <2>2. \A i \in DOMAIN e : e[i] \in Line
      BY <2>1, LinesOf, ElementOfSeq
    <2> QED
      BY <2>2 DEF Flip, Line
  <1>3. On(Flip(e), "DEBIT") = On(e, "CREDIT") /\ On(Flip(e), "CREDIT") = On(e, "DEBIT")
    BY <1>1, <1>2, LinesOf DEF On, Other, DrCr
  <1> QED
    BY <1>3 DEF Balanced, Debits, Credits

\* What createVoucher and reverseVoucher enter: lines that balance, under the
\* next number and the event of their kind, with no other voucher's status
\* changed but that of an original that becomes REVERSED.
EntersAs(v, s, st, ev) ==
  /\ v \in Voucher /\ s \in Slip /\ st \in [Voucher -> Status]
  /\ \A w \in Voucher \ {v} : st[w] = status[w] \/ (status[w] = "POSTED" /\ st[w] = "REVERSED")
  /\ Balanced(s.entry)
  /\ s.number = NextNumber(s.branch)
  /\ ev = IF s.reversalOf = NoVoucher THEN "voucher.created" ELSE "voucher.reversal_created"
  /\ Enter(v, s, st, ev)

\* Every step but an approval and a rejection enters a voucher.
LEMMA NextKinds ==
  ASSUME TypeInv, LinesBalanced, Next
  PROVE  \/ \E v, s, st, ev : EntersAs(v, s, st, ev)
         \/ \E v \in Voucher, u \in User : ApproveVoucher(v, u) \/ RejectVoucher(v, u)
  <1>1. ASSUME NEW v \in Voucher, NEW u \in User, NEW ty \in TxnType, NEW e \in Entry,
               CreateVoucher(v, u, ty, e)
        PROVE  \E s, st, ev : EntersAs(v, s, st, ev)
    <2>1. PICK n \in RequiredApprovals(HomeBranch[u], ty, Debits(e)) :
             Enter(v, [branch |-> HomeBranch[u], type |-> ty, maker |-> u, entry |-> e,
                       required |-> n, number |-> NextNumber(HomeBranch[u]),
                       reversalOf |-> NoVoucher], status, "voucher.created")
      BY <1>1 DEF CreateVoucher
    <2> DEFINE s == [branch |-> HomeBranch[u], type |-> ty, maker |-> u, entry |-> e,
                     required |-> n, number |-> NextNumber(HomeBranch[u]),
                     reversalOf |-> NoVoucher]
    <2>2. s \in Slip
      BY RequiredType, LedgerConstants DEF NextNumber, TypeInv, TypeOK, Legs, Slip
    <2>3. Balanced(s.entry) /\ s.number = NextNumber(s.branch) /\ s.reversalOf = NoVoucher
      BY <1>1 DEF CreateVoucher
    <2>4. Enter(v, s, status, "voucher.created")
      BY <2>1
    <2> HIDE DEF s
    <2>5. EntersAs(v, s, status, "voucher.created")
      BY <2>2, <2>3, <2>4 DEF EntersAs, TypeInv, TypeOK
    <2>6. QED
      BY <2>5
  <1>2. ASSUME NEW v \in Voucher, NEW w \in Voucher, NEW u \in User, ReverseVoucher(v, w, u)
        PROVE  \E s, st, ev : EntersAs(w, s, st, ev)
    <2>1. PICK n \in RequiredApprovals(HomeBranch[u], slip[v].type, Debits(slip[v].entry)) :
             Enter(w, Contra(v, u, n), [status EXCEPT ![v] = "REVERSED"],
                   "voucher.reversal_created")
      BY <1>2 DEF ReverseVoucher
    <2> DEFINE s == Contra(v, u, n)
               st == [status EXCEPT ![v] = "REVERSED"]
    <2>2. n \in Nat /\ NextNumber(HomeBranch[u]) \in Nat
      BY RequiredType, LedgerConstants DEF NextNumber, TypeInv, TypeOK
    <2>3. s \in Slip
      BY <2>2, FlipLegs, LedgerConstants DEF Contra, Slip, TypeInv, TypeOK
    <2>4. /\ Balanced(slip[v].entry)
          /\ s.entry = Flip(slip[v].entry)
          /\ s.number = NextNumber(s.branch) /\ s.reversalOf = v /\ v # NoVoucher
      BY <1>2, LedgerConstants DEF ReverseVoucher, LinesBalanced, Contra
    <2>5. /\ st \in [Voucher -> Status]
          /\ \A x \in Voucher : st[x] = status[x] \/ (status[x] = "POSTED" /\ st[x] = "REVERSED")
      BY <1>2 DEF ReverseVoucher, TypeInv, TypeOK, Status
    <2>6. Balanced(s.entry)
      BY <2>4, FlipBalanced DEF TypeInv, TypeOK, Slip
    <2>7. Enter(w, s, st, "voucher.reversal_created")
      BY <2>1
    <2> HIDE DEF s, st
    <2>8. EntersAs(w, s, st, "voucher.reversal_created")
      BY <2>3, <2>4, <2>5, <2>6, <2>7 DEF EntersAs
    <2>9. QED
      BY <2>8
  <1>3. QED
    BY <1>1, <1>2 DEF Next

\* What is left unsaid of a voucher that a step does not touch.
LEMMA TellsStill ==
  ASSUME NEW w, Tells(w), outbox \in Seq(Event), EventsOn(w)' = EventsOn(w),
         \A i \in 1..Len(outbox) : outbox'[i] = outbox[i],
         slip'[w].reversalOf = slip[w].reversalOf,
         status'[w] = status[w] \/ (status[w] = "POSTED" /\ status'[w] = "REVERSED")
  PROVE  Tells(w)'
  <1>1. \A i \in EventsOn(w) : outbox'[i] = outbox[i]
    BY DEF EventsOn
  <1>2. QED
    BY <1>1 DEF Tells

\* A new voucher takes the next number of its branch and says so in the outbox;
\* with no approval required it moves its money in the same step.
LEMMA EntersAsStep ==
  ASSUME TypeInv, EventsTellAll, NEW v, NEW s, NEW st, NEW ev, EntersAs(v, s, st, ev)
  PROVE  Enters(v) /\ (MovesNone \/ Moves(v)) /\ EventsTellAll'
  <1> DEFINE n == Len(outbox)
  <1>1. /\ v \in Voucher /\ s \in Slip /\ st \in [Voucher -> Status]
        /\ Enter(v, s, st, ev) /\ Balanced(s.entry) /\ s.number = lastSeq[s.branch] + 1
        /\ s.required \in Nat /\ ev # "voucher.posted"
    BY DEF EntersAs, Slip, NextNumber
  <1>2. /\ status[v] = "NONE" /\ slip' = [slip EXCEPT ![v] = s] /\ slip'[v] = s
        /\ \A w \in Voucher \ {v} : slip'[w] = slip[w]
        /\ lastSeq' = [lastSeq EXCEPT ![s.branch] = s.number]
    BY <1>1 DEF Enter, TypeInv, TypeOK
  <1>3. /\ status'[v] = IF s.required = 0 THEN "POSTED" ELSE "PENDING_AUTH"
        /\ \A w \in Voucher \ {v} : status'[w] = st[w]
    BY <1>1 DEF Enter
  <1>4. \A w \in Voucher \ {v} :
           status'[w] = status[w] \/ (status[w] = "POSTED" /\ status'[w] = "REVERSED")
    BY <1>3 DEF EntersAs
  <1>5. Enters(v)
    BY <1>1, <1>2, <1>3, <1>4 DEF Enters
  <1>6. v \notin Posted /\ \A w \in Posted : w \in Voucher \ {v} /\ slip'[w] = slip[w]
    BY <1>2 DEF Posted
  <1>7. EventsOn(v) = {}
    BY <1>1, <1>2 DEF EventsTellAll
  <1>8. outbox \in Seq(Event)
    BY DEF TypeInv, TypeOK
  <1>9. CASE s.required = 0
    <2>1. Post(v, s) /\ Announce(<<ev, "voucher.posted">>, v) /\ status'[v] = "POSTED"
      BY <1>1, <1>3, <1>9 DEF Enter
    <2>2. /\ n \in Nat /\ Len(outbox') = n + 2
          /\ \A i \in 1..n : outbox'[i] = outbox[i]
          /\ outbox'[n + 1] = [type |-> ev, voucher |-> v]
          /\ outbox'[n + 2] = [type |-> "voucher.posted", voucher |-> v]
          /\ \A w : EventsOn(w)' = EventsOn(w) \cup (IF w = v THEN {n + 1, n + 2} ELSE {})
          /\ Postings' = Postings \cup {n + 2}
      BY <1>1, <1>8, <2>1, AnnounceTwo
    <2>3. Posted' = Posted \cup {v}
      BY <1>1, <1>4, <2>1 DEF Posted
    <2>4. Moves(v)
      BY <1>2, <1>6, <2>1, <2>2, <2>3 DEF Moves, Post
    <2>5. ASSUME NEW w \in Voucher PROVE Tells(w)'
      <3>1. CASE w = v
        <4>1. EventsOn(v)' = {n + 1, n + 2} /\ n + 1 < n + 2
          BY <1>7, <2>2
        <4>2. outbox'[n + 1].type = ev /\ outbox'[n + 2].type = "voucher.posted"
          BY <2>2
        <4>3. ev = IF slip'[v].reversalOf = NoVoucher THEN "voucher.created"
                   ELSE "voucher.reversal_created"
          BY <1>2 DEF EntersAs
        <4> QED
          BY <2>1, <3>1, <4>1, <4>2, <4>3 DEF Tells
      <3>2. CASE w # v
        <4>1. EventsOn(w)' = EventsOn(w)
          BY <2>2, <3>2
        <4>2. Tells(w)
          BY TellsAll
        <4> QED
          BY <1>2, <1>4, <1>8, <2>2, <3>2, <4>1, <4>2, TellsStill
      <3> QED
        BY <3>1, <3>2
    <2>6. EventsTellAll'
      BY <2>5 DEF EventsTellAll, Tells
    <2> QED
      BY <1>5, <2>4, <2>6
  <1>10. CASE s.required # 0
    <2>1. NoPosting /\ Announce(<<ev>>, v) /\ status'[v] = "PENDING_AUTH"
      BY <1>1, <1>3, <1>10 DEF Enter
    <2>2. /\ n \in Nat /\ Len(outbox') = n + 1
          /\ \A i \in 1..n : outbox'[i] = outbox[i]
          /\ outbox'[n + 1] = [type |-> ev, voucher |-> v]
          /\ \A w : EventsOn(w)' = EventsOn(w) \cup (IF w = v THEN {n + 1} ELSE {})
          /\ Postings' = Postings
      BY <1>1, <1>8, <2>1, AnnounceOne
    <2>3. Posted' = Posted
      BY <1>1, <1>2, <1>4, <2>1 DEF Posted
    <2>4. MovesNone
      BY <1>6, <2>1, <2>2, <2>3 DEF MovesNone, NoPosting
    <2>5. ASSUME NEW w \in Voucher PROVE Tells(w)'
      <3>1. CASE w = v
        <4>1. EventsOn(v)' = {n + 1}
          BY <1>7, <2>2
        <4>2. outbox'[n + 1].type = ev
          BY <2>2
        <4>3. ev = IF slip'[v].reversalOf = NoVoucher THEN "voucher.created"
                   ELSE "voucher.reversal_created"
          BY <1>2 DEF EntersAs
        <4> QED
          BY <2>1, <3>1, <4>1, <4>2, <4>3 DEF Tells
      <3>2. CASE w # v
        <4>1. EventsOn(w)' = EventsOn(w)
          BY <2>2, <3>2
        <4>2. Tells(w)
          BY TellsAll
        <4> QED
          BY <1>2, <1>4, <1>8, <2>2, <3>2, <4>1, <4>2, TellsStill
      <3> QED
        BY <3>1, <3>2
    <2>6. EventsTellAll'
      BY <2>5 DEF EventsTellAll, Tells
    <2> QED
      BY <1>5, <2>4, <2>6
  <1> QED
    BY <1>9, <1>10

\* A decision enters no voucher; the one that posts or rejects a voucher is the
\* second thing the outbox tells of it.
LEMMA DecisionStep ==
  ASSUME TypeInv, EventsTellAll, NEW v \in Voucher, NEW u \in User,
         ApproveVoucher(v, u) \/ RejectVoucher(v, u)
  PROVE  EntersNone /\ (MovesNone \/ Moves(v)) /\ EventsTellAll'
  <1> DEFINE n == Len(outbox)
  <1>1. outbox \in Seq(Event) /\ n \in Nat
    BY DEF TypeInv, TypeOK
  <1>2. /\ status[v] = "PENDING_AUTH" /\ slip' = slip /\ lastSeq' = lastSeq
        /\ v \notin Posted /\ Posted \subseteq Voucher
    BY DEF ApproveVoucher, RejectVoucher, MayDecide, Posted
  <1>3. PICK k \in EventsOn(v) :
           /\ EventsOn(v) = {k}
           /\ outbox[k].type = IF slip[v].reversalOf = NoVoucher THEN "voucher.created"
                               ELSE "voucher.reversal_created"
    BY <1>2 DEF EventsTellAll
  <1>4. k \in 1..n
    BY DEF EventsOn
  \* What is left to show once an event has ended the wait of v.
  <1>5. ASSUME NEW st \in {"POSTED", "REJECTED"}, status' = [status EXCEPT ![v] = st],
               Announce(<<IF st = "POSTED" THEN "voucher.posted" ELSE "voucher.rejected">>, v)
        PROVE  /\ EntersNone /\ EventsTellAll'
               /\ \A i \in 1..n : outbox'[i] = outbox[i]
               /\ Len(outbox') = n + 1 /\ outbox'[n + 1].voucher = v
               /\ Postings' = Postings \cup (IF st = "POSTED" THEN {n + 1} ELSE {})
    <2> DEFINE ev == IF st = "POSTED" THEN "voucher.posted" ELSE "voucher.rejected"
    <2>1. /\ Len(outbox') = n + 1
          /\ \A i \in 1..n : outbox'[i] = outbox[i]
          /\ outbox'[n + 1] = [type |-> ev, voucher |-> v]
          /\ \A w : EventsOn(w)' = EventsOn(w) \cup (IF w = v THEN {n + 1} ELSE {})
          /\ Postings' = Postings \cup (IF ev = "voucher.posted" THEN {n + 1} ELSE {})
      BY <1>1, <1>5, AnnounceOne
    <2>2. /\ status'[v] = st
          /\ \A w \in Voucher \ {v} : status'[w] = status[w]
      BY <1>5 DEF TypeInv, TypeOK
    <2>3. EntersNone
      BY <1>2, <2>2 DEF EntersNone
    <2>4. ASSUME NEW w \in Voucher PROVE Tells(w)'
      <3>1. CASE w = v
        <4>1. EventsOn(v)' = {k, n + 1} /\ k < n + 1
          BY <1>1, <1>3, <1>4, <2>1
        <4>2. outbox'[k] = outbox[k] /\ outbox'[n + 1].type = ev
          BY <1>4, <2>1
        <4> QED
          BY <1>2, <1>3, <2>2, <3>1, <4>1, <4>2 DEF Tells
      <3>2. CASE w # v
        <4>1. EventsOn(w)' = EventsOn(w)
          BY <2>1, <3>2
        <4>2. Tells(w)
          BY TellsAll
        <4> QED
          BY <1>1, <1>2, <2>1, <2>2, <3>2, <4>1, <4>2, TellsStill
      <3> QED
        BY <3>1, <3>2
    <2>5. EventsTellAll'
      BY <2>4 DEF EventsTellAll, Tells
    <2> QED
      BY <2>1, <2>3, <2>5
  <1>6. CASE Post(v, slip[v]) /\ status' = [status EXCEPT ![v] = "POSTED"]
             /\ Announce(<<"voucher.posted">>, v)
    <2>1. /\ EntersNone /\ EventsTellAll'
          /\ \A i \in 1..n : outbox'[i] = outbox[i]
          /\ Len(outbox') = n + 1 /\ outbox'[n + 1].voucher = v
          /\ Postings' = Postings \cup {n + 1}
      BY <1>5, <1>6
    <2>2. Posted' = Posted \cup {v}
      BY <1>6 DEF Posted, TypeInv, TypeOK
    <2>3. Moves(v)
      BY <1>1, <1>2, <1>6, <2>1, <2>2 DEF Moves, Post
    <2> QED
      BY <2>1, <2>3
  <1>7. CASE NoPosting /\ status' = [status EXCEPT ![v] = "REJECTED"]
             /\ Announce(<<"voucher.rejected">>, v)
    <2>1. /\ EntersNone /\ EventsTellAll'
          /\ \A i \in 1..n : outbox'[i] = outbox[i]
          /\ Postings' = Postings
      BY <1>5, <1>7
    <2>2. Posted' = Posted
      BY <1>2, <1>7 DEF Posted, TypeInv, TypeOK
    <2>3. MovesNone
      BY <1>2, <1>7, <2>1, <2>2 DEF MovesNone, NoPosting
    <2> QED
      BY <2>1, <2>3
  <1>8. CASE NoPosting /\ UNCHANGED <<status, outbox>>
    <2>1. EntersNone
      BY <1>2, <1>8 DEF EntersNone
    <2>2. MovesNone
      BY <1>2, <1>8 DEF MovesNone, NoPosting, Posted, Postings
    <2>3. EventsTellAll'
      BY <1>2, <1>8 DEF EventsTellAll, EventsOn
    <2> QED
      BY <2>1, <2>2, <2>3
  <1>9. QED
    BY <1>6, <1>7, <1>8 DEF ApproveVoucher, RejectVoucher

\* What any step does to the vouchers, the money and the outbox.
LEMMA BooksSteps ==
  ASSUME TypeInv, LinesBalanced, EventsTellAll, [Next]_vars
  PROVE  /\ EntersNone \/ \E v \in Voucher : Enters(v)
         /\ MovesNone \/ \E v \in Voucher : Moves(v)
         /\ EventsTellAll'
  <1>1. CASE Next
    <2>1. CASE \E v, s, st, ev : EntersAs(v, s, st, ev)
      BY <2>1, EntersAsStep DEF EntersAs
    <2>2. CASE \E v \in Voucher, u \in User : ApproveVoucher(v, u) \/ RejectVoucher(v, u)
      BY <2>2, DecisionStep
    <2> QED
      BY <1>1, <2>1, <2>2, NextKinds
  <1>2. CASE UNCHANGED vars
    <2>1. EntersNone
      BY <1>2 DEF EntersNone, vars
    <2>2. MovesNone
      BY <1>2 DEF MovesNone, vars, Posted, Postings
    <2>3. EventsTellAll'
      BY <1>2 DEF EventsTellAll, EventsOn, vars
    <2> QED
      BY <2>1, <2>2, <2>3
  <1> QED
    BY <1>1, <1>2

----------------------------------------------------------------------------
(* Parts of the invariant                                                  *)

\* Lines are written once, with the voucher they belong to.
LEMMA LinesBalancedStep ==
  ASSUME LinesBalanced, EntersNone \/ \E v \in Voucher : Enters(v)
  PROVE  LinesBalanced'
  <1>1. CASE EntersNone
    BY <1>1 DEF EntersNone, LinesBalanced
  <1>2. CASE \E v \in Voucher : Enters(v)
    <2>1. PICK v \in Voucher : Enters(v)
      BY <1>2
    <2>2. ASSUME NEW w \in Voucher, status'[w] # "NONE" PROVE Balanced(slip'[w].entry)
      BY <2>1, <2>2 DEF Enters, LinesBalanced
    <2> QED
      BY <2>2 DEF LinesBalanced, Balanced, Debits, Credits
  <1> QED
    BY <1>1, <1>2

\* The vouchers that carry a number of branch b.
Issued(b) == {v \in Voucher : status[v] # "NONE" /\ slip[v].branch = b}

\* A number is drawn with the voucher that carries it.
LEMMA GaplessStep ==
  ASSUME TypeInv, GaplessNumbers, EntersNone \/ \E v \in Voucher : Enters(v)
  PROVE  GaplessNumbers'
  <1>1. CASE EntersNone
    <2>1. \A b : Issued(b)' = Issued(b)
      BY <1>1 DEF EntersNone, Issued
    <2>2. QED
      BY <1>1, <2>1 DEF EntersNone, GaplessNumbers, Issued
  <1>2. ASSUME NEW v \in Voucher, Enters(v), NEW b \in Branch
        PROVE  /\ {slip'[w].number : w \in Issued(b)'} = 1..lastSeq'[b]
               /\ Cardinality(Issued(b)') = lastSeq'[b]
    <2>1. /\ lastSeq[b] \in Nat
          /\ {slip[w].number : w \in Issued(b)} = 1..lastSeq[b]
          /\ Cardinality(Issued(b)) = lastSeq[b]
      BY DEF TypeInv, TypeOK, GaplessNumbers, Issued
    <2>2. /\ IsFiniteSet(Issued(b)) /\ v \notin Issued(b)
          /\ \A w \in Issued(b) : slip'[w] = slip[w]
      <3>1. Issued(b) \subseteq Voucher
        BY DEF Issued
      <3> QED
        BY <1>2, <3>1, FS_Subset, LedgerConstants DEF Enters, Issued
    <2>3. CASE slip'[v].branch = b
      <3>1. Issued(b)' = Issued(b) \cup {v}
        BY <1>2, <2>3 DEF Enters, Issued
      <3>2. lastSeq'[b] = lastSeq[b] + 1 /\ slip'[v].number = lastSeq[b] + 1
        BY <1>2, <2>3 DEF Enters, TypeInv, TypeOK
      <3>3. Cardinality(Issued(b)') = lastSeq[b] + 1
        BY <2>1, <2>2, <3>1, FS_AddElement
      <3>4. {slip'[w].number : w \in Issued(b)'} = (1..lastSeq[b]) \cup {lastSeq[b] + 1}
        BY <2>1, <2>2, <3>1, <3>2
      <3>5. (1..lastSeq[b]) \cup {lastSeq[b] + 1} = 1..(lastSeq[b] + 1)
        BY <2>1
      <3> QED
        BY <3>2, <3>3, <3>4, <3>5
    <2>4. CASE slip'[v].branch # b
      <3>1. Issued(b)' = Issued(b) /\ lastSeq'[b] = lastSeq[b]
        BY <1>2, <2>4 DEF Enters, Issued, TypeInv, TypeOK
      <3>2. {slip'[w].number : w \in Issued(b)'} = {slip[w].number : w \in Issued(b)}
        BY <2>2, <3>1
      <3> QED
        BY <2>1, <3>1, <3>2
    <2> QED
      BY <2>3, <2>4
  <1>3. CASE \E v \in Voucher : Enters(v)
    BY <1>2, <1>3 DEF GaplessNumbers, Issued
  <1> QED
    BY <1>1, <1>3

\* A posting moves its net amounts once, and its batch counts it once.
LEMMA PostedOnceStep ==
  ASSUME TypeInv, TypeInv', PostedOnce, MovesNone \/ \E v \in Voucher : Moves(v)
  PROVE  PostedOnce'
  <1>0. Posted \subseteq Voucher /\ IsFiniteSet(Posted)
    BY FS_Subset, LedgerConstants DEF Posted
  <1>1. CASE MovesNone
    <2>1. \A a \in Account : [w \in Posted' |-> Net(slip'[w].entry, a)]
                               = [w \in Posted |-> Net(slip[w].entry, a)]
      BY <1>1 DEF MovesNone
    <2>2. \A b, ty : PostedIn(b, ty)' = PostedIn(b, ty)
      BY <1>1 DEF MovesNone, PostedIn
    <2>3. \A b, ty : [w \in PostedIn(b, ty)' |-> Debits(slip'[w].entry)]
                       = [w \in PostedIn(b, ty) |-> Debits(slip[w].entry)]
      BY <1>1, <2>2 DEF MovesNone, PostedIn
    <2>4. \A w : Debits(slip[w].entry)' = Debits(slip'[w].entry)
      BY DEF Debits
    <2>5. \A a \in Account :
             balance'[a] = Opening[a] + SumFunction([w \in Posted' |-> Net(slip'[w].entry, a)])
      BY <1>1, <2>1 DEF MovesNone, PostedOnce
    <2>6. \A b \in Branch, ty \in TxnType :
             /\ batch'[b][ty].count = Cardinality(PostedIn(b, ty)')
             /\ batch'[b][ty].total =
                  SumFunction([w \in PostedIn(b, ty)' |-> Debits(slip'[w].entry)])
      BY <1>1, <2>2, <2>3 DEF MovesNone, PostedOnce
    <2> QED
      BY <2>5, <2>6 DEF PostedOnce, Net, Debits
  <1>2. ASSUME NEW v \in Voucher, Moves(v) PROVE PostedOnce'
    <2> DEFINE e == slip'[v].entry
    <2>1. /\ v \notin Posted /\ Posted' = Posted \cup {v}
          /\ \A w \in Posted : slip'[w] = slip[w]
          /\ slip'[v] \in Slip
          /\ \A w \in Posted' : slip'[w].entry \in Legs
      BY <1>0, <1>2 DEF Moves, TypeInv, TypeOK, Slip
    <2>2. ASSUME NEW a \in Account
          PROVE  balance'[a] = Opening[a] + SumFunction([w \in Posted' |-> Net(slip'[w].entry, a)])
      <3> DEFINE f == [w \in Posted' |-> Net(slip'[w].entry, a)]
                 g == [w \in Posted |-> Net(slip[w].entry, a)]
      <3>1. /\ DOMAIN g = Posted /\ DOMAIN f = DOMAIN g \cup {v}
            /\ \A w \in DOMAIN f : f[w] \in Int
            /\ \A w \in DOMAIN g : f[w] = g[w]
            /\ f[v] = Net(e, a) /\ v \in DOMAIN f
        BY <2>1, NetType
      <3>2. balance'[a] = balance[a] + Net(e, a)
        BY <1>2 DEF Moves, MoveMoney
      <3>3. balance[a] = Opening[a] + SumFunction(g)
        BY DEF PostedOnce
      <3> HIDE DEF f, g
      <3>4. SumFunction(f) = f[v] + SumFunction(g)
        BY <1>0, <2>1, <3>1, SumFunctionExtend
      <3>5. SumFunction(g) \in Int
        BY <1>0, <3>1, SumInt DEF SumFunction, Summable
      <3>6. Opening[a] \in Int /\ f[v] \in Int
        BY <3>1, LedgerConstants
      <3>7. balance'[a] = Opening[a] + SumFunction(f)
        BY <3>1, <3>2, <3>3, <3>4, <3>5, <3>6
      <3> QED
        BY <3>7 DEF f
    <2>3. ASSUME NEW b \in Branch, NEW ty \in TxnType
          PROVE  /\ batch'[b][ty].count = Cardinality(PostedIn(b, ty)')
                 /\ batch'[b][ty].total =
                      SumFunction([w \in PostedIn(b, ty)' |-> Debits(slip'[w].entry)])
      <3> DEFINE f == [w \in PostedIn(b, ty)' |-> Debits(slip'[w].entry)]
                 g == [w \in PostedIn(b, ty) |-> Debits(slip[w].entry)]
      <3>1. batch[b][ty].count = Cardinality(PostedIn(b, ty)) /\ batch[b][ty].total = SumFunction(g)
        BY DEF PostedOnce
      <3>2. PostedIn(b, ty) \subseteq Posted /\ IsFiniteSet(PostedIn(b, ty))
        BY <1>0, FS_Subset DEF PostedIn
      <3>3. CASE slip'[v].branch = b /\ slip'[v].type = ty
        <4>1. PostedIn(b, ty)' = PostedIn(b, ty) \cup {v} /\ v \notin PostedIn(b, ty)
          BY <2>1, <3>3 DEF PostedIn
        <4>2. Cardinality(PostedIn(b, ty)') = Cardinality(PostedIn(b, ty)) + 1
          BY <3>2, <4>1, FS_AddElement
        <4>3. /\ batch'[b][ty].count = batch[b][ty].count + 1
              /\ batch'[b][ty].total = batch[b][ty].total + Debits(e)
          BY <1>2, <3>3 DEF Moves, AddToBatch, TypeInv, TypeOK
        <4>4. /\ DOMAIN g = PostedIn(b, ty) /\ DOMAIN f = DOMAIN g \cup {v}
              /\ \A w \in DOMAIN f : f[w] \in Int
              /\ \A w \in DOMAIN g : f[w] = g[w]
              /\ f[v] = Debits(e) /\ v \in DOMAIN f
          BY <2>1, <3>2, <4>1, LinesSum
        <4> HIDE DEF f, g
        <4>5. SumFunction(f) = f[v] + SumFunction(g)
          BY <3>2, <4>1, <4>4, SumFunctionExtend
        <4>6. SumFunction(g) \in Int
          BY <3>2, <4>4, SumInt DEF SumFunction, Summable
        <4>7. batch'[b][ty].total = SumFunction(f)
          BY <3>1, <4>3, <4>4, <4>5, <4>6
        <4> QED
          BY <3>1, <4>2, <4>3, <4>7 DEF f
      <3>4. CASE ~(slip'[v].branch = b /\ slip'[v].type = ty)
        <4>1. PostedIn(b, ty)' = PostedIn(b, ty)
          BY <2>1, <3>4 DEF PostedIn
        <4>2. batch'[b][ty] = batch[b][ty]
          <5>1. CASE slip'[v].branch # b
            BY <1>2, <5>1 DEF Moves, AddToBatch, TypeInv, TypeOK
          <5>2. CASE slip'[v].branch = b /\ slip'[v].type # ty
            BY <1>2, <5>2 DEF Moves, AddToBatch, TypeInv, TypeOK
          <5> QED
            BY <3>4, <5>1, <5>2
        <4>3. f = g
          BY <2>1, <3>2, <4>1
        <4> HIDE DEF f, g
        <4>4. batch'[b][ty].total = SumFunction(f)
          BY <3>1, <4>2, <4>3
        <4> QED
          BY <3>1, <4>1, <4>2, <4>4 DEF f
      <3> QED
        BY <3>3, <3>4
    <2> QED
      BY <2>2, <2>3 DEF PostedOnce, Net, Debits
  <1> QED
    BY <1>1, <1>2

----------------------------------------------------------------------------
(* Statements                                                              *)

\* The outbox is finite, and so are the postings it tells of.
LEMMA PostingsFinite ==
  ASSUME TypeInv
  PROVE  Postings \subseteq 1..Len(outbox) /\ IsFiniteSet(Postings) /\ Len(outbox) \in Nat
  <1>1. Len(outbox) \in Nat /\ Postings \subseteq 1..Len(outbox)
    BY DEF TypeInv, TypeOK, Postings
  <1>2. IsFiniteSet(1..Len(outbox))
    BY <1>1, FS_Interval
  <1> QED
    BY <1>1, <1>2, FS_Subset

\* Only a voucher that posted has an event that says so.
LEMMA PostingsPosted ==
  ASSUME TypeInv, EventsTellAll, NEW i \in Postings
  PROVE  outbox[i].voucher \in Posted
  <1> DEFINE v == outbox[i].voucher
  <1>1. i \in 1..Len(outbox) /\ outbox[i].type = "voucher.posted"
    BY DEF Postings
  <1>2. v \in Voucher
    <2>1. outbox[i] \in Event
      BY <1>1 DEF TypeInv, TypeOK
    <2> QED
      BY <2>1 DEF Event
  <1>3. i \in EventsOn(v)
    BY <1>1 DEF EventsOn
  <1> HIDE DEF v
  <1>4. Tells(v)
    BY <1>2, TellsAll
  <1>5. status[v] \in {"POSTED", "REVERSED"}
    BY <1>1, <1>3, <1>4 DEF Tells
  <1> QED
    BY <1>2, <1>5 DEF Posted, v

\* The movements up to a posting that was there before are what they were.
LEMMA MovedStill ==
  ASSUME TypeInv, EventsTellAll, NEW a, NEW js, js \subseteq Postings,
         \A i \in 1..Len(outbox) : outbox'[i] = outbox[i],
         \A w \in Posted : slip'[w] = slip[w]
  PROVE  /\ MovedBy(js, a)' = MovedBy(js, a)
         /\ \A j \in js : Net(slip'[outbox'[j].voucher].entry, a)
                            = Net(slip[outbox[j].voucher].entry, a)
  <1>1. \A j \in js : Net(slip'[outbox'[j].voucher].entry, a)
                        = Net(slip[outbox[j].voucher].entry, a)
    BY PostingsFinite, PostingsPosted
  <1>2. [j \in js |-> Net(slip'[outbox'[j].voucher].entry, a)]
          = [j \in js |-> Net(slip[outbox[j].voucher].entry, a)]
    BY <1>1
  <1>3. MovedBy(js, a)' = SumFunction([j \in js |-> Net(slip'[outbox'[j].voucher].entry, a)])
    BY DEF MovedBy, Told, Net, Signed
  <1> QED
    BY <1>1, <1>2, <1>3 DEF MovedBy, Told

\* The movements up to a new posting are those before it and its own.
LEMMA MovedExtend ==
  ASSUME TypeInv, TypeInv', EventsTellAll, NEW v \in Voucher, Moves(v), NEW a \in Account
  PROVE  /\ MovedBy(Postings, a) \in Int
         /\ MovedBy(Postings, a)' = Net(slip'[v].entry, a) + MovedBy(Postings, a)
  <1> DEFINE n == Len(outbox')
             f == [j \in Postings' |-> Net(slip'[outbox'[j].voucher].entry, a)]
             g == [j \in Postings |-> Net(slip[outbox[j].voucher].entry, a)]
  <1>1. /\ Postings' = Postings \cup {n} /\ n \notin Postings /\ IsFiniteSet(Postings)
        /\ outbox'[n].voucher = v
    BY PostingsFinite DEF Moves, TypeInv, TypeOK
  <1>2. \A j \in Postings : slip[outbox[j].voucher].entry \in Legs
    BY PostingsPosted DEF Posted, TypeInv, TypeOK, Slip
  <1>3. \A j \in Postings : f[j] = g[j] /\ g[j] \in Int
    <2>1. \A j \in Postings : Net(slip'[outbox'[j].voucher].entry, a)
                                = Net(slip[outbox[j].voucher].entry, a)
      BY MovedStill DEF Moves
    <2> QED
      BY <1>1, <1>2, <2>1, NetType
  <1>4. f[n] = Net(slip'[v].entry, a) /\ f[n] \in Int
    <2>1. slip'[v].entry \in Legs
      BY DEF TypeInv, TypeOK, Slip
    <2> QED
      BY <1>1, <2>1, NetType
  <1>5. DOMAIN g = Postings /\ DOMAIN f = DOMAIN g \cup {n}
    BY <1>1
  <1>6. MovedBy(Postings, a)' = SumFunction(f) /\ MovedBy(Postings, a) = SumFunction(g)
    BY DEF MovedBy, Told, Net, Signed
  <1> HIDE DEF f, g, n
  <1>7. SumFunction(f) = f[n] + SumFunction(g)
    BY <1>1, <1>3, <1>4, <1>5, SumFunctionExtend
  <1>8. SumFunction(g) \in Int
    BY <1>1, <1>3, <1>5, SumInt DEF SumFunction, Summable
  <1> QED
    BY <1>4, <1>6, <1>7, <1>8

\* The statement of an account goes on from its last line.
LEMMA StatementStep ==
  ASSUME TypeInv, TypeInv', EventsTellAll, StatementSum, RunningBalances,
         MovesNone \/ \E v \in Voucher : Moves(v)
  PROVE  StatementSum' /\ RunningBalances'
  <1>0. Postings \subseteq 1..Len(outbox) /\ Len(outbox) \in Nat
    BY PostingsFinite
  <1>1. /\ \A i \in 1..Len(outbox) : outbox'[i] = outbox[i]
        /\ \A w \in Posted : slip'[w] = slip[w]
        /\ \A i \in Postings : {j \in Postings' : j <= i} = {j \in Postings : j <= i}
    <2>1. CASE MovesNone
      BY <2>1 DEF MovesNone
    <2>2. CASE \E v \in Voucher : Moves(v)
      <3>1. Len(outbox') \in Nat
        BY DEF TypeInv, TypeOK
      <3> QED
        BY <1>0, <2>2, <3>1 DEF Moves
    <2> QED
      BY <2>1, <2>2
  \* A line that is written stands, and so do the movements up to it.
  <1>2. ASSUME NEW i \in Postings
        PROVE  /\ DOMAIN after'[outbox'[i].voucher] = DOMAIN slip'[outbox'[i].voucher].entry
               /\ \A k \in DOMAIN slip'[outbox'[i].voucher].entry : \A a :
                     a = slip'[outbox'[i].voucher].entry[k].account =>
                        after'[outbox'[i].voucher][k]
                           = Opening[a] + MovedBy({j \in Postings : j <= i}, a)'
    <2>1. outbox'[i] = outbox[i] /\ outbox[i].voucher \in Posted
      BY <1>0, <1>1, PostingsPosted
    <2>2. PICK w \in Posted : w = outbox[i].voucher
      BY <2>1
    <2>3. after'[w] = after[w] /\ slip'[w] = slip[w]
      BY <1>1, <2>1 DEF MovesNone, Moves, MoveMoney, Posted, TypeInv, TypeOK
    <2>4. PICK js : js = {j \in Postings : j <= i} /\ js \subseteq Postings
      OBVIOUS
    <2>5. DOMAIN after[w] = DOMAIN slip[w].entry
      BY <2>2 DEF RunningBalances, Told
    <2>6. ASSUME NEW k \in DOMAIN slip[w].entry, NEW a, a = slip[w].entry[k].account
          PROVE  after[w][k] = Opening[a] + MovedBy({j \in Postings : j <= i}, a)'
      <3>1. after[w][k] = Opening[a] + MovedBy(js, a)
        BY <2>2, <2>4, <2>6 DEF RunningBalances, Told
      <3>2. MovedBy(js, a)' = MovedBy(js, a)
        BY <1>1, <2>4, MovedStill
      <3>3. MovedBy(js, a)' = MovedBy({j \in Postings : j <= i}, a)'
        BY <1>1, <2>4 DEF MovedBy
      <3> QED
        BY <3>1, <3>2, <3>3
    <2> QED
      BY <2>1, <2>2, <2>3, <2>5, <2>6
  <1>3. CASE MovesNone
    <2>1. \A a : MovedBy(Postings, a)' = MovedBy(Postings, a)
      <3> SUFFICES ASSUME NEW a PROVE MovedBy(Postings, a)' = MovedBy(Postings, a)
        OBVIOUS
      <3>1. PICK js : js = Postings
        OBVIOUS
      <3>2. MovedBy(js, a)' = MovedBy(js, a) /\ Postings' = js
        BY <1>1, <1>3, <3>1, MovedStill DEF MovesNone
      <3> QED
        BY <3>1, <3>2 DEF MovedBy
    <2>2. StatementSum'
      BY <1>3, <2>1 DEF MovesNone, StatementSum
    <2>3. RunningBalances'
      BY <1>2, <1>3 DEF MovesNone, RunningBalances, MovedBy, Told
    <2> QED
      BY <2>2, <2>3
  <1>4. ASSUME NEW v \in Voucher, Moves(v) PROVE StatementSum' /\ RunningBalances'
    <2> DEFINE n == Len(outbox')
    <2>1. /\ Postings' = Postings \cup {n} /\ outbox'[n].voucher = v
          /\ n \in Nat /\ n > Len(outbox)
      BY <1>4 DEF Moves, TypeInv, TypeOK
    <2>2. ASSUME NEW a \in Account
          PROVE  /\ balance'[a] = Opening[a] + MovedBy(Postings, a)'
                 /\ balance'[a] = balance[a] + Net(slip'[v].entry, a)
      <3>1. /\ MovedBy(Postings, a) \in Int
            /\ MovedBy(Postings, a)' = Net(slip'[v].entry, a) + MovedBy(Postings, a)
        BY <1>4, MovedExtend
      <3>2. balance'[a] = balance[a] + Net(slip'[v].entry, a)
        BY <1>4 DEF Moves, MoveMoney
      <3>3. balance[a] = Opening[a] + MovedBy(Postings, a)
        BY DEF StatementSum
      <3>4. Opening[a] \in Int /\ Net(slip'[v].entry, a) \in Int
        BY NetType, LedgerConstants DEF TypeInv, TypeOK, Slip
      <3> QED
        BY <3>1, <3>2, <3>3, <3>4
    <2>3. StatementSum'
      BY <2>2 DEF StatementSum
    <2>4. PICK e \in Legs : e = slip'[v].entry
      BY DEF TypeInv, TypeOK, Slip
    <2>5. after'[v] = [k \in DOMAIN e |-> balance[e[k].account] + Net(e, e[k].account)]
      BY <1>4, <2>4 DEF Moves, MoveMoney, TypeInv, TypeOK
    <2>6. ASSUME NEW k \in DOMAIN e, NEW a, a = e[k].account
          PROVE  after'[v][k] = Opening[a] + MovedBy(Postings, a)'
      BY <2>2, <2>4, <2>5, <2>6, LinesOf
    <2>7. ASSUME NEW i \in Postings'
          PROVE  /\ DOMAIN after'[outbox'[i].voucher] = DOMAIN slip'[outbox'[i].voucher].entry
                 /\ \A k \in DOMAIN slip'[outbox'[i].voucher].entry : \A a :
                       a = slip'[outbox'[i].voucher].entry[k].account =>
                          after'[outbox'[i].voucher][k]
                             = Opening[a] + MovedBy({j \in Postings : j <= i}, a)'
      <3>1. CASE i \in Postings
        BY <1>2, <3>1
      <3>2. CASE i = n
        <4>1. {j \in Postings' : j <= i} = Postings'
          <5>1. \A j \in Postings' : j <= n
            BY <1>0, <2>1
          <5> QED
            BY <3>2, <5>1
        <4>2. \A a : MovedBy({j \in Postings : j <= i}, a)' = MovedBy(Postings, a)'
          BY <4>1 DEF MovedBy
        <4>3. outbox'[i].voucher = v /\ DOMAIN after'[v] = DOMAIN e
          BY <2>1, <2>5, <3>2
        <4>4. \A k \in DOMAIN e : \A a : a = e[k].account =>
                 after'[v][k] = Opening[a] + MovedBy({j \in Postings : j <= i}, a)'
          BY <2>6, <4>2
        <4> QED
          BY <2>4, <4>3, <4>4
      <3> QED
        BY <2>1, <3>1, <3>2
    <2>8. RunningBalances'
      BY <2>7 DEF RunningBalances, MovedBy, Told
    <2> QED
      BY <2>3, <2>8
  <1> QED
    BY <1>3, <1>4

----------------------------------------------------------------------------
(* The books balance                                                       *)

\* The lines on the accounts of one side move, in all, what these accounts move.
LEMMA NetOfSide ==
  ASSUME NEW e \in Legs, NEW R \in SUBSET Account
  PROVE  SumFunctionOnSet([a \in Account |-> Net(e, a)], R)
           = SumFunctionOnSet(Signed(e), {i \in DOMAIN e : e[i].account \in R})
  <1> DEFINE f == Signed(e)
             S == DOMAIN e
             k == [i \in S |-> e[i].account]
             g == [a \in Account |-> Net(e, a)]
             G == [a \in Account |-> {i \in S : e[i].account = a}]
             D == {i \in S : e[i].account \in R}
  <1>1. \A r \in R : g[r] = SumFunctionOnSet(f, G[r])
    BY DEF Net
  <1>2. \A x : x \in D <=> x \in S /\ k[x] \in R
    OBVIOUS
  <1>3. \A r \in R : \A x : x \in G[r] <=> x \in S /\ k[x] = r
    OBVIOUS
  <1>4. IsFiniteSet(R) /\ Summable(f, S)
    BY SignedType, LedgerConstants, FS_Subset
  <1> HIDE DEF f, S, k, g, G, D
  <1>5. SumFunctionOnSet(g, R) = SumFunctionOnSet(f, D)
    BY <1>1, <1>2, <1>3, <1>4, SumGroups
  <1> QED
    BY <1>5 DEF f, S, g, D

\* A posting of lines that balance adds as much to the asset accounts as to the
\* liability accounts.
LEMMA MoneyBalances ==
  ASSUME TypeInv, BooksBalance, NEW v, NEW e \in Legs, Balanced(e), MoveMoney(v, e)
  PROVE  BooksBalance'
  <1> DEFINE net == [a \in Account |-> Net(e, a)]
             A == {a \in Account : Side[a] = "ASSET"}
             L == {a \in Account : Side[a] = "LIABILITY"}
             f == Signed(e)
             S == DOMAIN e
             P == {i \in S : e[i].account \in A}
             Q == {i \in S : e[i].account \in L}
             dr == On(e, "DEBIT")
             cr == On(e, "CREDIT")
  <1>1. A \in SUBSET Account /\ L \in SUBSET Account /\ Account \ A = L
        /\ IsFiniteSet(A) /\ IsFiniteSet(L)
    BY LedgerConstants, FS_Subset
  <1>2. \A a \in Account : /\ balance[a] \in Int /\ net[a] \in Int
                           /\ balance'[a] = balance[a] + net[a]
    BY NetType DEF MoveMoney, TypeInv, TypeOK
  <1>3. P \in SUBSET S /\ S \ P = Q /\ IsFiniteSet(S) /\ IsFiniteSet(P) /\ IsFiniteSet(Q)
    <2>1. P \in SUBSET S /\ S \ P = Q /\ Q \subseteq S /\ IsFiniteSet(S)
      BY <1>1, LinesOf
    <2> QED
      BY <2>1, FS_Subset
  <1>4. /\ \A i \in S : dr[i] \in Int /\ cr[i] \in Int /\ f[i] \in Int
        /\ \A i \in P : f[i] = dr[i] - cr[i]
        /\ \A i \in Q : f[i] = cr[i] - dr[i]
    BY LinesOf DEF On, Signed, DrCr
  <1>5. SumFunctionOnSet(net, A) = SumFunctionOnSet(f, P)
        /\ SumFunctionOnSet(net, L) = SumFunctionOnSet(f, Q)
    BY <1>1, NetOfSide
  <1>6. SumFunctionOnSet(dr, S) = SumFunctionOnSet(cr, S)
    <2>1. DOMAIN dr = S /\ DOMAIN cr = S
      BY DEF On
    <2> QED
      BY <2>1 DEF Balanced, Debits, Credits, SumFunction
  <1> HIDE DEF net, A, L, f, S, P, Q, dr, cr
  <1>7. /\ Summable(dr, P) /\ Summable(cr, P) /\ Summable(dr, Q) /\ Summable(cr, Q)
        /\ Summable(dr, S) /\ Summable(cr, S)
        /\ Summable(net, A) /\ Summable(balance, A) /\ Summable(net, L) /\ Summable(balance, L)
    BY <1>1, <1>2, <1>3, <1>4 DEF Summable
  <1>8. PICK dP, dQ, cP, cQ, bA, bL :
           /\ dP = SumFunctionOnSet(dr, P) /\ dQ = SumFunctionOnSet(dr, Q)
           /\ cP = SumFunctionOnSet(cr, P) /\ cQ = SumFunctionOnSet(cr, Q)
           /\ bA = SumFunctionOnSet(balance, A) /\ bL = SumFunctionOnSet(balance, L)
    OBVIOUS
  <1>9. dP \in Int /\ dQ \in Int /\ cP \in Int /\ cQ \in Int /\ bA \in Int /\ bL \in Int
    BY <1>7, <1>8, SumInt
  <1>10. SumFunctionOnSet(net, A) = dP - cP /\ SumFunctionOnSet(net, L) = cQ - dQ
    BY <1>4, <1>5, <1>7, <1>8, SumMinus
  <1>11. /\ SumFunctionOnSet(balance', A) = bA + SumFunctionOnSet(net, A)
         /\ SumFunctionOnSet(balance', L) = bL + SumFunctionOnSet(net, L)
    BY <1>1, <1>2, <1>7, <1>8, SumPlus
  <1>12. dP + dQ = cP + cQ
    BY <1>3, <1>6, <1>7, <1>8, SumSplit
  <1>13. SumFunctionOnSet(balance', A) - SumFunctionOnSet(balance', L) = bA - bL
    BY <1>9, <1>10, <1>11, <1>12
  <1>14. BooksBalance <=> bA - bL = Total(Opening, "ASSET") - Total(Opening, "LIABILITY")
    BY <1>8 DEF BooksBalance, Total, A, L
  <1>15. BooksBalance' <=> SumFunctionOnSet(balance', A) - SumFunctionOnSet(balance', L)
                             = Total(Opening, "ASSET") - Total(Opening, "LIABILITY")
    BY DEF BooksBalance, Total, A, L
  <1> QED
    BY <1>13, <1>14, <1>15

----------------------------------------------------------------------------

\* No handler disturbs the books.
THEOREM BooksStep == BooksInv /\ [Next]_vars => BooksInv'
  <1> SUFFICES ASSUME BooksInv, [Next]_vars PROVE BooksInv'
    OBVIOUS
  <1> USE DEF BooksInv
  <1>1. TypeInv'
    BY TypeStep
  <1>2. /\ EntersNone \/ \E v \in Voucher : Enters(v)
        /\ MovesNone \/ \E v \in Voucher : Moves(v)
        /\ EventsTellAll'
    BY BooksSteps
  <1>3. LinesBalanced'
    BY <1>2, LinesBalancedStep
  <1>4. GaplessNumbers'
    BY <1>2, GaplessStep
  <1>5. PostedOnce'
    BY <1>1, <1>2, PostedOnceStep
  <1>6. StatementSum' /\ RunningBalances'
    BY <1>1, <1>2, StatementStep
  <1>7. BooksBalance'
    <2>1. CASE MovesNone
      BY <2>1 DEF MovesNone, BooksBalance, Total
    <2>2. ASSUME NEW v \in Voucher, Moves(v) PROVE BooksBalance'
      <3>1. slip'[v].entry \in Legs /\ MoveMoney(v, slip'[v].entry)
        BY <1>1, <2>2 DEF Moves, TypeInv, TypeOK, Slip
      <3>2. v \in Posted'
        BY <2>2 DEF Moves
      <3>3. Balanced(slip[v].entry)'
        BY <1>3, <3>2 DEF LinesBalanced, Posted
      <3>4. Balanced(slip'[v].entry)
        BY <3>3 DEF Balanced, Debits, Credits, On
      <3> QED
        BY <3>1, <3>4, MoneyBalances
    <2> QED
      BY <1>2, <2>1, <2>2
  <1> QED
    BY <1>1, <1>2, <1>3, <1>4, <1>5, <1>6, <1>7

\* The inductive invariant behind the books holds in every reachable state.
THEOREM BooksInvariant == Spec => []BooksInv
  <1>1. Init => BooksInv
    <2> SUFFICES ASSUME Init PROVE BooksInv
      OBVIOUS
    <2>1. TypeInv
      BY BlankSlipType, FS_EmptySet, LedgerConstants
      DEF Init, TypeInv, TypeOK, Status, TxnType
    <2>2. Posted = {} /\ Postings = {} /\ \A v : EventsOn(v) = {}
      BY DEF Init, Posted, Postings, EventsOn
    <2>3. LinesBalanced /\ EventsTellAll
      BY <2>2 DEF Init, LinesBalanced, EventsTellAll
    <2>4. GaplessNumbers
      <3>1. \A b : {v \in Voucher : status[v] # "NONE" /\ slip[v].branch = b} = {}
        BY DEF Init
      <3>2. Cardinality({}) = 0 /\ {slip[v].number : v \in {}} = 1..0
        BY FS_EmptySet
      <3> QED
        BY <3>1, <3>2 DEF Init, GaplessNumbers
    <2>5. \A h : DOMAIN h = {} => SumFunction(h) = 0
      BY SumEmpty DEF SumFunction
    <2>6. PostedOnce
      <3>1. \A a : SumFunction([v \in Posted |-> Net(slip[v].entry, a)]) = 0
        BY <2>2, <2>5
      <3>2. \A b, ty : PostedIn(b, ty) = {}
        BY <2>2 DEF PostedIn
      <3>3. \A b, ty : SumFunction([v \in PostedIn(b, ty) |-> Debits(slip[v].entry)]) = 0
        BY <2>5, <3>2
      <3>4. \A a \in Account :
               balance[a] = Opening[a] + SumFunction([v \in Posted |-> Net(slip[v].entry, a)])
        <4> SUFFICES ASSUME NEW a \in Account
                     PROVE  balance[a] = Opening[a]
                              + SumFunction([v \in Posted |-> Net(slip[v].entry, a)])
          OBVIOUS
        <4> DEFINE sum == SumFunction([v \in Posted |-> Net(slip[v].entry, a)])
        <4>1. sum = 0
          BY <3>1
        <4>2. balance[a] = Opening[a] /\ Opening[a] \in Int
          BY LedgerConstants DEF Init
        <4> HIDE DEF sum
        <4>3. balance[a] = Opening[a] + sum
          BY <4>1, <4>2
        <4> QED
          BY <4>3 DEF sum
      <3>5. \A b \in Branch, ty \in TxnType : batch[b][ty] = [total |-> 0, count |-> 0]
        BY DEF Init
      <3>6. \A b \in Branch, ty \in TxnType :
               /\ batch[b][ty].count = Cardinality(PostedIn(b, ty))
               /\ batch[b][ty].total =
                    SumFunction([v \in PostedIn(b, ty) |-> Debits(slip[v].entry)])
        <4>1. \A b, ty : Cardinality(PostedIn(b, ty)) = 0
          BY <3>2, FS_EmptySet
        <4> QED
          BY <3>3, <3>5, <4>1
      <3> QED
        BY <3>4, <3>6 DEF PostedOnce
    <2>7. BooksBalance
      BY DEF Init, BooksBalance
    <2>8. StatementSum /\ RunningBalances
      <3>1. \A a : MovedBy(Postings, a) = 0
        BY <2>2, <2>5 DEF MovedBy
      <3> QED
        BY <2>2, <3>1, LedgerConstants DEF Init, StatementSum, RunningBalances
    <2> QED
      BY <2>1, <2>3, <2>4, <2>6, <2>7, <2>8 DEF BooksInv
  <1>2. QED
    BY <1>1, BooksStep, PTL DEF Spec

\* BooksBalance: asset accounts less liability accounts add up, in every
\* reachable state, to what they did when the branch opened.
THEOREM BooksBalanceHolds == Spec => []BooksBalance
  <1>1. BooksInv => BooksBalance
    BY DEF BooksInv
  <1>2. QED
    BY <1>1, BooksInvariant, PTL

\* PostedOnce: every posted voucher, and no other, is in the balances and in the
\* control totals of its batch, once.
THEOREM PostedOnceHolds == Spec => []PostedOnce
  <1>1. BooksInv => PostedOnce
    BY DEF BooksInv
  <1>2. QED
    BY <1>1, BooksInvariant, PTL

\* RunningBalances: every balance written on a line is what a statement read in
\* posting order comes to.
THEOREM RunningBalancesHolds == Spec => []RunningBalances
  <1>1. BooksInv => RunningBalances
    BY DEF BooksInv
  <1>2. QED
    BY <1>1, BooksInvariant, PTL

\* GaplessNumbers: the numbers of a branch run from one without a gap.
THEOREM GaplessNumbersHolds == Spec => []GaplessNumbers
  <1>1. BooksInv => GaplessNumbers
    BY DEF BooksInv
  <1>2. QED
    BY <1>1, BooksInvariant, PTL

\* EventsTellAll: the outbox tells of each voucher what became of it, once.
THEOREM EventsTellAllHolds == Spec => []EventsTellAll
  <1>1. BooksInv => EventsTellAll
    BY DEF BooksInv
  <1>2. QED
    BY <1>1, BooksInvariant, PTL

=============================================================================
