-------------------------- MODULE RefinementProofs --------------------------
(***************************************************************************)
(* Two refinements, for every set of accounts, users, branches, slabs,     *)
(* vouchers and connections.  The posting engine implements the life of a  *)
(* voucher: every handler of Ledger is a step of VoucherLife or a stutter. *)
(* And the row locks of posting.service.ts make transactions that          *)
(* interleave statement by statement do what Ledger says each does alone.  *)
(***************************************************************************)
EXTENDS PostingLocks, LedgerProofs

----------------------------------------------------------------------------
(* Ledger implements VoucherLife                                           *)

\* What the mapping says of one voucher.
LEMMA MappedAt ==
  ASSUME NEW v \in Voucher
  PROVE  /\ Makers[v] = slip[v].maker
         /\ Missing[v] = slip[v].required - Cardinality(Approvals(v))
         /\ Signers[v] = {x.actor : x \in Approvals(v)}
         /\ Effects[v] = [a \in Account |-> Net(slip[v].entry, a)]
         /\ status[v] = "NONE" => Lives[v] = "none"
         /\ status[v] = "PENDING_AUTH" => Lives[v] = "waiting"
         /\ status[v] = "REJECTED" => Lives[v] = "refused"
         /\ status[v] \in {"POSTED", "REVERSED"} => Lives[v] = "posted"
  BY DEF Makers, Missing, Signers, Effects, Lives

\* The same in the next state.
LEMMA MappedNext ==
  ASSUME NEW v \in Voucher
  PROVE  /\ Makers'[v] = slip'[v].maker
         /\ Missing'[v] = slip'[v].required - Cardinality(Approvals(v)')
         /\ Signers'[v] = {x.actor : x \in Approvals(v)'}
         /\ Effects'[v] = [a \in Account |-> Net(slip'[v].entry, a)]
         /\ status'[v] = "PENDING_AUTH" => Lives'[v] = "waiting"
         /\ status'[v] = "REJECTED" => Lives'[v] = "refused"
         /\ status'[v] \in {"POSTED", "REVERSED"} => Lives'[v] = "posted"
  BY DEF Makers, Missing, Signers, Effects, Lives, Net

\* A voucher whose columns stay keeps its image.
LEMMA MappedSame ==
  ASSUME NEW w \in Voucher, slip'[w] = slip[w], Approvals(w)' = Approvals(w),
         \/ status'[w] = status[w]
         \/ {status'[w], status[w]} = {"POSTED", "REVERSED"}
  PROVE  /\ Makers'[w] = Makers[w] /\ Missing'[w] = Missing[w] /\ Effects'[w] = Effects[w]
         /\ Signers'[w] = Signers[w] /\ Lives'[w] = Lives[w]
  <1>1. Makers'[w] = Makers[w] /\ Missing'[w] = Missing[w] /\ Signers'[w] = Signers[w]
    BY DEF Makers, Missing, Signers
  <1>2. Effects'[w] = Effects[w]
    BY DEF Effects, Net
  <1>3. Lives'[w] = Lives[w]
    BY DEF Lives
  <1>4. QED
    BY <1>1, <1>2, <1>3

\* The images are functions on the vouchers.
LEMMA MappedDomains ==
  /\ Lives = [v \in Voucher |-> Lives[v]] /\ Lives' = [v \in Voucher |-> Lives'[v]]
  /\ Makers = [v \in Voucher |-> Makers[v]] /\ Makers' = [v \in Voucher |-> Makers'[v]]
  /\ Missing = [v \in Voucher |-> Missing[v]] /\ Missing' = [v \in Voucher |-> Missing'[v]]
  /\ Effects = [v \in Voucher |-> Effects[v]] /\ Effects' = [v \in Voucher |-> Effects'[v]]
  /\ Signers = [v \in Voucher |-> Signers[v]] /\ Signers' = [v \in Voucher |-> Signers'[v]]
  BY DEF Lives, Makers, Missing, Effects, Signers

\* Enter, of a handler's transaction, is Enter in the life of a voucher.
LEMMA EnterMaps ==
  ASSUME FourEyesInv, NEW v \in Voucher, NEW s \in Slip, NEW st \in [Voucher -> Status],
         \A w \in Voucher \ {v} : st[w] = status[w] \/ {st[w], status[w]} = {"POSTED", "REVERSED"},
         NEW ev, Enter(v, s, st, ev)
  PROVE  Life!Enter(v)
  <1>1. steps' = steps /\ status[v] = "NONE" /\ slip'[v] = s
        /\ \A w \in Voucher \ {v} : slip'[w] = slip[w] /\ status'[w] = st[w]
    BY DEF Enter, FourEyesInv, TypeInv, TypeOK
  <1>2. \A w : Approvals(w)' = Approvals(w)
    BY <1>1 DEF Approvals
  <1>3. \A w \in Voucher \ {v} :
           /\ Makers'[w] = Makers[w] /\ Missing'[w] = Missing[w] /\ Effects'[w] = Effects[w]
           /\ Signers'[w] = Signers[w] /\ Lives'[w] = Lives[w]
    BY <1>1, <1>2, MappedSame
  <1>4. Signers'[v] = Signers[v]
    <2>1. Approvals(v)' = Approvals(v)
      BY <1>2
    <2>2. QED
      BY <2>1 DEF Signers
  <1>5. /\ Makers' = [Makers EXCEPT ![v] = Makers'[v]]
        /\ Missing' = [Missing EXCEPT ![v] = Missing'[v]]
        /\ Effects' = [Effects EXCEPT ![v] = Effects'[v]]
        /\ Lives' = [Lives EXCEPT ![v] = Lives'[v]]
    BY <1>3, MappedDomains
  <1>6. Signers' = Signers
    BY <1>3, <1>4, MappedDomains
  <1>7. Lives[v] = "none"
    BY <1>1, MappedAt
  <1>8. Missing'[v] = s.required /\ s.required \in Nat
    <2>1. Approvals(v)' = {}
      BY <1>1, <1>2 DEF FourEyesInv, Unborn, Approvals, ActorsOf
    <2>2. Missing'[v] = s.required - Cardinality({})
      BY <1>1, <2>1, MappedNext
    <2>3. QED
      BY <2>2, FS_EmptySet DEF Slip
  <1>9. CASE s.required = 0
    <2>1. status'[v] = "POSTED" /\ Post(v, s)
      BY <1>9 DEF Enter, FourEyesInv, TypeInv, TypeOK
    <2>2. Lives'[v] = "posted"
      BY <2>1, MappedNext
    <2>3. Effects'[v] = [a \in Account |-> Net(s.entry, a)]
      BY <1>1, MappedNext
    <2>4. balance' = [a \in Account |-> balance[a] + Effects'[v][a]]
      BY <2>1, <2>3 DEF Post, MoveMoney
    <2>5. QED
      BY <1>5, <1>6, <1>7, <1>8, <1>9, <2>2, <2>4 DEF Life!Enter, Life!Sets, Life!Apply
  <1>10. CASE s.required > 0
    <2>1. status'[v] = "PENDING_AUTH" /\ balance' = balance
      BY <1>10 DEF Enter, NoPosting, FourEyesInv, TypeInv, TypeOK
    <2>2. Lives'[v] = "waiting"
      BY <2>1, MappedNext
    <2>3. QED
      BY <1>5, <1>6, <1>7, <1>8, <1>10, <2>1, <2>2 DEF Life!Enter, Life!Sets
  <1>11. QED
    BY <1>8, <1>9, <1>10

\* The voucher a handler lets an actor decide on is one they may judge.
LEMMA JudgesMaps ==
  ASSUME FourEyesInv, NEW v \in Voucher, NEW u \in User, MayDecide(v, u)
  PROVE  Life!Judges(v, u)
  <1>1. Lives[v] = "waiting" /\ u # Makers[v]
    BY MappedAt DEF MayDecide
  <1>2. Signers[v] \subseteq ActorsOf(v)
    <2>1. Approvals(v) \subseteq {t \in steps : t.voucher = v}
      BY DEF Approvals
    <2>2. {x.actor : x \in Approvals(v)} \subseteq {x.actor : x \in {t \in steps : t.voucher = v}}
      BY <2>1
    <2>3. QED
      BY <2>2, MappedAt DEF ActorsOf
  <1>3. u \notin Signers[v]
    BY <1>2 DEF MayDecide
  <1>4. QED
    BY <1>1, <1>3 DEF Life!Judges

\* An approval, the last or not, is a signature.
LEMMA ApproveMaps ==
  ASSUME FourEyesInv, NEW v \in Voucher, NEW u \in User, ApproveVoucher(v, u)
  PROVE  Life!Sign(v, u)
  <1>1. MayDecide(v, u) /\ Decide(v, u, "APPROVED") /\ slip' = slip
    BY DEF ApproveVoucher
  <1>2. Life!Judges(v, u)
    BY <1>1, JudgesMaps
  <1> DEFINE n == Cardinality(Approvals(v))
  <1>3. /\ n \in Nat
        /\ Cardinality(Approvals(v)') = n + 1
        /\ \A w : w # v => Approvals(w)' = Approvals(w)
    BY <1>1, DecideFourEyes
  <1>4. {x.actor : x \in Approvals(v)'} = {x.actor : x \in Approvals(v)} \cup {u}
    <2> DEFINE step == [voucher |-> v, level |-> n + 1, actor |-> u, decision |-> "APPROVED"]
    <2>1. steps' = steps \cup {step}
      BY <1>1 DEF Decide
    <2>2. Approvals(v)' = Approvals(v) \cup {step}
      BY <2>1 DEF Approvals
    <2>3. step.actor = u
      OBVIOUS
    <2> HIDE DEF step
    <2>4. QED
      BY <2>2, <2>3
  <1>5. \A w \in Voucher \ {v} : status'[w] = status[w]
    BY DEF ApproveVoucher, FourEyesInv, TypeInv, TypeOK
  <1>6. \A w \in Voucher \ {v} :
           /\ Makers'[w] = Makers[w] /\ Missing'[w] = Missing[w] /\ Effects'[w] = Effects[w]
           /\ Signers'[w] = Signers[w] /\ Lives'[w] = Lives[w]
    BY <1>1, <1>3, <1>5, MappedSame
  <1>7. Makers' = Makers /\ Effects' = Effects
    BY <1>1 DEF Makers, Effects, Net
  <1>12. slip[v].required \in Nat /\ n < slip[v].required
    BY <1>1 DEF FourEyesInv, FourEyes, MayDecide, TypeInv, TypeOK, Slip
  <1>8. Missing[v] = slip[v].required - n /\ Missing'[v] = slip[v].required - (n + 1)
    BY <1>1, <1>3, MappedAt, MappedNext
  <1>m. Missing'[v] = Missing[v] - 1
    BY <1>3, <1>8, <1>12
  <1>c. Missing' = [Missing EXCEPT ![v] = Missing[v] - 1]
    BY <1>6, <1>m, MappedDomains
  <1>9. Undone' = Undone
    <2>1. status[v] = "PENDING_AUTH" /\ status'[v] \in {"POSTED", "PENDING_AUTH"}
      BY <1>1 DEF ApproveVoucher, MayDecide, FourEyesInv, TypeInv, TypeOK
    <2>2. QED
      BY <1>5, <2>1 DEF Undone
  <1>10. Signers'[v] = Signers[v] \cup {u}
    BY <1>3, <1>4, MappedAt, MappedNext
  <1>11. Signers' = [Signers EXCEPT ![v] = Signers[v] \cup {u}]
    BY <1>6, <1>10, MappedDomains
  <1>13. Lives' = [Lives EXCEPT ![v] = Lives'[v]]
    BY <1>6, MappedDomains
  <1>14. CASE n + 1 >= slip[v].required
    <2>1. status'[v] = "POSTED" /\ Post(v, slip[v])
      BY <1>3, <1>12, <1>14 DEF ApproveVoucher, FourEyesInv, TypeInv, TypeOK
    <2>2. Lives'[v] = "posted"
      BY <2>1, MappedNext
    <2>3. balance' = [a \in Account |-> balance[a] + Effects[v][a]]
      BY <2>1, MappedAt DEF Post, MoveMoney
    <2>4. Missing'[v] = 0
      BY <1>3, <1>8, <1>12, <1>14
    <2>5. QED
      BY <1>2, <1>7, <1>c, <1>9, <1>11, <1>13, <2>2, <2>3, <2>4 DEF Life!Sign, Life!Apply
  <1>15. CASE n + 1 < slip[v].required
    <2>1. status' = status /\ balance' = balance
      BY <1>3, <1>12, <1>15 DEF ApproveVoucher, NoPosting
    <2>2. Lives' = Lives
      BY <2>1 DEF Lives
    <2>3. Missing'[v] > 0
      BY <1>3, <1>8, <1>12, <1>15
    <2>4. QED
      BY <1>2, <1>7, <1>c, <1>9, <1>11, <2>1, <2>2, <2>3 DEF Life!Sign
  <1>16. QED
    BY <1>3, <1>12, <1>14, <1>15

\* A rejection is a refusal; its row is no signature.
LEMMA RejectMaps ==
  ASSUME FourEyesInv, NEW v \in Voucher, NEW u \in User, RejectVoucher(v, u)
  PROVE  Life!Refuse(v, u)
  <1>1. MayDecide(v, u) /\ Decide(v, u, "REJECTED") /\ slip' = slip /\ balance' = balance
    BY DEF RejectVoucher, NoPosting
  <1>2. Life!Judges(v, u)
    BY <1>1, JudgesMaps
  <1>3. \A w : Approvals(w)' = Approvals(w)
    <2> DEFINE step == [voucher |-> v, level |-> Cardinality(Approvals(v)) + 1,
                        actor |-> u, decision |-> "REJECTED"]
    <2>1. steps' = steps \cup {step} /\ step.decision # "APPROVED"
      BY <1>1 DEF Decide
    <2> HIDE DEF step
    <2>2. QED
      BY <2>1 DEF Approvals
  <1>4. status'[v] = "REJECTED" /\ status[v] = "PENDING_AUTH"
        /\ \A w \in Voucher \ {v} : status'[w] = status[w]
    BY <1>1 DEF RejectVoucher, MayDecide, FourEyesInv, TypeInv, TypeOK
  <1>5. Makers' = Makers /\ Effects' = Effects
    BY <1>1 DEF Makers, Effects, Net
  <1>6. Signers' = Signers /\ Missing' = Missing
    BY <1>1, <1>3 DEF Signers, Missing
  <1>7. Undone' = Undone
    BY <1>4 DEF Undone
  <1>8. \A w \in Voucher \ {v} : Lives'[w] = Lives[w]
    BY <1>4 DEF Lives
  <1>9. Lives' = [Lives EXCEPT ![v] = "refused"]
    BY <1>4, <1>8, MappedNext, MappedDomains
  <1>10. QED
    BY <1>1, <1>2, <1>5, <1>6, <1>7, <1>9 DEF Life!Refuse

\* A voucher entered by a teller is a new one.
LEMMA CreateMaps ==
  ASSUME FourEyesInv, NEW v \in Voucher, NEW u \in User, NEW ty \in TxnType,
         NEW e \in Entry, CreateVoucher(v, u, ty, e)
  PROVE  Life!New(v)
  <1>t. TypeInv
    BY DEF FourEyesInv
  <1>1. PICK n \in RequiredApprovals(HomeBranch[u], ty, Debits(e)) :
          Enter(v, [branch |-> HomeBranch[u], type |-> ty, maker |-> u, entry |-> e,
                    required |-> n, number |-> NextNumber(HomeBranch[u]),
                    reversalOf |-> NoVoucher],
                status, "voucher.created")
    BY DEF CreateVoucher
  <1> DEFINE s == [branch |-> HomeBranch[u], type |-> ty, maker |-> u, entry |-> e,
                   required |-> n, number |-> NextNumber(HomeBranch[u]),
                   reversalOf |-> NoVoucher]
  <1>2. s \in Slip
    <2>1. n \in Nat /\ NextNumber(HomeBranch[u]) \in Nat
      BY <1>t, RequiredType, LedgerConstants DEF NextNumber, TypeInv, TypeOK
    <2>2. QED
      BY <2>1, LedgerConstants DEF Slip, Legs
  <1>3. Enter(v, s, status, "voucher.created")
    BY <1>1
  <1> HIDE DEF s
  <1>4. status \in [Voucher -> Status]
    BY <1>t DEF TypeInv, TypeOK
  <1>5. Life!Enter(v)
    BY <1>2, <1>3, <1>4, EnterMaps
  <1>6. status[v] = "NONE" /\ status'[v] \in {"POSTED", "PENDING_AUTH"}
        /\ \A w \in Voucher \ {v} : status'[w] = status[w]
    BY <1>3, <1>4 DEF Enter
  <1>7. Undone' = Undone
    BY <1>6 DEF Undone
  <1>8. QED
    BY <1>5, <1>7 DEF Life!New

\* Lines with their legs flipped move the opposite of what the lines move.
LEMMA FlipNet ==
    ASSUME NEW e \in Legs, NEW a
    PROVE  Net(Flip(e), a) = -Net(e, a)
  <1>1. DOMAIN Flip(e) = DOMAIN e
    BY DEF Flip
  <1>2. \A i \in DOMAIN e : /\ Flip(e)[i].account = e[i].account
                            /\ Flip(e)[i].amount = e[i].amount
                            /\ Flip(e)[i].side = Other(e[i].side)
    <2>1. e \in Seq(Line)
      BY LegsType DEF EntryType
    <2>2. \A i \in DOMAIN e : e[i] \in Line
      BY <2>1, LinesOf, ElementOfSeq
    <2> QED
      BY <2>2 DEF Flip, Line
  <1>3. PICK s : s = {i \in DOMAIN e : e[i].account = a} /\ s \subseteq DOMAIN e
    OBVIOUS
  <1>4. s = {i \in DOMAIN Flip(e) : Flip(e)[i].account = a}
    BY <1>1, <1>2, <1>3
  <1>5. \A i \in s : Signed(Flip(e))[i] = -Signed(e)[i]
    BY <1>1, <1>2, <1>3, LinesOf DEF Signed, Other, DrCr
  <1>6. Summable(Signed(e), s)
    BY <1>3, SignedType, FS_Subset DEF Summable
  <1> QED
    BY <1>3, <1>4, <1>5, <1>6, SumNegate DEF Net

\* A reversal undoes a voucher with another of the opposite effect.
LEMMA ReverseMaps ==
  ASSUME FourEyesInv, NEW v \in Voucher, NEW w \in Voucher, NEW u \in User,
         ReverseVoucher(v, w, u)
  PROVE  Life!Undo(v, w)
  <1>t. TypeInv
    BY DEF FourEyesInv
  <1> DEFINE st == [status EXCEPT ![v] = "REVERSED"]
  <1>1. PICK n \in RequiredApprovals(HomeBranch[u], slip[v].type, Debits(slip[v].entry)) :
          Enter(w, Contra(v, u, n), st, "voucher.reversal_created")
    BY DEF ReverseVoucher
  <1>2. Contra(v, u, n) \in Slip
    <2>1. n \in Nat /\ NextNumber(HomeBranch[u]) \in Nat
      BY <1>t, RequiredType, LedgerConstants DEF NextNumber, TypeInv, TypeOK
    <2>2. QED
      BY <1>t, <2>1, FlipLegs, LedgerConstants DEF Contra, Slip, TypeInv, TypeOK
  <1>3. status[v] = "POSTED" /\ status[w] = "NONE"
    BY <1>1 DEF ReverseVoucher, Enter
  <1>4. /\ st \in [Voucher -> Status]
        /\ \A x \in Voucher : st[x] = status[x] \/ {st[x], status[x]} = {"POSTED", "REVERSED"}
        /\ st[v] = "REVERSED" /\ \A x \in Voucher \ {v} : st[x] = status[x]
    BY <1>t, <1>3 DEF TypeInv, TypeOK, Status
  <1> HIDE DEF st
  <1>5. Life!Enter(w)
    BY <1>1, <1>2, <1>4, EnterMaps
  <1>6. /\ \A x \in Voucher \ {w} : status'[x] = st[x]
        /\ status'[w] \in {"POSTED", "PENDING_AUTH"}
    BY <1>1, <1>4 DEF Enter
  <1>7. Undone' = Undone \cup {v}
    BY <1>3, <1>4, <1>6 DEF Undone
  <1>8. Lives[v] = "posted" /\ v \notin Undone
    BY <1>3, MappedAt DEF Undone
  <1>9. slip'[w].entry = Flip(slip[v].entry)
    BY <1>1, <1>t DEF Enter, Contra, TypeInv, TypeOK
  <1>10. Effects'[w] = [a \in Account |-> Net(Flip(slip[v].entry), a)]
    BY <1>9, MappedNext
  <1>11. \A a \in Account : Net(Flip(slip[v].entry), a) = -Net(slip[v].entry, a)
    <2>1. slip[v].entry \in Legs
      BY <1>t DEF TypeInv, TypeOK, Slip
    <2>2. QED
      BY <2>1, FlipNet
  <1>e. Effects[v] = [a \in Account |-> Net(slip[v].entry, a)]
    BY MappedAt
  <1>12. Effects'[w] = [a \in Account |-> -Effects[v][a]]
    BY <1>10, <1>11, <1>e
  <1>13. QED
    BY <1>5, <1>7, <1>8, <1>12 DEF Life!Undo

\* No voucher exists at first, so none has a signature or is undone.
LEMMA InitMaps == ASSUME Init PROVE Life!Init
  <1>1. \A v : Approvals(v) = {}
    BY DEF Init, Approvals
  <1>2. Signers = [v \in Voucher |-> {}]
    BY <1>1 DEF Signers
  <1>3. Lives = [v \in Voucher |-> "none"] /\ Undone = {}
    BY DEF Init, Lives, Undone
  <1>4. QED
    BY <1>2, <1>3 DEF Life!Init

\* KeepsPromises: whatever sequence of handlers commits, what was entered is not
\* changed, money moves once and in full, and every signature is another person's.
THEOREM KeepsPromisesHolds == Spec => KeepsPromises
  <1>1. Init => Life!Init
    BY InitMaps
  <1>2. FourEyesInv /\ [Next]_vars => [Life!Next]_(Life!vars)
    <2> SUFFICES ASSUME FourEyesInv, [Next]_vars PROVE [Life!Next]_(Life!vars)
      OBVIOUS
    <2>1. ASSUME NEW v \in Voucher, NEW u \in User, NEW ty \in TxnType, NEW e \in Entry,
                 CreateVoucher(v, u, ty, e)
          PROVE  Life!Next
      BY <2>1, CreateMaps DEF Life!Next
    <2>2. ASSUME NEW v \in Voucher, NEW u \in User, ApproveVoucher(v, u)
          PROVE  Life!Next
      BY <2>2, ApproveMaps DEF Life!Next
    <2>3. ASSUME NEW v \in Voucher, NEW u \in User, RejectVoucher(v, u)
          PROVE  Life!Next
      BY <2>3, RejectMaps DEF Life!Next
    <2>4. ASSUME NEW v \in Voucher, NEW w \in Voucher, NEW u \in User, ReverseVoucher(v, w, u)
          PROVE  Life!Next
      BY <2>4, ReverseMaps DEF Life!Next
    <2>5. CASE UNCHANGED vars
      BY <2>5 DEF vars, Life!vars, Lives, Makers, Missing, Effects, Net, Signers, Approvals, Undone
    <2>6. QED
      BY <2>1, <2>2, <2>3, <2>4, <2>5 DEF Next
  <1>3. Spec => []FourEyesInv
    BY FourEyesInvariant
  <1>4. QED
    BY <1>1, <1>2, <1>3, PTL DEF Spec, Life!Spec, KeepsPromises

----------------------------------------------------------------------------
(* PostingLocks implements Ledger                                          *)

Entering(c)   == c.op \in {"create", "reverse"}
Deciding(c)   == c.op \in {"approve", "reject"}
VoucherRow(c) == <<"voucher", IF c.op = "reverse" THEN c.of ELSE c.v>>

\* The command as the handler was called, which fits the vouchers it names.
Ordered(t) ==
    LET j == job[t]
        c == job[t].cmd
    IN  /\ c.op = "create" =>
              /\ "voucher:create" \in May[c.user] /\ c.branch = HomeBranch[c.user]
              /\ c.of = NoVoucher /\ c.entry \in Entry
              /\ Positive(c.entry) /\ Balanced(c.entry)
              /\ j.need \in RequiredApprovals(c.branch, c.type, Debits(c.entry))
        /\ c.op = "reverse" =>
              /\ "voucher:reverse" \in May[c.user] /\ c.branch = HomeBranch[c.user]
              /\ c.of \in Voucher /\ status[c.of] # "NONE"
              /\ c.branch = slip[c.of].branch \/ c.user \in MultiBranch
              /\ c.type = slip[c.of].type /\ c.entry = Flip(slip[c.of].entry)
              /\ j.need \in RequiredApprovals(c.branch, c.type, Debits(slip[c.of].entry))
        /\ Entering(c) => status[c.v] = "NONE" /\ (j.posts <=> j.need = 0)
        /\ Deciding(c) =>
              /\ "voucher:authorize" \in May[c.user] /\ status[c.v] # "NONE"
              /\ c.branch = slip[c.v].branch /\ c.type = slip[c.v].type
              /\ c.entry = slip[c.v].entry /\ j.need = slip[c.v].required

\* What lies behind a job in each of its phases.
Reached(t) ==
    LET j == job[t]
        c == job[t].cmd
    IN  /\ c.op = "create" =>
              /\ j.phase # "voucher"
              /\ j.phase # "balances" => Touched(c.entry) \subseteq j.read
              /\ j.phase \in {"batch", "commit"} => LinesOK(j)
        /\ Entering(c) /\ j.phase \in {"batch", "commit"} => j.number # 0
        /\ c.op = "reverse" /\ j.phase = "balances" => j.number # 0
        /\ j.posts /\ j.phase \in {"batch", "commit"} => Touched(c.entry) \subseteq j.read
        /\ j.posts /\ j.phase = "commit" => Covered(j)
        /\ Deciding(c) =>
              /\ j.phase # "sequence" /\ j.number = 0
              /\ j.posts <=> /\ c.op = "approve" /\ j.phase # "voucher"
                             /\ j.given + 1 >= j.need
        /\ j.phase = "voucher" => j.read = {} /\ j.number = 0
        /\ j.phase = "sequence" => j.number = 0 /\ (c.op = "create" \/ j.read = {})
        /\ c.op = "create" /\ j.phase = "balances" => j.number = 0
        /\ c.op = "reverse" /\ ~j.posts => j.phase # "balances" /\ j.phase # "batch"

\* The balances are read in the order of the accounts.
InOrder(t) == \A a \in job[t].read, b \in Unread(job[t]) : Rank[a] < Rank[b]

\* A job has the locks on what it has read, and no others.
Locked(t) ==
    LET j == job[t]
    IN  /\ j.cmd.op # "create" /\ j.phase # "voucher" => VoucherRow(j.cmd) \in held[t]
        /\ \A a \in j.read : <<"balance", a>> \in held[t]
        /\ j.number # 0 => <<"sequence", j.cmd.branch>> \in held[t]
        /\ \A row \in held[t] :
              /\ row[1] = "voucher" => j.cmd.op # "create" /\ j.phase # "voucher"
              /\ row[1] = "balance" => row[2] \in j.read
              /\ row[1] = "sequence" => j.number # 0
              /\ row[1] = "batch" => j.phase = "commit"

\* What a job has read is so.
Current(t) ==
    LET j == job[t]
        c == job[t].cmd
    IN  /\ j.phase # "voucher" /\ c.op # "create" => Acceptable(c)
        /\ j.phase # "voucher" /\ Deciding(c) => j.given = Cardinality(Approvals(c.v))
        /\ j.number # 0 => j.number = NextNumber(c.branch)
        /\ \A a \in j.read : j.bal[a] = balance[a] /\ j.ver[a] = version[a]

Sound(t) == Ordered(t) /\ Reached(t) /\ InOrder(t) /\ Locked(t) /\ Current(t)

\* A row is locked by one transaction, and a new voucher is one transaction's.
Exclusive ==
    \A t, u \in Txn : t # u =>
        /\ held[t] \cap held[u] = {}
        /\ Running(t) /\ Running(u) /\ Entering(job[t].cmd) /\ Entering(job[u].cmd) =>
              job[t].cmd.v # job[u].cmd.v

JobsTyped ==
    /\ version \in [Account -> Nat]
    /\ held \in [Txn -> SUBSET Row]
    /\ job \in [Txn -> Job \cup {Idle}]

LocksIInv ==
    /\ TypeInv /\ JobsTyped /\ Exclusive
    /\ \A t \in Txn : IF Running(t) THEN Sound(t) ELSE held[t] = {}

----------------------------------------------------------------------------

\* What is known of the fields of a job.
LEMMA JobFields ==
    ASSUME NEW j \in Job
    PROVE  /\ j # Idle /\ j.phase # "idle" /\ j.cmd \in Command
           /\ j.phase \in {"voucher", "balances", "sequence", "batch", "commit"}
           /\ j.need \in Nat /\ j.posts \in BOOLEAN /\ j.given \in Nat /\ j.number \in Nat
           /\ j.read \subseteq Account
           /\ j.bal \in [Account -> Int] /\ j.ver \in [Account -> Nat]
           /\ j.cmd.op \in {"create", "approve", "reject", "reverse"}
           /\ j.cmd.user \in User /\ j.cmd.v \in Voucher /\ j.cmd.of \in Voucher \cup {NoVoucher}
           /\ j.cmd.branch \in Branch /\ j.cmd.type \in TxnType /\ j.cmd.entry \in Legs
  BY DEF Job, Command, Idle

\* The accounts lines name are accounts.
LEMMA TouchedType == ASSUME NEW e \in Legs PROVE Touched(e) \subseteq Account
  BY LinesOf DEF Touched

\* Lines move nothing on an account they do not name.
LEMMA Untouched ==
    ASSUME NEW e \in Legs, NEW a \in Account, a \notin Touched(e)
    PROVE  Net(e, a) = 0
  <1>1. {i \in DOMAIN e : e[i].account = a} = {}
    BY DEF Touched
  <1>2. Net(e, a) = SumFunctionOnSet(Signed(e), {})
    BY <1>1 DEF Net
  <1> QED
    BY <1>2, SumEmpty

\* What a job knows stays so if the rows it has locked, and what is fixed about
\* the vouchers it names, do not change.
LEMMA SoundStays ==
    ASSUME NEW t \in Txn, job[t] \in Job, Sound(t), job'[t] = job[t], held'[t] = held[t],
           LET j == job[t]
               c == job[t].cmd
           IN  /\ Entering(c) => status'[c.v] = "NONE"
               /\ c.op = "reverse" => status'[c.of] # "NONE" /\ slip'[c.of] = slip[c.of]
               /\ Deciding(c) => status'[c.v] # "NONE" /\ slip'[c.v] = slip[c.v]
               /\ j.phase # "voucher" /\ c.op = "reverse" => status'[c.of] = status[c.of]
               /\ j.phase # "voucher" /\ c.op = "reverse" => ReversalsOf(c.of)' = ReversalsOf(c.of)
               /\ j.phase # "voucher" /\ Deciding(c) =>
                     /\ status'[c.v] = status[c.v]
                     /\ {s \in steps' : s.voucher = c.v} = {s \in steps : s.voucher = c.v}
               /\ j.number # 0 => lastSeq'[c.branch] = lastSeq[c.branch]
               /\ \A a \in j.read : balance'[a] = balance[a] /\ version'[a] = version[a]
    PROVE  Sound(t)'
  <1> USE DEF Sound, Entering, Deciding
  <1>1. Ordered(t)'
    BY DEF Ordered
  <1>2. Reached(t)'
    BY DEF Reached, LinesOK, Covered
  <1>3. InOrder(t)' /\ Locked(t)'
    BY DEF InOrder, Locked, Unread, VoucherRow
  <1>4. Current(t)'
    <2>1. PICK j : j = job[t] /\ j = job'[t]
      OBVIOUS
    <2>2. j.phase # "voucher" /\ Deciding(j.cmd) =>
            /\ status'[j.cmd.v] = status[j.cmd.v] /\ slip'[j.cmd.v] = slip[j.cmd.v]
            /\ Approvals(j.cmd.v)' = Approvals(j.cmd.v)
            /\ ActorsOf(j.cmd.v)' = ActorsOf(j.cmd.v)
      <3> SUFFICES ASSUME j.phase # "voucher", Deciding(j.cmd)
                   PROVE  /\ status'[j.cmd.v] = status[j.cmd.v] /\ slip'[j.cmd.v] = slip[j.cmd.v]
                          /\ Approvals(j.cmd.v)' = Approvals(j.cmd.v)
                          /\ ActorsOf(j.cmd.v)' = ActorsOf(j.cmd.v)
        OBVIOUS
      <3>1. /\ status'[j.cmd.v] = status[j.cmd.v] /\ slip'[j.cmd.v] = slip[j.cmd.v]
            /\ {s \in steps' : s.voucher = j.cmd.v} = {s \in steps : s.voucher = j.cmd.v}
        BY <2>1
      <3>2. Approvals(j.cmd.v)' = Approvals(j.cmd.v)
        BY <3>1 DEF Approvals
      <3>3. ActorsOf(j.cmd.v)' = ActorsOf(j.cmd.v)
        BY <3>1 DEF ActorsOf
      <3> QED
        BY <3>1, <3>2, <3>3
    <2>3. j.phase # "voucher" /\ j.cmd.op # "create" => Acceptable(j.cmd)'
      <3>1. j.cmd.op \in {"create", "approve", "reject", "reverse"}
        BY <2>1, JobFields
      <3>2. CASE j.phase # "voucher" /\ j.cmd.op = "reverse"
        <4>1. status[j.cmd.of] = "POSTED" /\ ReversalsOf(j.cmd.of) = {}
          BY <2>1, <3>2 DEF Current, Acceptable
        <4>2. status'[j.cmd.of] = "POSTED" /\ ReversalsOf(j.cmd.of)' = {}
          BY <2>1, <3>2, <4>1
        <4> QED
          BY <3>2, <4>2 DEF Acceptable
      <3>3. CASE j.phase # "voucher" /\ Deciding(j.cmd)
        <4>1. MayDecide(j.cmd.v, j.cmd.user)
          BY <2>1, <3>3 DEF Current, Acceptable
        <4>2. MayDecide(j.cmd.v, j.cmd.user)'
          BY <2>2, <3>3, <4>1 DEF MayDecide
        <4> QED
          BY <3>3, <4>2 DEF Acceptable
      <3> QED
        BY <3>1, <3>2, <3>3
    <2>4. j.phase # "voucher" /\ Deciding(j.cmd) => j.given = Cardinality(Approvals(j.cmd.v)')
      BY <2>1, <2>2 DEF Current
    <2>5. /\ j.number # 0 => j.number = NextNumber(j.cmd.branch)'
          /\ \A a \in j.read : j.bal[a] = balance'[a] /\ j.ver[a] = version'[a]
      BY <2>1 DEF Current, NextNumber
    <2> QED
      BY <2>1, <2>3, <2>4, <2>5 DEF Current, Acceptable, MayDecide
  <1> QED
    BY <1>1, <1>2, <1>3, <1>4

\* What a job knows stays while no row changes and nobody touches the job.
LEMMA BooksSame ==
    ASSUME LocksIInv, NEW t \in Txn, Running(t), job'[t] = job[t], held'[t] = held[t],
           UNCHANGED <<vars, version>>
    PROVE  Sound(t)'
  <1>1. Sound(t) /\ job[t] \in Job
    BY DEF LocksIInv, JobsTyped, Running
  <1>2. UNCHANGED <<status, slip, steps, balance, lastSeq, version>>
    BY DEF vars
  <1>3. ReversalsOf(job[t].cmd.of)' = ReversalsOf(job[t].cmd.of)
    BY <1>2 DEF ReversalsOf
  <1>4. /\ Entering(job[t].cmd) => status[job[t].cmd.v] = "NONE"
        /\ job[t].cmd.op = "reverse" => status[job[t].cmd.of] # "NONE"
        /\ Deciding(job[t].cmd) => status[job[t].cmd.v] # "NONE"
    BY <1>1 DEF Sound, Ordered
  <1> QED
    BY <1>1, <1>2, <1>3, <1>4, SoundStays

\* A statement of one transaction that leaves the books alone.
LEMMA OwnStep ==
    ASSUME LocksIInv, NEW t \in Txn, UNCHANGED <<vars, version>>,
           NEW j \in Job \cup {Idle}, job' = [job EXCEPT ![t] = j],
           NEW h \in SUBSET Row, held' = [held EXCEPT ![t] = h],
           \A u \in Txn \ {t} : h \cap held[u] = {},
           \/ j = Idle /\ h = {}
           \/ /\ j # Idle /\ Sound(t)'
              /\ \A u \in Txn \ {t} : Running(u) /\ Entering(job[u].cmd) /\ Entering(j.cmd) =>
                    job[u].cmd.v # j.cmd.v
    PROVE  LocksIInv'
  <1> USE DEF LocksIInv, JobsTyped
  <1>1. /\ job' \in [Txn -> Job \cup {Idle}] /\ held' \in [Txn -> SUBSET Row]
        /\ job'[t] = j /\ held'[t] = h /\ UNCHANGED <<vars, version>>
        /\ \A u \in Txn \ {t} : job'[u] = job[u] /\ held'[u] = held[u]
    OBVIOUS
  <1>2. TypeInv' /\ JobsTyped'
    <2>1. UNCHANGED <<status, slip, steps, balance, after, lastSeq, batch, outbox>>
      BY DEF vars
    <2> QED
      BY <1>1, <2>1 DEF TypeInv, TypeOK
  <1>3. Exclusive'
    BY <1>1 DEF Exclusive, Running
  <1>4. \A u \in Txn : IF Running(u)' THEN Sound(u)' ELSE held'[u] = {}
    <2>1. ASSUME NEW u \in Txn \ {t} PROVE IF Running(u)' THEN Sound(u)' ELSE held'[u] = {}
      BY <1>1, <2>1, BooksSame DEF Running
    <2>2. IF Running(t)' THEN Sound(t)' ELSE held'[t] = {}
      BY <1>1 DEF Running
    <2> QED
      BY <2>1, <2>2
  <1> QED
    BY <1>2, <1>3, <1>4

\* A refusal, a timeout or a lost connection frees locks and changes no row.
LEMMA RollbackKeeps ==
    ASSUME LocksIInv, NEW t \in Txn, Rollback(t)
    PROVE  LocksIInv'
  <1>1. /\ held' = [held EXCEPT ![t] = {}] /\ job' = [job EXCEPT ![t] = Idle]
        /\ UNCHANGED <<vars, version>>
    BY DEF Rollback, Release
  <1>2. Idle \in Job \cup {Idle} /\ {} \in SUBSET Row /\ \A u \in Txn \ {t} : {} \cap held[u] = {}
    OBVIOUS
  <1> QED
    BY <1>1, <1>2, OwnStep

\* A transaction that gets a lock; row is the one it waited for.
LEMMA LockKeeps ==
    ASSUME LocksIInv, NEW t \in Txn, Running(t), NEW row \in Row, NEW j \in Job,
           Lock(t, row, j), j.cmd = job[t].cmd, Sound(t)'
    PROVE  LocksIInv'
  <1>0. PICK h : h = held[t] \cup {row}
    OBVIOUS
  <1>1. held' = [held EXCEPT ![t] = h] /\ job' = [job EXCEPT ![t] = j] /\ UNCHANGED <<vars, version>>
    BY <1>0 DEF Lock
  <1>2. h \in SUBSET Row /\ j # Idle
    BY <1>0, JobFields DEF LocksIInv, JobsTyped
  <1>3. \A u \in Txn \ {t} : h \cap held[u] = {}
    BY <1>0 DEF Lock, Free, LocksIInv, Exclusive
  <1>4. \A u \in Txn \ {t} :
           Running(u) /\ Entering(job[u].cmd) /\ Entering(j.cmd) => job[u].cmd.v # j.cmd.v
    BY DEF LocksIInv, Exclusive
  <1> QED
    BY <1>1, <1>2, <1>3, <1>4, OwnStep

----------------------------------------------------------------------------

\* A transaction begins and takes a new voucher or names an old one.
LEMMA BeginKeeps ==
    ASSUME LocksIInv, NEW t \in Txn, NEW cmd \in Command,
           NEW phase \in {"voucher", "balances"}, NEW need \in Nat,
           Begin(t, cmd, phase, need),
           Entering(cmd) => Fresh(cmd.v),
           cmd.op = "create" <=> phase = "balances",
           cmd.op = "create" =>
              /\ "voucher:create" \in May[cmd.user] /\ cmd.branch = HomeBranch[cmd.user]
              /\ cmd.of = NoVoucher /\ cmd.entry \in Entry
              /\ Positive(cmd.entry) /\ Balanced(cmd.entry)
              /\ need \in RequiredApprovals(cmd.branch, cmd.type, Debits(cmd.entry)),
           cmd.op = "reverse" =>
              /\ "voucher:reverse" \in May[cmd.user] /\ cmd.branch = HomeBranch[cmd.user]
              /\ cmd.of \in Voucher /\ status[cmd.of] # "NONE"
              /\ cmd.branch = slip[cmd.of].branch \/ cmd.user \in MultiBranch
              /\ cmd.type = slip[cmd.of].type /\ cmd.entry = Flip(slip[cmd.of].entry)
              /\ need \in RequiredApprovals(cmd.branch, cmd.type, Debits(slip[cmd.of].entry)),
           Deciding(cmd) =>
              /\ "voucher:authorize" \in May[cmd.user] /\ status[cmd.v] # "NONE"
              /\ cmd.branch = slip[cmd.v].branch /\ cmd.type = slip[cmd.v].type
              /\ cmd.entry = slip[cmd.v].entry /\ need = slip[cmd.v].required
    PROVE  LocksIInv'
  <1> DEFINE j == [cmd |-> cmd, phase |-> phase, need |-> need,
                   posts |-> cmd.op \in {"create", "reverse"} /\ need = 0,
                   given |-> 0, number |-> 0, read |-> {},
                   bal |-> [a \in Account |-> 0], ver |-> [a \in Account |-> 0]]
  <1>1. /\ job' = [job EXCEPT ![t] = j] /\ UNCHANGED <<vars, version, held>> /\ ~Running(t)
    BY DEF Begin
  <1>2. /\ j.cmd = cmd /\ j.phase = phase /\ j.need = need /\ j.number = 0 /\ j.read = {}
        /\ j.posts <=> Entering(cmd) /\ need = 0
    BY DEF Entering
  <1>3. j \in Job
    BY DEF Job
  <1> HIDE DEF j
  <1>4. job'[t] = j /\ held'[t] = {} /\ held[t] = {}
    BY <1>1 DEF LocksIInv, JobsTyped
  <1>5. UNCHANGED <<status, slip, steps, balance, lastSeq>>
    BY <1>1 DEF vars
  <1>6. cmd.op \in {"create", "approve", "reject", "reverse"} /\ cmd.v \in Voucher
    BY DEF Command
  <1>7. Ordered(t)'
    BY <1>2, <1>4, <1>5 DEF Ordered, Fresh, Entering, Deciding
  <1>8. Reached(t)'
    BY <1>2, <1>4, <1>6 DEF Reached, Entering, Deciding
  <1>9. /\ job'[t].read = {} /\ job'[t].number = 0
        /\ job'[t].cmd.op = "create" \/ job'[t].phase = "voucher"
        /\ job'[t].cmd.op = "create" => ~Deciding(job'[t].cmd)
    BY <1>2, <1>4, <1>6 DEF Deciding
  <1>10. InOrder(t)' /\ Locked(t)'
    BY <1>4, <1>9 DEF InOrder, Locked
  <1>12. Current(t)'
    BY <1>9 DEF Current
  <1>13. /\ held' = [held EXCEPT ![t] = {}] /\ \A u \in Txn \ {t} : {} \cap held[u] = {}
         /\ {} \in SUBSET Row /\ UNCHANGED <<vars, version>>
    BY <1>1, <1>4 DEF LocksIInv, JobsTyped
  <1>14. Sound(t)' /\ j # Idle /\ j \in Job \cup {Idle}
    BY <1>3, <1>7, <1>8, <1>10, <1>12, JobFields DEF Sound
  <1>11. Entering(j.cmd) =>
            \A u \in Txn \ {t} : Running(u) /\ Entering(job[u].cmd) => job[u].cmd.v # j.cmd.v
    BY <1>2 DEF Fresh
  <1> QED
    BY <1>1, <1>11, <1>13, <1>14, OwnStep

\* The reads in front of the first lock of each handler.
LEMMA StartKeeps ==
    ASSUME LocksIInv, NEW t \in Txn, Start(t)
    PROVE  LocksIInv'
  <1> USE DEF Entering, Deciding
  <1>0. TypeOK /\ Entry \subseteq Legs /\ HomeBranch \in [User -> Branch]
    BY LedgerConstants DEF LocksIInv, TypeInv, Legs
  <1>1. ASSUME NEW u \in User, NEW v \in Voucher, NEW ty \in Types, NEW e \in Entry,
               BeginCreate(t, u, v, ty, e)
        PROVE  LocksIInv'
    <2> DEFINE cmd == [op |-> "create", user |-> u, v |-> v, of |-> NoVoucher,
                       branch |-> HomeBranch[u], type |-> ty, entry |-> e]
    <2>1. PICK n \in RequiredApprovals(HomeBranch[u], ty, Debits(e)) : Begin(t, cmd, "balances", n)
      BY <1>1 DEF BeginCreate
    <2>2. n \in Nat
      BY RequiredType
    <2>3. cmd \in Command
      BY <1>0, LockConstants DEF Command
    <2>4. /\ cmd.op = "create" /\ cmd.user = u /\ cmd.v = v /\ cmd.of = NoVoucher
          /\ cmd.branch = HomeBranch[u] /\ cmd.type = ty /\ cmd.entry = e
      OBVIOUS
    <2>5. "voucher:create" \in May[u] /\ Fresh(v) /\ Positive(e) /\ Balanced(e)
      BY <1>1 DEF BeginCreate
    <2> HIDE DEF cmd
    <2> QED
      BY <2>1, <2>2, <2>3, <2>4, <2>5, BeginKeeps
  <1>2. ASSUME NEW u \in User, NEW v \in Voucher, NEW op \in {"approve", "reject"},
               BeginDecision(t, u, v, op)
        PROVE  LocksIInv'
    <2> DEFINE cmd == [op |-> op, user |-> u, v |-> v, of |-> NoVoucher, branch |-> slip[v].branch,
                       type |-> slip[v].type, entry |-> slip[v].entry]
    <2>1. /\ Begin(t, cmd, "voucher", slip[v].required)
          /\ "voucher:authorize" \in May[u] /\ status[v] # "NONE"
      BY <1>2 DEF BeginDecision
    <2>2. slip[v] \in Slip
      BY <1>0 DEF TypeOK
    <2>3. cmd \in Command /\ slip[v].required \in Nat
      BY <2>2 DEF Command, Slip
    <2>4. PICK c, n : c = cmd /\ n = slip[v].required
      OBVIOUS
    <2>5. /\ c.op \in {"approve", "reject"} /\ c.user = u /\ c.v = v
          /\ c.branch = slip[v].branch /\ c.type = slip[v].type /\ c.entry = slip[v].entry
      BY <2>4
    <2> HIDE DEF cmd
    <2> QED
      BY <2>1, <2>3, <2>4, <2>5, BeginKeeps
  <1>3. ASSUME NEW u \in User, NEW v \in Voucher, NEW w \in Voucher, BeginReverse(t, u, v, w)
        PROVE  LocksIInv'
    <2> DEFINE cmd == [op |-> "reverse", user |-> u, v |-> w, of |-> v, branch |-> HomeBranch[u],
                       type |-> slip[v].type, entry |-> Flip(slip[v].entry)]
    <2>1. PICK n \in RequiredApprovals(HomeBranch[u], slip[v].type, Debits(slip[v].entry)) :
             Begin(t, cmd, "voucher", n)
      BY <1>3 DEF BeginReverse
    <2>2. /\ "voucher:reverse" \in May[u] /\ status[v] # "NONE" /\ Fresh(w)
          /\ HomeBranch[u] = slip[v].branch \/ u \in MultiBranch
      BY <1>3 DEF BeginReverse
    <2>3. slip[v].type \in TxnType /\ slip[v].entry \in Legs
      BY <1>0 DEF TypeOK, Slip
    <2>4. cmd \in Command /\ n \in Nat
      BY <1>0, <2>3, FlipLegs, RequiredType DEF Command
    <2>5. PICK c : c = cmd
      OBVIOUS
    <2>6. /\ c.op = "reverse" /\ c.user = u /\ c.v = w /\ c.of = v
          /\ c.branch = HomeBranch[u] /\ c.type = slip[v].type /\ c.entry = Flip(slip[v].entry)
      BY <2>5
    <2> HIDE DEF cmd
    <2> QED
      BY <2>1, <2>2, <2>4, <2>5, <2>6, BeginKeeps
  <1> QED
    BY <1>1, <1>2, <1>3 DEF Start

----------------------------------------------------------------------------

\* lockVoucher, and the checks of the handler on the row it returns.
LEMMA LockVoucherKeeps ==
    ASSUME LocksIInv, NEW t \in Txn, LockVoucher(t)
    PROVE  LocksIInv'
  <1>1. /\ Running(t) /\ job[t] \in Job /\ Sound(t) /\ job[t].phase = "voucher"
        /\ Acceptable(job[t].cmd)
    BY DEF LockVoucher, LocksIInv, JobsTyped, Running
  <1>2. PICK o, c, n : o = job[t] /\ c = o.cmd /\ n = Cardinality(Approvals(c.v))
    OBVIOUS
  <1>3. PICK j : j = Judge(t)
    OBVIOUS
  <1> USE DEF Entering, Deciding
  <1>4. /\ c \in Command /\ c.op \in {"create", "approve", "reject", "reverse"}
        /\ o \in Job /\ o.read \subseteq Account /\ o.posts \in BOOLEAN /\ n \in Nat
        /\ c.op # "create" /\ o.read = {} /\ o.number = 0 /\ (Deciding(c) => ~o.posts)
        /\ c.op = "reverse" => c.of \in Voucher
    BY <1>1, <1>2, JobFields, ApprovalsCount DEF Sound, Reached, Ordered, LocksIInv
  <1>5. j = [o EXCEPT !.given = n,
                      !.posts = o.posts \/ (c.op = "approve" /\ n + 1 >= o.need),
                      !.phase = CASE c.op = "reverse" -> "sequence"
                                  [] c.op = "approve" /\ n + 1 >= o.need -> "balances"
                                  [] OTHER -> "commit"]
    BY <1>2, <1>3 DEF Judge
  <1>6. /\ j.cmd = c /\ j.need = o.need /\ j.given = n /\ j.number = 0 /\ j.read = {}
        /\ j.posts <=> (o.posts \/ (c.op = "approve" /\ n + 1 >= o.need))
        /\ c.op = "reverse" => j.phase = "sequence"
        /\ Deciding(c) => j.phase = IF c.op = "approve" /\ n + 1 >= o.need
                                   THEN "balances" ELSE "commit"
        /\ j \in Job
    BY <1>2, <1>4, <1>5 DEF Job
  <1>7. VoucherRow(c) \in Row /\ Wanted(t) = {VoucherRow(c)}
    BY <1>1, <1>2, <1>4, JobFields DEF Row, Wanted, VoucherRow
  <1>8. Lock(t, VoucherRow(c), j)
    BY <1>3, <1>7 DEF LockVoucher
  <1>9. /\ job'[t] = j /\ held'[t] = held[t] \cup {VoucherRow(c)}
        /\ UNCHANGED <<status, slip, steps, balance, lastSeq, version>>
    BY <1>8 DEF Lock, LocksIInv, JobsTyped, vars
  <1>10. Ordered(t)'
    BY <1>1, <1>2, <1>4, <1>6, <1>9 DEF Sound, Ordered
  <1>11. Reached(t)'
    <2>1. CASE c.op = "reverse"
      BY <1>6, <1>9, <2>1 DEF Reached
    <2>2. CASE Deciding(c)
      <3>1. j.posts <=> c.op = "approve" /\ j.given + 1 >= j.need
        BY <1>4, <1>6, <2>2
      <3> QED
        BY <1>6, <1>9, <2>2, <3>1 DEF Reached
    <2> QED
      BY <1>4, <2>1, <2>2
  <1>12. InOrder(t)'
    BY <1>6, <1>9 DEF InOrder
  <1>13. Locked(t)'
    <2>1. j.phase # "voucher" /\ VoucherRow(c)[1] = "voucher"
      BY <1>4, <1>6 DEF VoucherRow
    <2>2. \A row \in held[t] : row[1] \notin {"voucher", "balance", "sequence", "batch"}
      BY <1>1, <1>2, <1>4 DEF Sound, Locked
    <2> QED
      BY <1>4, <1>6, <1>9, <2>1, <2>2 DEF Locked
  <1>14. Current(t)'
    <2>1. Acceptable(c)' /\ Approvals(c.v)' = Approvals(c.v)
      BY <1>1, <1>2, <1>4, <1>9 DEF Acceptable, MayDecide, ActorsOf, Approvals, ReversalsOf
    <2>2. Deciding(c) => j.given = Cardinality(Approvals(c.v)')
      BY <1>2, <1>6, <2>1
    <2> QED
      BY <1>6, <1>9, <2>1, <2>2 DEF Current, Acceptable, MayDecide
  <1>15. Sound(t)'
    BY <1>10, <1>11, <1>12, <1>13, <1>14 DEF Sound
  <1> QED
    BY <1>1, <1>2, <1>6, <1>7, <1>8, <1>15, LockKeeps

\* What the three lemmas on the later locks have in common: the next row is new
\* and the job goes on with the same command.
LEMMA LocksAreKnown ==
    ASSUME LocksIInv, NEW t \in Txn, Running(t)
    PROVE  /\ job[t] \in Job /\ Sound(t)
           /\ held \in [Txn -> SUBSET Row] /\ job \in [Txn -> Job \cup {Idle}]
           /\ TypeOK /\ version \in [Account -> Nat]
  BY DEF LocksIInv, JobsTyped, Running, TypeInv

\* lockBalancesForUpdate: one more balance, the next in order of its id.
LEMMA LockBalanceKeeps ==
    ASSUME LocksIInv, NEW t \in Txn, LockBalance(t)
    PROVE  LocksIInv'
  <1> USE DEF Entering, Deciding
  <1>1. /\ Running(t) /\ job[t].phase = "balances"
        /\ job[t] \in Job /\ Sound(t)
        /\ held \in [Txn -> SUBSET Row] /\ job \in [Txn -> Job \cup {Idle}]
        /\ TypeOK /\ version \in [Account -> Nat]
    BY LocksAreKnown DEF LockBalance
  <1>2. PICK o, c : o = job[t] /\ c = o.cmd
    OBVIOUS
  <1>3. PICK a \in NextBalance(o) :
          Lock(t, <<"balance", a>>,
               [o EXCEPT !.read = o.read \cup {a},
                         !.bal[a] = balance[a],
                         !.ver[a] = version[a],
                         !.phase = IF Unread(o) # {a} THEN "balances"
                                   ELSE IF c.op = "create" THEN "sequence"
                                   ELSE "batch"])
    BY <1>2 DEF LockBalance
  <1>4. PICK j : j = [o EXCEPT !.read = o.read \cup {a},
                               !.bal[a] = balance[a],
                               !.ver[a] = version[a],
                               !.phase = IF Unread(o) # {a} THEN "balances"
                                         ELSE IF c.op = "create" THEN "sequence"
                                         ELSE "batch"]
    OBVIOUS
  <1>5. /\ o \in Job /\ o.read \subseteq Account /\ c \in Command
        /\ o.bal \in [Account -> Int] /\ o.ver \in [Account -> Nat]
        /\ c.op \in {"create", "approve", "reject", "reverse"}
    BY <1>1, <1>2, JobFields
  <1>6. /\ a \in Account /\ a \in Unread(o) /\ a \notin o.read
        /\ \A b \in Unread(o) : Rank[a] <= Rank[b]
    <2>1. c.entry \in Legs /\ a \in Unread(o) /\ a \notin o.read
          /\ \A b \in Unread(o) : Rank[a] <= Rank[b]
      BY <1>2, <1>5 DEF NextBalance, Unread, Command
    <2> QED
      BY <1>2, <2>1, TouchedType DEF Unread
  <1>7. /\ j.cmd = c /\ j.need = o.need /\ j.given = o.given /\ j.number = o.number
        /\ j.posts = o.posts /\ j.read = o.read \cup {a}
        /\ j.bal = [o.bal EXCEPT ![a] = balance[a]] /\ j.ver = [o.ver EXCEPT ![a] = version[a]]
        /\ j.phase = IF Unread(o) # {a} THEN "balances"
                     ELSE IF c.op = "create" THEN "sequence" ELSE "batch"
    BY <1>2, <1>4, <1>5 DEF Job
  <1>8. balance[a] \in Int /\ version[a] \in Nat
    BY <1>1, <1>6 DEF TypeOK
  <1>9. j \in Job
    BY <1>4, <1>5, <1>6, <1>8 DEF Job
  <1>10. Lock(t, <<"balance", a>>, j) /\ <<"balance", a>> \in Row
    BY <1>3, <1>4, <1>6 DEF Row
  <1>11. /\ job'[t] = j /\ held'[t] = held[t] \cup {<<"balance", a>>}
         /\ UNCHANGED <<status, slip, steps, balance, lastSeq, version>>
    BY <1>1, <1>10 DEF Lock, vars
  <1>12. Unread(j) = Unread(o) \ {a} /\ (j.phase # "balances" => Touched(c.entry) \subseteq j.read)
    BY <1>2, <1>7 DEF Unread
  <1>13. Ordered(t)'
    BY <1>1, <1>2, <1>7, <1>11 DEF Sound, Ordered
  <1>14. Reached(t)'
    BY <1>1, <1>2, <1>7, <1>11, <1>12 DEF Sound, Reached
  <1>15. InOrder(t)'
    <2>1. ASSUME NEW x \in j.read, NEW b \in Unread(j) PROVE Rank[x] < Rank[b]
      <3>1. b \in Unread(o) /\ b # a /\ b \in Account
        <4>1. c.entry \in Legs
          BY <1>5 DEF Command
        <4> QED
          BY <1>2, <1>12, <4>1, TouchedType DEF Unread
      <3>2. Rank[a] \in Nat /\ Rank[b] \in Nat /\ Rank[a] # Rank[b]
        BY <1>6, <3>1, LockConstants
      <3>3. CASE x = a
        BY <1>6, <3>1, <3>2, <3>3
      <3>4. CASE x \in o.read
        BY <1>1, <1>2, <3>1, <3>4 DEF Sound, InOrder
      <3> QED
        BY <1>7, <3>3, <3>4
    <2> QED
      BY <1>11, <2>1 DEF InOrder
  <1>16. Locked(t)'
    <2>1. j.phase # "voucher" /\ j.phase # "commit"
      BY <1>7
    <2>2. /\ c.op # "create" => VoucherRow(c) \in held[t]
          /\ \A x \in o.read : <<"balance", x>> \in held[t]
          /\ o.number # 0 => <<"sequence", c.branch>> \in held[t]
          /\ \A row \in held[t] :
               /\ row[1] = "voucher" => c.op # "create"
               /\ row[1] = "balance" => row[2] \in o.read
               /\ row[1] = "sequence" => o.number # 0
               /\ row[1] # "batch"
      BY <1>1, <1>2 DEF Sound, Locked
    <2> QED
      BY <1>7, <1>11, <2>1, <2>2 DEF Locked
  <1>17. Current(t)'
    <2>1. /\ c.op # "create" => Acceptable(c)
          /\ Deciding(c) => o.given = Cardinality(Approvals(c.v))
          /\ o.number # 0 => o.number = NextNumber(c.branch)
          /\ \A x \in o.read : o.bal[x] = balance[x] /\ o.ver[x] = version[x]
      BY <1>1, <1>2 DEF Sound, Current
    <2>2. \A x \in j.read : j.bal[x] = balance[x] /\ j.ver[x] = version[x]
      BY <1>5, <1>6, <1>7, <2>1
    <2>3. /\ c.op # "create" => Acceptable(c)'
          /\ Approvals(c.v)' = Approvals(c.v) /\ NextNumber(c.branch)' = NextNumber(c.branch)
      BY <1>5, <1>11, <2>1 DEF Acceptable, MayDecide, ActorsOf, Approvals, ReversalsOf, NextNumber
    <2> QED
      BY <1>5, <1>7, <1>11, <2>1, <2>2, <2>3 DEF Current, Acceptable, MayDecide
  <1>18. Sound(t)'
    BY <1>13, <1>14, <1>15, <1>16, <1>17 DEF Sound
  <1> QED
    BY <1>1, <1>2, <1>7, <1>9, <1>10, <1>18, LockKeeps

\* The books a lock leaves alone say the same of what was read before.
LEMMA CurrentStays ==
    ASSUME LocksIInv, NEW t \in Txn, Running(t), NEW j \in Job, job'[t] = j,
           UNCHANGED <<status, slip, steps, balance, lastSeq, version>>,
           j.cmd = job[t].cmd, j.given = job[t].given, j.read = job[t].read,
           j.bal = job[t].bal, j.ver = job[t].ver, job[t].phase # "voucher",
           j.number = job[t].number \/ j.number = NextNumber(j.cmd.branch)
    PROVE  Current(t)'
  <1> USE DEF Deciding
  <1>1. PICK o, c : o = job[t] /\ c = o.cmd
    OBVIOUS
  <1>2. /\ c.op # "create" => Acceptable(c)
        /\ Deciding(c) => o.given = Cardinality(Approvals(c.v))
        /\ o.number # 0 => o.number = NextNumber(c.branch)
        /\ \A x \in o.read : o.bal[x] = balance[x] /\ o.ver[x] = version[x]
    BY <1>1, LocksAreKnown DEF Sound, Current
  <1>3. c.op \in {"create", "approve", "reject", "reverse"}
    BY <1>1, LocksAreKnown, JobFields
  <1>4. /\ c.op # "create" => Acceptable(c)'
        /\ Approvals(c.v)' = Approvals(c.v) /\ NextNumber(c.branch)' = NextNumber(c.branch)
    BY <1>2, <1>3 DEF Acceptable, MayDecide, ActorsOf, Approvals, ReversalsOf, NextNumber
  <1> QED
    BY <1>1, <1>2, <1>3, <1>4 DEF Current, Acceptable, MayDecide

\* allocateVoucherNumber, whose UPDATE locks the counter of the branch.
LEMMA LockSequenceKeeps ==
    ASSUME LocksIInv, NEW t \in Txn, LockSequence(t)
    PROVE  LocksIInv'
  <1> USE DEF Entering, Deciding
  <1>1. /\ Running(t) /\ job[t].phase = "sequence" /\ LinesOK(job[t])
        /\ job[t] \in Job /\ Sound(t)
        /\ held \in [Txn -> SUBSET Row] /\ job \in [Txn -> Job \cup {Idle}] /\ TypeOK
    BY LocksAreKnown DEF LockSequence
  <1>2. PICK o, c, row : o = job[t] /\ c = o.cmd /\ row = <<"sequence", c.branch>>
    OBVIOUS
  <1>3. PICK j : j = [o EXCEPT !.number = NextNumber(c.branch),
                               !.phase = IF ~o.posts THEN "commit"
                                         ELSE IF c.op = "create" THEN "batch"
                                         ELSE "balances"]
    OBVIOUS
  <1>4. /\ o \in Job /\ c.branch \in Branch /\ c.op \in {"create", "approve", "reject", "reverse"}
    BY <1>1, <1>2, JobFields
  <1>5. Wanted(t) = {row} /\ row \in Row
    BY <1>1, <1>2, <1>4 DEF Wanted, Row
  <1>6. Lock(t, row, j)
    BY <1>2, <1>3, <1>5 DEF LockSequence
  <1>7. NextNumber(c.branch) \in Nat /\ NextNumber(c.branch) # 0
    BY <1>1, <1>4 DEF NextNumber, TypeOK
  <1>8. /\ j.cmd = c /\ j.need = o.need /\ j.given = o.given /\ j.number = NextNumber(c.branch)
        /\ j.posts = o.posts /\ j.read = o.read /\ j.bal = o.bal /\ j.ver = o.ver
        /\ j.phase = IF ~o.posts THEN "commit" ELSE IF c.op = "create" THEN "batch" ELSE "balances"
        /\ j \in Job
    BY <1>2, <1>3, <1>4, <1>7 DEF Job
  <1>9. /\ job'[t] = j /\ held'[t] = held[t] \cup {row}
        /\ UNCHANGED <<status, slip, steps, balance, lastSeq, version>>
    BY <1>1, <1>6 DEF Lock, vars
  <1>10. /\ c.op \in {"create", "reverse"} /\ o.number = 0
         /\ c.op = "create" => Touched(c.entry) \subseteq o.read
         /\ c.op = "reverse" => o.read = {}
    BY <1>1, <1>2, <1>4 DEF Sound, Reached
  <1>11. Ordered(t)'
    BY <1>1, <1>2, <1>8, <1>9 DEF Sound, Ordered
  <1>12. Reached(t)'
    <2>1. LinesOK(j)
      BY <1>1, <1>2, <1>8 DEF LinesOK, Covered
    <2> QED
      BY <1>7, <1>8, <1>9, <1>10, <2>1 DEF Reached
  <1>13. InOrder(t)'
    BY <1>1, <1>2, <1>8, <1>9 DEF Sound, InOrder, Unread
  <1>14. Locked(t)'
    <2>1. /\ c.op # "create" => VoucherRow(c) \in held[t]
          /\ \A x \in o.read : <<"balance", x>> \in held[t]
          /\ \A r \in held[t] :
               /\ r[1] = "voucher" => c.op # "create"
               /\ r[1] = "balance" => r[2] \in o.read
               /\ r[1] # "batch"
      BY <1>1, <1>2 DEF Sound, Locked
    <2>2. j.phase # "voucher" /\ j.number # 0
      BY <1>7, <1>8
    <2> QED
      BY <1>2, <1>8, <1>9, <2>1, <2>2 DEF Locked
  <1>15. Current(t)'
    BY <1>1, <1>2, <1>8, <1>9, CurrentStays
  <1>16. Sound(t)'
    BY <1>11, <1>12, <1>13, <1>14, <1>15 DEF Sound
  <1> QED
    BY <1>1, <1>2, <1>5, <1>6, <1>8, <1>16, LockKeeps

\* incrementBatchTotals, the last lock before the COMMIT.
LEMMA LockBatchKeeps ==
    ASSUME LocksIInv, NEW t \in Txn, LockBatch(t)
    PROVE  LocksIInv'
  <1> USE DEF Entering, Deciding
  <1>1. /\ Running(t) /\ job[t].phase = "batch" /\ Covered(job[t])
        /\ job[t] \in Job /\ Sound(t)
        /\ held \in [Txn -> SUBSET Row] /\ job \in [Txn -> Job \cup {Idle}]
    BY LocksAreKnown DEF LockBatch
  <1>2. PICK o, c, row : o = job[t] /\ c = o.cmd /\ row = <<"batch", <<c.branch, c.type>>>>
    OBVIOUS
  <1>3. PICK j : j = [o EXCEPT !.phase = "commit"]
    OBVIOUS
  <1>4. o \in Job /\ c.branch \in Branch /\ c.type \in TxnType
    BY <1>1, <1>2, JobFields
  <1>5. Wanted(t) = {row} /\ row \in Row
    BY <1>1, <1>2, <1>4 DEF Wanted, Row
  <1>6. Lock(t, row, j)
    BY <1>2, <1>3, <1>5 DEF LockBatch
  <1>7. /\ j.cmd = c /\ j.need = o.need /\ j.given = o.given /\ j.number = o.number
        /\ j.posts = o.posts /\ j.read = o.read /\ j.bal = o.bal /\ j.ver = o.ver
        /\ j.phase = "commit" /\ j \in Job
    BY <1>2, <1>3, <1>4 DEF Job
  <1>8. /\ job'[t] = j /\ held'[t] = held[t] \cup {row}
        /\ UNCHANGED <<status, slip, steps, balance, lastSeq, version>>
    BY <1>1, <1>6 DEF Lock, vars
  <1>9. Ordered(t)'
    BY <1>1, <1>2, <1>7, <1>8 DEF Sound, Ordered
  <1>10. Reached(t)'
    <2>1. Covered(j) /\ (LinesOK(o) => LinesOK(j))
      BY <1>1, <1>2, <1>7 DEF LinesOK, Covered
    <2> QED
      BY <1>1, <1>2, <1>7, <1>8, <2>1 DEF Sound, Reached
  <1>11. InOrder(t)'
    BY <1>1, <1>2, <1>7, <1>8 DEF Sound, InOrder, Unread
  <1>12. Locked(t)'
    <2>1. /\ c.op # "create" => VoucherRow(c) \in held[t]
          /\ \A x \in o.read : <<"balance", x>> \in held[t]
          /\ o.number # 0 => <<"sequence", c.branch>> \in held[t]
          /\ \A r \in held[t] :
               /\ r[1] = "voucher" => c.op # "create"
               /\ r[1] = "balance" => r[2] \in o.read
               /\ r[1] = "sequence" => o.number # 0
      BY <1>1, <1>2 DEF Sound, Locked
    <2> QED
      BY <1>2, <1>7, <1>8, <2>1 DEF Locked
  <1>13. Current(t)'
    BY <1>1, <1>2, <1>7, <1>8, CurrentStays
  <1>14. Sound(t)'
    BY <1>9, <1>10, <1>11, <1>12, <1>13 DEF Sound
  <1> QED
    BY <1>1, <1>2, <1>5, <1>6, <1>7, <1>14, LockKeeps

----------------------------------------------------------------------------
(* A COMMIT is a step of Ledger                                            *)

\* One transaction writes its events one after the other.
LEMMA TwoEvents == ASSUME NEW x, NEW y PROVE <<x>> \o <<y>> = <<x, y>>
  <1>1. <<x>> \in Seq({x, y}) /\ <<y>> \in Seq({x, y}) /\ <<x, y>> \in Seq({x, y})
    OBVIOUS
  <1>2. /\ <<x>> \o <<y>> \in Seq({x, y}) /\ Len(<<x>> \o <<y>>) = 2
        /\ (<<x>> \o <<y>>)[1] = x /\ (<<x>> \o <<y>>)[2] = y
    BY <1>1, ConcatProperties
  <1>3. \A i \in 1..2 : (<<x>> \o <<y>>)[i] = <<x, y>>[i]
    BY <1>2
  <1> QED
    BY <1>1, <1>2, <1>3, SeqEqual

\* A transaction with one event writes just that.
LEMMA OneEvent == ASSUME NEW x PROVE <<x>> \o <<>> = <<x>>
  <1>1. <<x>> \in Seq({x})
    OBVIOUS
  <1> QED
    BY <1>1, ConcatEmptySeq

\* A transaction without events leaves the outbox alone.
LEMMA NoEvent == ASSUME outbox \in Seq(Event), NEW v, Announce(<<>>, v) PROVE outbox' = outbox
  <1>1. Len(<<>>) = 0 /\ 1..0 = {}
    BY EmptySeq
  <1>2. [i \in 1..Len(<<>>) |-> [type |-> (<<>>)[i], voucher |-> v]] = <<>>
    BY <1>1
  <1> QED
    BY <1>2, ConcatEmptySeq DEF Announce

\* What applyPosting writes, computed from balances read some statements ago, is
\* what Ledger computes from those of now, and touches only accounts it has read.
LEMMA AppliesNow ==
    ASSUME LocksIInv, NEW t \in Txn, Running(t), job[t].phase = "commit", job[t].posts, Apply(t)
    PROVE  /\ Covers(balance, job[t].cmd.entry)
           /\ MoveMoney(job[t].cmd.v, job[t].cmd.entry)
           /\ AddToBatch(job[t].cmd.branch, job[t].cmd.type, Debits(job[t].cmd.entry))
           /\ version' \in [Account -> Nat]
           /\ \A a \in Account \ job[t].read : balance'[a] = balance[a] /\ version'[a] = version[a]
  <1>1. PICK j, e : j = job[t] /\ e = j.cmd.entry
    OBVIOUS
  <1>2. /\ j \in Job /\ e \in Legs /\ j.read \subseteq Account
        /\ version \in [Account -> Nat] /\ balance \in [Account -> Int]
    BY <1>1, LocksAreKnown, JobFields DEF TypeOK
  <1>3. /\ Touched(e) \subseteq j.read /\ Covers(j.bal, e)
        /\ \A a \in j.read : j.bal[a] = balance[a] /\ j.ver[a] = version[a]
    BY <1>1, LocksAreKnown DEF Sound, Reached, Current, Covered
  <1>4. \A a \in Account \ j.read : Net(e, a) = 0
    BY <1>2, <1>3, Untouched
  <1>5. Covers(balance, e)
    <2>1. ASSUME NEW a \in Account, Net(e, a) < 0 PROVE balance[a] - Reserved[a] >= -Net(e, a)
      BY <1>3, <1>4, <2>1 DEF Covers
    <2> QED
      BY <2>1 DEF Covers
  <1>6. /\ balance' = [a \in Account |-> balance[a] + Net(e, a)]
        /\ after' = [after EXCEPT ![j.cmd.v] =
              [i \in DOMAIN e |-> j.bal[e[i].account] + Net(e, e[i].account)]]
        /\ version' = [a \in Account |-> IF a \in j.read THEN version[a] + 1 ELSE version[a]]
        /\ AddToBatch(j.cmd.branch, j.cmd.type, Debits(e))
    BY <1>1 DEF Apply
  <1>7. [i \in DOMAIN e |-> j.bal[e[i].account] + Net(e, e[i].account)]
          = [i \in DOMAIN e |-> balance[e[i].account] + Net(e, e[i].account)]
    <2>1. \A i \in DOMAIN e : j.bal[e[i].account] = balance[e[i].account]
      BY <1>3 DEF Touched
    <2> QED
      BY <2>1
  <1>8. MoveMoney(j.cmd.v, e)
    BY <1>6, <1>7 DEF MoveMoney
  <1>9. \A a \in Account \ j.read : balance'[a] = balance[a] /\ version'[a] = version[a]
    BY <1>2, <1>4, <1>6
  <1>10. version' \in [Account -> Nat]
    BY <1>2, <1>6
  <1> QED
    BY <1>1, <1>5, <1>6, <1>8, <1>9, <1>10

\* The COMMIT of an entry or a reversal is the handler of Ledger run at that moment.
LEMMA EntryCommits ==
    ASSUME LocksIInv, NEW t \in Txn, CommitEntry(t)
    PROVE  Next
  <1> USE DEF Entering, Deciding
  <1>1. /\ Running(t) /\ job[t].phase = "commit" /\ job[t].cmd.op \in {"create", "reverse"}
        /\ job[t] \in Job /\ Sound(t) /\ TypeOK
    BY LocksAreKnown DEF CommitEntry
  <1>2. PICK j, c : j = job[t] /\ c = j.cmd
    OBVIOUS
  <1>3. PICK s : s = [branch |-> c.branch, type |-> c.type, maker |-> c.user, entry |-> c.entry,
                      required |-> j.need, number |-> j.number, reversalOf |-> c.of]
    OBVIOUS
  <1>4. PICK st : st = IF c.op = "create" THEN status ELSE [status EXCEPT ![c.of] = "REVERSED"]
    OBVIOUS
  <1>5. PICK ev : ev = IF c.op = "create" THEN "voucher.created" ELSE "voucher.reversal_created"
    OBVIOUS
  <1>6. /\ c.v \in Voucher /\ c.user \in User /\ c.type \in TxnType /\ c.entry \in Legs
        /\ c.branch \in Branch /\ j.need \in Nat /\ j.posts \in BOOLEAN
        /\ status[c.v] = "NONE" /\ (j.posts <=> j.need = 0)
        /\ j.number = NextNumber(c.branch)
    BY <1>1, <1>2, JobFields DEF Sound, Ordered, Reached, Current
  <1>7. /\ c.op = "create" => c.of \notin Voucher
        /\ c.op = "reverse" => c.of \in Voucher /\ status[c.of] = "POSTED" /\ ReversalsOf(c.of) = {}
    BY <1>1, <1>2, LedgerConstants DEF Sound, Ordered, Current, Acceptable
  <1>8. Enter(c.v, s, st, ev)
    <2>1. /\ slip' = [slip EXCEPT ![c.v] = s] /\ UNCHANGED steps
          /\ lastSeq' = [lastSeq EXCEPT ![s.branch] = s.number]
          /\ s.required = j.need /\ s.entry = c.entry /\ s.branch = c.branch /\ s.type = c.type
      BY <1>2, <1>3 DEF CommitEntry
    <2>2. status' = [st EXCEPT ![c.v] = IF j.posts THEN "POSTED" ELSE "PENDING_AUTH"]
      <3>1. status' = [x \in Voucher |->
              CASE x = c.v  -> IF j.posts THEN "POSTED" ELSE "PENDING_AUTH"
                [] x = c.of -> "REVERSED"
                [] OTHER    -> status[x]]
        BY <1>2 DEF CommitEntry
      <3>2. status \in [Voucher -> Status] /\ c.v # c.of
        BY <1>1, <1>2, <1>6, <1>7 DEF TypeOK
      <3>3. st \in [Voucher -> Status]
        BY <1>4, <3>2 DEF Status
      <3>4. \A x \in Voucher : status'[x] = [st EXCEPT ![c.v] = IF j.posts THEN "POSTED" ELSE "PENDING_AUTH"][x]
        BY <1>1, <1>2, <1>4, <1>7, <3>1, <3>2, <3>3
      <3> QED
        BY <3>1, <3>3, <3>4
    <2>3. Announce(<<ev>> \o (IF j.posts THEN <<"voucher.posted">> ELSE <<>>), c.v)
      BY <1>2, <1>5 DEF CommitEntry
    <2>4. CASE j.posts
      <3>1. Apply(t)
        BY <1>2, <2>4 DEF CommitEntry, ApplyOrNot
      <3>2. Post(c.v, s)
        BY <1>1, <1>2, <2>1, <2>4, <3>1, AppliesNow DEF Post
      <3>3. Announce(<<ev, "voucher.posted">>, c.v)
        BY <2>3, <2>4, TwoEvents
      <3> QED
        BY <1>6, <2>1, <2>2, <2>4, <3>2, <3>3 DEF Enter
    <2>5. CASE ~j.posts
      <3>1. NoPosting
        BY <1>2, <2>5 DEF CommitEntry, ApplyOrNot
      <3>2. Announce(<<ev>>, c.v)
        BY <2>3, <2>5, OneEvent
      <3> QED
        BY <1>6, <2>1, <2>2, <2>5, <3>1, <3>2 DEF Enter
    <2> QED
      BY <2>4, <2>5
  <1>9. CASE c.op = "create"
    <2>1. /\ "voucher:create" \in May[c.user] /\ c.branch = HomeBranch[c.user]
          /\ c.of = NoVoucher /\ c.entry \in Entry
          /\ Positive(c.entry) /\ Balanced(c.entry)
          /\ j.need \in RequiredApprovals(c.branch, c.type, Debits(c.entry))
          /\ LinesOK(j) /\ Touched(c.entry) \subseteq j.read
          /\ \A a \in j.read : j.bal[a] = balance[a]
      BY <1>1, <1>2, <1>9 DEF Sound, Ordered, Reached, Current
    <2>2. Postable(c.entry) /\ TypeAllowed(c.entry, c.type) /\ Covers(j.bal, c.entry)
      BY <1>9, <1>2, <2>1 DEF LinesOK, Covered
    <2>3. Covers(balance, c.entry)
      <3>1. ASSUME NEW a \in Account, Net(c.entry, a) < 0
            PROVE  balance[a] - Reserved[a] >= -Net(c.entry, a)
        <4>1. a \in j.read
          BY <1>6, <2>1, <3>1, Untouched
        <4> QED
          BY <2>1, <2>2, <3>1, <4>1 DEF Covers
      <3> QED
        BY <3>1 DEF Covers
    <2>4. s = [branch |-> HomeBranch[c.user], type |-> c.type, maker |-> c.user, entry |-> c.entry,
               required |-> j.need, number |-> NextNumber(HomeBranch[c.user]), reversalOf |-> NoVoucher]
      BY <1>3, <1>6, <2>1
    <2>5. Enter(c.v, s, status, "voucher.created")
      BY <1>4, <1>5, <1>8, <1>9
    <2>6. CreateVoucher(c.v, c.user, c.type, c.entry)
      BY <2>1, <2>2, <2>3, <2>4, <2>5 DEF CreateVoucher
    <2> QED
      BY <1>6, <2>1, <2>6 DEF Next
  <1>10. CASE c.op = "reverse"
    <2>1. /\ "voucher:reverse" \in May[c.user] /\ c.branch = HomeBranch[c.user]
          /\ c.branch = slip[c.of].branch \/ c.user \in MultiBranch
          /\ c.type = slip[c.of].type /\ c.entry = Flip(slip[c.of].entry)
          /\ j.need \in RequiredApprovals(c.branch, c.type, Debits(slip[c.of].entry))
      BY <1>1, <1>2, <1>10 DEF Sound, Ordered
    <2>2. s = Contra(c.of, c.user, j.need)
      BY <1>3, <1>6, <2>1 DEF Contra
    <2>3. Enter(c.v, s, [status EXCEPT ![c.of] = "REVERSED"], "voucher.reversal_created")
      BY <1>4, <1>5, <1>8, <1>10
    <2>4. ReverseVoucher(c.of, c.v, c.user)
      BY <1>7, <1>10, <2>1, <2>2, <2>3 DEF ReverseVoucher
    <2> QED
      BY <1>6, <1>7, <1>10, <2>4 DEF Next
  <1> QED
    BY <1>1, <1>2, <1>9, <1>10

\* The COMMIT of an approval or a rejection is the handler of Ledger run at that moment.
LEMMA DecisionCommits ==
    ASSUME LocksIInv, NEW t \in Txn, CommitDecision(t)
    PROVE  Next
  <1> USE DEF Entering, Deciding
  <1>1. /\ Running(t) /\ job[t].phase = "commit" /\ job[t].cmd.op \in {"approve", "reject"}
        /\ job[t] \in Job /\ Sound(t) /\ TypeOK
    BY LocksAreKnown DEF CommitDecision
  <1>2. PICK j, c : j = job[t] /\ c = j.cmd
    OBVIOUS
  <1>3. /\ c.v \in Voucher /\ c.user \in User /\ j.need \in Nat /\ j.posts \in BOOLEAN
        /\ j.given \in Nat /\ j.given = Cardinality(Approvals(c.v))
        /\ "voucher:authorize" \in May[c.user] /\ MayDecide(c.v, c.user)
        /\ c.branch = slip[c.v].branch /\ c.type = slip[c.v].type
        /\ c.entry = slip[c.v].entry /\ j.need = slip[c.v].required
        /\ j.posts <=> c.op = "approve" /\ j.given + 1 >= j.need
    BY <1>1, <1>2, JobFields DEF Sound, Ordered, Reached, Current, Acceptable
  <1>4. /\ steps' = steps \cup {[voucher |-> c.v, level |-> j.given + 1, actor |-> c.user,
                                 decision |-> IF c.op = "approve" THEN "APPROVED" ELSE "REJECTED"]}
        /\ status' = [status EXCEPT ![c.v] = CASE c.op = "reject" -> "REJECTED"
                                               [] j.posts -> "POSTED"
                                               [] OTHER -> status[c.v]]
        /\ Announce(CASE c.op = "reject" -> <<"voucher.rejected">>
                      [] j.posts -> <<"voucher.posted">>
                      [] OTHER -> <<>>, c.v)
        /\ UNCHANGED <<slip, lastSeq>>
        /\ ApplyOrNot(t)
    BY <1>2 DEF CommitDecision
  <1>5. CASE c.op = "reject"
    <2>1. ~j.posts /\ NoPosting
      BY <1>2, <1>3, <1>4, <1>5 DEF ApplyOrNot
    <2>2. RejectVoucher(c.v, c.user)
      BY <1>3, <1>4, <1>5, <2>1 DEF RejectVoucher, Decide
    <2> QED
      BY <1>3, <2>2 DEF Next
  <1>6. CASE c.op = "approve" /\ j.posts
    <2>1. Apply(t)
      BY <1>2, <1>4, <1>6 DEF ApplyOrNot
    <2>2. Post(c.v, slip[c.v])
      BY <1>1, <1>2, <1>3, <1>6, <2>1, AppliesNow DEF Post
    <2>3. status' = [status EXCEPT ![c.v] = "POSTED"] /\ Announce(<<"voucher.posted">>, c.v)
      BY <1>4, <1>6
    <2>4. ApproveVoucher(c.v, c.user)
      BY <1>3, <1>4, <1>6, <2>2, <2>3 DEF ApproveVoucher, Decide
    <2> QED
      BY <1>3, <2>4 DEF Next
  <1>7. CASE c.op = "approve" /\ ~j.posts
    <2>1. NoPosting
      BY <1>2, <1>4, <1>7 DEF ApplyOrNot
    <2>2. status' = status
      BY <1>1, <1>3, <1>4, <1>7 DEF TypeOK
    <2>3. outbox' = outbox
      <3>1. Announce(<<>>, c.v)
        BY <1>4, <1>7
      <3> QED
        BY <1>1, <3>1, NoEvent DEF TypeOK
    <2>4. Cardinality(Approvals(c.v)) + 1 < slip[c.v].required
      BY <1>3, <1>7
    <2>5. ApproveVoucher(c.v, c.user)
      BY <1>3, <1>4, <1>7, <2>1, <2>2, <2>3, <2>4 DEF ApproveVoucher, Decide
    <2> QED
      BY <1>3, <2>5 DEF Next
  <1> QED
    BY <1>1, <1>2, <1>5, <1>6, <1>7

----------------------------------------------------------------------------
(* A COMMIT writes nothing another transaction has read under a lock       *)

\* The rows a COMMIT writes: its own voucher and the one it reverses, the counter
\* of its branch, and the balances it has locked.
LEMMA CommitWrites ==
    ASSUME LocksIInv, NEW t \in Txn, CommitEntry(t) \/ CommitDecision(t),
           NEW k, NEW d, k = job[t], d = k.cmd
    PROVE  /\ \A x \in Voucher : x # d.v /\ (d.op = "reverse" => x # d.of) => status'[x] = status[x]
           /\ status'[d.v] # "NONE"
           /\ d.op = "reverse" => /\ status[d.of] = "POSTED" /\ status'[d.of] = "REVERSED"
                                  /\ d.of # d.v
           /\ Entering(d) => /\ \A x \in Voucher \ {d.v} : slip'[x] = slip[x]
                             /\ slip'[d.v].reversalOf = d.of /\ steps' = steps
                             /\ \A b \in Branch \ {d.branch} : lastSeq'[b] = lastSeq[b]
           /\ Deciding(d) => /\ slip' = slip /\ lastSeq' = lastSeq /\ steps \subseteq steps'
                             /\ \A s \in steps' : s \in steps \/ s.voucher = d.v
           /\ \A a \in Account \ k.read : balance'[a] = balance[a] /\ version'[a] = version[a]
           /\ version' \in [Account -> Nat]
           /\ job' = [job EXCEPT ![t] = Idle] /\ held' = [held EXCEPT ![t] = {}]
  <1> USE DEF Entering, Deciding
  <1>1. /\ Running(t) /\ k.phase = "commit" /\ k \in Job /\ Sound(t) /\ TypeOK
        /\ version \in [Account -> Nat] /\ d.v \in Voucher
    BY LocksAreKnown, JobFields DEF CommitEntry, CommitDecision
  <1>2. job' = [job EXCEPT ![t] = Idle] /\ held' = [held EXCEPT ![t] = {}] /\ ApplyOrNot(t)
    BY DEF CommitEntry, CommitDecision, Release
  <1>3. /\ \A a \in Account \ k.read : balance'[a] = balance[a] /\ version'[a] = version[a]
        /\ version' \in [Account -> Nat]
    <2>1. CASE k.posts /\ Apply(t)
      BY <1>1, <2>1, AppliesNow
    <2>2. CASE NoPosting /\ UNCHANGED version
      BY <1>1, <2>2 DEF NoPosting
    <2> QED
      BY <1>2, <2>1, <2>2 DEF ApplyOrNot
  <1>4. CASE CommitEntry(t)
    <2>1. /\ status' = [x \in Voucher |->
                CASE x = d.v  -> IF k.posts THEN "POSTED" ELSE "PENDING_AUTH"
                  [] x = d.of -> "REVERSED"
                  [] OTHER    -> status[x]]
          /\ slip' = [slip EXCEPT ![d.v] =
                [branch |-> d.branch, type |-> d.type, maker |-> d.user, entry |-> d.entry,
                 required |-> k.need, number |-> k.number, reversalOf |-> d.of]]
          /\ lastSeq' = [lastSeq EXCEPT ![d.branch] = k.number]
          /\ UNCHANGED steps /\ d.op \in {"create", "reverse"}
      BY <1>4 DEF CommitEntry
    <2>2. /\ d.op = "create" => d.of \notin Voucher
          /\ d.op = "reverse" => d.of \in Voucher /\ status[d.of] = "POSTED" /\ status[d.v] = "NONE"
      BY <1>1, LedgerConstants DEF Sound, Ordered, Current, Acceptable
    <2>3. /\ status'[d.v] # "NONE"
          /\ \A x \in Voucher : x # d.v /\ (d.op = "reverse" => x # d.of) => status'[x] = status[x]
          /\ d.op = "reverse" => d.of # d.v /\ status'[d.of] = "REVERSED"
      BY <1>1, <2>1, <2>2
    <2>4. /\ \A x \in Voucher \ {d.v} : slip'[x] = slip[x]
          /\ slip'[d.v].reversalOf = d.of
          /\ \A b \in Branch \ {d.branch} : lastSeq'[b] = lastSeq[b]
      BY <1>1, <2>1 DEF TypeOK
    <2> QED
      BY <1>2, <1>3, <2>1, <2>2, <2>3, <2>4
  <1>5. CASE CommitDecision(t)
    <2>1. /\ status' = [status EXCEPT ![d.v] = CASE d.op = "reject" -> "REJECTED"
                                                 [] k.posts -> "POSTED"
                                                 [] OTHER -> status[d.v]]
          /\ UNCHANGED <<slip, lastSeq>> /\ d.op \in {"approve", "reject"}
      BY <1>5 DEF CommitDecision
    <2>2. PICK s : steps' = steps \cup {s} /\ s.voucher = d.v
      <3> DEFINE new == [voucher |-> d.v, level |-> k.given + 1, actor |-> d.user,
                         decision |-> IF d.op = "approve" THEN "APPROVED" ELSE "REJECTED"]
      <3>1. steps' = steps \cup {new}
        BY <1>5 DEF CommitDecision
      <3>2. new.voucher = d.v
        OBVIOUS
      <3> QED
        BY <3>1, <3>2
    <2>3. status[d.v] # "NONE" /\ status \in [Voucher -> Status]
      BY <1>1, <2>1 DEF Sound, Ordered, TypeOK
    <2>4. status'[d.v] # "NONE" /\ \A x \in Voucher \ {d.v} : status'[x] = status[x]
      BY <1>1, <2>1, <2>3
    <2> QED
      BY <1>2, <1>3, <2>1, <2>2, <2>4
  <1> QED
    BY <1>4, <1>5

\* What another transaction has read under its locks survives the COMMIT.
LEMMA CommitDisturbsNot ==
    ASSUME LocksIInv, NEW t \in Txn, CommitEntry(t) \/ CommitDecision(t),
           NEW u \in Txn \ {t}, Running(u)
    PROVE  Sound(u)' /\ job'[u] = job[u] /\ held'[u] = held[u]
  <1> USE DEF Entering, Deciding
  <1>1. PICK k, d, o, c : k = job[t] /\ d = k.cmd /\ o = job[u] /\ c = o.cmd
    OBVIOUS
  <1>2. /\ Running(t) /\ k.phase = "commit" /\ k \in Job /\ o \in Job /\ Sound(t) /\ Sound(u)
        /\ TypeOK /\ held \in [Txn -> SUBSET Row] /\ job \in [Txn -> Job \cup {Idle}]
    BY <1>1, LocksAreKnown DEF CommitEntry, CommitDecision
  <1>3. /\ \A x \in Voucher : x # d.v /\ (d.op = "reverse" => x # d.of) => status'[x] = status[x]
        /\ status'[d.v] # "NONE"
        /\ d.op = "reverse" => /\ status[d.of] = "POSTED" /\ status'[d.of] = "REVERSED"
                               /\ d.of # d.v
        /\ Entering(d) => /\ \A x \in Voucher \ {d.v} : slip'[x] = slip[x]
                          /\ slip'[d.v].reversalOf = d.of /\ steps' = steps
                          /\ \A b \in Branch \ {d.branch} : lastSeq'[b] = lastSeq[b]
        /\ Deciding(d) => /\ slip' = slip /\ lastSeq' = lastSeq /\ steps \subseteq steps'
                          /\ \A s \in steps' : s \in steps \/ s.voucher = d.v
        /\ \A a \in Account \ k.read : balance'[a] = balance[a] /\ version'[a] = version[a]
        /\ job' = [job EXCEPT ![t] = Idle] /\ held' = [held EXCEPT ![t] = {}]
    BY <1>1, CommitWrites
  <1>4. /\ d.v \in Voucher /\ d.op \in {"create", "approve", "reject", "reverse"}
        /\ c.v \in Voucher /\ c.op \in {"create", "approve", "reject", "reverse"}
        /\ c.branch \in Branch /\ o.read \subseteq Account
        /\ d.of \in Voucher \cup {NoVoucher}
    BY <1>1, <1>2, JobFields
  <1>5. job'[u] = o /\ held'[u] = held[u] /\ held[t] \cap held[u] = {}
    BY <1>1, <1>2, <1>3 DEF LocksIInv, Exclusive
  \* What the two of them have locked.
  <1>6. /\ d.op # "create" => VoucherRow(d) \in held[t]
        /\ Entering(d) => <<"sequence", d.branch>> \in held[t]
        /\ \A a \in k.read : <<"balance", a>> \in held[t]
    BY <1>1, <1>2 DEF Sound, Reached, Locked
  <1>7. /\ c.op # "create" /\ o.phase # "voucher" => VoucherRow(c) \in held[u]
        /\ o.number # 0 => <<"sequence", c.branch>> \in held[u]
        /\ \A a \in o.read : <<"balance", a>> \in held[u]
    BY <1>1, <1>2 DEF Sound, Locked
  \* What the vouchers they name have been so far.
  <1>8. /\ Entering(d) => status[d.v] = "NONE"
        /\ Deciding(d) => status[d.v] # "NONE"
        /\ Entering(c) => status[c.v] = "NONE"
        /\ Deciding(c) => status[c.v] # "NONE"
        /\ c.op = "reverse" => c.of \in Voucher /\ status[c.of] # "NONE"
        /\ Entering(c) /\ Entering(d) => c.v # d.v
    BY <1>1, <1>2 DEF Sound, Ordered, LocksIInv, Exclusive
  <1>9. Entering(c) => status'[c.v] = "NONE"
    BY <1>3, <1>4, <1>8
  <1>10. c.op = "reverse" => status'[c.of] # "NONE" /\ slip'[c.of] = slip[c.of]
    BY <1>3, <1>4, <1>8
  <1>11. Deciding(c) => status'[c.v] # "NONE" /\ slip'[c.v] = slip[c.v]
    BY <1>3, <1>4, <1>8
  <1>12. c.op # "create" /\ d.op # "create" /\ o.phase # "voucher" =>
            (IF c.op = "reverse" THEN c.of ELSE c.v) # (IF d.op = "reverse" THEN d.of ELSE d.v)
    BY <1>5, <1>6, <1>7 DEF VoucherRow
  <1>13. o.phase # "voucher" /\ c.op = "reverse" => status'[c.of] = status[c.of]
    BY <1>3, <1>4, <1>8, <1>12
  <1>14. o.phase # "voucher" /\ c.op = "reverse" => ReversalsOf(c.of)' = ReversalsOf(c.of)
    <2> SUFFICES ASSUME o.phase # "voucher", c.op = "reverse"
                 PROVE  ReversalsOf(c.of)' = ReversalsOf(c.of)
      OBVIOUS
    <2>1. ASSUME NEW x \in Voucher
          PROVE  (status'[x] # "NONE" /\ slip'[x].reversalOf = c.of)
                   <=> (status[x] # "NONE" /\ slip[x].reversalOf = c.of)
      <3>1. CASE x = d.v /\ Entering(d)
        <4>1. d.of # c.of
          <5>1. CASE d.op = "create"
            BY <1>1, <1>2, <1>8, <5>1, LedgerConstants DEF Sound, Ordered
          <5>2. CASE d.op = "reverse"
            BY <1>12, <5>2
          <5> QED
            BY <3>1, <5>1, <5>2
        <4> QED
          BY <1>3, <1>8, <3>1, <4>1
      <3>2. CASE x # d.v \/ Deciding(d)
        <4>1. slip'[x] = slip[x]
          BY <1>3, <1>4, <3>2
        <4>2. status'[x] # "NONE" <=> status[x] # "NONE"
          BY <1>3, <1>4, <1>8, <3>2
        <4> QED
          BY <4>1, <4>2
      <3> QED
        BY <1>4, <3>1, <3>2
    <2> QED
      BY <2>1 DEF ReversalsOf
  <1>15. o.phase # "voucher" /\ Deciding(c) =>
            /\ status'[c.v] = status[c.v]
            /\ {s \in steps' : s.voucher = c.v} = {s \in steps : s.voucher = c.v}
    <2> SUFFICES ASSUME o.phase # "voucher", Deciding(c)
                 PROVE  /\ status'[c.v] = status[c.v]
                        /\ {s \in steps' : s.voucher = c.v} = {s \in steps : s.voucher = c.v}
      OBVIOUS
    <2>1. c.v # d.v /\ (d.op = "reverse" => c.v # d.of)
      BY <1>4, <1>8, <1>12
    <2> QED
      BY <1>3, <1>4, <2>1
  <1>16. o.number # 0 => lastSeq'[c.branch] = lastSeq[c.branch]
    <2>1. Entering(d) /\ o.number # 0 => c.branch # d.branch
      BY <1>5, <1>6, <1>7
    <2> QED
      BY <1>3, <1>4, <2>1
  <1>17. \A a \in o.read : balance'[a] = balance[a] /\ version'[a] = version[a]
    <2>1. \A a \in o.read : a \notin k.read
      BY <1>5, <1>6, <1>7
    <2> QED
      BY <1>3, <1>4, <2>1
  <1> QED
    BY <1>1, <1>2, <1>5, <1>9, <1>10, <1>11, <1>13, <1>14, <1>15, <1>16, <1>17, SoundStays

\* The COMMIT keeps the invariant: it is a step of Ledger and disturbs nobody.
LEMMA CommitKeeps ==
    ASSUME LocksIInv, NEW t \in Txn, CommitEntry(t) \/ CommitDecision(t)
    PROVE  LocksIInv'
  <1>1. job' = [job EXCEPT ![t] = Idle] /\ held' = [held EXCEPT ![t] = {}] /\ version' \in [Account -> Nat]
    <2>1. PICK k, d : k = job[t] /\ d = k.cmd
      OBVIOUS
    <2> QED
      BY <2>1, CommitWrites
  <1>2. TypeInv'
    <2>1. Next
      BY EntryCommits, DecisionCommits
    <2> QED
      BY <2>1, TypeStep DEF LocksIInv
  <1>3. JobsTyped'
    BY <1>1 DEF JobsTyped, LocksIInv
  <1>4. /\ ~Running(t)' /\ held'[t] = {}
        /\ \A u \in Txn \ {t} : job'[u] = job[u] /\ held'[u] = held[u]
    BY <1>1 DEF LocksIInv, JobsTyped, Running
  <1>5. Exclusive'
    BY <1>4 DEF LocksIInv, Exclusive, Running
  <1>6. \A u \in Txn : IF Running(u)' THEN Sound(u)' ELSE held'[u] = {}
    <2>1. ASSUME NEW u \in Txn \ {t} PROVE IF Running(u)' THEN Sound(u)' ELSE held'[u] = {}
      BY <1>4, CommitDisturbsNot DEF LocksIInv, Running
    <2> QED
      BY <1>4, <2>1
  <1> QED
    BY <1>2, <1>3, <1>5, <1>6 DEF LocksIInv

\* No transaction runs at first.
LEMMA LocksInitially == LocksInit => LocksIInv
  <1> SUFFICES ASSUME LocksInit PROVE LocksIInv
    OBVIOUS
  <1>1. TypeInv
    BY BlankSlipType, FS_EmptySet, LedgerConstants
    DEF LocksInit, Init, TypeInv, TypeOK, Status, TxnType
  <1>2. JobsTyped /\ Exclusive
    BY DEF LocksInit, JobsTyped, Exclusive, Running
  <1> QED
    BY <1>1, <1>2 DEF LocksIInv, LocksInit, Running

\* One case per action of LocksNext.
LEMMA LocksStep == LocksIInv /\ [LocksNext]_lvars => LocksIInv'
  <1> SUFFICES ASSUME LocksIInv, [LocksNext]_lvars PROVE LocksIInv'
    OBVIOUS
  <1>1. ASSUME NEW t \in Txn, Start(t) PROVE LocksIInv'
    BY <1>1, StartKeeps
  <1>2. ASSUME NEW t \in Txn, LockVoucher(t) \/ LockBalance(t) \/ LockSequence(t) \/ LockBatch(t)
        PROVE  LocksIInv'
    BY <1>2, LockVoucherKeeps, LockBalanceKeeps, LockSequenceKeeps, LockBatchKeeps
  <1>3. ASSUME NEW t \in Txn, CommitEntry(t) \/ CommitDecision(t) PROVE LocksIInv'
    BY <1>3, CommitKeeps
  <1>4. ASSUME NEW t \in Txn, Refuse(t) \/ GiveUp(t) \/ Crash(t) PROVE LocksIInv'
    BY <1>4, RollbackKeeps DEF Refuse, GiveUp, Crash
  <1>5. CASE UNCHANGED lvars
    <2>1. UNCHANGED <<vars, version>> /\ job' = job /\ held' = held
      BY <1>5 DEF lvars
    <2>2. TypeInv' /\ JobsTyped' /\ Exclusive'
      BY <2>1 DEF LocksIInv, vars, TypeInv, TypeOK, JobsTyped, Exclusive, Running
    <2>3. \A t \in Txn : IF Running(t)' THEN Sound(t)' ELSE held'[t] = {}
      BY <2>1, BooksSame DEF LocksIInv, Running
    <2> QED
      BY <2>2, <2>3 DEF LocksIInv
  <1> QED
    BY <1>1, <1>2, <1>3, <1>4, <1>5 DEF LocksNext, Advance

\* Every step of a transaction is one of Ledger's, or leaves the books alone.
LEMMA StepCommits == LocksIInv /\ [LocksNext]_lvars => [Next]_vars
  <1> SUFFICES ASSUME LocksIInv, [LocksNext]_lvars PROVE [Next]_vars
    OBVIOUS
  <1>1. ASSUME NEW t \in Txn, Start(t) PROVE UNCHANGED vars
    BY <1>1 DEF Start, BeginCreate, BeginDecision, BeginReverse, Begin
  <1>2. ASSUME NEW t \in Txn, LockVoucher(t) \/ LockBalance(t) \/ LockSequence(t) \/ LockBatch(t)
        PROVE  UNCHANGED vars
    BY <1>2 DEF LockVoucher, LockBalance, LockSequence, LockBatch, Lock
  <1>3. ASSUME NEW t \in Txn, CommitEntry(t) \/ CommitDecision(t) PROVE Next
    BY <1>3, EntryCommits, DecisionCommits
  <1>4. ASSUME NEW t \in Txn, Refuse(t) \/ GiveUp(t) \/ Crash(t) PROVE UNCHANGED vars
    BY <1>4 DEF Refuse, GiveUp, Crash, Rollback
  <1>5. CASE UNCHANGED lvars
    BY <1>5 DEF lvars
  <1> QED
    BY <1>1, <1>2, <1>3, <1>4, <1>5 DEF LocksNext, Advance

\* The invariant the theorems below rest on.
LEMMA LocksIInvHolds == LocksSpec => []LocksIInv
  <1> QED
    BY LocksInitially, LocksStep, PTL DEF LocksSpec

----------------------------------------------------------------------------

\* ledger.repository.ts and posting.service.ts: the order in which rows are locked
\* and the reads behind the locks make each COMMIT a handler of Ledger run alone.
THEOREM ImplementsHolds == LocksSpec => Implements
  <1>1. LocksInit => Init
    BY DEF LocksInit
  <1> QED
    BY <1>1, LocksIInvHolds, StepCommits, PTL DEF LocksSpec, Implements, Spec

\* What was read under a lock is still so when the transaction uses it, so
\* ConcurrencyError and the unique constraints behind the locks never fire.
THEOREM LocksInvHolds == LocksSpec => []LocksInv
  <1>1. LocksIInv => LocksInv
    <2> SUFFICES ASSUME LocksIInv PROVE LocksInv
      OBVIOUS
    <2>1. LocksTypeOK
      BY DEF LocksIInv, JobsTyped, LocksTypeOK, Running
    <2>2. ASSUME NEW t \in Txn, Running(t)
          PROVE  LET j == job[t]
                 IN  /\ j.phase # "voucher" /\ j.cmd.op # "create" => Acceptable(j.cmd)
                     /\ j.phase # "voucher" /\ j.cmd.op \in {"approve", "reject"} =>
                           j.given = Cardinality(Approvals(j.cmd.v))
                     /\ j.number # 0 => j.number = NextNumber(j.cmd.branch)
                     /\ \A a \in j.read : j.bal[a] = balance[a] /\ j.ver[a] = version[a]
      BY <2>2, LocksAreKnown DEF Sound, Current, Deciding
    <2>3. ReadsHold
      BY <2>2 DEF ReadsHold
    <2> QED
      BY <2>1, <2>3 DEF LocksInv
  <1> QED
    BY <1>1, LocksIInvHolds, PTL

\* What posting.service.ts promises of a handler run alone holds of transactions
\* that interleave: vouchers live as VoucherLife says, nobody signs his own or one
\* twice, and no account goes below its limit.
THEOREM InterleavedPromises == LocksSpec => KeepsPromises /\ []FourEyes /\ FundsKept
  <1> QED
    BY ImplementsHolds, KeepsPromisesHolds, FourEyesHolds, FundsKeptHolds, PTL DEF Implements

\* And so do the books: transactions that interleave lose no posting and no number,
\* write no running balance that another has overtaken, and tell all in the outbox.
THEOREM InterleavedBooks ==
  LocksSpec => [](BooksBalance /\ PostedOnce /\ RunningBalances /\ GaplessNumbers /\ EventsTellAll)
  <1> QED
    BY ImplementsHolds, BooksBalanceHolds, PostedOnceHolds, RunningBalancesHolds,
       GaplessNumbersHolds, EventsTellAllHolds, PTL DEF Implements

----------------------------------------------------------------------------
(* Deadlock                                                                *)

\* A set of accounts that is not empty has one of highest id.
LEMMA HighestAccount ==
    ASSUME NEW P \in SUBSET Account, P # {}
    PROVE  \E a \in P : \A b \in P : Rank[b] <= Rank[a]
  <1> DEFINE above(a) == {b \in P : Rank[a] < Rank[b]}
             T == {above(a) : a \in P}
  <1>0. IsFiniteSet(P) /\ \A a \in P : Rank[a] \in Nat
    BY LedgerConstants, LockConstants, FS_Subset
  <1>1. \A a \in P : above(a) \in SUBSET P /\ IsFiniteSet(above(a))
    BY <1>0, FS_Subset
  <1>2. T \subseteq FiniteSubsetsOf(P) /\ T # {}
    <2>1. ASSUME NEW B \in T PROVE B \in FiniteSubsetsOf(P)
      <3>1. PICK a \in P : B = above(a)
        OBVIOUS
      <3> QED
        BY <1>1, <3>1 DEF FiniteSubsetsOf
    <2>2. PICK a \in P : above(a) \in T
      OBVIOUS
    <2> HIDE DEF T
    <2> QED
      BY <2>1, <2>2
  <1>3. IsWellFoundedOn(StrictSubsetOrdering(P), FiniteSubsetsOf(P))
    BY FS_StrictSubsetOrderingWellFounded
  <1> HIDE DEF T
  <1>4. PICK B \in T : \A C \in T : <<C, B>> \notin StrictSubsetOrdering(P)
    BY <1>2, <1>3, WFMin
  <1>5. PICK a \in P : B = above(a)
    BY <1>4 DEF T
  <1>6. ASSUME NEW b \in P, Rank[a] < Rank[b] PROVE FALSE
    <2>1. b \in above(a) /\ b \notin above(b) /\ above(b) \subseteq above(a)
      BY <1>0, <1>6
    <2>2. <<above(b), above(a)>> \in StrictSubsetOrdering(P)
      BY <1>1, <2>1 DEF StrictSubsetOrdering
    <2>3. above(b) \in T
      BY DEF T
    <2> QED
      BY <1>4, <1>5, <2>2, <2>3
  <1> QED
    BY <1>0, <1>6

\* Rows are locked in the order voucher, balances by account, sequence, batch, but
\* for a reversal that posts, which draws its number before it locks balances.
LEMMA NoCircle ==
    ASSUME LocksIInv, NEW S \in SUBSET Txn, Deadlocked(S),
           \A t \in S : ~(job[t].cmd.op = "reverse" /\ job[t].posts)
    PROVE  FALSE
  <1> USE DEF Entering, Deciding
  <1>1. \A t \in S : /\ Running(t) /\ Wanted(t) # {} /\ Sound(t) /\ job[t] \in Job
                     /\ \E u \in S : held[u] \cap Wanted(t) # {}
    BY LocksAreKnown DEF Deadlocked, WaitsFor, Waits
  <1>2. \A t \in S : job[t].phase \in {"voucher", "balances", "sequence", "batch"}
    <2> SUFFICES ASSUME NEW t \in S, job[t].phase = "commit" PROVE FALSE
      BY <1>1, JobFields
    <2>1. Wanted(t) = {}
      BY DEF Wanted
    <2> QED
      BY <1>1, <2>1
  <1>3. \A t \in S : job[t].phase # "batch"
    <2> SUFFICES ASSUME NEW t \in S, job[t].phase = "batch" PROVE FALSE
      OBVIOUS
    <2>1. PICK u \in S : <<"batch", <<job[t].cmd.branch, job[t].cmd.type>>>> \in held[u]
      BY <1>1 DEF Wanted
    <2>2. job[u].phase = "commit"
      BY <1>1, <2>1 DEF Sound, Locked
    <2> QED
      BY <1>2, <2>2
  <1>4. \A t \in S : job[t].phase # "sequence"
    <2> SUFFICES ASSUME NEW t \in S, job[t].phase = "sequence" PROVE FALSE
      OBVIOUS
    <2>1. PICK u \in S : <<"sequence", job[t].cmd.branch>> \in held[u]
      BY <1>1 DEF Wanted
    <2>2. job[u].number # 0
      BY <1>1, <2>1 DEF Sound, Locked
    <2>3. job[u].cmd.op \in {"create", "approve", "reject", "reverse"}
      BY <1>1, JobFields
    <2> QED
      BY <1>1, <1>2, <1>3, <2>2, <2>3 DEF Sound, Reached
  <1>5. \A t \in S : job[t].phase # "balances"
    <2> SUFFICES ASSUME NEW s \in S, job[s].phase = "balances" PROVE FALSE
      OBVIOUS
    <2> DEFINE A == {a \in Account : \E t \in S : job[t].phase = "balances" /\ a \in NextBalance(job[t])}
    <2>1. \A t \in S : job[t].phase = "balances" =>
            Wanted(t) = {<<"balance", a>> : a \in NextBalance(job[t])}
      BY DEF Wanted
    <2>2. \A t \in S : NextBalance(job[t]) \subseteq Account
      <3>1. \A t \in S : job[t].cmd.entry \in Legs
        BY <1>1, JobFields
      <3> QED
        BY <3>1, TouchedType DEF NextBalance, Unread
    <2>3. A # {} /\ A \in SUBSET Account
      BY <1>1, <2>1, <2>2
    <2>4. PICK a \in A : \A b \in A : Rank[b] <= Rank[a]
      BY <2>3, HighestAccount
    <2>5. PICK t \in S : job[t].phase = "balances" /\ a \in NextBalance(job[t])
      OBVIOUS
    <2>6. PICK u \in S, x \in NextBalance(job[t]) : <<"balance", x>> \in held[u]
      <3>1. PICK u \in S : held[u] \cap Wanted(t) # {}
        BY <1>1, <2>5
      <3>2. PICK row \in Wanted(t) : row \in held[u]
        BY <3>1
      <3>3. Wanted(t) = {<<"balance", x>> : x \in NextBalance(job[t])}
        BY <2>1, <2>5
      <3>4. PICK x \in NextBalance(job[t]) : row = <<"balance", x>>
        BY <3>2, <3>3
      <3> QED
        BY <3>2, <3>4
    <2>7. x \in job[u].read
      BY <1>1, <2>6 DEF Sound, Locked
    <2>8. job[u].phase = "balances"
      BY <1>1, <1>2, <1>3, <1>4, <2>7 DEF Sound, Reached
    <2>9. PICK y \in NextBalance(job[u]) : TRUE
      BY <1>1, <2>1, <2>8
    <2>10. y \in A
      BY <2>2, <2>8, <2>9
    <2>11. Rank[x] < Rank[y]
      BY <1>1, <2>7, <2>9 DEF Sound, InOrder, NextBalance
    <2>12. Rank[a] <= Rank[x]
      BY <2>5, <2>6 DEF NextBalance
    <2>13. Rank[a] \in Nat /\ Rank[x] \in Nat /\ Rank[y] \in Nat
      BY <2>2, <2>3, <2>6, <2>9, LockConstants
    <2> QED
      BY <2>4, <2>10, <2>11, <2>12, <2>13
  <1>6. \A t \in S : job[t].phase = "voucher"
    BY <1>2, <1>3, <1>4, <1>5
  <1>7. \A t \in S : FALSE
    <2> SUFFICES ASSUME NEW t \in S PROVE FALSE
      OBVIOUS
    <2>1. PICK u \in S : held[u] \cap Wanted(t) # {}
      BY <1>1
    <2>2. PICK row \in Wanted(t) : row \in held[u]
      BY <2>1
    <2>3. Wanted(t) = {<<"voucher", IF job[t].cmd.op = "reverse" THEN job[t].cmd.of
                                    ELSE job[t].cmd.v>>}
      BY <1>6 DEF Wanted
    <2>4. row[1] = "voucher"
      BY <2>2, <2>3
    <2>5. job[u].phase # "voucher"
      BY <1>1, <2>2, <2>4 DEF Sound, Locked
    <2> QED
      BY <1>6, <2>5
  <1> QED
    BY <1>7 DEF Deadlocked

\* lockBalancesForUpdate (ORDER BY account_id) and the order of the locks in the
\* handlers leave reversals that post as the only way into a deadlock.
THEOREM OnlyReversalsDeadlockHolds == LocksSpec => []OnlyReversalsDeadlock
  <1>1. LocksIInv => OnlyReversalsDeadlock
    BY NoCircle DEF OnlyReversalsDeadlock
  <1> QED
    BY <1>1, LocksIInvHolds, PTL

============================================================================
