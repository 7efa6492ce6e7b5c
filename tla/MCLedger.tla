------------------------------ MODULE MCLedger ------------------------------
(* Values of the constants of Ledger for TLC: two branches with slabs of    *)
(* their own, an account with a floor and a frozen one.                     *)
EXTENDS Ledger, TLC

CONSTANTS v1, v2, v3, cash, savings, frozen, hq, outpost, teller, manager, agent

MCVoucher == {v1, v2, v3}
MCAccount == {cash, savings, frozen}
MCUser    == {teller, manager, agent}
MCSymmetry == Permutations(MCVoucher)

\* Cash is an asset of the branch; savings keeps a minimum of 1, and its 3 units
\* are enough for one payment of 2 but not for two.
MCSide     == [a \in MCAccount |-> IF a = cash THEN "ASSET" ELSE "LIABILITY"]
MCReserved == (cash :> 0) @@ (savings :> 1) @@ (frozen :> 0)
MCOpening  == (cash :> 5) @@ (savings :> 3) @@ (frozen :> 2)
MCFreeze   == [a \in MCAccount |-> IF a = frozen THEN "DEBIT_BLOCKED" ELSE "NONE"]
MCAllows   == (cash :> {<<"CASH", "DEBIT">>, <<"CASH", "CREDIT">>, <<"TRANSFER", "CREDIT">>})
           @@ (savings :> {<<"CASH", "DEBIT">>, <<"CASH", "CREDIT">>, <<"TRANSFER", "DEBIT">>})
           @@ (frozen :> {<<"CASH", "CREDIT">>})

\* The agent of the outpost makes, checks and reverses there; the manager sits
\* at headquarters and may reverse what the outpost posted.
MCHome == [u \in MCUser |-> IF u = agent THEN outpost ELSE hq]
MCMay == (teller :> {"voucher:create"})
      @@ (manager :> {"voucher:authorize", "voucher:reverse"})
      @@ (agent :> {"voucher:create", "voucher:authorize", "voucher:reverse"})

\* Cash takes no approval below 2, one below 3, two from there on, but two
\* equally specific slabs overlap at the outpost; transfers post at once at the
\* outpost only; clearing at headquarters has no slab at all.
MCPolicy ==
    {[branch |-> "ANY", type |-> "CASH", min |-> 0, limit |-> 2, approvals |-> 0],
     [branch |-> "ANY", type |-> "CASH", min |-> 2, limit |-> 3, approvals |-> 1],
     [branch |-> "ANY", type |-> "CASH", min |-> 3, limit |-> 0, approvals |-> 2],
     [branch |-> outpost, type |-> "CASH", min |-> 2, limit |-> 0, approvals |-> 0],
     [branch |-> outpost, type |-> "CASH", min |-> 2, limit |-> 3, approvals |-> 1],
     [branch |-> outpost, type |-> "ANY", min |-> 0, limit |-> 0, approvals |-> 0],
     [branch |-> "ANY", type |-> "TRANSFER", min |-> 0, limit |-> 0, approvals |-> 1]}

Debit(a, n)  == [account |-> a, side |-> "DEBIT", amount |-> n]
Credit(a, n) == [account |-> a, side |-> "CREDIT", amount |-> n]

\* A withdrawal, a deposit less a fee on the same account, a small deposit to
\* the frozen account, lines that do not balance, and a line of nothing.
MCEntry ==
    {<<Debit(savings, 2), Credit(cash, 2)>>,
     <<Debit(cash, 2), Credit(savings, 3), Debit(savings, 1)>>,
     <<Debit(cash, 1), Credit(frozen, 1)>>,
     <<Debit(cash, 2), Credit(savings, 1)>>,
     <<Debit(cash, 1), Credit(savings, 1), Credit(savings, 0)>>}
=============================================================================
