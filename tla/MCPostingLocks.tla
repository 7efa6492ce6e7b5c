--------------------------- MODULE MCPostingLocks ---------------------------
(* Values of the constants of PostingLocks for TLC: two savings accounts     *)
(* between which transfers run both ways, and two connections.               *)
EXTENDS PostingLocks, TLC

CONSTANTS v1, v2, v3, left, right, hq, teller, officer, manager, t1, t2

MCAccount  == {left, right}
MCUser     == {teller, officer, manager}
MCTxn      == {t1, t2}
MCSymmetry == Permutations({v1, v2, v3}) \cup Permutations(MCTxn)

MCRank     == (left :> 1) @@ (right :> 2)
MCSide     == [a \in MCAccount |-> "LIABILITY"]
MCReserved == [a \in MCAccount |-> 0]
MCOpening  == [a \in MCAccount |-> 2]
MCFreeze   == [a \in MCAccount |-> "NONE"]
MCAllows   == [a \in MCAccount |-> {"TRANSFER"} \X DrCr]
MCHome     == [u \in MCUser |-> hq]
MCMay      == (teller :> {"voucher:create"})
           @@ (officer :> {"voucher:authorize"})
           @@ (manager :> {"voucher:authorize", "voucher:reverse"})

\* A transfer of 1 posts at once, one of 2 takes a checker.
MCPolicy ==
    {[branch |-> "ANY", type |-> "ANY", min |-> 0, limit |-> 2, approvals |-> 0],
     [branch |-> "ANY", type |-> "ANY", min |-> 2, limit |-> 0, approvals |-> 1]}

Transfer(from, to, amount) ==
    <<[account |-> from, side |-> "DEBIT", amount |-> amount],
      [account |-> to, side |-> "CREDIT", amount |-> amount]>>

\* Two transfers of 2 out of the same account cannot both post.
MCEntry == {Transfer(left, right, 2), Transfer(right, left, 1)}
=============================================================================
