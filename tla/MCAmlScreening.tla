--------------------------- MODULE MCAmlScreening ---------------------------
(* Values of the constants of AmlScreening for TLC: a withdrawal and a        *)
(* transfer, each below both thresholds, and what they take together above.   *)
EXTENDS AmlScreening, TLC

CONSTANTS v1, v2, v3, asha, ravi, cash, many

MCSymmetry  == Permutations({v1, v2, v3})

Amounts(a, r) == (asha :> a) @@ (ravi :> r)

MCEntry ==
    {[type |-> "CASH", debit |-> Amounts(2, 0), credit |-> Amounts(0, 0)],
     [type |-> "TRANSFER", debit |-> Amounts(1, 0), credit |-> Amounts(0, 1)]}

\* Two withdrawals within two days, or any two payments of 3 on one day.
MCCode      == (cash :> 1) @@ (many :> 2)
MCWindow    == (cash :> 1) @@ (many :> 0)
MCThreshold == (cash :> 4) @@ (many :> 3)
MCMinCount  == (cash :> 0) @@ (many :> 2)
=============================================================================
