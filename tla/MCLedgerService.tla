--------------------------- MODULE MCLedgerService ---------------------------
(* Three vouchers, two of them cash: two requests race for a batch, and two   *)
(* lines have one number.                                                     *)
EXTENDS LedgerService

MCTypeOf == [r \in {1, 2, 3} |-> IF r = 3 THEN "TRANSFER" ELSE "CASH"]
MCLineOf == [r \in {1, 2, 3} |-> IF r = 1 THEN 1 ELSE 2]
=============================================================================
