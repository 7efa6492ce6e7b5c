------------------------------ MODULE MCOutbox ------------------------------
(* Values of the constants of Outbox for TLC.  One message goes to each of   *)
(* the two customers of a transfer, one row to the audit trail.              *)
EXTENDS Outbox, TLC

CONSTANTS e1, e2, audit, notifications, n1, n2, ada, bob, l1, l2

MCEffects    == (audit :> 1) @@ (notifications :> 2)
MCSymmetry   == Permutations(Relay) \cup Permutations(Letter) \cup Permutations(Event)
                  \cup Permutations(Operator)

MCMessages   == notifications :> 2
MCRows       == audit :> 1
=============================================================================
