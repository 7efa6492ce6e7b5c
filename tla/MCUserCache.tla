---------------------------- MODULE MCUserCache ----------------------------
(* Values of the constants of UserCache for TLC: two requests of one process *)
(* and one of another.                                                       *)
EXTENDS UserCache, TLC

CONSTANTS r1, r2, r3, here, there

MCRunsOn   == (r1 :> here) @@ (r2 :> here) @@ (r3 :> there)
MCSymmetry == Permutations({r1, r2})
=============================================================================
