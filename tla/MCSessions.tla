----------------------------- MODULE MCSessions -----------------------------
(* Values of the constants of Sessions for TLC.                              *)
EXTENDS Sessions, TLC

CONSTANTS a, b, c, d, r1, r2, r3, r4

MCSymmetry == Permutations(Token) \cup Permutations(Request)
=============================================================================
