---------------------------- MODULE MCEmailCodes ----------------------------
(* Model-checking instances of EmailCodes *)
EXTENDS EmailCodes, TLC

CONSTANTS u1, c1, c2, c3, r1, r2, s1, s2

Symmetry == Permutations(Requests) \cup Permutations(Sends) \cup Permutations(CodeId)
=============================================================================
