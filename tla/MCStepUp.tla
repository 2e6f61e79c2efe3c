------------------------------ MODULE MCStepUp ------------------------------
(* Model-checking instances of StepUp *)
EXTENDS StepUp, TLC

CONSTANTS u1, u2, t1, t2, r1, r2, r3

Symmetry == Permutations(Token) \cup Permutations(Requests) \cup Permutations(User)
=============================================================================
