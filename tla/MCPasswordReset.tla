-------------------------- MODULE MCPasswordReset --------------------------
(* Model-checking instances of PasswordReset *)
EXTENDS PasswordReset, TLC

CONSTANTS a1, a2, t1, t2, s1, s2, r1, r2

Symmetry == Permutations(Account) \cup Permutations(Token) \cup
            Permutations(Senders) \cup Permutations(Requests)
=============================================================================
