----------------------------- MODULE MCAccounts -----------------------------
(* Model-checking instances of Accounts *)
EXTENDS Accounts, TLC

CONSTANTS a1, a2, e1, e2, i1, r1, r2

Symmetry == Permutations(Account) \cup Permutations(Email) \cup
            Permutations(Identity) \cup Permutations(Requests)
=============================================================================
