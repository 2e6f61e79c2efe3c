---------------------------- MODULE MCCredentials ----------------------------
(* Two accounts and one token that two processes may each accept.         *)
EXTENDS Credentials, TLC

CONSTANTS a1, a2, i1, i2, h1, h2, r1, r2, p1, p2, j1

Symmetry == Permutations(Account) \cup Permutations(Identity) \cup
            Permutations(Hash) \cup Permutations(Requests) \cup Permutations(Process)
=============================================================================
