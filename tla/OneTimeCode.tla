----------------------------- MODULE OneTimeCode -----------------------------
(***************************************************************************)
(* What a one-time code promises, whoever issues it and however many       *)
(* requests present it at once: after it is issued it is compared with a   *)
(* guess a bounded number of times, and it is accepted at most once, after *)
(* a comparison.                                                           *)
(***************************************************************************)
EXTENDS Naturals

CONSTANTS CodeId, MaxAttempts

VARIABLES
    issued,     \* codes that exist
    guesses,    \* comparisons made with each code
    used        \* number of times each code was accepted

abstract == <<issued, guesses, used>>

Init ==
    /\ issued = {}
    /\ guesses = [c \in CodeId |-> 0]
    /\ used = [c \in CodeId |-> 0]

Issue(c) ==
    /\ c \notin issued
    /\ issued' = issued \cup {c}
    /\ UNCHANGED <<guesses, used>>

Guess(c) ==
    /\ c \in issued
    /\ guesses[c] < MaxAttempts
    /\ guesses' = [guesses EXCEPT ![c] = @ + 1]
    /\ UNCHANGED <<issued, used>>

Use(c) ==
    /\ c \in issued
    /\ guesses[c] > 0
    /\ used[c] = 0
    /\ used' = [used EXCEPT ![c] = 1]
    /\ UNCHANGED <<issued, guesses>>

Next == \E c \in CodeId : Issue(c) \/ Guess(c) \/ Use(c)

Spec == Init /\ [][Next]_abstract
=============================================================================
