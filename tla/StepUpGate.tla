----------------------------- MODULE StepUpGate -----------------------------
(***************************************************************************)
(* The step-up gate as the handlers behind it meet it (checkStepUp):       *)
(* Credentials and SshKeys extend this module with what a request does     *)
(* once it is through.  StepUp is about the gate alone, with the clock and *)
(* the janitor's pass; here a token's lifetime is only over or not, and    *)
(* the janitor drops one expired id at a time.                             *)
(*                                                                         *)
(* Spent ids are kept in the memory of each server process: they are not   *)
(* shared between processes and are gone after a restart, whereas a token  *)
(* stays signed.  A request passes in two steps, the check of the token    *)
(* and LoadOrStore, and the token may expire in between.                   *)
(***************************************************************************)
CONSTANTS
    Account,        \* user accounts
    Process,        \* server processes
    JTI,            \* ids of step-up tokens
    Requests,       \* concurrent requests
    StepUpRequired, \* AUTH_REQUIRE_STEP_UP
    Nil

ASSUME GateAssumption ==
    /\ StepUpRequired \in BOOLEAN
    /\ Nil \notin Account \cup Process \cup JTI
    /\ "late" \notin JTI /\ "late" # Nil

VARIABLES
    uaid,       \* the account each token was issued for
    expired,    \* tokens whose lifetime is over
    spent,      \* the consumed map of each process
    proc,       \* the process that serves a request, from the gate on
    \* history, read by the properties only
    pass,       \* the token a request stored in time, or "late"
    made,       \* tokens stored in time that paid for a change in this life of a process
    overdrawn   \* accounts that were changed without payment

gateHistory == <<made, overdrawn>>
gateVars    == <<uaid, expired, spent, proc, pass, gateHistory>>

\* What a request leaves alone unless it stores a token or makes a change.
gateTables  == <<uaid, expired, spent, gateHistory>>

GateType ==
    /\ uaid \in [JTI -> Account \cup {Nil}]
    /\ expired \subseteq JTI
    /\ spent \in [Process -> SUBSET JTI]
    /\ proc \in [Requests -> Process \cup {Nil}]
    /\ pass \in [Requests -> JTI \cup {Nil, "late"}]
    /\ made \in [Process -> SUBSET JTI]
    /\ overdrawn \subseteq Account

GateInit ==
    /\ uaid = [j \in JTI |-> Nil]
    /\ expired = {}
    /\ spent = [p \in Process |-> {}]
    /\ proc = [r \in Requests |-> Nil]
    /\ pass = [r \in Requests |-> Nil]
    /\ made = [p \in Process |-> {}]
    /\ overdrawn = {}

----------------------------------------------------------------------------
(* Tokens and processes *)

\* IssueStepUpToken, at the end of StepUpVerify.
IssueToken(a) ==
    /\ \E j \in JTI : uaid[j] = Nil /\ uaid' = [uaid EXCEPT ![j] = a]
    /\ UNCHANGED <<expired, spent, proc, pass, gateHistory>>

\* The token's Exp passes.
ExpireToken(j) ==
    /\ uaid[j] # Nil /\ j \notin expired
    /\ expired' = expired \cup {j}
    /\ UNCHANGED <<uaid, spent, proc, pass, gateHistory>>

\* The janitor of p drops an expired id.
PruneToken(p, j) ==
    /\ j \in spent[p] \cap expired
    /\ spent' = [spent EXCEPT ![p] = @ \ {j}]
    /\ UNCHANGED <<uaid, expired, proc, pass, gateHistory>>

ServedBy(p) == {r \in Requests : proc[r] = p}

\* The process restarts: its map is empty and its requests are lost.
RestartGate(p) ==
    /\ spent' = [spent EXCEPT ![p] = {}]
    /\ proc' = [r \in Requests |-> IF r \in ServedBy(p) THEN Nil ELSE proc[r]]
    /\ pass' = [r \in Requests |-> IF r \in ServedBy(p) THEN Nil ELSE pass[r]]
    /\ made' = [made EXCEPT ![p] = {}]
    /\ UNCHANGED <<uaid, expired, overdrawn>>

----------------------------------------------------------------------------
(* A request at the gate *)

\* A process takes the request.
Arrive(r) ==
    /\ \E p \in Process : proc' = [proc EXCEPT ![r] = p]
    /\ UNCHANGED <<uaid, expired, spent, pass, gateHistory>>

\* VerifyStepUpToken up to the single-use check: lifetime and binding.
TokenValid(j, a) == uaid[j] = a /\ j \notin expired

\* Mutant: the id is looked up and not stored.
LookUpOnly(r, j) ==
    /\ j \notin spent[proc[r]]
    /\ pass' = [pass EXCEPT ![r] = IF j \in expired THEN "late" ELSE j]
    /\ UNCHANGED <<uaid, expired, spent, proc, gateHistory>>

\* isConsumedJTI finds the id new and has stored it.
LoadOrStore(r, j) ==
    /\ j \notin spent[proc[r]]
    /\ spent' = [spent EXCEPT ![proc[r]] = @ \cup {j}]
    /\ pass' = [pass EXCEPT ![r] = IF j \in expired THEN "late" ELSE j]
    /\ UNCHANGED <<uaid, expired, proc, gateHistory>>

\* The request is over.
Release(r) ==
    /\ proc' = [proc EXCEPT ![r] = Nil]
    /\ pass' = [pass EXCEPT ![r] = Nil]

\* History: whether the request may charge a change of a to its token.
Paid(r, a) ==
    \/ pass[r] = "late"
    \/ pass[r] \in JTI /\ uaid[pass[r]] = a /\ pass[r] \notin made[proc[r]]

\* History: the request has made a gated change of a.
Charge(r, a) ==
    IF StepUpRequired
    THEN /\ overdrawn' = IF Paid(r, a) THEN overdrawn ELSE overdrawn \cup {a}
         /\ made' = IF pass[r] \in JTI
                    THEN [made EXCEPT ![proc[r]] = @ \cup {pass[r]}] ELSE made
    ELSE UNCHANGED gateHistory

----------------------------------------------------------------------------
(* Properties *)

\* With step-up required, every gated change used up a token that was issued
\* to the account it changed: between two starts of a server process no token
\* the process stored before its expiry paid for a second change there,
\* however requests fail, are retried and race with the janitor.  Another
\* process, a restart, or a request that stores the id after the expiry can
\* make a token pay again (stepup.go says so of the restart).
EachChangePaid == overdrawn = {}

----------------------------------------------------------------------------
(* The inductive invariant behind EachChangePaid *)

\* An id stored in time is remembered until its token has expired, and no two
\* requests of a process hold it.
Accounted ==
    /\ \A p \in Process : made[p] \subseteq spent[p] \cup expired
    /\ \A r \in Requests : pass[r] \in JTI =>
         /\ proc[r] \in Process
         /\ pass[r] \in spent[proc[r]] \cup expired
         /\ pass[r] \notin made[proc[r]]
    /\ \A r, q \in Requests :
         pass[r] \in JTI /\ pass[r] = pass[q] /\ proc[r] = proc[q] => r = q
=============================================================================
