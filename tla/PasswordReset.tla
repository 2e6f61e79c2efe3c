--------------------------- MODULE PasswordReset ---------------------------
(***************************************************************************)
(* Password reset by a mailed link.  The request handler answers at once   *)
(* and leaves the work to a goroutine that uses the context of the         *)
(* request, which net/http cancels when the handler returns.  The          *)
(* confirmation looks the token up, writes the password and marks the      *)
(* token consumed in three separate statements.                            *)
(*                                                                         *)
(* The plain token travels only by mail and the table keeps its hash;      *)
(* tokens stand for both.                                                  *)
(***************************************************************************)
EXTENDS Integers, FiniteSets

CONSTANTS
    Account,    \* accounts with an email address and None
    Token,      \* reset tokens
    Senders,    \* reset requests
    Requests,   \* concurrent confirmations
    Lifetime,   \* the 30 minutes of a token
    MaxTime,    \* bound: the clock stops here
    MaxUses,    \* bound: a token is not tried again after that many uses
    Faults,     \* whether statements fail and the process crashes
    None

ASSUME ParamsAssumption ==
    /\ Lifetime \in Nat /\ MaxTime \in Nat /\ MaxUses \in Nat
    /\ Faults \in BOOLEAN
    /\ None \notin Account

ASSUME FiniteProcesses == IsFiniteSet(Requests)

VARIABLES
    clock,
    resets,     \* password_resets: the row of each token
    mailed,     \* tokens that reached their owner
    job,        \* the goroutine of each reset request
    open,       \* reset requests whose handler has not returned
    confirm,    \* confirmations in flight
    \* history, read by the properties only
    uses,       \* passwords written on the strength of each token
    unclosed    \* used tokens whose ConsumePasswordReset did not run

vars == <<clock, resets, mailed, job, open, confirm, uses, unclosed>>

rows == DOMAIN resets

Row      == [account: Account, expires: Nat, consumed: BOOLEAN]
Idle     == [pc |-> "idle"]
New      == [pc |-> "new"]
Done     == [pc |-> "done"]
Lookup   == [pc: {"lookup"}, account: Account \cup {None}]
Insert   == [pc: {"insert"}, account: Account]
Mail     == [pc: {"mail"}, account: Account, token: Token]
Jobs     == Lookup \cup Insert \cup Mail \cup {New, Done}
Confirms == [pc: {"upsert", "consume"}, token: Token]

Init ==
    /\ clock = 0
    /\ resets = [t \in {} |-> 0]
    /\ mailed = {}
    /\ job = [s \in Senders |-> New]
    /\ open = {}
    /\ confirm = [r \in Requests |-> Idle]
    /\ uses = [t \in Token |-> 0]
    /\ unclosed = {}

----------------------------------------------------------------------------
(* PasswordResetRequest *)

\* The handler starts the goroutine; an email nobody has is None.
PasswordResetRequest(s, a) ==
    /\ job[s] = New
    /\ job' = [job EXCEPT ![s] = [pc |-> "lookup", account |-> a]]
    /\ open' = open \cup {s}
    /\ UNCHANGED <<clock, resets, mailed, confirm, uses, unclosed>>

\* The handler writes 204 and returns; the context is cancelled.
HandlerReturns(s) ==
    /\ s \in open
    /\ open' = open \ {s}
    /\ UNCHANGED <<clock, resets, mailed, job, confirm, uses, unclosed>>

\* The statement or the SMTP transaction of a step completes only while the
\* context lives.
ContextLives(s) == s \in open

Step(s, next) == job' = [job EXCEPT ![s] = next]

\* GetUserAccountByEmail.
JobLookup(s) ==
    /\ job[s].pc = "lookup"
    /\ ContextLives(s)
    /\ IF job[s].account = None THEN Step(s, Done)
       ELSE Step(s, [pc |-> "insert", account |-> job[s].account])
    /\ UNCHANGED <<clock, resets, mailed, open, confirm, uses, unclosed>>

\* Mutant: the lifetime is subtracted.
CreateBackdated(t, a) ==
    resets' = [x \in rows \cup {t} |->
                 IF x = t THEN [account |-> a, expires |-> clock - Lifetime, consumed |-> FALSE]
                 ELSE resets[x]]

\* CreatePasswordReset with a fresh token.
CreatePasswordReset(t, a) ==
    resets' = [x \in rows \cup {t} |->
                 IF x = t THEN [account |-> a, expires |-> clock + Lifetime, consumed |-> FALSE]
                 ELSE resets[x]]

JobInsert(s, t) ==
    /\ job[s].pc = "insert"
    /\ ContextLives(s)
    /\ t \in Token \ rows
    /\ CreatePasswordReset(t, job[s].account)
    /\ Step(s, [pc |-> "mail", account |-> job[s].account, token |-> t])
    /\ UNCHANGED <<clock, mailed, open, confirm, uses, unclosed>>

\* sender.Send.
JobMail(s) ==
    /\ job[s].pc = "mail"
    /\ ContextLives(s)
    /\ mailed' = mailed \cup {job[s].token}
    /\ Step(s, Done)
    /\ UNCHANGED <<clock, resets, open, confirm, uses, unclosed>>

\* A cancelled context, or a failure, ends the goroutine at any step; it is
\* logged at most.
JobEnds(s) ==
    /\ job[s] \notin {New, Done}
    /\ ~ContextLives(s) \/ Faults
    /\ Step(s, Done)
    /\ UNCHANGED <<clock, resets, mailed, open, confirm, uses, unclosed>>

----------------------------------------------------------------------------
(* PasswordResetConfirm *)

\* Mutant: consumed_at is not looked at.
ActiveUnconsumed(t) == t \in rows /\ resets[t].expires > clock

\* GetActivePasswordReset.
Active(t) == t \in rows /\ ~resets[t].consumed /\ resets[t].expires > clock

\* The lookup of a token its owner was mailed; no row is a 401.
ConfirmLookup(r, t) ==
    /\ confirm[r] = Idle
    /\ t \in mailed
    /\ uses[t] < MaxUses
    /\ Active(t)
    /\ confirm' = [confirm EXCEPT ![r] = [pc |-> "upsert", token |-> t]]
    /\ UNCHANGED <<clock, resets, mailed, job, open, uses, unclosed>>

\* Mutant: the handler answers before the token is consumed.
ConfirmUpsertOnly(r) ==
    /\ confirm[r].pc = "upsert"
    /\ uses' = [uses EXCEPT ![confirm[r].token] = @ + 1]
    /\ confirm' = [confirm EXCEPT ![r] = Idle]
    /\ UNCHANGED <<clock, resets, mailed, job, open, unclosed>>

\* UpsertAuthLocal: the password is the new one from here on.
ConfirmUpsert(r) ==
    /\ confirm[r].pc = "upsert"
    /\ uses' = [uses EXCEPT ![confirm[r].token] = @ + 1]
    /\ confirm' = [confirm EXCEPT ![r].pc = "consume"]
    /\ UNCHANGED <<clock, resets, mailed, job, open, unclosed>>

\* ConsumePasswordReset.
ConsumePasswordReset(t) == resets' = [resets EXCEPT ![t].consumed = TRUE]

ConfirmConsume(r) ==
    /\ confirm[r].pc = "consume"
    /\ ConsumePasswordReset(confirm[r].token)
    /\ confirm' = [confirm EXCEPT ![r] = Idle]
    /\ UNCHANGED <<clock, mailed, job, open, uses, unclosed>>

\* A statement fails or the client is gone: before the password is written it
\* is a 500, afterwards it is logged and the answer is the same 204.
ConfirmFails(r) ==
    /\ Faults
    /\ confirm[r] # Idle
    /\ unclosed' = IF confirm[r].pc = "consume" THEN unclosed \cup {confirm[r].token}
                   ELSE unclosed
    /\ confirm' = [confirm EXCEPT ![r] = Idle]
    /\ UNCHANGED <<clock, resets, mailed, job, open, uses>>

----------------------------------------------------------------------------

\* The process stops and starts again: goroutines and handlers are gone.
Crash ==
    /\ Faults
    /\ unclosed' = unclosed \cup
                     {confirm[r].token : r \in {q \in Requests : confirm[q].pc = "consume"}}
    /\ confirm' = [r \in Requests |-> Idle]
    /\ job' = [s \in Senders |-> IF job[s] = New THEN New ELSE Done]
    /\ open' = {}
    /\ UNCHANGED <<clock, resets, mailed, uses>>

Tick ==
    /\ clock < MaxTime
    /\ clock' = clock + 1
    /\ UNCHANGED <<resets, mailed, job, open, confirm, uses, unclosed>>

Job(s) ==
    \/ JobLookup(s) \/ (\E t \in Token : JobInsert(s, t)) \/ JobMail(s)
    \/ JobEnds(s)

Confirm(r) ==
    \/ \E t \in Token : ConfirmLookup(r, t)
    \/ ConfirmUpsert(r) \/ ConfirmConsume(r) \/ ConfirmFails(r)

Next ==
    \/ \E s \in Senders :
          \/ \E a \in Account \cup {None} : PasswordResetRequest(s, a)
          \/ HandlerReturns(s)
          \/ Job(s)
    \/ \E r \in Requests : Confirm(r)
    \/ Crash
    \/ Tick

Spec == Init /\ [][Next]_vars

\* Goroutines and handlers keep running.
FairSpec ==
    /\ Spec
    /\ \A s \in Senders : WF_vars(Job(s)) /\ WF_vars(HandlerReturns(s))

----------------------------------------------------------------------------
(* Properties *)

TypeOK ==
    /\ clock \in Nat
    /\ rows \subseteq Token
    /\ resets \in [rows -> Row]
    /\ mailed \subseteq rows
    /\ job \in [Senders -> Jobs]
    /\ \A s \in Senders : job[s].pc = "mail" => job[s].token \in rows
    /\ open \subseteq Senders
    /\ confirm \in [Requests -> Confirms \cup {Idle}]
    /\ \A r \in Requests : confirm[r] # Idle => confirm[r].token \in rows
    /\ uses \in [Token -> Nat]
    /\ unclosed \subseteq Token

\* A token that set a password is closed as soon as the confirmation that
\* used it is over, unless its closing statement was lost.
UsedIsClosed ==
    \A t \in Token : uses[t] > 0 /\ t \notin unclosed =>
        \/ t \in rows /\ resets[t].consumed
        \/ \E r \in Requests : confirm[r].pc = "consume" /\ confirm[r].token = t

\* The uses of a token, and the confirmations that will still use it.
Committed(t) ==
    uses[t] + Cardinality({r \in Requests : confirm[r].pc = "upsert" /\ confirm[r].token = t})

\* A closed token stays closed and gains no use beyond the confirmations that
\* had looked it up before: the race for one token ends with its closing.
ClosedForGood ==
    [][\A t \in rows : resets[t].consumed =>
          resets'[t].consumed /\ Committed(t)' <= Committed(t)]_vars

\* What the use case says: a reset token is generated and sent to the email
\* address.
MailSent == \A s \in Senders, a \in Account :
    (job[s].pc = "lookup" /\ job[s].account = a) ~> (\E t \in mailed : resets[t].account = a)
=============================================================================
