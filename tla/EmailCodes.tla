----------------------------- MODULE EmailCodes -----------------------------
(***************************************************************************)
(* Six-digit email codes: how they are minted (the public request          *)
(* endpoint, registration and the step-up request) and how they are spent  *)
(* (the public verify endpoint and the step-up verify endpoint).           *)
(*                                                                         *)
(* Every SQL statement is one atomic step; everything a handler or a       *)
(* background goroutine remembers between two statements is kept in its    *)
(* own record, so requests interleave between any two statements.  A       *)
(* handler that answers an error goes back to "idle": only the database    *)
(* and the semaphore survive a request.                                    *)
(***************************************************************************)
EXTENDS Integers, FiniteSets

CONSTANTS
    User,           \* user accounts
    Purpose,        \* the purposes in use, see AllPurposes
    CodeId,         \* primary keys of email_codes
    Requests,       \* concurrent verify requests
    Sends,          \* concurrent send goroutines
    MaxAttempts,    \* MaxEmailCodeAttempts
    Cooldown,       \* EmailCodeRequestCooldown
    Expiry,         \* life of a code
    SendTimeout,    \* emailCodeSendTimeout
    SlotCap,        \* capacity of the emailCodeSlots semaphore
    MaxTime         \* bound: the clock stops here

AllPurposes == {"login", "verify_email", "credential_change"}

ASSUME ParamsAssumption ==
    /\ Purpose \subseteq AllPurposes
    /\ MaxAttempts \in Nat \ {0}
    /\ Cooldown \in Nat \ {0}
    /\ Expiry \in Nat \ {0}
    /\ SendTimeout \in Nat
    /\ SlotCap \in Nat \ {0}
    /\ MaxTime \in Nat

ASSUME FiniteProcesses == IsFiniteSet(Requests) /\ IsFiniteSet(Sends)

\* 20 s, 60 s and 5 min in the code: a send gives up before the cooldown of
\* its code is over, and the cooldown ends before the code does.
ASSUME WindowAssumption == SendTimeout < Cooldown /\ Cooldown <= Expiry

VARIABLES
    clock,      \* database and server time
    accounts,   \* accounts that exist
    codes,      \* email_codes: the rows, by id
    req,        \* verify handlers in flight
    send,       \* send goroutines in flight
    slots,      \* tokens in the emailCodeSlots channel
    \* history, read by the properties only
    birth,      \* entry point and time of each insert
    compared,   \* comparisons made against each code's hash
    grants,     \* number of times each code was accepted
    granted     \* what each accepted code was accepted for

history == <<birth, compared, grants, granted>>
vars    == <<clock, accounts, codes, req, send, slots, history>>

----------------------------------------------------------------------------
(* Rows, requests and goroutines *)

Endpoint == {"public", "stepup"}
Entry    == {"public", "register", "stepup"}

minted == DOMAIN codes

\* A row of email_codes: failed_attempts, and consumed_at as a flag.
Row == [user: User, purpose: Purpose, created: Nat, expires: Nat,
        attempts: Nat, consumed: BOOLEAN]

NoRows == [c \in {} |-> 0]

Idle == [pc |-> "idle"]

\* What a verify handler holds: the row it looked up, the time it did, and
\* whether the claim it made was the one that consumed the row.
Verifying == [pc: {"claim", "compare", "consume", "grant"},
              user: User, purpose: Purpose, via: Endpoint,
              code: CodeId, last: BOOLEAN]

\* What a send goroutine holds: the time it started, the expiry it computed
\* and its transaction's now().
Sending == [pc: {"check", "stamp", "begin", "insert", "mail"},
            via: Entry, user: User, purpose: Purpose,
            started: Nat, expires: Nat, created: Nat]

Grant == [code: CodeId, user: User, purpose: Purpose, via: Endpoint]

\* Mutant: no allow-list.
publicEmailCodePurposeAny(p) == TRUE

\* publicEmailCodePurpose
publicEmailCodePurpose(p) == p \in {"login", "verify_email"}

\* The purposes each verify endpoint accepts.
Accepts(via, p) ==
    IF via = "public" THEN publicEmailCodePurpose(p)
                      ELSE p = "credential_change"

\* HasRecentEmailCode, and the NOT EXISTS of the mint function: a code of any
\* state within the cooldown.
Recent(u, p) ==
    \E c \in minted : /\ codes[c].user = u
                      /\ codes[c].purpose = p
                      /\ codes[c].created > clock - Cooldown

Active(u, p) ==
    {c \in minted : /\ codes[c].user = u
                    /\ codes[c].purpose = p
                    /\ ~codes[c].consumed
                    /\ codes[c].expires > clock}

\* GetActiveEmailCode: ORDER BY created_at DESC LIMIT 1.  Ties are broken by
\* the database, so any newest row may be returned.
GetActiveEmailCode(u, p) ==
    {c \in Active(u, p) : \A d \in Active(u, p) : codes[d].created <= codes[c].created}

\* Mutant: the claim is a plain increment by primary key.
ClaimableAlways(c) == TRUE

\* WHERE clause of ClaimEmailCodeAttempt; there is no test of expires_at.
Claimable(c) == ~codes[c].consumed /\ codes[c].attempts < MaxAttempts

\* SET clause of ClaimEmailCodeAttempt.
Claimed(c) ==
    [codes[c] EXCEPT !.attempts = @ + 1,
                   !.consumed = @ \/ codes[c].attempts + 1 >= MaxAttempts]

----------------------------------------------------------------------------
(* Initial state: a fresh table, some accounts already present *)

Init ==
    /\ clock = 0
    /\ accounts \in SUBSET User
    /\ codes = NoRows
    /\ req = [r \in Requests |-> Idle]
    /\ send = [s \in Sends |-> Idle]
    /\ slots = 0
    /\ birth = NoRows
    /\ compared = [c \in CodeId |-> 0]
    /\ grants = [c \in CodeId |-> 0]
    /\ granted = {}

----------------------------------------------------------------------------
(* EmailCodeVerify and StepUpVerify *)

Answer(r) == req' = [req EXCEPT ![r] = Idle]

\* Account lookup, purpose check and GetActiveEmailCode.  An unknown address,
\* a refused purpose or no active code ends the handler with no effect.
VerifyLookup(r, u, p, via) ==
    /\ req[r] = Idle
    /\ u \in accounts
    /\ Accepts(via, p)
    /\ \E c \in GetActiveEmailCode(u, p) :
         req' = [req EXCEPT ![r] =
                   [pc |-> "claim", user |-> u, purpose |-> p, via |-> via,
                    code |-> c, last |-> FALSE]]
    /\ UNCHANGED <<clock, accounts, codes, send, slots, history>>

\* ClaimEmailCodeAttempt: no row means the same 401 as a wrong code.
VerifyClaim(r) ==
    /\ req[r].pc = "claim"
    /\ LET c == req[r].code IN
         IF Claimable(c)
         THEN /\ codes' = [codes EXCEPT ![c] = Claimed(c)]
              /\ req' = [req EXCEPT ![r].pc = "compare",
                                    ![r].last = Claimed(c).consumed]
         ELSE /\ Answer(r)
              /\ UNCHANGED codes
    /\ UNCHANGED <<clock, accounts, send, slots, history>>

\* bcrypt comparison with the hash the claim returned.  No step before this
\* one reads the guess, so whether it is right is chosen here.
VerifyCompare(r) ==
    /\ req[r].pc = "compare"
    /\ compared' = [compared EXCEPT ![req[r].code] = @ + 1]
    /\ \/ req' = [req EXCEPT ![r].pc = IF req[r].last THEN "grant" ELSE "consume"]
       \/ Answer(r)
    /\ UNCHANGED <<clock, accounts, codes, send, slots, birth, grants, granted>>

\* Mutant: the number of rows ConsumeEmailCode affected is ignored.
VerifyConsumeUnchecked(r) ==
    /\ req[r].pc = "consume"
    /\ codes' = [codes EXCEPT ![req[r].code].consumed = TRUE]
    /\ req' = [req EXCEPT ![r].pc = "grant"]
    /\ UNCHANGED <<clock, accounts, send, slots, history>>

\* Mutant: consuming a code resets its attempts.
VerifyConsumeResets(r) ==
    /\ req[r].pc = "consume"
    /\ ~codes[req[r].code].consumed
    /\ codes' = [codes EXCEPT ![req[r].code].consumed = TRUE,
                              ![req[r].code].attempts = 0]
    /\ req' = [req EXCEPT ![r].pc = "grant"]
    /\ UNCHANGED <<clock, accounts, send, slots, history>>

\* ConsumeEmailCode must affect a row.
VerifyConsume(r) ==
    /\ req[r].pc = "consume"
    /\ LET c == req[r].code IN
         IF codes[c].consumed
         THEN /\ Answer(r)
              /\ UNCHANGED codes
         ELSE /\ codes' = [codes EXCEPT ![c].consumed = TRUE]
              /\ req' = [req EXCEPT ![r].pc = "grant"]
    /\ UNCHANGED <<clock, accounts, send, slots, history>>

\* The session token, the verified mark or the step-up token is handed out.
VerifyGrant(r) ==
    /\ req[r].pc = "grant"
    /\ grants' = [grants EXCEPT ![req[r].code] = @ + 1]
    /\ granted' = granted \cup
         {[code |-> req[r].code, user |-> req[r].user, purpose |-> req[r].purpose,
           via |-> req[r].via]}
    /\ Answer(r)
    /\ UNCHANGED <<clock, accounts, codes, send, slots, birth, compared>>

\* A statement fails, the client goes away or the token cannot be issued:
\* the handler answers 500 and keeps nothing.
VerifyFail(r) ==
    /\ req[r] # Idle
    /\ Answer(r)
    /\ UNCHANGED <<clock, accounts, codes, send, slots, history>>

\* The claim or the consume commits and its reply is lost: the handler sees
\* an error, the row keeps the change.
VerifyReplyLost(r) ==
    /\ LET c == req[r].code IN
         \/ /\ req[r].pc = "claim"
            /\ Claimable(c)
            /\ codes' = [codes EXCEPT ![c] = Claimed(c)]
         \/ /\ req[r].pc = "consume"
            /\ codes' = [codes EXCEPT ![c].consumed = TRUE]
    /\ Answer(r)
    /\ UNCHANGED <<clock, accounts, send, slots, history>>

----------------------------------------------------------------------------
(* EmailCodeRequest, Register and StepUpRequest: sending a code *)

Spawn(s, via, u, p) ==
    send' = [send EXCEPT ![s] =
               [pc |-> "check", via |-> via, user |-> u, purpose |-> p,
                started |-> clock, expires |-> 0, created |-> 0]]

\* Bound: a goroutine starts early enough to see its deadline pass.
RoomBeforeEnd == clock + SendTimeout < MaxTime

\* dispatchEmailCode takes a semaphore slot without waiting; with none free
\* the request is dropped, which changes nothing.  The response at 200 ms
\* does not touch the goroutine: its context is detached.
Dispatch(s, u, p) ==
    /\ send[s] = Idle
    /\ u \in accounts
    /\ slots < SlotCap
    /\ RoomBeforeEnd
    /\ slots' = slots + 1
    /\ Spawn(s, "public", u, p)
    /\ UNCHANGED <<clock, accounts, codes, req, history>>

\* Register commits the account and starts sendEmailCode outside the semaphore.
Register(s, u) ==
    /\ send[s] = Idle
    /\ u \notin accounts
    /\ RoomBeforeEnd
    /\ "verify_email" \in Purpose
    /\ accounts' = accounts \cup {u}
    /\ Spawn(s, "register", u, "verify_email")
    /\ UNCHANGED <<clock, codes, req, slots, history>>

StepUpRequest(s, u) ==
    /\ send[s] = Idle
    /\ u \in accounts
    /\ RoomBeforeEnd
    /\ "credential_change" \in Purpose
    /\ Spawn(s, "stepup", u, "credential_change")
    /\ UNCHANGED <<clock, accounts, codes, req, slots, history>>

\* Mutant: the detached context has no timeout.
DeadlineNever(s) == FALSE

\* Only dispatched sends run under emailCodeSendTimeout.
DeadlinePassed(s) ==
    send[s].via = "public" /\ clock > send[s].started + SendTimeout

\* Mutants: the slot is kept, or every send gives one back.
FinishKeepsSlot(s) ==
    /\ send' = [send EXCEPT ![s] = Idle]
    /\ UNCHANGED slots

FinishAlwaysReleases(s) ==
    /\ send' = [send EXCEPT ![s] = Idle]
    /\ slots' = slots - 1

\* The deferred functions: the goroutine ends, a dispatched one gives its
\* slot back.
Finish(s) ==
    /\ send' = [send EXCEPT ![s] = Idle]
    /\ slots' = IF send[s].via = "public" THEN slots - 1 ELSE slots

At(s, label) == send[s] # Idle /\ send[s].pc = label /\ ~DeadlinePassed(s)

\* The purpose allow-list (sendStepUpCode has none: its purpose is fixed) and
\* the advisory pre-check.  An error of the pre-check falls through.
SendCheck(s) ==
    /\ At(s, "check")
    /\ LET refused == send[s].via # "stepup" /\ ~publicEmailCodePurpose(send[s].purpose)
       IN  \/ /\ refused \/ Recent(send[s].user, send[s].purpose)
              /\ Finish(s)
           \/ /\ ~refused
              /\ send' = [send EXCEPT ![s].pc = "stamp"]
              /\ UNCHANGED slots
    /\ UNCHANGED <<clock, accounts, codes, req, history>>

\* Code generated and hashed; expiresAt is taken from the server's clock.
SendStamp(s) ==
    /\ At(s, "stamp")
    /\ send' = [send EXCEPT ![s].pc = "begin", ![s].expires = clock + Expiry]
    /\ UNCHANGED <<clock, accounts, codes, req, slots, history>>

\* The mint statement's transaction starts: now(), the default of created_at.
SendBegin(s) ==
    /\ At(s, "begin")
    /\ send' = [send EXCEPT ![s].pc = "insert", ![s].created = clock]
    /\ UNCHANGED <<clock, accounts, codes, req, slots, history>>

\* Mutant: only the advisory pre-check guards the cooldown.
MintUnguarded(u, p) == FALSE

\* create_email_code_with_cooldown once it holds the advisory lock.
MintBlocked(u, p) == Recent(u, p)

SendInsert(s) ==
    /\ At(s, "insert")
    /\ IF MintBlocked(send[s].user, send[s].purpose)
       THEN /\ Finish(s)
            /\ UNCHANGED <<codes, birth>>
       ELSE \E c \in CodeId \ minted :
            /\ codes' = [d \in minted \cup {c} |->
                           IF d = c
                           THEN [user |-> send[s].user, purpose |-> send[s].purpose,
                                 created |-> send[s].created, expires |-> send[s].expires,
                                 attempts |-> 0, consumed |-> FALSE]
                           ELSE codes[d]]
            /\ birth' = [d \in minted \cup {c} |->
                           IF d = c THEN [via |-> send[s].via, at |-> clock] ELSE birth[d]]
            /\ send' = [send EXCEPT ![s].pc = "mail"]
            /\ UNCHANGED slots
    /\ UNCHANGED <<clock, accounts, req, compared, grants, granted>>

\* Sender.Send; a delivery error is only logged.
SendMail(s) ==
    /\ At(s, "mail")
    /\ Finish(s)
    /\ UNCHANGED <<clock, accounts, codes, req, history>>

\* A failing statement, a recovered panic, or, for a send that is not
\* detached, the cancelled request context: the goroutine just returns.
SendFail(s) ==
    /\ send[s] # Idle
    /\ Finish(s)
    /\ UNCHANGED <<clock, accounts, codes, req, history>>

\* Whatever call the goroutine is in returns when its context expires.
SendDeadline(s) ==
    /\ send[s] # Idle
    /\ DeadlinePassed(s)
    /\ Finish(s)
    /\ UNCHANGED <<clock, accounts, codes, req, history>>

----------------------------------------------------------------------------

\* The process dies: handlers, goroutines and the semaphore go, rows stay.
Crash ==
    /\ req' = [r \in Requests |-> Idle]
    /\ send' = [s \in Sends |-> Idle]
    /\ slots' = 0
    /\ UNCHANGED <<clock, accounts, codes, history>>

Tick ==
    /\ clock < MaxTime
    /\ clock' = clock + 1
    /\ UNCHANGED <<accounts, codes, req, send, slots, history>>

Verify(r) ==
    \/ \E u \in User, p \in Purpose, via \in Endpoint : VerifyLookup(r, u, p, via)
    \/ VerifyClaim(r) \/ VerifyCompare(r) \/ VerifyConsume(r)
    \/ VerifyGrant(r) \/ VerifyFail(r) \/ VerifyReplyLost(r)

Send(s) ==
    \/ \E u \in User, p \in Purpose : Dispatch(s, u, p)
    \/ \E u \in User : Register(s, u) \/ StepUpRequest(s, u)
    \/ SendCheck(s) \/ SendStamp(s) \/ SendBegin(s) \/ SendInsert(s)
    \/ SendMail(s) \/ SendFail(s) \/ SendDeadline(s)

Next ==
    \/ \E r \in Requests : Verify(r)
    \/ \E s \in Sends : Send(s)
    \/ Crash
    \/ Tick

Spec == Init /\ [][Next]_vars

\* Time passes, and a goroutine whose context has expired gets to run.  No
\* fairness is assumed of the database, the mail relay or the requests.
FairSpec == Spec /\ WF_vars(Tick) /\ \A s \in Sends : WF_vars(SendDeadline(s))

----------------------------------------------------------------------------
(* Properties *)

TypeOK ==
    /\ clock \in Nat
    /\ accounts \subseteq User
    /\ minted \subseteq CodeId
    /\ codes \in [minted -> Row]
    /\ req \in [Requests -> Verifying \cup {Idle}]
    /\ send \in [Sends -> Sending \cup {Idle}]
    /\ slots \in 0..SlotCap
    /\ birth \in [minted -> [via: Entry, at: Nat]]
    /\ compared \in [CodeId -> Nat]
    /\ grants \in [CodeId -> Nat]
    /\ granted \subseteq Grant

\* A code is accepted at most once, however many requests present it at the
\* same time and whichever of the final claim or the consume spends it.
SingleUse == \A c \in CodeId : grants[c] <= 1

\* At most MaxEmailCodeAttempts guesses are ever compared with one code's
\* hash, also when requests looked the code up before others exhausted it.
GuessBound == \A c \in CodeId : compared[c] <= MaxAttempts

\* A code minted for one account and purpose is never accepted for another,
\* and a credential_change code is minted and accepted by step-up only.
PurposeIsolation ==
    /\ \A g \in granted :
         /\ g.code \in minted
         /\ codes[g.code].user = g.user
         /\ codes[g.code].purpose = g.purpose
         /\ g.purpose = "credential_change" <=> g.via = "stepup"
    /\ \A c \in minted :
         codes[c].purpose = "credential_change" <=> birth[c].via = "stepup"

\* Two codes a public request minted for one account and purpose.
PublicPair(c, d) ==
    /\ c # d
    /\ birth[c].via = "public" /\ birth[d].via = "public"
    /\ codes[c].user = codes[d].user
    /\ codes[c].purpose = codes[d].purpose

\* Concurrent public requests never mint two codes for one account and
\* purpose closer together than the cooldown less the send timeout, although
\* the pre-check is not atomic with the insert.  It is not the full cooldown:
\* created_at is the transaction's start and the test reads the later
\* clock_timestamp(), so a mint that waited shortens the next window.
SpacingHolds ==
    \A c, d \in minted :
        PublicPair(c, d) /\ birth[c].at <= birth[d].at
        => birth[d].at - birth[c].at >= Cooldown - SendTimeout

\* Guessing budget: the number of publicly requested codes of one account and
\* purpose that are alive together.  Two inserts are at least Cooldown - SendTimeout apart, the time
\* a send may spend between stamping a code and inserting it.
MaxLive == 2 + (Expiry - 1 - Cooldown) \div (Cooldown - SendTimeout)
LiveCodesBounded ==
    \A u \in User, p \in Purpose :
        Cardinality({c \in Active(u, p) : birth[c].via = "public"}) <= MaxLive

\* The dispatched sends in flight.
Dispatched == {s \in Sends : send[s] # Idle /\ send[s].via = "public"}

\* The semaphore counts exactly the dispatched sends in flight: no path out
\* of the goroutine keeps a slot or gives one back twice.
SlotsExact ==
    slots = Cardinality(Dispatched)

\* With every slot taken, one is given back even if neither the database nor
\* the mail relay ever answers: the send timeout alone suffices.
SlotsRecover == (slots = SlotCap) ~> (slots < SlotCap)

\* Every step of the handlers is a step of the abstract one-time code: issue,
\* guess within the budget, accept once and only after a comparison.
OTC == INSTANCE OneTimeCode WITH issued <- minted, guesses <- compared, used <- grants
Implements == OTC!Spec

\* A spent or exhausted row stays spent and its attempts never go down, so
\* no step gives a guesser a fresh budget.
NoReset ==
    [][\A c \in minted : /\ c \in minted'
                         /\ codes[c].attempts <= codes'[c].attempts
                         /\ codes[c].consumed => codes'[c] = codes[c]]_vars

----------------------------------------------------------------------------
(* The inductive invariant behind SingleUse, GuessBound and Implements *)

\* Requests that may still compare a guess with c's hash.
Comparing(c) == {r \in Requests : req[r].pc = "compare" /\ req[r].code = c}

\* A request that owns its code: it consumed the row and has not answered.
Owns(r) == req[r].pc = "grant" \/ (req[r].pc = "compare" /\ req[r].last)

\* A request in flight holds an existing code, and is past the comparison
\* only if it made one.
InFlight ==
    \A r \in Requests : req[r] # Idle =>
        /\ req[r].code \in minted
        /\ req[r].pc \in {"consume", "grant"} => compared[req[r].code] > 0

\* Every comparison made or still to come was paid for by a claim.
Budget ==
    /\ \A c \in CodeId \ minted : compared[c] = 0 /\ grants[c] = 0
    /\ \A c \in minted : /\ compared[c] + Cardinality(Comparing(c)) <= codes[c].attempts
                         /\ codes[c].attempts <= MaxAttempts

\* One owner per code, none before the row is consumed or after the grant.
Ownership ==
    /\ \A r \in Requests : Owns(r) => /\ codes[req[r].code].consumed
                                      /\ grants[req[r].code] = 0
    /\ \A q, r \in Requests : Owns(q) /\ Owns(r) /\ req[q].code = req[r].code => q = r
    /\ \A c \in minted : ~codes[c].consumed => grants[c] = 0

IInv == TypeOK /\ SlotsExact /\ InFlight /\ Budget /\ Ownership /\ SingleUse

----------------------------------------------------------------------------
(* The inductive invariant behind PurposeIsolation, SpacingHolds and        *)
(* LiveCodesBounded                                                         *)

\* Code c may be accepted for this account, purpose and endpoint.
Answers(c, u, p, via) ==
    /\ c \in minted
    /\ codes[c].user = u
    /\ codes[c].purpose = p
    /\ Accepts(via, p)

\* What a request holds, and what was granted, was right at its lookup.
LookedUp ==
    /\ \A r \in Requests : req[r] # Idle =>
          Answers(req[r].code, req[r].user, req[r].purpose, req[r].via)
    /\ \A g \in granted : Answers(g.code, g.user, g.purpose, g.via)

\* A send past the allow-list mints for its own endpoint, and its clock
\* readings are in the order it took them.
SendsInOrder ==
    \A s \in Sends : send[s] # Idle =>
        /\ send[s].via = "stepup" => send[s].purpose = "credential_change"
        /\ send[s].pc # "check" =>
             (send[s].purpose = "credential_change" => send[s].via = "stepup")
        /\ send[s].started <= clock
        /\ send[s].pc = "begin" => send[s].expires <= clock + Expiry
        /\ send[s].pc = "insert" => /\ send[s].started <= send[s].created
                                    /\ send[s].created <= clock
                                    /\ send[s].expires <= send[s].created + Expiry

\* The same, of the rows: where each came from and when.
MintedInOrder ==
    \A c \in minted :
        /\ codes[c].purpose = "credential_change" <=> birth[c].via = "stepup"
        /\ codes[c].created <= birth[c].at
        /\ birth[c].at <= clock
        /\ codes[c].expires <= codes[c].created + Expiry
        /\ birth[c].via = "public" => birth[c].at <= codes[c].created + SendTimeout

\* Of two rows of one account and purpose, the later one was inserted when the
\* earlier one's cooldown was over.
Apart ==
    \A c, d \in minted :
        /\ c # d
        /\ codes[c].user = codes[d].user
        /\ codes[c].purpose = codes[d].purpose
        => \/ codes[c].created + Cooldown <= birth[d].at
           \/ codes[d].created + Cooldown <= birth[c].at

OrderInv == LookedUp /\ SendsInOrder /\ MintedInOrder /\ Apart
=============================================================================
