------------------------------- MODULE StepUp -------------------------------
(***************************************************************************)
(* Step-up tokens: signed, short-lived, bound to one account, and meant to *)
(* authorise a single credential change.  Single use is enforced by a map  *)
(* of spent token ids in the memory of the server process, which a janitor *)
(* goroutine prunes every minute.                                          *)
(*                                                                         *)
(* A verification reads the clock and later stores the id; the janitor     *)
(* takes the tick's time and later deletes key after key.  Both are split  *)
(* at that point.  The clock counts Unix seconds.  The signature is        *)
(* external: only issued tokens verify.  The names leave those of Sessions *)
(* free, which is about the other tokens of the same process.              *)
(***************************************************************************)
EXTENDS Integers

CONSTANTS
    User,           \* user accounts
    Token,          \* token ids (jti)
    Requests,       \* concurrent credential-change requests
    TTL,            \* StepUpTTL
    MaxSeconds      \* bound: the clock stops here

ASSUME TimeAssumption == TTL \in Nat /\ MaxSeconds \in Nat

VARIABLES
    seconds,    \* the clock
    issued,     \* the payload of each issued token
    consumed,   \* the process-local map: token id -> expiry
    req,        \* requests between the expiry check and LoadOrStore
    sweep,      \* the janitor's pass: its tick time and the keys still ahead
    \* history since the last restart, read by the properties only
    liveUses    \* times each token was accepted before its expiry had passed

stepUpVars == <<seconds, issued, consumed, req, sweep, liveUses>>

issuedIds == DOMAIN issued
spent  == DOMAIN consumed

NoRequest == [pc |-> "idle"]
NoSweep   == [pc |-> "idle"]
Payload   == [uaid: User, exp: Nat]
Storing   == [pc: {"store"}, jti: Token]
Sweeping  == [pc: {"sweep"}, now: Nat, todo: SUBSET Token]

Extend(f, k, v) == [x \in DOMAIN f \cup {k} |-> IF x = k THEN v ELSE f[x]]
Drop(f, k)      == [x \in DOMAIN f \ {k} |-> f[x]]

StepUpInit ==
    /\ seconds = 0
    /\ issued = [t \in {} |-> 0]
    /\ consumed = [t \in {} |-> 0]
    /\ req = [r \in Requests |-> NoRequest]
    /\ sweep = NoSweep
    /\ liveUses = [t \in Token |-> 0]

----------------------------------------------------------------------------

\* Mutant: the lifetime is subtracted.
IssueBackdated(t, u) ==
    /\ t \notin issuedIds
    /\ issued' = Extend(issued, t, [uaid |-> u, exp |-> seconds - TTL])
    /\ UNCHANGED <<seconds, consumed, req, sweep, liveUses>>

\* IssueStepUpToken, at the end of StepUpVerify.
IssueStepUpToken(t, u) ==
    /\ t \notin issuedIds
    /\ issued' = Extend(issued, t, [uaid |-> u, exp |-> seconds + TTL])
    /\ UNCHANGED <<seconds, consumed, req, sweep, liveUses>>

\* The expiry check of VerifyStepUpToken.
Expired(exp) == seconds > exp

\* VerifyStepUpToken up to the binding check, for a request of account u.
\* Any failed check is a 409 and changes nothing.
VerifyCheck(r, t, u) ==
    /\ req[r] = NoRequest
    /\ t \in issuedIds
    /\ ~Expired(issued[t].exp)
    /\ issued[t].uaid = u
    /\ req' = [req EXCEPT ![r] = [pc |-> "store", jti |-> t]]
    /\ UNCHANGED <<seconds, issued, consumed, sweep, liveUses>>

\* storeConsumedJTI, when the id is new.
storeConsumedJTI(t) == consumed' = Extend(consumed, t, issued[t].exp)

\* isConsumedJTI: LoadOrStore; a loaded id is a replay.
VerifyStore(r) ==
    /\ req[r] # NoRequest
    /\ LET t == req[r].jti IN
         IF t \in spent
         THEN UNCHANGED <<consumed, liveUses>>
         ELSE /\ storeConsumedJTI(t)
              /\ liveUses' = IF seconds > issued[t].exp THEN liveUses
                             ELSE [liveUses EXCEPT ![t] = @ + 1]
    /\ req' = [req EXCEPT ![r] = NoRequest]
    /\ UNCHANGED <<seconds, issued, sweep>>

----------------------------------------------------------------------------

\* The janitor's ticker fires; Range will visit the keys of the map.
JanitorTick ==
    /\ sweep = NoSweep
    /\ sweep' = [pc |-> "sweep", now |-> seconds, todo |-> spent]
    /\ UNCHANGED <<seconds, issued, consumed, req, liveUses>>

\* Mutants: entries pruned while their token is accepted; nothing pruned.
PrunableEarly(t) == sweep.now >= consumed[t]
PrunableNever(t) == FALSE

\* The janitor's test, with the tick's time.
Prunable(t) == sweep.now > consumed[t]

\* One call of the function passed to Range.
JanitorVisit(t) ==
    /\ sweep # NoSweep
    /\ t \in sweep.todo
    /\ consumed' = IF t \in spent /\ Prunable(t) THEN Drop(consumed, t) ELSE consumed
    /\ sweep' = [sweep EXCEPT !.todo = @ \ {t}]
    /\ UNCHANGED <<seconds, issued, req, liveUses>>

JanitorDone ==
    /\ sweep # NoSweep
    /\ sweep.todo = {}
    /\ sweep' = NoSweep
    /\ UNCHANGED <<seconds, issued, consumed, req, liveUses>>

\* The process restarts: the map and everything in flight are gone, the
\* tokens are still signed.
Restart ==
    /\ consumed' = [t \in {} |-> 0]
    /\ req' = [r \in Requests |-> NoRequest]
    /\ sweep' = NoSweep
    /\ liveUses' = [t \in Token |-> 0]
    /\ UNCHANGED <<seconds, issued>>

StepUpTick ==
    /\ seconds < MaxSeconds
    /\ seconds' = seconds + 1
    /\ UNCHANGED <<issued, consumed, req, sweep, liveUses>>

Janitor == JanitorTick \/ (\E t \in Token : JanitorVisit(t)) \/ JanitorDone

StepUpNext ==
    \/ \E t \in Token, u \in User : IssueStepUpToken(t, u)
    \/ \E r \in Requests : \/ \E t \in Token, u \in User : VerifyCheck(r, t, u)
                           \/ VerifyStore(r)
    \/ Janitor
    \/ Restart
    \/ StepUpTick

StepUpSpec == StepUpInit /\ [][StepUpNext]_stepUpVars

\* The ticker keeps firing and the scheduler runs the janitor; time passes.
StepUpFairSpec == StepUpSpec /\ WF_stepUpVars(StepUpTick) /\ WF_stepUpVars(Janitor)

----------------------------------------------------------------------------
(* Properties *)

TypeOK ==
    /\ seconds \in Nat
    /\ issuedIds \subseteq Token
    /\ issued \in [issuedIds -> Payload]
    /\ spent \subseteq issuedIds
    /\ consumed \in [spent -> Nat]
    /\ req \in [Requests -> Storing \cup {NoRequest}]
    /\ sweep \in Sweeping \cup {NoSweep}
    /\ liveUses \in [Token -> Nat]

\* Until its expiry has passed a token is accepted at most once by a server
\* process, however requests and the janitor's pruning interleave.
LiveSingleUse == \A t \in Token : liveUses[t] <= 1

\* The map does not grow without bound: an entry whose token has expired is
\* pruned (a stalled request may store it again, and it is pruned again).
Drained == \A t \in Token :
    (t \in spent /\ seconds > consumed[t]) ~> (t \notin spent)

----------------------------------------------------------------------------
(* The inductive invariant behind LiveSingleUse *)

\* The map records the expiry of the token itself, requests hold issued
\* tokens, and the janitor's time is in the past.
Agreement ==
    /\ \A t \in spent : consumed[t] = issued[t].exp
    /\ \A r \in Requests : req[r] # NoRequest => req[r].jti \in issuedIds
    /\ sweep # NoSweep => sweep.now <= seconds

\* A token accepted while live stays in the map until it has expired.
Remembered ==
    \A t \in Token : liveUses[t] > 0 =>
        t \in issuedIds /\ (t \in spent \/ seconds > issued[t].exp)

StepUpInv == TypeOK /\ Agreement /\ Remembered /\ LiveSingleUse
=============================================================================
