------------------------------ MODULE Sessions ------------------------------
(***************************************************************************)
(* Sessions over a fleet of server instances on one database.  Each        *)
(* instance obtains the HMAC secret at boot, from the database, under a    *)
(* session-level advisory lock; with it any instance signs and verifies    *)
(* session tokens, step-up tokens and the state of an OIDC login, which    *)
(* one instance may start and another complete.                            *)
(*                                                                         *)
(* Instances crash at any point; the lock goes with the connection.        *)
(* Browsers open several logins, and the provider's answers come late, to  *)
(* a browser other than the one that asked, or with a code and a state     *)
(* that do not belong together.  The clock counts seconds.                 *)
(***************************************************************************)
EXTENDS Naturals, FiniteSets

CONSTANTS
    Instance,   \* server processes
    Browser,
    Provider,   \* configured OIDC providers
    Person,     \* what a provider knows: subjects
    Flow,       \* OIDC flows, named by their nonce
    JwtTTL, StateTTL, StepUpTTL,
    MaxTime,    \* bound: the clock stops here
    MaxBoots,   \* bound: boots of one history
    MaxTokens,  \* bound: tokens of one history
    MaxWaiting, \* bound: callbacks that wait for a provider at once
    None

\* What AuthorizeURL signs into the state of a flow; browser is history.
State == [key: Nat \cup {None}, provider: Provider, mode: {"login", "test", "link"},
          exp: Nat, browser: Browser]

ASSUME SessionsAssumption ==
    /\ JwtTTL \in Nat /\ StateTTL \in Nat /\ StepUpTTL \in Nat
    /\ MaxTime \in Nat /\ MaxBoots \in Nat /\ MaxTokens \in Nat /\ MaxWaiting \in Nat
    /\ None \notin Nat \cup Instance \cup Flow \cup State

VARIABLES
    secret,     \* auth_jwt_secrets: the persisted secret
    lock,       \* the advisory lock
    inst,       \* each instance: how far it is, and its secret
    clock,
    tokens,     \* signed tokens handed out
    state,      \* the signed state of each flow
    cookie,     \* oidc_state of each browser
    codes,      \* codes the provider has handed out and not yet redeemed
    waiting,    \* callbacks whose state was accepted and that await the provider
    \* history, read by guards of bounds and by the properties only
    drawn,      \* secrets generated so far
    boots,      \* boots so far
    signedIn    \* what callbacks have done

fleet   == <<secret, lock, inst>>
login   == <<state, cookie, codes, waiting>>
history == <<drawn, boots, signedIn>>
vars    == <<fleet, clock, tokens, login, history>>

Down == [pc |-> "down", secret |-> None]

Init ==
    /\ secret = None
    /\ lock = None
    /\ inst = [i \in Instance |-> Down]
    /\ clock = 0
    /\ tokens = {}
    /\ state = [f \in Flow |-> None]
    /\ cookie = [b \in Browser |-> None]
    /\ codes = {} /\ waiting = {}
    /\ drawn = 0 /\ boots = 0 /\ signedIn = {}

Up(i) == inst[i].pc = "up"

----------------------------------------------------------------------------
(* Boot: bootstrapJWTSecretFromDB *)

\* config.Load under HS256 without JWT_SECRET.
BootStart(i) ==
    /\ inst[i] = Down
    /\ boots < MaxBoots
    /\ boots' = boots + 1
    /\ inst' = [inst EXCEPT ![i].pc = "lock"]
    /\ UNCHANGED <<secret, lock, clock, tokens, login, drawn, signedIn>>

\* pg_advisory_lock, then CREATE TABLE IF NOT EXISTS, which is safe under it.
AcquireLock(i) ==
    /\ inst[i].pc = "lock"
    /\ lock = None
    /\ lock' = i
    /\ inst' = [inst EXCEPT ![i].pc = "get"]
    /\ UNCHANGED <<secret, clock, tokens, login, history>>

\* GetJWTSecret; if there is none, 32 random bytes.
GetJWTSecret(i) ==
    /\ inst[i].pc = "get"
    /\ IF secret # None
       THEN /\ inst' = [inst EXCEPT ![i] = [pc |-> "unlock", secret |-> secret]]
            /\ UNCHANGED drawn
       ELSE /\ drawn' = drawn + 1
            /\ inst' = [inst EXCEPT ![i] = [pc |-> "insert", secret |-> drawn']]
    /\ UNCHANGED <<secret, lock, clock, tokens, login, boots, signedIn>>

\* InsertJWTSecretIfAbsent, and the second read where it inserts nothing:
\* either way the instance leaves with the row's secret.
InsertJWTSecretIfAbsent(i) ==
    /\ inst[i].pc = "insert"
    /\ secret' = IF secret = None THEN inst[i].secret ELSE secret
    /\ inst' = [inst EXCEPT ![i] = [pc |-> "unlock", secret |-> secret']]
    /\ UNCHANGED <<lock, clock, tokens, login, history>>

\* pg_advisory_unlock; the instance serves.
Unlock(i) ==
    /\ inst[i].pc = "unlock"
    /\ lock' = None
    /\ inst' = [inst EXCEPT ![i].pc = "up"]
    /\ UNCHANGED <<secret, clock, tokens, login, history>>

\* Mutants: the lock survives its connection; a boot that cannot persist its
\* secret serves with it.
LockKept(i) == lock
BootFailedGoesOn(i) ==
    IF inst[i].pc = "insert" THEN [pc |-> "up", secret |-> inst[i].secret] ELSE Down

\* The lock after the connection of instance i has ended.
LockAfter(i) == IF lock = i THEN None ELSE lock

\* What becomes of an instance whose boot fails, or that is stopped.
BootFailed(i) == Down

\* A statement of the boot fails or times out, or the process crashes, and
\* the callbacks that it was serving with it.
Stop(i) ==
    /\ inst[i] # Down
    /\ inst' = [inst EXCEPT ![i] = BootFailed(i)]
    /\ lock' = LockAfter(i)
    /\ waiting' = {c \in waiting : c.inst # i}
    /\ UNCHANGED <<secret, clock, tokens, state, cookie, codes, history>>

----------------------------------------------------------------------------
(* Tokens *)

Signed(typ, i, ttl) == [typ |-> typ, key |-> inst[i].secret, exp |-> clock + ttl]

Hand(token) ==
    /\ Cardinality(tokens) < MaxTokens
    /\ tokens' = tokens \cup {token}

\* Login, Assume and the other handlers that end in a signed JWT, after
\* their checks.
IssueJWT(i) ==
    /\ Up(i)
    /\ Hand(Signed("JWT", i, JwtTTL))
    /\ UNCHANGED <<fleet, clock, login, history>>

\* IssueStepUpToken: the same secret, another typ.
IssueStepUp(i) ==
    /\ Up(i)
    /\ Hand(Signed("step-up", i, StepUpTTL))
    /\ UNCHANGED <<fleet, clock, login, history>>

\* verifyLocal refuses a step-up token before anything else.
BearerTyp(t) == t.typ # "step-up"

\* verifyLocal at instance i: typ, signature, expiry.
verifyLocal(i, t) ==
    /\ BearerTyp(t)
    /\ t.key = inst[i].secret
    /\ clock < t.exp

----------------------------------------------------------------------------
(* OIDC login *)

\* Start and StartLink: AuthorizeURL signs a state with a fresh nonce and the
\* browser gets it as a cookie, in place of an older one.
Start(i, b, f, p, mode) ==
    /\ Up(i)
    /\ state[f] = None
    /\ state' = [state EXCEPT ![f] = [key |-> inst[i].secret, provider |-> p, mode |-> mode,
                                      exp |-> clock + StateTTL, browser |-> b]]
    /\ cookie' = [cookie EXCEPT ![b] = f]
    /\ UNCHANGED <<fleet, clock, tokens, codes, waiting, history>>

\* The provider signs a person in for a flow, and answers with a code.
ProviderAnswers(f, who) ==
    /\ state[f] # None
    /\ \A c \in codes : c.flow # f
    /\ codes' = codes \cup {[flow |-> f, provider |-> state[f].provider, who |-> who]}
    /\ UNCHANGED <<fleet, clock, tokens, state, cookie, waiting, history>>

\* StateSigner.Verify.
StateVerify(i, f) == state[f].key = inst[i].secret /\ clock <= state[f].exp

\* The state parameter must be the browser's cookie.
StateMatches(b, raw) == cookie[b] = raw

\* Exchange up to the redemption of the code.
StateAccepted(i, b, p, raw) ==
    /\ state[raw] # None
    /\ StateMatches(b, raw)
    /\ StateVerify(i, raw)
    /\ state[raw].provider = p

\* Mutant: the nonce is not compared.
NonceAny(code, raw) == TRUE

\* The nonce of the id_token must be the state's.
NonceMatches(code, raw) == code.flow = raw

\* Every answer of the callback clears the browser's cookie, one of a flow
\* started meanwhile too; the answer may be lost.
Cleared(b) == cookie' \in {[cookie EXCEPT ![b] = None], cookie}

\* Callback, up to the call of the provider's token endpoint: a refused state
\* is answered, an accepted one is remembered while the request waits.
CallbackBegin(i, b, p, code, raw) ==
    /\ Up(i)
    /\ code.provider = p
    /\ IF StateAccepted(i, b, p, raw)
       THEN /\ Cardinality(waiting) < MaxWaiting
            /\ waiting' = waiting \cup {[inst |-> i, browser |-> b, code |-> code, flow |-> raw]}
            /\ UNCHANGED cookie
       ELSE Cleared(b) /\ UNCHANGED waiting
    /\ UNCHANGED <<fleet, clock, tokens, state, codes, history>>

\* The provider redeems a code once; the call may fail or time out.
Exchanged(code) == {{}} \cup {{code} \cap codes}

\* Callback, from the provider's answer on: with an id_token whose nonce is
\* the state's it signs in, links or, in test mode, does neither.
CallbackFinish(c) ==
    /\ waiting' = waiting \ {c}
    /\ Cleared(c.browser)
    /\ \E redeemed \in Exchanged(c.code) :
         /\ codes' = codes \ redeemed
         /\ IF redeemed # {} /\ NonceMatches(c.code, c.flow) /\ state[c.flow].mode # "test"
            THEN /\ signedIn' = signedIn \cup {[browser |-> c.browser, flow |-> c.flow,
                                                who |-> c.code.who, asked |-> c.code.flow]}
                 /\ IF state[c.flow].mode = "login"
                    THEN Hand(Signed("JWT", c.inst, JwtTTL)) ELSE UNCHANGED tokens
            ELSE UNCHANGED <<signedIn, tokens>>
    /\ UNCHANGED <<fleet, clock, state, drawn, boots>>

Tick ==
    /\ clock < MaxTime
    /\ clock' = clock + 1
    /\ UNCHANGED <<fleet, tokens, login, history>>

----------------------------------------------------------------------------

BootStep(i) == AcquireLock(i) \/ GetJWTSecret(i) \/ InsertJWTSecretIfAbsent(i) \/ Unlock(i)

Next ==
    \/ \E i \in Instance :
         \/ BootStart(i) \/ BootStep(i) \/ Stop(i)
         \/ IssueJWT(i) \/ IssueStepUp(i)
         \/ \E b \in Browser, f \in Flow, p \in Provider :
              \/ \E mode \in {"login", "test", "link"} : Start(i, b, f, p, mode)
              \/ \E code \in codes : CallbackBegin(i, b, p, code, f)
    \/ \E c \in waiting : CallbackFinish(c)
    \/ \E f \in Flow, who \in Person : ProviderAnswers(f, who)
    \/ Tick

\* PostgreSQL answers: the statements of a boot are executed.
Spec == Init /\ [][Next]_vars /\ \A i \in Instance : WF_vars(BootStep(i))

----------------------------------------------------------------------------
(* Properties *)

\* Any instance honours a session token of any other, or of one that is long
\* gone, until the token expires, and takes no step-up token for one; a
\* pending login can be completed by any instance: however boots and crashes
\* interleave, the fleet has a single secret.
TokensHonoured ==
    \A i \in Instance : Up(i) =>
        /\ \A t \in tokens : verifyLocal(i, t) <=> t.typ = "JWT" /\ clock < t.exp
        /\ \A f \in Flow : state[f] # None /\ clock <= state[f].exp => StateVerify(i, f)

\* What a callback signs in or links is the person whom the provider signed
\* in for this very flow, in the browser that started it, whatever codes,
\* states and browsers meet at the callback and whatever starts, expires or
\* crashes while it waits for the provider.  A state that expires meanwhile
\* does not stop it: expiry is checked when the callback arrives.
LoginBound ==
    \A s \in signedIn : s.asked = s.flow /\ state[s.flow].browser = s.browser

\* An instance that waits for the bootstrap lock serves in the end, unless it
\* stops: one that crashed while it held the lock blocks nobody.
BootCompletes ==
    \A i \in Instance : inst[i].pc = "lock" ~> inst[i].pc \in {"up", "down"}

=============================================================================
