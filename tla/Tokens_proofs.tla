---------------------------- MODULE Tokens_proofs ----------------------------
(***************************************************************************)
(* Proofs about signed tokens.  About Sessions, for any number of          *)
(* instances, browsers, providers and logins: however boots and crashes    *)
(* interleave the fleet signs with one secret, and a login ends with the   *)
(* person it was begun for.  About StepUp, the record that one process of  *)
(* the fleet keeps of the step-up tokens presented to it, for any number   *)
(* of tokens and requests and any schedule of the janitor: a token is used *)
(* once until it expires.                                                  *)
(***************************************************************************)
EXTENDS Sessions, StepUp, TLAPS

\* The types that the arguments need.
Typed ==
    /\ secret \in Nat \cup {None}
    /\ inst \in [Instance -> [pc: {"down", "lock", "get", "insert", "unlock", "up"},
                              secret: Nat \cup {None}]]
    /\ clock \in Nat /\ drawn \in Nat
    /\ tokens \subseteq [typ: {"JWT", "step-up"}, key: Nat \cup {None}, exp: Nat]
    /\ state \in [Flow -> State \cup {None}]
    /\ cookie \in [Browser -> Flow \cup {None}]
    /\ \A c \in waiting : c.inst \in Instance /\ c.browser \in Browser /\ c.flow \in Flow
    /\ \A s \in signedIn : s.flow \in Flow

\* Whatever an instance past its boot knows, and whatever was signed, comes
\* from the one row of auth_jwt_secrets.
OneSecret ==
    /\ \A i \in Instance : inst[i].pc = "insert" => inst[i].secret # None
    /\ \A i \in Instance : inst[i].pc \in {"unlock", "up"} =>
         inst[i].secret = secret /\ secret # None
    /\ \A t \in tokens : t.key = secret /\ secret # None
    /\ \A f \in Flow : state[f] # None => state[f].key = secret /\ secret # None

\* A cookie names a state of its own browser, a callback waits only at a
\* serving instance and for a state of its browser, and what was signed in is
\* bound.
Bound ==
    /\ \A b \in Browser : cookie[b] # None =>
         state[cookie[b]] # None /\ state[cookie[b]].browser = b
    /\ \A c \in waiting : state[c.flow] # None /\ state[c.flow].browser = c.browser /\ Up(c.inst)
    /\ \A s \in signedIn : state[s.flow] # None
    /\ LoginBound

IInv == Typed /\ OneSecret /\ Bound

----------------------------------------------------------------------------
(* The boot *)

\* The steps of a boot and its end leave tokens and logins alone.
LEMMA BootKeeps ==
    ASSUME IInv, NEW i \in Instance, BootStart(i) \/ BootStep(i) \/ Stop(i)
    PROVE  IInv'
<1> USE DEF IInv
<1>1. UNCHANGED <<clock, tokens, state, cookie, signedIn>>
  BY DEF BootStart, BootStep, AcquireLock, GetJWTSecret, InsertJWTSecretIfAbsent, Unlock, Stop,
         login, history
<1>0. waiting' \subseteq waiting /\ \A c \in waiting' : Up(c.inst)'
  <2> USE DEF Typed, Bound, Up
  <2>1. CASE BootStart(i)
    BY <2>1 DEF BootStart, Down, login
  <2>2. CASE BootStep(i)
    BY <2>2 DEF BootStep, AcquireLock, GetJWTSecret, InsertJWTSecretIfAbsent, Unlock, login
  <2>3. CASE Stop(i)
    BY <2>3 DEF Stop
  <2> QED
    BY <2>1, <2>2, <2>3
<1>2. Typed' /\ OneSecret'
  <2>0. waiting' \subseteq waiting
    BY <1>0
  <2> USE <1>1, <2>0 DEF Typed, OneSecret
  <2>1. CASE BootStart(i)
    BY <2>1 DEF BootStart, Down
  <2>2. CASE AcquireLock(i)
    BY <2>2 DEF AcquireLock, history
  <2>3. CASE GetJWTSecret(i)
    <3>1. CASE secret # None
      BY <2>3, <3>1 DEF GetJWTSecret
    <3>2. CASE secret = None
      BY <2>3, <3>2, SessionsAssumption DEF GetJWTSecret
    <3> QED
      BY <3>1, <3>2
  <2>4. CASE InsertJWTSecretIfAbsent(i)
    <3>1. CASE secret # None
      BY <2>4, <3>1 DEF InsertJWTSecretIfAbsent, history
    <3>2. CASE secret = None
      BY <2>4, <3>2 DEF InsertJWTSecretIfAbsent, history
    <3> QED
      BY <3>1, <3>2
  <2>5. CASE Unlock(i)
    BY <2>5 DEF Unlock, history
  <2>6. CASE Stop(i)
    BY <2>6 DEF Stop, BootFailed, Down, history
  <2> QED
    BY <2>1, <2>2, <2>3, <2>4, <2>5, <2>6 DEF BootStep
<1>3. Bound'
  BY <1>0, <1>1 DEF Bound, LoginBound
<1> QED
  BY <1>2, <1>3

----------------------------------------------------------------------------
(* Tokens and logins *)

\* A token signed by a serving instance is signed with the row's secret.
LEMMA SignedToken ==
    ASSUME Typed, OneSecret, NEW i \in Instance, Up(i),
           NEW typ \in {"JWT", "step-up"}, NEW ttl \in Nat,
           Hand(Signed(typ, i, ttl)), UNCHANGED secret
    PROVE  /\ tokens' \subseteq [typ: {"JWT", "step-up"}, key: Nat \cup {None}, exp: Nat]
           /\ \A t \in tokens' : t.key = secret' /\ secret' # None
<1> DEFINE t0 == Signed(typ, i, ttl)
<1>1. /\ t0 \in [typ: {"JWT", "step-up"}, key: Nat \cup {None}, exp: Nat]
      /\ t0.key = secret /\ secret # None
  BY DEF Signed, Up, Typed, OneSecret
<1>2. tokens' = tokens \cup {t0}
  BY DEF Hand
<1> HIDE DEF t0
<1> QED
  BY <1>1, <1>2 DEF Typed, OneSecret

LEMMA IssueKeeps ==
    ASSUME IInv, NEW i \in Instance, IssueJWT(i) \/ IssueStepUp(i)
    PROVE  IInv'
<1>1. UNCHANGED <<secret, inst, clock, state, cookie, waiting, signedIn, drawn>> /\ Up(i)
  BY DEF IssueJWT, IssueStepUp, fleet, login, history
<1>2. /\ tokens' \subseteq [typ: {"JWT", "step-up"}, key: Nat \cup {None}, exp: Nat]
      /\ \A t \in tokens' : t.key = secret' /\ secret' # None
  BY <1>1, SignedToken, SessionsAssumption DEF IssueJWT, IssueStepUp, IInv
<1> QED
  BY <1>1, <1>2 DEF IInv, Typed, OneSecret, Bound, LoginBound, Up

\* A started flow is new, so no cookie and no past login names it.
LEMMA StartKeeps ==
    ASSUME IInv, NEW i \in Instance, NEW b \in Browser, NEW f \in Flow, NEW p \in Provider,
           NEW mode \in {"login", "test", "link"}, Start(i, b, f, p, mode)
    PROVE  IInv'
<1> DEFINE v == [key |-> inst[i].secret, provider |-> p, mode |-> mode,
                 exp |-> clock + StateTTL, browser |-> b]
<1>1. /\ state' = [state EXCEPT ![f] = v] /\ cookie' = [cookie EXCEPT ![b] = f]
      /\ UNCHANGED <<secret, inst, clock, tokens, waiting, signedIn, drawn>>
      /\ Up(i) /\ state[f] = None
  BY DEF Start, fleet, history
<1>2. /\ v \in State /\ v # None /\ v.browser = b
      /\ v.key = secret /\ secret # None
  BY <1>1, SessionsAssumption DEF State, IInv, Typed, OneSecret, Up
<1> HIDE DEF v
<1>3. Typed'
  BY <1>1, <1>2 DEF IInv, Typed
<1>4. OneSecret'
  BY <1>1, <1>2 DEF IInv, Typed, OneSecret
<1>5. /\ \A s \in signedIn : s.flow \in Flow /\ s.flow # f
      /\ \A c \in waiting : c.flow \in Flow /\ c.flow # f
  BY <1>1 DEF IInv, Typed, Bound
<1>6. Bound'
  BY <1>1, <1>2, <1>5, SessionsAssumption DEF IInv, Typed, Bound, LoginBound, Up
<1> QED
  BY <1>3, <1>4, <1>6 DEF IInv

\* An accepted state is the one in the browser's cookie, so it is its own.
LEMMA CallbackBegins ==
    ASSUME IInv, NEW i \in Instance, NEW b \in Browser, NEW f \in Flow, NEW p \in Provider,
           NEW code, CallbackBegin(i, b, p, code, f)
    PROVE  IInv'
<1> DEFINE c0 == [inst |-> i, browser |-> b, code |-> code, flow |-> f]
<1>1. UNCHANGED <<secret, inst, clock, tokens, state, signedIn, drawn>> /\ Up(i)
  BY DEF CallbackBegin, fleet, history
<1>2. cookie' \in [Browser -> Flow \cup {None}]
      /\ \A d \in Browser : cookie'[d] # None => cookie'[d] = cookie[d]
  BY DEF CallbackBegin, Cleared, IInv, Typed
<1>3. \/ UNCHANGED waiting
      \/ waiting' = waiting \cup {c0} /\ StateAccepted(i, b, p, f)
  BY DEF CallbackBegin
<1>4. c0.inst = i /\ c0.browser = b /\ c0.flow = f
  OBVIOUS
<1> HIDE DEF c0
<1>5. ASSUME StateAccepted(i, b, p, f)
      PROVE  state[f] # None /\ state[f].browser = b
  BY <1>5, SessionsAssumption DEF StateAccepted, StateMatches, IInv, Bound
<1>6. Typed'
  BY <1>1, <1>2, <1>3, <1>4 DEF IInv, Typed
<1>7. OneSecret'
  BY <1>1 DEF IInv, OneSecret
<1>8. Bound'
  BY <1>1, <1>2, <1>3, <1>4, <1>5 DEF IInv, Bound, LoginBound, Up
<1> QED
  BY <1>6, <1>7, <1>8 DEF IInv

\* A waiting callback is bound to its browser, and the nonce to its flow.
LEMMA CallbackFinishes ==
    ASSUME IInv, NEW c \in waiting, CallbackFinish(c)
    PROVE  IInv'
<1> DEFINE s0 == [browser |-> c.browser, flow |-> c.flow, who |-> c.code.who,
                  asked |-> c.code.flow]
<1>1. /\ UNCHANGED <<secret, inst, clock, state, drawn>>
      /\ waiting' \subseteq waiting /\ Cleared(c.browser)
  BY DEF CallbackFinish, fleet
<1>2. cookie' \in [Browser -> Flow \cup {None}]
      /\ \A d \in Browser : cookie'[d] # None => cookie'[d] = cookie[d]
  BY <1>1 DEF Cleared, IInv, Typed
<1>3. /\ c.inst \in Instance /\ Up(c.inst) /\ c.flow \in Flow
      /\ state[c.flow] # None /\ state[c.flow].browser = c.browser
  BY DEF IInv, Typed, Bound
<1>4. /\ \/ UNCHANGED signedIn
         \/ signedIn' = signedIn \cup {s0} /\ NonceMatches(c.code, c.flow)
      /\ \/ UNCHANGED tokens
         \/ Hand(Signed("JWT", c.inst, JwtTTL))
  BY DEF CallbackFinish
<1>5. /\ tokens' \subseteq [typ: {"JWT", "step-up"}, key: Nat \cup {None}, exp: Nat]
      /\ \A t \in tokens' : t.key = secret' /\ secret' # None
  BY <1>1, <1>3, <1>4, SignedToken, SessionsAssumption DEF IInv, Typed, OneSecret
<1>6. s0.flow = c.flow /\ s0.asked = c.code.flow /\ s0.browser = c.browser
  OBVIOUS
<1> HIDE DEF s0
<1>7. Typed'
  BY <1>1, <1>2, <1>3, <1>4, <1>5, <1>6 DEF IInv, Typed
<1>8. OneSecret'
  BY <1>1, <1>5 DEF IInv, OneSecret
<1>9. LoginBound' /\ \A s \in signedIn' : state'[s.flow] # None
  BY <1>1, <1>3, <1>4, <1>6 DEF IInv, Bound, LoginBound, NonceMatches
<1>10. Bound'
  BY <1>1, <1>2, <1>9 DEF IInv, Bound, Up
<1> QED
  BY <1>7, <1>8, <1>10 DEF IInv

\* Every step keeps the invariant.
LEMMA StepInv ==
    ASSUME IInv, [Next]_vars
    PROVE  IInv'
<1>1. ASSUME NEW i \in Instance, NEW b \in Browser, NEW f \in Flow, NEW p \in Provider,
             \/ \E mode \in {"login", "test", "link"} : Start(i, b, f, p, mode)
             \/ \E code \in codes : CallbackBegin(i, b, p, code, f)
      PROVE  IInv'
  BY <1>1, StartKeeps, CallbackBegins
<1>2. CASE (\E f \in Flow, who \in Person : ProviderAnswers(f, who)) \/ Tick \/ UNCHANGED vars
  <2>1. UNCHANGED <<secret, inst, tokens, state, cookie, waiting, signedIn, drawn>>
        /\ clock' \in Nat
    BY <1>2 DEF ProviderAnswers, Tick, vars, fleet, login, history, IInv, Typed
  <2> QED
    BY <2>1 DEF IInv, Typed, OneSecret, Bound, LoginBound, Up
<1> QED
  BY <1>1, <1>2, BootKeeps, IssueKeeps, CallbackFinishes DEF Next

----------------------------------------------------------------------------
(* The theorems *)

\* One secret, and cookies and logins bound to their browser, in every state.
THEOREM Invariance == Spec => []IInv
<1>1. Init => IInv
  BY SessionsAssumption DEF Init, IInv, Typed, OneSecret, Bound, LoginBound, Down
<1>2. IInv /\ [Next]_vars => IInv'
  BY StepInv
<1> QED
  BY <1>1, <1>2, PTL DEF Spec

\* Every instance honours the tokens and states of every other until they
\* expire, and takes no step-up token for a session.
THEOREM FleetHonoursTokens == Spec => []TokensHonoured
<1>1. IInv => TokensHonoured
  BY DEF IInv, Typed, OneSecret, TokensHonoured, verifyLocal, BearerTyp, StateVerify, Up
<1> QED
  BY <1>1, Invariance, PTL

\* A callback signs in or links only the person whom the provider signed in for
\* this flow and in the browser that began it, whatever happens while it waits
\* for the provider.
THEOREM LoginsAreBound == Spec => []LoginBound
<1>1. IInv => LoginBound
  BY DEF IInv, Bound
<1> QED
  BY <1>1, Invariance, PTL

----------------------------------------------------------------------------
(* Step-up tokens: extending functions *)

\* The keys after Extend.
LEMMA ExtendFacts ==
    ASSUME NEW f, NEW k, NEW v
    PROVE  DOMAIN Extend(f, k, v) = DOMAIN f \cup {k}
BY DEF Extend

\* What Extend preserves.
LEMMA ExtendType ==
    ASSUME NEW S, NEW D, NEW f \in [D -> S], NEW k, NEW v \in S
    PROVE  Extend(f, k, v) \in [DOMAIN Extend(f, k, v) -> S]
BY DEF Extend

----------------------------------------------------------------------------
(* One lemma per action *)

LEMMA StepUpStarts == StepUpInit => StepUpInv
<1> SUFFICES ASSUME StepUpInit PROVE StepUpInv
  OBVIOUS
<1>1. issuedIds = {} /\ spent = {}
  BY DEF StepUpInit, issuedIds, spent
<1>2. TypeOK
  BY <1>1 DEF StepUpInit, TypeOK
<1>3. Agreement /\ Remembered /\ LiveSingleUse
  BY <1>1 DEF StepUpInit, Agreement, Remembered, LiveSingleUse
<1> QED
  BY <1>2, <1>3 DEF StepUpInv

\* A new token is neither spent nor held by a request.
LEMMA IssueStep ==
    ASSUME StepUpInv, NEW t \in Token, NEW u \in User, IssueStepUpToken(t, u)
    PROVE  StepUpInv'
<1> DEFINE p == [uaid |-> u, exp |-> seconds + TTL]
<1>1. p \in Payload
  BY TimeAssumption DEF StepUpInv, TypeOK, Payload
<1>2. issued' = Extend(issued, t, p) /\ t \notin issuedIds
  BY DEF IssueStepUpToken
<1> HIDE DEF p
<1>3. issued' \in [issuedIds' -> Payload]
  BY <1>1, <1>2, ExtendType DEF StepUpInv, TypeOK, issuedIds
<1>4. issuedIds' = issuedIds \cup {t}
  BY <1>2, ExtendFacts DEF issuedIds
<1>5. \A x \in issuedIds : issued'[x] = issued[x]
  BY <1>2 DEF issuedIds, Extend
<1>6. UNCHANGED <<seconds, consumed, req, sweep, liveUses, spent>>
  BY DEF IssueStepUpToken, spent
<1>7. TypeOK'
  BY <1>3, <1>4, <1>6 DEF StepUpInv, TypeOK
<1>8. Agreement'
  BY <1>4, <1>5, <1>6 DEF StepUpInv, Agreement, TypeOK
<1>9. Remembered'
  BY <1>4, <1>5, <1>6 DEF StepUpInv, Remembered
<1> QED
  BY <1>6, <1>7, <1>8, <1>9 DEF StepUpInv, LiveSingleUse

\* The check only makes a request remember an issued token.
LEMMA CheckStep ==
    ASSUME StepUpInv, NEW r \in Requests, NEW t \in Token, NEW u \in User, VerifyCheck(r, t, u)
    PROVE  StepUpInv'
<1>1. UNCHANGED <<seconds, issued, consumed, sweep, liveUses, issuedIds, spent>>
  BY DEF VerifyCheck, issuedIds, spent
<1>2. [pc |-> "store", jti |-> t] \in Storing
  BY DEF Storing
<1>3. \A q \in Requests : req'[q] = IF q = r THEN [pc |-> "store", jti |-> t] ELSE req[q]
  BY DEF VerifyCheck, StepUpInv, TypeOK
<1>4. req' \in [Requests -> Storing \cup {NoRequest}]
  BY <1>2 DEF VerifyCheck, StepUpInv, TypeOK
<1>5. TypeOK'
  BY <1>1, <1>4 DEF StepUpInv, TypeOK
<1>6. Agreement'
  BY <1>1, <1>3 DEF StepUpInv, Agreement, VerifyCheck
<1> QED
  BY <1>1, <1>5, <1>6 DEF StepUpInv, Remembered, LiveSingleUse

\* A token that is not in the map was not accepted while live: LoadOrStore
\* makes the acceptance and the record one step.
LEMMA StoreStep ==
    ASSUME StepUpInv, NEW r \in Requests, VerifyStore(r)
    PROVE  StepUpInv'
<1> DEFINE t == req[r].jti
<1>1. t \in issuedIds /\ t \in Token
  BY DEF VerifyStore, StepUpInv, Agreement, TypeOK
<1>2. UNCHANGED <<seconds, issued, sweep, issuedIds>>
  BY DEF VerifyStore, issuedIds
<1>3. req' \in [Requests -> Storing \cup {NoRequest}]
  BY DEF VerifyStore, StepUpInv, TypeOK
<1>4. \A q \in Requests : req'[q] # NoRequest => req'[q] = req[q]
  BY DEF VerifyStore, StepUpInv, TypeOK
<1>5. CASE t \in spent
  <2>1. UNCHANGED <<consumed, liveUses, spent>>
    BY <1>5 DEF VerifyStore, spent
  <2> QED
    BY <1>2, <1>3, <1>4, <2>1 DEF StepUpInv, TypeOK, Agreement, Remembered, LiveSingleUse
<1>6. CASE t \notin spent
  <2> DEFINE e == issued[t].exp
  <2>1. e \in Nat
    BY <1>1 DEF StepUpInv, TypeOK, Payload
  <2>2. consumed' = Extend(consumed, t, e)
    BY <1>6 DEF VerifyStore, storeConsumedJTI
  <2>3. spent' = spent \cup {t} /\ consumed'[t] = e
        /\ \A x \in spent : consumed'[x] = consumed[x]
    BY <1>6, <2>2 DEF spent, Extend
  <2>4. consumed' \in [spent' -> Nat]
    BY <2>1, <2>2, ExtendType DEF StepUpInv, TypeOK, spent
  <2>5. liveUses' = IF seconds > e THEN liveUses ELSE [liveUses EXCEPT ![t] = @ + 1]
    BY <1>1, <1>6 DEF VerifyStore, StepUpInv, TypeOK
  <2>6. liveUses' \in [Token -> Nat]
    BY <1>1, <2>5 DEF StepUpInv, TypeOK
  <2>7. TypeOK'
    BY <1>1, <1>2, <1>3, <2>3, <2>4, <2>5, <2>6 DEF StepUpInv, TypeOK
  <2>8. Agreement'
    BY <1>2, <1>4, <2>3 DEF StepUpInv, Agreement
  <2>9. Remembered'
    BY <1>1, <1>2, <2>3, <2>5 DEF StepUpInv, Remembered, TypeOK
  <2>10. LiveSingleUse'
    <3>1. liveUses[t] > 0 => seconds > e
      BY <1>1, <1>6 DEF StepUpInv, Remembered
    <3>2. ~(seconds > e) => liveUses[t] = 0
      BY <1>1, <3>1 DEF StepUpInv, TypeOK
    <3> QED
      BY <1>1, <2>5, <3>2 DEF StepUpInv, LiveSingleUse, TypeOK
  <2> QED
    BY <2>7, <2>8, <2>9, <2>10 DEF StepUpInv
<1> QED
  BY <1>5, <1>6

\* The janitor forgets only tokens that have expired.
LEMMA VisitStep ==
    ASSUME StepUpInv, NEW t \in Token, JanitorVisit(t)
    PROVE  StepUpInv'
<1>1. UNCHANGED <<seconds, issued, req, liveUses, issuedIds>>
  BY DEF JanitorVisit, issuedIds
<1>2. sweep \in Sweeping
  BY DEF JanitorVisit, StepUpInv, TypeOK
<1>3. sweep' \in Sweeping /\ sweep'.now = sweep.now
  BY <1>2 DEF JanitorVisit, Sweeping
<1>4. CASE consumed' = consumed
  <2>1. spent' = spent
    BY <1>4 DEF spent
  <2> QED
    BY <1>1, <1>2, <1>3, <1>4, <2>1
    DEF StepUpInv, TypeOK, Agreement, Remembered, LiveSingleUse, JanitorVisit
<1>5. CASE t \in spent /\ Prunable(t) /\ consumed' = Drop(consumed, t)
  <2>1. consumed \in [spent -> Nat]
    BY DEF StepUpInv, TypeOK
  <2>2. spent' = spent \ {t} /\ consumed' \in [spent' -> Nat]
        /\ \A x \in spent' : consumed'[x] = consumed[x]
    <3>1. consumed' = [x \in spent \ {t} |-> consumed[x]]
      BY <1>5 DEF Drop, spent
    <3>0. spent' = spent \ {t}
      BY <3>1 DEF spent
    <3>3. consumed' \in [spent \ {t} -> Nat]
      BY <2>1, <3>1
    <3> QED
      BY <3>0, <3>1, <3>3
  <2>3. seconds > issued[t].exp
    <3>1. sweep.now > issued[t].exp /\ sweep.now <= seconds
      BY <1>5 DEF Prunable, StepUpInv, Agreement, JanitorVisit
    <3>2. t \in issuedIds /\ issued[t].exp \in Nat
      BY <1>5 DEF StepUpInv, TypeOK, Payload
    <3> QED
      BY <1>2, <3>1, <3>2 DEF StepUpInv, TypeOK, Sweeping
  <2>4. TypeOK'
    BY <1>1, <1>3, <2>2 DEF StepUpInv, TypeOK
  <2>5. Agreement'
    BY <1>1, <1>3, <2>2 DEF StepUpInv, Agreement, JanitorVisit
  <2>6. Remembered'
    BY <1>1, <2>2, <2>3 DEF StepUpInv, Remembered
  <2> QED
    BY <1>1, <2>4, <2>5, <2>6 DEF StepUpInv, LiveSingleUse
<1> QED
  BY <1>4, <1>5 DEF JanitorVisit

LEMMA StepUpKept == StepUpInv /\ [StepUpNext]_stepUpVars => StepUpInv'
<1> SUFFICES ASSUME StepUpInv, [StepUpNext]_stepUpVars PROVE StepUpInv'
  OBVIOUS
<1>1. CASE UNCHANGED stepUpVars
  BY <1>1 DEF stepUpVars, StepUpInv, TypeOK, Agreement, Remembered,
              LiveSingleUse, issuedIds, spent
<1>2. CASE JanitorTick
  <2>1. [pc |-> "sweep", now |-> seconds, todo |-> spent] \in Sweeping
    BY DEF StepUpInv, TypeOK, Sweeping
  <2>2. sweep' \in Sweeping /\ sweep'.now <= seconds
    BY <1>2, <2>1 DEF JanitorTick, StepUpInv, TypeOK
  <2>3. UNCHANGED <<seconds, issued, consumed, req, liveUses, issuedIds, spent>>
    BY <1>2 DEF JanitorTick, issuedIds, spent
  <2> QED
    BY <2>2, <2>3 DEF StepUpInv, TypeOK, Agreement, Remembered, LiveSingleUse
<1>3. CASE JanitorDone
  <2>1. UNCHANGED <<seconds, issued, consumed, req, liveUses, issuedIds, spent>>
    BY <1>3 DEF JanitorDone, issuedIds, spent
  <2> QED
    BY <1>3, <2>1 DEF JanitorDone, StepUpInv, TypeOK, Agreement, Remembered,
                      LiveSingleUse
<1>4. CASE Restart
  <2>1. spent' = {} /\ UNCHANGED <<seconds, issued, issuedIds>>
    BY <1>4 DEF Restart, spent, issuedIds
  <2>2. TypeOK'
    BY <1>4, <2>1 DEF Restart, StepUpInv, TypeOK
  <2>3. Agreement' /\ Remembered' /\ LiveSingleUse'
    BY <1>4, <2>1 DEF Restart, Agreement, Remembered, LiveSingleUse
  <2> QED
    BY <2>2, <2>3 DEF StepUpInv
<1>5. CASE StepUpTick
  <2>1. UNCHANGED <<issued, consumed, req, sweep, liveUses, issuedIds, spent>>
    BY <1>5 DEF StepUpTick, issuedIds, spent
  <2>2. seconds' = seconds + 1 /\ seconds' \in Nat /\ seconds \in Nat
    BY <1>5 DEF StepUpTick, StepUpInv, TypeOK
  <2>3. TypeOK'
    BY <2>1, <2>2 DEF StepUpInv, TypeOK
  <2>4. Agreement'
    BY <2>1, <2>2 DEF StepUpInv, Agreement, TypeOK, Sweeping
  <2>5. Remembered'
    BY <2>1, <2>2 DEF StepUpInv, Remembered, TypeOK, Payload
  <2> QED
    BY <2>1, <2>3, <2>4, <2>5 DEF StepUpInv, LiveSingleUse
<1> QED
  BY <1>1, <1>2, <1>3, <1>4, <1>5, IssueStep, CheckStep, StoreStep, VisitStep
  DEF StepUpNext, Janitor

----------------------------------------------------------------------------
(* The theorems *)

\* The inductive invariant holds in every reachable state.
THEOREM StepUpInvariance == StepUpSpec => []StepUpInv
<1>1. StepUpInit => StepUpInv
  BY StepUpStarts
<1>2. StepUpInv /\ [StepUpNext]_stepUpVars => StepUpInv'
  BY StepUpKept
<1> QED
  BY <1>1, <1>2, PTL DEF StepUpSpec

\* Every variable keeps its type.
THEOREM StepUpTypeCorrect == StepUpSpec => []TypeOK
<1>1. StepUpInv => TypeOK
  BY DEF StepUpInv
<1> QED
  BY <1>1, StepUpInvariance, PTL

\* VerifyStepUpToken accepts a token at most once while it is live, whatever
\* the janitor prunes meanwhile.
THEOREM TokensAreSingleUseWhileLive == StepUpSpec => []LiveSingleUse
<1>1. StepUpInv => LiveSingleUse
  BY DEF StepUpInv
<1> QED
  BY <1>1, StepUpInvariance, PTL
=============================================================================
