--------------------------- MODULE OidcOnboarding ---------------------------
(***************************************************************************)
(* OIDC onboarding and provider administration of one server process: the  *)
(* rows of oidc_providers and the singleton oidc_config, the in-memory     *)
(* registry of initialised providers (auth.OAuth), the handler's cached    *)
(* boot state that decides whether /v1 is served at all, and the one-time  *)
(* setup token.                                                            *)
(*                                                                         *)
(* No handler here uses a transaction or holds a lock over its statements. *)
(* Each one writes rows, reads them back, waits for discovery, swaps the   *)
(* registry and refreshes the cache from three further reads, and requests *)
(* interleave between any two of these.  The process may stop at any time; *)
(* the rows survive, the registry, the cache and the plaintext token do    *)
(* not.                                                                    *)
(*                                                                         *)
(* A setting is a value or None (NULL, or the empty string).  Tokens are   *)
(* numbered in the order they are generated; the stored SHA-256 hash       *)
(* stands for the token it belongs to.                                     *)
(***************************************************************************)
EXTENDS Naturals, FiniteSets

CONSTANTS
    Provider,       \* provider ids
    Field,          \* settings that OAuth cannot do without
    Value,          \* values of a setting
    WellKnown,      \* wellKnownProviders: the default of each field, or None
    EnvRegistries,  \* what LoadProviders may find in the environment at a boot
    EnvOptOut,      \* NO_OIDC_ACCOUNTS, as it may be set at a boot
    MergeAtBoot,    \* {TRUE}: main.go's wiring, {FALSE}: a generated app's
    Displays,       \* TOKEN_DISPLAY: "none" or another mode
    HasAdminChecker,\* whether an administrator's session opens the gate
    Bodies,         \* bodies of PUT and POST
    Requests,       \* concurrent requests
    MaxRequests,    \* bound: requests of one history
    MaxBoots,       \* bound: boots of one history
    Keep,           \* a member that a body does not have
    None

Setting  == Value \cup {None}
Settings == [Field -> Setting]
Row      == [values: Settings, enabled: BOOLEAN]
InitState == [values: Settings, ok: BOOLEAN]

ASSUME OnboardingAssumption ==
    /\ None \notin Value \cup Row \cup InitState \cup Nat
    /\ WellKnown \in [Provider -> Settings]
    /\ EnvRegistries \subseteq [Provider -> Settings]
    /\ EnvOptOut \subseteq BOOLEAN /\ MergeAtBoot \subseteq BOOLEAN
    /\ Bodies \subseteq [values: [Field -> Setting \cup {Keep}], enabled: BOOLEAN \cup {Keep}]

VARIABLES
    rows,     \* oidc_providers
    config,   \* oidc_config
    boot,     \* how far the process is: "down", "mint", "up"
    mounted,  \* whether the onboarding routes are mounted
    envReg,   \* the EnvRegistry the handlers were built with
    envFlag,  \* the NO_OIDC_ACCOUNTS this process booted with
    oauth,    \* OAuth.States: settings and InitOK of each provider in it
    cache,    \* cachedDB and cachedBoot
    plain,    \* currentPlain
    req,      \* requests in flight
    \* history, read by guards of bounds and by the properties only
    minted,   \* tokens generated so far
    first,    \* tokens generated before this boot
    served,   \* requests begun
    boots,    \* boots so far
    clean,    \* the last one to touch the configuration ran alone and succeeded
    alone,    \* no two requests have overlapped since none was open
    wasConfirmed \* this process has been confirmed since it booted

disk    == <<rows, config>>
memory  == <<boot, mounted, envReg, envFlag>>
history == <<minted, first, served, boots, clean, alone, wasConfirmed>>
vars    == <<disk, memory, oauth, cache, plain, req, history>>

Idle == [pc |-> "idle"]

----------------------------------------------------------------------------
(* Merging the layers, and the verdict *)

\* pickStr: the first value that is set.
pickStr(a, b, c) == IF a # None THEN a ELSE IF b # None THEN b ELSE c

InEnv(env, p) == \E f \in Field : env[p][f] # None

\* mergeFields: database before environment before built-in default.
mergeFields(p, row, env) ==
    [f \in Field |->
        pickStr(IF row = None THEN None ELSE row.values[f], env[p][f], WellKnown[p][f])]

\* MergedEnabled: a provider without a row is on.
MergedEnabled(row) == row = None \/ row.enabled

\* MergedRegistry after LoadMergedProviders: the providers of either layer
\* that are on and have every setting OAuth needs.
MergedRegistry(env) ==
    [p \in Provider |->
        LET eff == mergeFields(p, rows[p], env)
        IN  IF /\ rows[p] # None \/ InEnv(env, p)
               /\ MergedEnabled(rows[p])
               /\ \A f \in Field : eff[f] # None
            THEN eff
            ELSE None]

\* Confirmed: the states in which RequireOIDCConfirmed serves /v1.
Confirmed(state) == state \in {"confirmed_ok", "confirmed_opt_out"}

\* buildProviderViews: the enabled flag of each provider of the environment.
EnabledView(env) == [p \in {q \in Provider : InEnv(env, q)} |-> MergedEnabled(rows[p])]

\* Mutant: one working provider is enough, as before the strict rule.
BrokenAll(on, states) == \A p \in on : states[p] = None \/ ~states[p].ok

\* Some provider that is on did not initialise.
Broken(on, states) == \E p \in on : states[p] = None \/ ~states[p].ok

\* DetermineBootState.
DetermineBootState(enabled, states, optOut, flag) ==
    LET candidates == DOMAIN enabled
        on         == {p \in candidates : enabled[p]}
    IN  IF candidates = {}
        THEN IF optOut \/ flag THEN "confirmed_opt_out" ELSE "no_env_no_flag"
        ELSE IF on = {}
             THEN IF optOut THEN "confirmed_opt_out" ELSE "init_failed"
             ELSE IF Broken(on, states) THEN "init_failed" ELSE "confirmed_ok"

\* initProvider for every provider of a registry: discovery may fail.
Discovered(reg) ==
    {[p \in Provider |-> IF reg[p] = None THEN None
                          ELSE [values |-> reg[p], ok |-> ok[p]]] :
        ok \in [{p \in Provider : reg[p] # None} -> BOOLEAN]}

----------------------------------------------------------------------------
(* Boot *)

Init ==
    /\ rows = [p \in Provider |-> None]
    /\ config = [optOut |-> FALSE, hash |-> None]
    /\ boot = "down" /\ mounted = FALSE /\ envFlag = FALSE
    /\ envReg = [p \in Provider |-> [f \in Field |-> None]]
    /\ oauth = [p \in Provider |-> None]
    /\ cache = [config |-> config, state |-> "none"]
    /\ plain = None
    /\ req = [r \in Requests |-> Idle]
    /\ minted = 0 /\ first = 0 /\ served = 0 /\ boots = 0
    /\ clean = FALSE /\ alone = TRUE /\ wasConfirmed = FALSE

\* Mutant: a hash found in the database is left there.
EnsureSetupTokenKeep(s) ==
    IF Confirmed(s) \/ config.hash # None
    THEN UNCHANGED config /\ boot' = "up"
    ELSE UNCHANGED config /\ boot' = "mint"

\* EnsureSetupToken's three branches, after the state was computed as s: what
\* becomes of the stored hash, and whether a token has to be generated.  A
\* process that boots holds no plaintext, so the third branch, a repeated
\* call, does not arise.
EnsureSetupToken(s) ==
    IF Confirmed(s)
    THEN config' = [config EXCEPT !.hash = None] /\ boot' = "up"
    ELSE config' = [config EXCEPT !.hash = None] /\ boot' = "mint"

\* The start of main: merge, NewOAuth, RefreshState, ApplyDBOverridesToOAuth,
\* all before the first request, so the outcome of the last discovery and the
\* last refresh is what counts.  Then the setup token, or with TOKEN_DISPLAY
\* none an exit if the state is not confirmed.
Boot(env, merge, flag, display) ==
    /\ boot = "down" /\ boots < MaxBoots
    /\ boots' = boots + 1
    /\ LET merged == MergedRegistry(env)
           reg    == IF merge
                     THEN [p \in Provider |-> IF merged[p] = None
                                               THEN [f \in Field |-> None] ELSE merged[p]]
                     ELSE env
       IN  /\ envReg' = reg
           /\ oauth' \in Discovered(MergedRegistry(reg))
           /\ LET s == DetermineBootState(EnabledView(reg), oauth', config.optOut, flag)
              IN  /\ \/ /\ display = "none" /\ ~Confirmed(s)
                        /\ UNCHANGED <<boot, config>>
                     \/ /\ display = "none" /\ Confirmed(s)
                        /\ boot' = "up"
                        /\ UNCHANGED config
                     \/ /\ display # "none"
                        /\ EnsureSetupToken(s)
                  /\ cache' = [config |-> config', state |-> s]
                  /\ wasConfirmed' = Confirmed(s)
                  /\ clean' = (boot' = "up")
    /\ envFlag' = flag
    /\ mounted' = (display # "none")
    /\ first' = minted
    /\ UNCHANGED <<rows, plain, req, minted, served, alone>>

\* EnsureSetupToken's last part: the hash is stored, the plaintext is kept
\* and shown, and the state refreshed.
MintSetupToken ==
    /\ boot = "mint"
    /\ minted' = minted + 1
    /\ config' = [config EXCEPT !.hash = minted']
    /\ plain' = minted'
    /\ cache' = [cache EXCEPT !.config = config']
    /\ boot' = "up"
    /\ clean' = TRUE
    /\ UNCHANGED <<rows, mounted, envReg, envFlag, oauth, req, first, served, boots,
                   alone, wasConfirmed>>

\* The process stops, or a step of its boot fails.
Stop ==
    /\ boot # "down" /\ boots < MaxBoots
    /\ boot' = "down" /\ mounted' = FALSE /\ envFlag' = FALSE
    /\ envReg' = [p \in Provider |-> [f \in Field |-> None]]
    /\ oauth' = [p \in Provider |-> None]
    /\ cache' = [config |-> [optOut |-> FALSE, hash |-> None], state |-> "none"]
    /\ plain' = None
    /\ req' = [r \in Requests |-> Idle]
    /\ clean' = FALSE /\ alone' = TRUE /\ wasConfirmed' = FALSE
    /\ UNCHANGED <<disk, minted, first, served, boots>>

----------------------------------------------------------------------------
(* Requests *)

\* A credential is the number of a token, or stands for an administrator's
\* session.
Admin == 0

\* verifySetupToken compares with the cached hash.
verifySetupToken(t) == cache.config.hash # None /\ t = cache.config.hash

\* authorizeAmbient, authenticateWithBody: an administrator or a setup token,
\* in the header or in the body.
Authorized(cred) ==
    \/ cred = Admin /\ HasAdminChecker
    \/ cred # Admin /\ verifySetupToken(cred)

\* A request arrives and passes the gate.
Begin(r, cred, next) ==
    /\ boot = "up" /\ mounted
    /\ req[r] = Idle
    /\ served < MaxRequests
    /\ Authorized(cred)
    /\ served' = served + 1
    /\ clean' = FALSE
    /\ alone' = (\A q \in Requests : req[q] = Idle)
    /\ req' = [req EXCEPT ![r] = next]
    /\ UNCHANGED <<disk, memory, oauth, cache, plain, minted, first, boots, wasConfirmed>>

Goto(r, next) == req' = [req EXCEPT ![r] = next]

\* The request is answered; it has left everything consistent if it ran alone.
Done(r) ==
    /\ req' = [req EXCEPT ![r] = Idle]
    /\ clean' = alone

\* Confirm: the enabled set, complete over the registry, and the opt-out,
\* implied only by an empty registry.
Confirm(r, cred, wanted, optOut) ==
    /\ wanted \subseteq {p \in Provider : InEnv(envReg, p)}
    /\ LET known == {p \in Provider : InEnv(envReg, p)}
       IN  Begin(r, cred, [pc |-> "enable", todo |-> known, wanted |-> wanted,
                           optOut |-> optOut \/ known = {}])

\* SetOIDCProviderEnabled: only the flag of an existing row changes.
SetOIDCProviderEnabled(p, on) ==
    rows' = [rows EXCEPT ![p] = IF @ = None
                                THEN [values |-> [f \in Field |-> None], enabled |-> on]
                                ELSE [@ EXCEPT !.enabled = on]]

\* One statement per provider, in the order of a Go map.
ConfirmEnable(r) ==
    /\ req[r].pc = "enable"
    /\ \E p \in req[r].todo :
         /\ SetOIDCProviderEnabled(p, p \in req[r].wanted)
         /\ Goto(r, [req[r] EXCEPT !.todo = @ \ {p}])
    /\ UNCHANGED <<config, memory, oauth, cache, plain, history>>

\* UpdateOIDCConfig, after the last of them.
UpdateOIDCConfig(r) ==
    /\ req[r].pc = "enable" /\ req[r].todo = {}
    /\ config' = [config EXCEPT !.optOut = req[r].optOut]
    /\ Goto(r, [pc |-> "load", op |-> "confirm"])
    /\ UNCHANGED <<rows, memory, oauth, cache, plain, history>>

\* mergeTextField and the enabled switch: an absent member keeps the row's.
mergeRow(body, row) ==
    [values  |-> [f \in Field |-> IF body.values[f] = Keep
                                   THEN IF row = None THEN None ELSE row.values[f]
                                   ELSE body.values[f]],
     enabled |-> IF body.enabled = Keep THEN MergedEnabled(row) ELSE body.enabled]

\* Update: PUT reads the row and computes the one to write.
Update(r, cred, p, body) ==
    Begin(r, cred, [pc |-> "upsert", id |-> p, row |-> mergeRow(body, rows[p])])

\* Create: 409 if there is a row; the row is then read a second time.
Create(r, cred, p, body) ==
    /\ rows[p] = None
    /\ Begin(r, cred, [pc |-> "reread", id |-> p, body |-> body])

CreateRead(r) ==
    /\ req[r].pc = "reread"
    /\ Goto(r, [pc |-> "upsert", id |-> req[r].id,
                 row |-> mergeRow(req[r].body, rows[req[r].id])])
    /\ UNCHANGED <<disk, memory, oauth, cache, plain, history>>

\* UpsertOIDCProvider writes the whole row.
UpsertOIDCProvider(r) ==
    /\ req[r].pc = "upsert"
    /\ rows' = [rows EXCEPT ![req[r].id] = req[r].row]
    /\ Goto(r, [pc |-> "load", op |-> "edit"])
    /\ UNCHANGED <<config, memory, oauth, cache, plain, history>>

\* Revert: DELETE removes the row, if there is one.
Revert(r, cred, p) == Begin(r, cred, [pc |-> "delete", id |-> p])

DeleteOIDCProvider(r) ==
    /\ req[r].pc = "delete"
    /\ rows' = [rows EXCEPT ![req[r].id] = None]
    /\ Goto(r, [pc |-> "load", op |-> "edit"])
    /\ UNCHANGED <<config, memory, oauth, cache, plain, history>>

\* Mutant: the registry of the environment alone, as before the merge layer.
LoadMergedEnvOnly(r) ==
    /\ req[r].pc = "load"
    /\ Goto(r, [pc |-> "rebuild", op |-> req[r].op,
                 reg |-> [p \in Provider |-> IF InEnv(envReg, p)
                                              THEN mergeFields(p, None, envReg) ELSE None]])
    /\ UNCHANGED <<disk, memory, oauth, cache, plain, history>>

\* LoadMergedProviders, for the rebuild.
LoadMerged(r) ==
    /\ req[r].pc = "load"
    /\ Goto(r, [pc |-> "rebuild", op |-> req[r].op, reg |-> MergedRegistry(envReg)])
    /\ UNCHANGED <<disk, memory, oauth, cache, plain, history>>

\* Rebuild: discovery outside the lock, then the registry is swapped.
Rebuild(r) ==
    /\ req[r].pc = "rebuild"
    /\ oauth' \in Discovered(req[r].reg)
    /\ Goto(r, [pc |-> "config", op |-> req[r].op])
    /\ UNCHANGED <<disk, memory, cache, plain, history>>

\* RefreshState: GetOIDCConfig ...
RefreshConfig(r) ==
    /\ req[r].pc = "config"
    /\ Goto(r, [pc |-> "rows", op |-> req[r].op, config |-> config])
    /\ UNCHANGED <<disk, memory, oauth, cache, plain, history>>

\* ... ListOIDCProviders ...
RefreshRows(r) ==
    /\ req[r].pc = "rows"
    /\ Goto(r, [pc |-> "states", op |-> req[r].op, config |-> req[r].config,
                 enabled |-> EnabledView(envReg)])
    /\ UNCHANGED <<disk, memory, oauth, cache, plain, history>>

\* ... AllProviders and the verdict ...
RefreshStates(r) ==
    /\ req[r].pc = "states"
    /\ Goto(r, [pc |-> "cache", op |-> req[r].op,
                 view |-> [config |-> req[r].config,
                           state  |-> DetermineBootState(req[r].enabled, oauth,
                                                         req[r].config.optOut, envFlag)]])
    /\ UNCHANGED <<disk, memory, oauth, cache, plain, history>>

\* ... and the cache is overwritten with them.  Confirm then looks at it.
RefreshCache(r) ==
    /\ req[r].pc = "cache"
    /\ cache' = req[r].view
    /\ wasConfirmed' = (wasConfirmed \/ Confirmed(cache'.state))
    /\ IF req[r].op = "confirm"
       THEN Goto(r, [pc |-> "check"]) /\ UNCHANGED clean
       ELSE Done(r)
    /\ UNCHANGED <<disk, memory, oauth, plain, minted, first, served, boots, alone>>

\* Mutant: the token is spent by any confirmation.
MaySpend(state) == TRUE

\* Confirm clears the token if the cached state is confirmed.
Spend(state) == Confirmed(state)

ConfirmCheck(r) ==
    /\ req[r].pc = "check"
    /\ IF Spend(cache.state)
       THEN Goto(r, [pc |-> "clear"]) /\ UNCHANGED clean
       ELSE Done(r)
    /\ UNCHANGED <<disk, memory, oauth, cache, plain, minted, first, served, boots,
                   alone, wasConfirmed>>

\* ClearSetupTokenHash; a failure is logged and changes nothing.
ClearSetupTokenHash(r) ==
    /\ req[r].pc = "clear"
    /\ config' \in {config, [config EXCEPT !.hash = None]}
    /\ Goto(r, [pc |-> "forget"])
    /\ UNCHANGED <<rows, memory, oauth, cache, plain, history>>

\* setCurrentPlain(""), then a second refresh.
ForgetPlain(r) ==
    /\ req[r].pc = "forget"
    /\ plain' = None
    /\ Goto(r, [pc |-> "config", op |-> "cleared"])
    /\ UNCHANGED <<disk, memory, oauth, cache, history>>

\* A statement or the construction of the registry fails, or the client goes
\* away and cancels it: the handler returns with what it has done so far.
RequestFail(r) ==
    /\ req[r].pc \in {"enable", "reread", "upsert", "delete", "load", "config", "rows"}
    /\ req' = [req EXCEPT ![r] = Idle]
    /\ UNCHANGED <<disk, memory, oauth, cache, plain, history>>

----------------------------------------------------------------------------
Next ==
    \/ \E env \in EnvRegistries, merge \in MergeAtBoot, flag \in EnvOptOut, d \in Displays :
         Boot(env, merge, flag, d)
    \/ MintSetupToken
    \/ Stop
    \/ \E r \in Requests, cred \in {Admin} \cup 1..MaxBoots :
         \/ \E wanted \in SUBSET Provider, optOut \in BOOLEAN : Confirm(r, cred, wanted, optOut)
         \/ \E p \in Provider, body \in Bodies : Update(r, cred, p, body)
         \/ \E p \in Provider, body \in Bodies : Create(r, cred, p, body)
         \/ \E p \in Provider : Revert(r, cred, p)
    \/ \E r \in Requests :
         \/ ConfirmEnable(r) \/ UpdateOIDCConfig(r)
         \/ CreateRead(r) \/ UpsertOIDCProvider(r) \/ DeleteOIDCProvider(r)
         \/ LoadMerged(r) \/ Rebuild(r)
         \/ RefreshConfig(r) \/ RefreshRows(r) \/ RefreshStates(r) \/ RefreshCache(r)
         \/ ConfirmCheck(r) \/ ClearSetupTokenHash(r) \/ ForgetPlain(r)
         \/ RequestFail(r)

Spec == Init /\ [][Next]_vars

----------------------------------------------------------------------------
(* What the endpoints show *)

\* SetupToken: the plaintext, while the state is not confirmed.
SetupToken == IF Confirmed(cache.state) THEN None ELSE plain

\* Status: needs_setup_token.
NeedsSetupToken == cache.config.hash # None /\ ~Confirmed(cache.state)

\* buildStatusProviders: what Status says of a provider of the environment.
StatusProvider(p) == [enabled |-> MergedEnabled(rows[p]),
                      init_ok |-> oauth[p] # None /\ oauth[p].ok]

\* defaultIssuerURL and its kin: what clearing the override would reveal.
Default(p, f) == IF envReg[p][f] # None THEN envReg[p][f] ELSE WellKnown[p][f]

\* issuerURLSource and its kin: the layer that provides the value.
Source(p, f) ==
    IF rows[p] # None /\ rows[p].values[f] # None THEN "db"
    ELSE IF envReg[p][f] # None THEN "env"
    ELSE IF WellKnown[p][f] # None THEN "well_known" ELSE "none"

\* buildView: the override, its default and the source.
buildView(p, f) == [override |-> IF rows[p] = None THEN None ELSE rows[p].values[f],
                    default  |-> Default(p, f),
                    source   |-> Source(p, f)]

----------------------------------------------------------------------------
(* Properties *)

\* Between requests, if the last of them ran alone and was answered without an
\* error, what the process works with is what the rows say: Confirm, Update,
\* Create, Revert and every boot leave the registry, the cached state and the
\* views of the endpoints as a fresh look at the database would compute them.
Coherent ==
    boot = "up" /\ clean =>
        /\ cache.config = config
        /\ cache.state = DetermineBootState(EnabledView(envReg), oauth, config.optOut, envFlag)
        /\ \A p \in Provider : oauth[p] = None <=> MergedRegistry(envReg)[p] = None
        /\ \A p \in Provider, f \in Field :
             LET view == buildView(p, f)
             IN  oauth[p] # None =>
                   oauth[p].values[f] = IF view.source = "db" THEN view.override ELSE view.default

\* Traffic is served with providers only if each one that Status shows as on
\* has been initialised, and without providers only by an explicit opt-out
\* (the strict rule of DetermineBootState, across every write path).
ServedOnlyIfWorking ==
    boot = "up" /\ clean /\ Confirmed(cache.state) =>
        LET on == {p \in Provider : InEnv(envReg, p) /\ StatusProvider(p).enabled}
        IN  /\ \A p \in on : StatusProvider(p).init_ok
            /\ on = {} => config.optOut \/ envFlag

\* An operator is never locked out: until the process has been confirmed once,
\* the token that was shown at boot is the stored one, is accepted and is
\* asked for, whatever requests have done, failed to do, or are doing.
TokenOffered ==
    boot = "up" /\ mounted /\ ~wasConfirmed =>
        /\ plain # None
        /\ config.hash = plain
        /\ verifySetupToken(plain)
        /\ SetupToken = plain
        /\ NeedsSetupToken

\* A token that an earlier process showed opens nothing after a restart, even
\* if that process stopped between clearing, storing and showing it, or failed
\* to clear the token of a confirmed system.
OldTokensDead ==
    boot = "up" /\ mounted => \A t \in 1..first : ~verifySetupToken(t)

----------------------------------------------------------------------------
(* The inductive invariant *)

BootStates == {"none", "confirmed_ok", "confirmed_opt_out", "no_env_no_flag", "init_failed"}

Config == [optOut: BOOLEAN, hash: Nat \cup {None}]
View   == [config: Config, state: BootStates]

\* What a handler holds at each statement.
HeldOK(v) ==
    /\ v.pc = "enable" => v \in [pc: {"enable"}, todo: SUBSET Provider,
                                 wanted: SUBSET Provider, optOut: BOOLEAN]
    /\ v.pc = "reread" => v.id \in Provider /\ v.body \in Bodies
    /\ v.pc = "upsert" => v.id \in Provider /\ v.row \in Row
    /\ v.pc = "delete" => v.id \in Provider
    /\ v.pc \in {"rows", "states"} => v.config \in Config
    /\ v.pc = "cache" => v.view \in View

TypeOK ==
    /\ rows \in [Provider -> Row \cup {None}]
    /\ config \in Config
    /\ boot \in {"down", "mint", "up"}
    /\ mounted \in BOOLEAN /\ clean \in BOOLEAN /\ alone \in BOOLEAN
    /\ wasConfirmed \in BOOLEAN
    /\ envReg \in [Provider -> Settings]
    /\ cache \in View
    /\ DOMAIN req = Requests
    /\ \A r \in Requests : HeldOK(req[r])
    /\ minted \in Nat /\ first \in Nat /\ first <= minted

\* Who is at work: one request if alone, none if clean or not serving.
AtWork ==
    /\ alone => \A q, r \in Requests : req[q] # Idle /\ req[r] # Idle => q = r
    /\ clean => \A r \in Requests : req[r] = Idle
    /\ boot # "up" \/ ~mounted => \A r \in Requests : req[r] = Idle
    /\ boot = "down" => ~mounted
    /\ boot = "mint" => mounted

\* The registry as NewOAuth or Rebuild leave it for these rows.
Registered == oauth \in Discovered(MergedRegistry(envReg))

\* What RefreshState caches if nothing interferes with its reads.
Refreshed == [config |-> config,
              state  |-> DetermineBootState(EnabledView(envReg), oauth, config.optOut, envFlag)]

\* What a request that runs alone holds is what is still there.
InStep(v) ==
    /\ v.pc = "rebuild" => v.reg = MergedRegistry(envReg)
    /\ v.pc \in {"config", "rows", "states", "cache", "check", "clear", "forget"} => Registered
    /\ v.pc \in {"rows", "states"} => v.config = config
    /\ v.pc = "states" => v.enabled = EnabledView(envReg)
    /\ v.pc = "cache" => v.view = Refreshed
    /\ v.pc = "check" => cache = Refreshed

Consistent ==
    /\ boot = "mint" \/ (boot = "up" /\ clean) => Registered /\ cache = Refreshed
    /\ alone => \A r \in Requests : InStep(req[r])

\* Every hash in reach of a request is absent or of this boot's token.
ThisBoots(hash) == hash = None \/ (hash \in Nat /\ first < hash)

TokensOfThisBoot ==
    boot # "down" /\ mounted =>
        /\ ThisBoots(config.hash)
        /\ ThisBoots(cache.config.hash)
        /\ \A r \in Requests :
             /\ req[r].pc \in {"rows", "states"} => ThisBoots(req[r].config.hash)
             /\ req[r].pc = "cache" => ThisBoots(req[r].view.config.hash)

\* Until the process is confirmed no request is about to clear the token, and
\* every copy of its hash, cached or about to be, is the one shown.
TokenKept ==
    /\ boot = "mint" => ~Confirmed(cache.state)
    /\ boot = "up" /\ mounted /\ ~wasConfirmed =>
         /\ plain # None
         /\ config.hash = plain
         /\ cache.config.hash = plain
         /\ ~Confirmed(cache.state)
         /\ \A r \in Requests :
              /\ req[r].pc \notin {"clear", "forget"}
              /\ req[r].pc \in {"rows", "states"} => req[r].config.hash = plain
              /\ req[r].pc = "cache" => req[r].view.config.hash = plain

IInv == TypeOK /\ AtWork /\ Consistent /\ TokensOfThisBoot /\ TokenKept
============================================================================
