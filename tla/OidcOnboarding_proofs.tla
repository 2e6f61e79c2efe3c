----------------------- MODULE OidcOnboarding_proofs -----------------------
(***************************************************************************)
(* Proofs about OidcOnboarding for any providers, settings, environments,  *)
(* bodies and number of concurrent requests and boots: the setup token is  *)
(* offered until the process is confirmed and dies with the process, and   *)
(* requests that do not overlap leave the registry and the cached state as *)
(* the rows say.                                                           *)
(***************************************************************************)
EXTENDS OidcOnboarding, TLAPS

----------------------------------------------------------------------------
(* Settings, rows and states *)

\* Merging the layers gives settings.
LEMMA MergedSettings ==
    ASSUME NEW p \in Provider, NEW row \in Row \cup {None}, NEW env \in [Provider -> Settings]
    PROVE  mergeFields(p, row, env) \in Settings
<1>1. ASSUME NEW f \in Field
      PROVE  /\ env[p][f] \in Setting /\ WellKnown[p][f] \in Setting
             /\ row # None => row.values[f] \in Setting
  BY OnboardingAssumption DEF Settings, Row
<1>2. None \in Setting
  BY DEF Setting
<1>3. ASSUME NEW f \in Field
      PROVE  pickStr(IF row = None THEN None ELSE row.values[f], env[p][f], WellKnown[p][f])
               \in Setting
  BY <1>1, <1>2 DEF pickStr
<1> QED
  BY <1>3 DEF mergeFields, Settings

\* The merged registry has settings or None.
LEMMA MergedType ==
    ASSUME rows \in [Provider -> Row \cup {None}], NEW env \in [Provider -> Settings],
           NEW p \in Provider
    PROVE  MergedRegistry(env)[p] \in Settings \cup {None}
BY MergedSettings DEF MergedRegistry

\* mergeRow computes a row.
LEMMA MergedRow ==
    ASSUME NEW body \in Bodies, NEW row \in Row \cup {None}
    PROVE  mergeRow(body, row) \in Row
<1>1. /\ body.enabled \in BOOLEAN \cup {Keep}
      /\ \A f \in Field : body.values[f] \in Setting \cup {Keep}
  BY OnboardingAssumption
<1>2. \A f \in Field : row # None => row.values[f] \in Setting
  BY DEF Row, Settings
<1>3. None \in Setting
  BY DEF Setting
<1>4. [f \in Field |-> IF body.values[f] = Keep
                       THEN IF row = None THEN None ELSE row.values[f]
                       ELSE body.values[f]] \in Settings
  BY <1>1, <1>2, <1>3 DEF Settings
<1>5. MergedEnabled(row) \in BOOLEAN
  BY DEF MergedEnabled, Row
<1>6. (IF body.enabled = Keep THEN MergedEnabled(row) ELSE body.enabled) \in BOOLEAN
  BY <1>1, <1>5
<1> QED
  BY <1>4, <1>6 DEF mergeRow, Row

\* The verdict is one of the states.
LEMMA Verdict ==
    ASSUME NEW enabled, NEW states, NEW optOut, NEW flag
    PROVE  DetermineBootState(enabled, states, optOut, flag) \in BootStates
BY DEF DetermineBootState, BootStates

\* The registry, the cached view and their parts depend on nothing else.
LEMMA Unmoved ==
    ASSUME rows' = rows, envReg' = envReg
    PROVE  /\ MergedRegistry(envReg)' = MergedRegistry(envReg)
           /\ EnabledView(envReg)' = EnabledView(envReg)
BY DEF MergedRegistry, EnabledView, mergeFields, pickStr, InEnv, MergedEnabled

\* So does what a request is in step with.
LEMMA StaysRegistered ==
    ASSUME rows' = rows, envReg' = envReg, oauth' = oauth
    PROVE  Registered' <=> Registered
BY Unmoved DEF Registered, Discovered

LEMMA StaysRefreshed ==
    ASSUME rows' = rows, envReg' = envReg, oauth' = oauth, config' = config, envFlag' = envFlag
    PROVE  Refreshed' = Refreshed
<1>1. EnabledView(envReg)' = EnabledView(envReg)
  BY Unmoved
<1> QED
  BY <1>1 DEF Refreshed, DetermineBootState, Broken

----------------------------------------------------------------------------
(* One statement of a request *)

\* A request in flight is in a process that serves, and not yet clean.
LEMMA Serving ==
    ASSUME IInv, NEW r \in Requests, req[r] # Idle
    PROVE  boot = "up" /\ mounted /\ ~clean
BY DEF IInv, AtWork, TypeOK

\* What the statement may do to the token: the stored hash stays or goes, and
\* every copy is of this boot.
HashesOfThisBoot(v) ==
    /\ config'.hash \in {config.hash, None}
    /\ ThisBoots(cache'.config.hash)
    /\ v.pc \in {"rows", "states"} => ThisBoots(v.config.hash)
    /\ v.pc = "cache" => ThisBoots(v.view.config.hash)

\* Before the process is confirmed it may do nothing to it.
LeavesToken(v) ==
    ~wasConfirmed' =>
        /\ ~wasConfirmed /\ plain' = plain
        /\ config'.hash = plain /\ cache'.config.hash = plain
        /\ ~Confirmed(cache'.state)
        /\ v.pc \notin {"clear", "forget"}
        /\ v.pc \in {"rows", "states"} => v.config.hash = plain
        /\ v.pc = "cache" => v.view.config.hash = plain

\* A statement of one request keeps the invariant if what the request holds
\* after it is in step with what it leaves behind.
LEMMA Move ==
    ASSUME IInv, NEW r \in Requests, NEW v, req[r] # Idle,
           req' = [req EXCEPT ![r] = v],
           UNCHANGED <<boot, mounted, envReg, envFlag, minted, first, alone>>,
           rows' \in [Provider -> Row \cup {None}], config' \in Config, cache' \in View,
           HeldOK(v),
           clean' = clean \/ (v = Idle /\ clean' = alone),
           alone => InStep(v)',
           alone /\ clean' => Registered' /\ cache' = Refreshed',
           wasConfirmed' \in BOOLEAN,
           HashesOfThisBoot(v), LeavesToken(v)
    PROVE  IInv'
<1>1. boot = "up" /\ mounted /\ ~clean
  BY Serving
<1>2. /\ DOMAIN req' = Requests
      /\ \A q \in Requests : req'[q] = IF q = r THEN v ELSE req[q]
  BY DEF IInv, TypeOK
<1>3. alone \in BOOLEAN /\ clean \in BOOLEAN
  BY DEF IInv, TypeOK
<1>4. TypeOK'
  <2>1. clean' \in BOOLEAN
    BY <1>3
  <2>2. \A q \in Requests : HeldOK(req'[q])
    BY <1>2 DEF IInv, TypeOK
  <2> QED
    BY <1>2, <2>1, <2>2 DEF IInv, TypeOK, HeldOK
<1>5. alone => \A q \in Requests : q # r => req[q] = Idle
  BY DEF IInv, AtWork
<1>6. clean' => v = Idle /\ alone
  BY <1>1, <1>3
<1>7. AtWork'
  <2>1. alone' => \A q, s \in Requests : req'[q] # Idle /\ req'[s] # Idle => q = s
    BY <1>2, <1>5
  <2>2. clean' => \A q \in Requests : req'[q] = Idle
    BY <1>2, <1>5, <1>6
  <2> QED
    BY <1>1, <2>1, <2>2 DEF AtWork
<1>8. Consistent'
  <2>1. alone' => \A q \in Requests : InStep(req[q])'
    <3> SUFFICES ASSUME alone, NEW q \in Requests
                 PROVE  InStep(req[q])'
      OBVIOUS
    <3>1. CASE q = r
      <4>1. req'[q] = v
        BY <1>2, <3>1
      <4> QED
        BY <4>1 DEF InStep
    <3>2. CASE q # r
      <4>1. req'[q].pc = "idle"
        BY <1>2, <1>5, <3>2 DEF Idle
      <4> QED
        BY <4>1 DEF InStep
    <3> QED
      BY <3>1, <3>2
  <2>2. boot' = "mint" \/ (boot' = "up" /\ clean') => Registered' /\ cache' = Refreshed'
    BY <1>1, <1>6
  <2> QED
    BY <2>1, <2>2 DEF Consistent
<1>9. TokensOfThisBoot'
  <2>1. /\ ThisBoots(config.hash)
        /\ \A q \in Requests :
             /\ req[q].pc \in {"rows", "states"} => ThisBoots(req[q].config.hash)
             /\ req[q].pc = "cache" => ThisBoots(req[q].view.config.hash)
    BY <1>1 DEF IInv, TokensOfThisBoot
  <2>2. \A h : ThisBoots(h)' <=> ThisBoots(h)
    BY DEF ThisBoots
  <2>3. ThisBoots(config'.hash) /\ ThisBoots(cache'.config.hash)
    BY <2>1 DEF HashesOfThisBoot, ThisBoots
  <2>4. \A q \in Requests :
             /\ req'[q].pc \in {"rows", "states"} => ThisBoots(req'[q].config.hash)
             /\ req'[q].pc = "cache" => ThisBoots(req'[q].view.config.hash)
    BY <1>2, <2>1 DEF HashesOfThisBoot
  <2> QED
    BY <2>3, <2>4 DEF TokensOfThisBoot, ThisBoots
<1>10. TokenKept'
  BY <1>1, <1>2 DEF IInv, TokenKept, LeavesToken
<1> QED
  BY <1>4, <1>7, <1>8, <1>9, <1>10 DEF IInv

\* A statement that only reads, or writes what no token depends on.
LEMMA TokenAside ==
    ASSUME IInv, NEW r \in Requests, NEW v, req[r] # Idle,
           config'.hash = config.hash, UNCHANGED <<cache, plain, wasConfirmed>>,
           v.pc \notin {"clear", "forget"},
           v.pc = "rows" => v.config = config,
           v.pc = "states" => req[r].pc = "rows" /\ v.config = req[r].config,
           v.pc = "cache" => req[r].pc = "states" /\ v.view.config = req[r].config
    PROVE  HashesOfThisBoot(v) /\ LeavesToken(v)
<1>1. boot = "up" /\ mounted
  BY Serving
<1>2. /\ ThisBoots(config.hash) /\ ThisBoots(cache.config.hash)
      /\ req[r].pc \in {"rows", "states"} => ThisBoots(req[r].config.hash)
      /\ req[r].pc = "cache" => ThisBoots(req[r].view.config.hash)
  BY <1>1 DEF IInv, TokensOfThisBoot
<1>3. HashesOfThisBoot(v)
  BY <1>2 DEF HashesOfThisBoot
<1>4. LeavesToken(v)
  BY <1>1 DEF IInv, TokenKept, LeavesToken
<1> QED
  BY <1>3, <1>4

----------------------------------------------------------------------------
(* The writes *)

\* A request that has written holds nothing that could be out of step.
LEMMA Writes ==
    ASSUME IInv, NEW r \in Requests, NEW v, req[r] # Idle,
           req' = [req EXCEPT ![r] = v],
           UNCHANGED <<boot, mounted, envReg, envFlag, cache, plain, minted, first, clean,
                       alone, wasConfirmed>>,
           rows' \in [Provider -> Row \cup {None}],
           config' \in Config, config'.hash = config.hash,
           HeldOK(v),
           v.pc \in {"idle", "enable", "reread", "upsert", "delete", "load"}
    PROVE  IInv'
<1>1. ~clean
  BY Serving
<1>2. InStep(v)'
  BY DEF InStep
<1>3. HashesOfThisBoot(v) /\ LeavesToken(v)
  BY TokenAside
<1>4. cache' \in View /\ wasConfirmed' \in BOOLEAN
  BY DEF IInv, TypeOK
<1> QED
  BY <1>1, <1>2, <1>3, <1>4, Move

\* SetOIDCProviderEnabled leaves a row.
LEMMA EnabledRow ==
    ASSUME rows \in [Provider -> Row \cup {None}], NEW p \in Provider, NEW on \in BOOLEAN,
           SetOIDCProviderEnabled(p, on)
    PROVE  rows' \in [Provider -> Row \cup {None}]
<1>1. PICK row : row = IF rows[p] = None THEN [values |-> [f \in Field |-> None], enabled |-> on]
                       ELSE [rows[p] EXCEPT !.enabled = on]
  OBVIOUS
<1>2. [f \in Field |-> None] \in Settings
  BY DEF Settings, Setting
<1>3. row \in Row
  BY <1>1, <1>2 DEF Row
<1>4. rows' = [rows EXCEPT ![p] = row]
  BY <1>1 DEF SetOIDCProviderEnabled
<1> QED
  BY <1>3, <1>4

LEMMA ConfirmEnableStep ==
    ASSUME IInv, NEW r \in Requests, ConfirmEnable(r)
    PROVE  IInv'
<1>1. req[r].pc = "enable" /\ req[r] # Idle
  BY DEF ConfirmEnable, Idle
<1>2. req[r] \in [pc: {"enable"}, todo: SUBSET Provider, wanted: SUBSET Provider,
                  optOut: BOOLEAN]
  BY <1>1 DEF IInv, TypeOK, HeldOK
<1>3. PICK p \in req[r].todo :
         /\ SetOIDCProviderEnabled(p, p \in req[r].wanted)
         /\ req' = [req EXCEPT ![r] = [req[r] EXCEPT !.todo = @ \ {p}]]
  BY DEF ConfirmEnable, Goto
<1>4. PICK v : v = [req[r] EXCEPT !.todo = @ \ {p}]
  OBVIOUS
<1>5. v.pc = "enable" /\ HeldOK(v)
  BY <1>2, <1>4 DEF HeldOK
<1>6. rows' \in [Provider -> Row \cup {None}]
  <2>1. p \in Provider /\ (p \in req[r].wanted) \in BOOLEAN
    BY <1>2
  <2>2. PICK on : on = (p \in req[r].wanted)
    OBVIOUS
  <2> QED
    BY <1>3, <2>1, <2>2, EnabledRow DEF IInv, TypeOK
<1>7. UNCHANGED <<config, boot, mounted, envReg, envFlag, cache, plain, minted, first, clean,
                  alone, wasConfirmed>>
  BY DEF ConfirmEnable, memory, history
<1> QED
  BY <1>1, <1>3, <1>4, <1>5, <1>6, <1>7, Writes DEF IInv, TypeOK

LEMMA UpdateConfigStep ==
    ASSUME IInv, NEW r \in Requests, UpdateOIDCConfig(r)
    PROVE  IInv'
<1>1. req[r].pc = "enable" /\ req[r] # Idle
  BY DEF UpdateOIDCConfig, Idle
<1>2. req[r].optOut \in BOOLEAN
  BY <1>1 DEF IInv, TypeOK, HeldOK
<1>3. PICK v : v = [pc |-> "load", op |-> "confirm"]
  OBVIOUS
<1>4. v.pc = "load" /\ HeldOK(v)
  BY <1>3 DEF HeldOK
<1>5. config' \in Config /\ config'.hash = config.hash
  BY <1>2 DEF UpdateOIDCConfig, IInv, TypeOK, Config
<1>6. UNCHANGED <<rows, boot, mounted, envReg, envFlag, cache, plain, minted, first, clean,
                  alone, wasConfirmed>>
  BY DEF UpdateOIDCConfig, memory, history
<1>7. req' = [req EXCEPT ![r] = v]
  BY <1>3 DEF UpdateOIDCConfig, Goto
<1> QED
  BY <1>1, <1>4, <1>5, <1>6, <1>7, Writes DEF IInv, TypeOK

LEMMA CreateReadStep ==
    ASSUME IInv, NEW r \in Requests, CreateRead(r)
    PROVE  IInv'
<1>1. req[r].pc = "reread" /\ req[r] # Idle
  BY DEF CreateRead, Idle
<1>2. req[r].id \in Provider /\ req[r].body \in Bodies
  BY <1>1 DEF IInv, TypeOK, HeldOK
<1>3. PICK v : v = [pc |-> "upsert", id |-> req[r].id,
                    row |-> mergeRow(req[r].body, rows[req[r].id])]
  OBVIOUS
<1>4. v.pc = "upsert" /\ v.id \in Provider /\ v.row \in Row
  <2>1. rows[req[r].id] \in Row \cup {None}
    BY <1>2 DEF IInv, TypeOK
  <2>2. mergeRow(req[r].body, rows[req[r].id]) \in Row
    BY <1>2, <2>1, MergedRow
  <2> QED
    BY <1>2, <1>3, <2>2
<1>5. HeldOK(v)
  BY <1>4 DEF HeldOK
<1>6. UNCHANGED <<rows, config, boot, mounted, envReg, envFlag, cache, plain, minted, first,
                  clean, alone, wasConfirmed>>
  BY DEF CreateRead, disk, memory, history
<1>7. req' = [req EXCEPT ![r] = v]
  BY <1>3 DEF CreateRead, Goto
<1> QED
  BY <1>1, <1>4, <1>5, <1>6, <1>7, Writes DEF IInv, TypeOK

LEMMA RowWriteStep ==
    ASSUME IInv, NEW r \in Requests, UpsertOIDCProvider(r) \/ DeleteOIDCProvider(r)
    PROVE  IInv'
<1>1. req[r].pc \in {"upsert", "delete"} /\ req[r] # Idle
  BY DEF UpsertOIDCProvider, DeleteOIDCProvider, Idle
<1>2. PICK v : v = [pc |-> "load", op |-> "edit"]
  OBVIOUS
<1>3. v.pc = "load" /\ HeldOK(v)
  BY <1>2 DEF HeldOK
<1>4. UNCHANGED <<config, boot, mounted, envReg, envFlag, cache, plain, minted, first, clean,
                  alone, wasConfirmed>>
  BY DEF UpsertOIDCProvider, DeleteOIDCProvider, memory, history
<1>5. req' = [req EXCEPT ![r] = v]
  BY <1>2 DEF UpsertOIDCProvider, DeleteOIDCProvider, Goto
<1>6. rows' \in [Provider -> Row \cup {None}]
  <2>1. HeldOK(req[r]) /\ rows \in [Provider -> Row \cup {None}]
    BY DEF IInv, TypeOK
  <2>2. CASE UpsertOIDCProvider(r)
    <3>1. req[r].row \in Row /\ rows' = [rows EXCEPT ![req[r].id] = req[r].row]
      BY <2>1, <2>2 DEF UpsertOIDCProvider, HeldOK
    <3> QED
      BY <2>1, <3>1
  <2>3. CASE DeleteOIDCProvider(r)
    BY <2>1, <2>3 DEF DeleteOIDCProvider
  <2> QED
    BY <2>2, <2>3
<1> QED
  BY <1>1, <1>3, <1>4, <1>5, <1>6, Writes DEF IInv, TypeOK

\* A failure leaves everything where it is, and not clean.
LEMMA RequestFailStep ==
    ASSUME IInv, NEW r \in Requests, RequestFail(r)
    PROVE  IInv'
<1>1. req[r] # Idle
  BY DEF RequestFail, Idle
<1>2. Idle.pc = "idle" /\ HeldOK(Idle)
  BY DEF HeldOK, Idle
<1>3. UNCHANGED <<rows, config, boot, mounted, envReg, envFlag, cache, plain, minted, first,
                  clean, alone, wasConfirmed>>
  BY DEF RequestFail, disk, memory, history
<1>4. req' = [req EXCEPT ![r] = Idle]
  BY DEF RequestFail
<1> QED
  BY <1>1, <1>2, <1>3, <1>4, Writes DEF IInv, TypeOK

----------------------------------------------------------------------------
(* The reads *)

\* What a request that runs alone holds stays in step while nothing moves.
LEMMA StaysInStep ==
    ASSUME NEW v,
           UNCHANGED <<rows, config, envReg, envFlag, oauth, cache>>
    PROVE  InStep(v)' <=> InStep(v)
<1>1. /\ MergedRegistry(envReg)' = MergedRegistry(envReg)
      /\ EnabledView(envReg)' = EnabledView(envReg)
  BY Unmoved
<1>2. Registered' <=> Registered
  BY StaysRegistered
<1>3. Refreshed' = Refreshed
  BY StaysRefreshed
<1> QED
  BY <1>1, <1>2, <1>3 DEF InStep

\* A statement that only reads.
LEMMA Reads ==
    ASSUME IInv, NEW r \in Requests, NEW v, req[r] # Idle,
           req' = [req EXCEPT ![r] = v],
           UNCHANGED <<disk, memory, oauth, cache, plain, history>>,
           HeldOK(v), v # Idle,
           v.pc \notin {"clear", "forget"},
           v.pc = "rows" => v.config = config,
           v.pc = "states" => req[r].pc = "rows" /\ v.config = req[r].config,
           v.pc = "cache" => req[r].pc = "states" /\ v.view.config = req[r].config,
           alone /\ InStep(req[r]) => InStep(v)
    PROVE  IInv'
<1>1. UNCHANGED <<rows, config, boot, mounted, envReg, envFlag, oauth, cache, plain, minted,
                  first, clean, alone, wasConfirmed>>
  BY DEF disk, memory, history
<1>2. ~clean
  BY Serving
<1>3. alone => InStep(v)'
  BY <1>1, StaysInStep DEF IInv, Consistent
<1>4. HashesOfThisBoot(v) /\ LeavesToken(v)
  BY <1>1, TokenAside
<1>5. /\ rows' \in [Provider -> Row \cup {None}] /\ config' \in Config
      /\ cache' \in View /\ wasConfirmed' \in BOOLEAN
  BY <1>1 DEF IInv, TypeOK
<1> QED
  BY <1>1, <1>2, <1>3, <1>4, <1>5, Move

LEMMA LoadMergedStep ==
    ASSUME IInv, NEW r \in Requests, LoadMerged(r)
    PROVE  IInv'
<1>1. req[r] # Idle
  BY DEF LoadMerged, Idle
<1>2. PICK v : v = [pc |-> "rebuild", op |-> req[r].op, reg |-> MergedRegistry(envReg)]
  OBVIOUS
<1>3. v.pc = "rebuild" /\ v # Idle /\ HeldOK(v) /\ InStep(v)
  BY <1>2 DEF HeldOK, InStep, Idle
<1>4. req' = [req EXCEPT ![r] = v]
  BY <1>2 DEF LoadMerged, Goto
<1> QED
  BY <1>1, <1>3, <1>4, Reads DEF LoadMerged

LEMMA RefreshConfigStep ==
    ASSUME IInv, NEW r \in Requests, RefreshConfig(r)
    PROVE  IInv'
<1>1. req[r] # Idle /\ req[r].pc = "config"
  BY DEF RefreshConfig, Idle
<1>2. PICK v : v = [pc |-> "rows", op |-> req[r].op, config |-> config]
  OBVIOUS
<1>3. v.pc = "rows" /\ v.config = config /\ v # Idle
  BY <1>2 DEF Idle
<1>4. HeldOK(v)
  BY <1>3 DEF HeldOK, IInv, TypeOK
<1>5. InStep(req[r]) => InStep(v)
  BY <1>1, <1>3 DEF InStep
<1>6. req' = [req EXCEPT ![r] = v]
  BY <1>2 DEF RefreshConfig, Goto
<1> QED
  BY <1>1, <1>3, <1>4, <1>5, <1>6, Reads DEF RefreshConfig

LEMMA RefreshRowsStep ==
    ASSUME IInv, NEW r \in Requests, RefreshRows(r)
    PROVE  IInv'
<1>1. req[r] # Idle /\ req[r].pc = "rows"
  BY DEF RefreshRows, Idle
<1>2. PICK v : v = [pc |-> "states", op |-> req[r].op, config |-> req[r].config,
                    enabled |-> EnabledView(envReg)]
  OBVIOUS
<1>3. /\ v.pc = "states" /\ v.config = req[r].config /\ v # Idle
      /\ v.enabled = EnabledView(envReg)
  BY <1>2 DEF Idle
<1>4. HeldOK(v)
  BY <1>1, <1>3 DEF HeldOK, IInv, TypeOK
<1>5. InStep(req[r]) => InStep(v)
  BY <1>1, <1>3 DEF InStep
<1>6. req' = [req EXCEPT ![r] = v]
  BY <1>2 DEF RefreshRows, Goto
<1> QED
  BY <1>1, <1>3, <1>4, <1>5, <1>6, Reads DEF RefreshRows

LEMMA RefreshStatesStep ==
    ASSUME IInv, NEW r \in Requests, RefreshStates(r)
    PROVE  IInv'
<1>1. req[r] # Idle /\ req[r].pc = "states"
  BY DEF RefreshStates, Idle
<1>2. PICK s : s = DetermineBootState(req[r].enabled, oauth, req[r].config.optOut, envFlag)
  OBVIOUS
<1>3. PICK v : v = [pc |-> "cache", op |-> req[r].op,
                    view |-> [config |-> req[r].config, state |-> s]]
  OBVIOUS
<1>4. /\ v.pc = "cache" /\ v # Idle
      /\ v.view = [config |-> req[r].config, state |-> s]
      /\ v.view.config = req[r].config
  BY <1>3 DEF Idle
<1>5. HeldOK(v)
  <2>1. req[r].config \in Config
    BY <1>1 DEF HeldOK, IInv, TypeOK
  <2>2. s \in BootStates
    BY <1>2, Verdict
  <2> QED
    BY <1>4, <2>1, <2>2 DEF HeldOK, View
<1>6. InStep(req[r]) => InStep(v)
  BY <1>1, <1>2, <1>4 DEF InStep, Refreshed
<1>7. req' = [req EXCEPT ![r] = v]
  BY <1>2, <1>3 DEF RefreshStates, Goto
<1> QED
  BY <1>1, <1>4, <1>5, <1>6, <1>7, Reads DEF RefreshStates

----------------------------------------------------------------------------
(* What changes the memory of the process *)

\* Alone, a rebuild installs what the rows say.
LEMMA RebuildStep ==
    ASSUME IInv, NEW r \in Requests, Rebuild(r)
    PROVE  IInv'
<1>1. req[r] # Idle /\ req[r].pc = "rebuild" /\ ~clean
  BY Serving DEF Rebuild, Idle
<1>2. PICK v : v = [pc |-> "config", op |-> req[r].op]
  OBVIOUS
<1>3. v.pc = "config" /\ HeldOK(v)
  BY <1>2 DEF HeldOK
<1>4. UNCHANGED <<rows, config, boot, mounted, envReg, envFlag, cache, plain, minted, first,
                  clean, alone, wasConfirmed>>
  BY DEF Rebuild, disk, memory, history
<1>5. alone => InStep(v)'
  <2> SUFFICES ASSUME alone PROVE InStep(v)'
    OBVIOUS
  <2>1. req[r].reg = MergedRegistry(envReg)
    BY <1>1 DEF IInv, Consistent, InStep
  <2>2. PICK reg : reg = MergedRegistry(envReg)
    OBVIOUS
  <2>3. oauth' \in Discovered(reg)
    BY <2>1, <2>2 DEF Rebuild
  <2>4. reg = MergedRegistry(envReg)'
    BY <1>4, <2>2, Unmoved
  <2>5. Registered'
    BY <2>3, <2>4 DEF Registered, Discovered
  <2> QED
    BY <1>3, <2>5 DEF InStep
<1>6. HashesOfThisBoot(v) /\ LeavesToken(v)
  BY <1>1, <1>3, <1>4, TokenAside
<1>7. req' = [req EXCEPT ![r] = v]
  BY <1>2 DEF Rebuild, Goto
<1>8. /\ rows' \in [Provider -> Row \cup {None}] /\ config' \in Config
      /\ cache' \in View /\ wasConfirmed' \in BOOLEAN
  BY <1>4 DEF IInv, TypeOK
<1> QED
  BY <1>1, <1>3, <1>4, <1>5, <1>6, <1>7, <1>8, Move

\* The cache takes what was read, and a verdict that confirms is remembered.
LEMMA RefreshCacheStep ==
    ASSUME IInv, NEW r \in Requests, RefreshCache(r)
    PROVE  IInv'
<1>1. req[r] # Idle /\ req[r].pc = "cache" /\ ~clean /\ boot = "up" /\ mounted
  BY Serving DEF RefreshCache, Idle
<1>2. PICK v : v = IF req[r].op = "confirm" THEN [pc |-> "check"] ELSE Idle
  OBVIOUS
<1>3. v.pc \in {"check", "idle"} /\ HeldOK(v)
  BY <1>2 DEF HeldOK, Idle
<1>4. UNCHANGED <<rows, config, boot, mounted, envReg, envFlag, oauth, plain, minted, first,
                  alone>>
  BY DEF RefreshCache, disk, memory
<1>5. /\ cache' = req[r].view
      /\ wasConfirmed' = (wasConfirmed \/ Confirmed(cache'.state))
  BY DEF RefreshCache
<1>6. req' = [req EXCEPT ![r] = v]
  BY <1>2 DEF RefreshCache, Goto, Done
<1>7. clean' = clean \/ (v = Idle /\ clean' = alone)
  BY <1>2 DEF RefreshCache, Done
<1>8. /\ rows' \in [Provider -> Row \cup {None}] /\ config' \in Config
      /\ cache' \in View /\ wasConfirmed' \in BOOLEAN
  BY <1>1, <1>4, <1>5 DEF IInv, TypeOK, HeldOK
<1>9. alone => Registered' /\ cache' = Refreshed'
  <2> SUFFICES ASSUME alone PROVE Registered' /\ cache' = Refreshed'
    OBVIOUS
  <2>1. Registered /\ req[r].view = Refreshed
    BY <1>1 DEF IInv, Consistent, InStep
  <2>2. Registered'
    BY <1>4, <2>1, StaysRegistered
  <2>3. Refreshed' = Refreshed
    BY <1>4, StaysRefreshed
  <2> QED
    BY <1>5, <2>1, <2>2, <2>3
<1>10. alone => InStep(v)'
  BY <1>3, <1>9 DEF InStep
<1>11. HashesOfThisBoot(v)
  <2>1. ThisBoots(req[r].view.config.hash)
    BY <1>1 DEF IInv, TokensOfThisBoot
  <2> QED
    BY <1>3, <1>4, <1>5, <2>1 DEF HashesOfThisBoot
<1>12. LeavesToken(v)
  BY <1>1, <1>3, <1>4, <1>5 DEF IInv, TokenKept, TypeOK, LeavesToken
<1> QED
  BY <1>1, <1>3, <1>4, <1>6, <1>7, <1>8, <1>9, <1>10, <1>11, <1>12, Move

\* The token is spent only by a process that has been confirmed.
LEMMA ConfirmCheckStep ==
    ASSUME IInv, NEW r \in Requests, ConfirmCheck(r)
    PROVE  IInv'
<1>1. req[r] # Idle /\ req[r].pc = "check" /\ ~clean /\ boot = "up" /\ mounted
  BY Serving DEF ConfirmCheck, Idle
<1>2. PICK v : v = IF Spend(cache.state) THEN [pc |-> "clear"] ELSE Idle
  OBVIOUS
<1>3. v.pc \in {"clear", "idle"} /\ HeldOK(v)
  BY <1>2 DEF HeldOK, Idle
<1>4. UNCHANGED <<rows, config, boot, mounted, envReg, envFlag, oauth, cache, plain, minted,
                  first, alone, wasConfirmed>>
  BY DEF ConfirmCheck, disk, memory
<1>5. req' = [req EXCEPT ![r] = v]
  BY <1>2 DEF ConfirmCheck, Goto, Done
<1>6. clean' = clean \/ (v = Idle /\ clean' = alone)
  BY <1>2 DEF ConfirmCheck, Done
<1>7. /\ rows' \in [Provider -> Row \cup {None}] /\ config' \in Config
      /\ cache' \in View /\ wasConfirmed' \in BOOLEAN
  BY <1>4 DEF IInv, TypeOK
<1>8. alone => Registered' /\ cache' = Refreshed'
  <2> SUFFICES ASSUME alone PROVE Registered' /\ cache' = Refreshed'
    OBVIOUS
  <2>1. Registered /\ cache = Refreshed
    BY <1>1 DEF IInv, Consistent, InStep
  <2>2. Registered'
    BY <1>4, <2>1, StaysRegistered
  <2>3. Refreshed' = Refreshed
    BY <1>4, StaysRefreshed
  <2> QED
    BY <1>4, <2>1, <2>2, <2>3
<1>9. alone => InStep(v)'
  BY <1>3, <1>8 DEF InStep
<1>10. HashesOfThisBoot(v)
  <2>1. ThisBoots(cache.config.hash)
    BY <1>1 DEF IInv, TokensOfThisBoot
  <2> QED
    BY <1>3, <1>4, <2>1 DEF HashesOfThisBoot
<1>11. LeavesToken(v)
  <2>1. v.pc = "clear" => Confirmed(cache.state)
    BY <1>2 DEF Spend, Idle
  <2> QED
    BY <1>1, <1>3, <1>4, <2>1 DEF IInv, TokenKept, LeavesToken
<1> QED
  BY <1>1, <1>3, <1>4, <1>5, <1>6, <1>7, <1>8, <1>9, <1>10, <1>11, Move

\* Clearing and forgetting the token, of a process that has been confirmed.
LEMMA ClearStep ==
    ASSUME IInv, NEW r \in Requests, ClearSetupTokenHash(r) \/ ForgetPlain(r)
    PROVE  IInv'
<1>1. /\ req[r] # Idle /\ req[r].pc \in {"clear", "forget"}
      /\ ~clean /\ boot = "up" /\ mounted
  BY Serving DEF ClearSetupTokenHash, ForgetPlain, Idle
<1>2. PICK v : v = IF req[r].pc = "clear" THEN [pc |-> "forget"]
                   ELSE [pc |-> "config", op |-> "cleared"]
  OBVIOUS
<1>3. v.pc \in {"forget", "config"} /\ HeldOK(v)
  BY <1>2 DEF HeldOK
<1>4. UNCHANGED <<rows, boot, mounted, envReg, envFlag, oauth, cache, minted, first, clean,
                  alone, wasConfirmed>>
  BY DEF ClearSetupTokenHash, ForgetPlain, disk, memory, history
<1>5. req' = [req EXCEPT ![r] = v]
  BY <1>2 DEF ClearSetupTokenHash, ForgetPlain, Goto
<1>6. config' \in Config /\ config'.hash \in {config.hash, None}
  BY DEF ClearSetupTokenHash, ForgetPlain, disk, IInv, TypeOK, Config
<1>7. /\ rows' \in [Provider -> Row \cup {None}]
      /\ cache' \in View /\ wasConfirmed' \in BOOLEAN
  BY <1>4 DEF IInv, TypeOK
<1>8. alone => InStep(v)'
  <2>1. alone => Registered
    BY <1>1 DEF IInv, Consistent, InStep
  <2>2. alone => Registered'
    BY <1>4, <2>1, StaysRegistered
  <2> QED
    BY <1>3, <2>2 DEF InStep
<1>9. HashesOfThisBoot(v)
  <2>1. ThisBoots(cache.config.hash)
    BY <1>1 DEF IInv, TokensOfThisBoot
  <2> QED
    BY <1>3, <1>4, <1>6, <2>1 DEF HashesOfThisBoot
<1>10. LeavesToken(v)
  BY <1>1, <1>4 DEF IInv, TokenKept, LeavesToken
<1> QED
  BY <1>1, <1>3, <1>4, <1>5, <1>6, <1>7, <1>8, <1>9, <1>10, Move

----------------------------------------------------------------------------
(* Requests arrive *)

\* A request that passes the gate holds nothing yet that could be out of step.
LEMMA BeginStep ==
    ASSUME IInv, NEW r \in Requests, NEW cred, NEW v, Begin(r, cred, v),
           v.pc \in {"enable", "upsert", "reread", "delete"}, HeldOK(v)
    PROVE  IInv'
<1>1. boot = "up" /\ mounted
  BY DEF Begin
<1>2. UNCHANGED <<rows, config, boot, mounted, envReg, envFlag, oauth, cache, plain, minted,
                  first, wasConfirmed>>
  BY DEF Begin, disk, memory
<1>3. /\ DOMAIN req' = Requests
      /\ \A q \in Requests : req'[q] = IF q = r THEN v ELSE req[q]
  BY DEF IInv, TypeOK, Begin
<1>4. clean' = FALSE /\ alone' = (\A q \in Requests : req[q] = Idle)
  BY DEF Begin
<1>5. TypeOK'
  <2>1. \A q \in Requests : HeldOK(req'[q])
    BY <1>3 DEF IInv, TypeOK
  <2>2. clean' \in BOOLEAN /\ alone' \in BOOLEAN
    BY <1>4
  <2> QED
    BY <1>2, <1>3, <2>1, <2>2 DEF IInv, TypeOK, HeldOK
<1>6. AtWork'
  BY <1>1, <1>2, <1>3, <1>4 DEF AtWork
<1>7. Consistent'
  <2>1. ASSUME alone', NEW q \in Requests
        PROVE  InStep(req[q])'
    <3>1. req[q] = Idle
      BY <1>4, <2>1
    <3>2. Idle.pc = "idle" /\ req'[q] \in {v, Idle}
      BY <1>3, <3>1 DEF Idle
    <3>3. req'[q].pc \in {"idle", "enable", "upsert", "reread", "delete"}
      BY <3>2
    <3> QED
      BY <3>3 DEF InStep
  <2> QED
    BY <1>1, <1>2, <1>4, <2>1 DEF Consistent
<1>8. TokensOfThisBoot'
  BY <1>1, <1>2, <1>3 DEF IInv, TokensOfThisBoot, ThisBoots
<1>9. TokenKept'
  BY <1>1, <1>2, <1>3 DEF IInv, TokenKept
<1> QED
  BY <1>5, <1>6, <1>7, <1>8, <1>9 DEF IInv

LEMMA ConfirmStep ==
    ASSUME IInv, NEW r \in Requests, NEW cred, NEW wanted \in SUBSET Provider,
           NEW optOut \in BOOLEAN, Confirm(r, cred, wanted, optOut)
    PROVE  IInv'
<1>1. PICK known : known = {p \in Provider : InEnv(envReg, p)}
  OBVIOUS
<1>2. PICK v : v = [pc |-> "enable", todo |-> known, wanted |-> wanted,
                    optOut |-> optOut \/ known = {}]
  OBVIOUS
<1>3. v.pc = "enable" /\ HeldOK(v)
  BY <1>1, <1>2 DEF HeldOK
<1>4. Begin(r, cred, v)
  BY <1>1, <1>2 DEF Confirm
<1> QED
  BY <1>3, <1>4, BeginStep

LEMMA UpdateStep ==
    ASSUME IInv, NEW r \in Requests, NEW cred, NEW p \in Provider, NEW body \in Bodies,
           Update(r, cred, p, body)
    PROVE  IInv'
<1>1. PICK v : v = [pc |-> "upsert", id |-> p, row |-> mergeRow(body, rows[p])]
  OBVIOUS
<1>2. rows[p] \in Row \cup {None}
  BY DEF IInv, TypeOK
<1>3. mergeRow(body, rows[p]) \in Row
  BY <1>2, MergedRow
<1>4. v.pc = "upsert" /\ HeldOK(v)
  BY <1>1, <1>3 DEF HeldOK
<1>5. Begin(r, cred, v)
  BY <1>1 DEF Update
<1> QED
  BY <1>4, <1>5, BeginStep

LEMMA CreateStep ==
    ASSUME IInv, NEW r \in Requests, NEW cred, NEW p \in Provider, NEW body \in Bodies,
           Create(r, cred, p, body)
    PROVE  IInv'
<1>1. PICK v : v = [pc |-> "reread", id |-> p, body |-> body]
  OBVIOUS
<1>2. v.pc = "reread" /\ HeldOK(v)
  BY <1>1 DEF HeldOK
<1>3. Begin(r, cred, v)
  BY <1>1 DEF Create
<1> QED
  BY <1>2, <1>3, BeginStep

LEMMA RevertStep ==
    ASSUME IInv, NEW r \in Requests, NEW cred, NEW p \in Provider, Revert(r, cred, p)
    PROVE  IInv'
<1>1. PICK v : v = [pc |-> "delete", id |-> p]
  OBVIOUS
<1>2. v.pc = "delete" /\ HeldOK(v)
  BY <1>1 DEF HeldOK
<1>3. Begin(r, cred, v)
  BY <1>1 DEF Revert
<1> QED
  BY <1>2, <1>3, BeginStep

----------------------------------------------------------------------------
(* The process starts and stops *)

\* No request is open: the parts of the invariant that are about requests.
LEMMA NobodyAtWork ==
    ASSUME \A r \in Requests : req[r] = Idle
    PROVE  /\ \A r \in Requests : HeldOK(req[r]) /\ InStep(req[r])
           /\ \A r \in Requests : req[r].pc = "idle"
<1>1. \A r \in Requests : req[r].pc = "idle"
  BY DEF Idle
<1> QED
  BY <1>1 DEF HeldOK, InStep

\* main leaves the registry and the cache as the rows say; every hash it
\* finds is gone once the routes are mounted.
LEMMA BootStep ==
    ASSUME IInv, NEW env \in EnvRegistries, NEW merge \in MergeAtBoot,
           NEW flag \in EnvOptOut, NEW display, Boot(env, merge, flag, display)
    PROVE  IInv'
<1>1. PICK reg : reg = IF merge
                       THEN [p \in Provider |-> IF MergedRegistry(env)[p] = None
                                                  THEN [f \in Field |-> None]
                                                  ELSE MergedRegistry(env)[p]]
                       ELSE env
  OBVIOUS
<1>2. PICK s : s = DetermineBootState(EnabledView(reg), oauth', config.optOut, flag)
  OBVIOUS
<1>3. /\ boot = "down"
      /\ envReg' = reg
      /\ oauth' \in Discovered(MergedRegistry(reg))
      /\ \/ /\ display = "none" /\ ~Confirmed(s) /\ boot' = boot /\ config' = config
         \/ /\ display = "none" /\ Confirmed(s) /\ boot' = "up" /\ config' = config
         \/ /\ display # "none"
            /\ config' = [config EXCEPT !.hash = None]
            /\ boot' = IF Confirmed(s) THEN "up" ELSE "mint"
      /\ cache' = [config |-> config', state |-> s]
      /\ wasConfirmed' = Confirmed(s)
      /\ clean' = (boot' = "up")
  BY <1>1, <1>2 DEF Boot, EnsureSetupToken
<1>4. /\ envFlag' = flag /\ mounted' = (display # "none") /\ first' = minted
      /\ UNCHANGED <<rows, plain, req, minted, alone>>
  BY DEF Boot
<1>5. \A r \in Requests : req[r] = Idle
  BY <1>3 DEF IInv, AtWork
<1>6. reg \in [Provider -> Settings]
  <2>1. env \in [Provider -> Settings] /\ [f \in Field |-> None] \in Settings
    BY OnboardingAssumption DEF Settings, Setting
  <2>2. \A p \in Provider : MergedRegistry(env)[p] \in Settings \cup {None}
    BY <2>1, MergedType DEF IInv, TypeOK
  <2> QED
    BY <1>1, <2>1, <2>2
<1>7. config' \in Config /\ config'.optOut = config.optOut
  BY <1>3 DEF IInv, TypeOK, Config
<1>8. s \in BootStates
  BY <1>2, Verdict
<1>9. \A r \in Requests : HeldOK(req[r])' /\ InStep(req[r])' /\ req[r].pc = "idle"
  <2>1. \A r \in Requests : req'[r].pc = "idle"
    BY <1>4, <1>5 DEF Idle
  <2> QED
    BY <1>4, <2>1 DEF HeldOK, InStep
<1>10. TypeOK'
  <2>1. cache' \in View
    BY <1>3, <1>7, <1>8 DEF View
  <2>2. \A r \in Requests : HeldOK(req[r])'
    BY <1>9
  <2>3. /\ wasConfirmed' \in BOOLEAN /\ clean' \in BOOLEAN /\ mounted' \in BOOLEAN
        /\ boot' \in {"down", "mint", "up"}
    BY <1>3, <1>4 DEF Confirmed
  <2>4. /\ rows' \in [Provider -> Row \cup {None}] /\ alone' \in BOOLEAN
        /\ DOMAIN req' = Requests /\ minted' \in Nat /\ first' \in Nat
        /\ first' <= minted'
    BY <1>4 DEF IInv, TypeOK
  <2> QED
    BY <1>3, <1>6, <1>7, <2>1, <2>2, <2>3, <2>4 DEF TypeOK
<1>11. AtWork'
  BY <1>3, <1>4, <1>5 DEF AtWork
<1>12. Registered'
  <2>1. PICK m : m = MergedRegistry(reg)
    OBVIOUS
  <2>2. m = MergedRegistry(envReg)'
    BY <1>3, <1>4, <2>1 DEF MergedRegistry, mergeFields, pickStr, InEnv, MergedEnabled
  <2>3. oauth' \in Discovered(m)
    BY <1>3, <2>1
  <2> QED
    BY <2>2, <2>3 DEF Registered, Discovered
<1>13. cache' = Refreshed'
  <2>1. EnabledView(envReg)' = EnabledView(reg)
    BY <1>3, <1>4 DEF EnabledView, InEnv, MergedEnabled
  <2>2. DetermineBootState(EnabledView(envReg), oauth, config.optOut, envFlag)' = s
    BY <1>2, <1>4, <1>7, <2>1 DEF DetermineBootState, Broken
  <2> QED
    BY <1>3, <2>2 DEF Refreshed
<1>14. Consistent'
  BY <1>9, <1>12, <1>13 DEF Consistent
<1>15. TokensOfThisBoot'
  <2>1. mounted' => config'.hash = None /\ cache'.config.hash = None
    BY <1>3, <1>4 DEF IInv, TypeOK, Config
  <2> QED
    BY <1>4, <1>9, <2>1 DEF TokensOfThisBoot, ThisBoots
<1>16. TokenKept'
  BY <1>3, <1>4 DEF TokenKept, Confirmed
<1> QED
  BY <1>10, <1>11, <1>14, <1>15, <1>16 DEF IInv

\* The token just generated is above every token of an earlier boot.
LEMMA MintStep ==
    ASSUME IInv, MintSetupToken
    PROVE  IInv'
<1>1. /\ boot = "mint" /\ boot' = "up" /\ clean' = TRUE
      /\ minted' = minted + 1 /\ config' = [config EXCEPT !.hash = minted + 1]
      /\ plain' = minted + 1 /\ cache' = [cache EXCEPT !.config = config']
      /\ UNCHANGED <<rows, mounted, envReg, envFlag, oauth, req, first, alone, wasConfirmed>>
  BY DEF MintSetupToken
<1>2. /\ minted + 1 \in Nat /\ first < minted + 1 /\ minted + 1 # None
      /\ first <= minted + 1
  BY OnboardingAssumption DEF IInv, TypeOK
<1>3. /\ config' \in Config /\ config'.hash = minted + 1 /\ config'.optOut = config.optOut
      /\ cache' \in View /\ cache'.config = config' /\ cache'.state = cache.state
  BY <1>1, <1>2 DEF IInv, TypeOK, Config, View
<1>4. \A r \in Requests : req[r] = Idle
  BY <1>1 DEF IInv, AtWork
<1>5. \A r \in Requests : HeldOK(req[r])' /\ InStep(req[r])' /\ req[r].pc = "idle"
  <2>1. \A r \in Requests : req'[r].pc = "idle"
    BY <1>1, <1>4 DEF Idle
  <2> QED
    BY <1>1, <2>1 DEF HeldOK, InStep
<1>6. TypeOK'
  <2>1. \A r \in Requests : HeldOK(req[r])'
    BY <1>5
  <2> QED
    BY <1>1, <1>2, <1>3, <2>1 DEF IInv, TypeOK
<1>7. AtWork'
  BY <1>1, <1>4 DEF IInv, AtWork
<1>8. Consistent'
  <2>1. Registered /\ cache = Refreshed
    BY <1>1 DEF IInv, Consistent
  <2>2. Registered'
    BY <1>1, <2>1, StaysRegistered
  <2>3. EnabledView(envReg)' = EnabledView(envReg)
    BY <1>1, Unmoved
  <2>4. DetermineBootState(EnabledView(envReg), oauth, config.optOut, envFlag)'
          = DetermineBootState(EnabledView(envReg), oauth, config.optOut, envFlag)
    BY <1>1, <1>3, <2>3 DEF DetermineBootState, Broken
  <2>5. cache.state = DetermineBootState(EnabledView(envReg), oauth, config.optOut, envFlag)
    BY <2>1 DEF Refreshed
  <2>6. cache' = Refreshed'
    BY <1>3, <2>4, <2>5 DEF Refreshed, View
  <2> QED
    BY <1>5, <2>2, <2>6 DEF Consistent
<1>9. TokensOfThisBoot'
  BY <1>1, <1>2, <1>3, <1>5 DEF TokensOfThisBoot, ThisBoots
<1>10. TokenKept'
  BY <1>1, <1>2, <1>3, <1>5 DEF IInv, TokenKept
<1> QED
  BY <1>6, <1>7, <1>8, <1>9, <1>10 DEF IInv

\* A process that has not booted holds nothing.
LEMMA Down ==
    ASSUME boot = "down", mounted = FALSE, clean = FALSE, alone = TRUE, wasConfirmed = FALSE,
           envReg = [p \in Provider |-> [f \in Field |-> None]],
           cache = [config |-> [optOut |-> FALSE, hash |-> None], state |-> "none"],
           req = [r \in Requests |-> Idle],
           rows \in [Provider -> Row \cup {None}], config \in Config,
           minted \in Nat, first \in Nat, first <= minted
    PROVE  IInv
<1>1. /\ \A r \in Requests : HeldOK(req[r]) /\ InStep(req[r])
      /\ \A r \in Requests : req[r].pc = "idle"
  BY NobodyAtWork
<1>2. [f \in Field |-> None] \in Settings
  BY DEF Settings, Setting
<1>3. cache \in View
  BY DEF View, Config, BootStates
<1>4. TypeOK
  BY <1>1, <1>2, <1>3 DEF TypeOK
<1>5. AtWork
  BY DEF AtWork
<1>6. Consistent
  BY <1>1 DEF Consistent
<1>7. TokensOfThisBoot /\ TokenKept
  BY DEF TokensOfThisBoot, TokenKept
<1> QED
  BY <1>4, <1>5, <1>6, <1>7 DEF IInv

LEMMA StopStep ==
    ASSUME IInv, Stop
    PROVE  IInv'
<1>1. /\ rows' \in [Provider -> Row \cup {None}] /\ config' \in Config
      /\ minted' \in Nat /\ first' \in Nat /\ first' <= minted'
  BY DEF IInv, TypeOK, Stop, disk
<1>2. /\ \A r \in Requests : req'[r].pc = "idle"
      /\ \A r \in Requests : req'[r] = Idle
  BY DEF Stop, Idle
<1>3. \A r \in Requests : HeldOK(req[r])' /\ InStep(req[r])'
  BY <1>2 DEF HeldOK, InStep
<1>4. [f \in Field |-> None] \in Settings
  BY DEF Settings, Setting
<1>5. cache' \in View
  BY DEF Stop, View, Config, BootStates
<1>6. TypeOK'
  BY <1>1, <1>3, <1>4, <1>5 DEF TypeOK, Stop
<1>7. AtWork'
  BY <1>2 DEF Stop, AtWork
<1>8. Consistent'
  BY <1>3 DEF Consistent, Stop
<1>9. TokensOfThisBoot' /\ TokenKept'
  BY DEF Stop, TokensOfThisBoot, TokenKept
<1> QED
  BY <1>6, <1>7, <1>8, <1>9 DEF IInv

LEMMA InitHolds ==
    ASSUME Init
    PROVE  IInv
<1>1. rows \in [Provider -> Row \cup {None}] /\ config \in Config
  BY DEF Init, Config
<1>2. cache = [config |-> [optOut |-> FALSE, hash |-> None], state |-> "none"]
  BY DEF Init
<1>3. /\ minted \in Nat /\ first \in Nat /\ first <= minted
  BY DEF Init
<1>4. /\ boot = "down" /\ mounted = FALSE /\ clean = FALSE /\ alone = TRUE
      /\ wasConfirmed = FALSE /\ req = [r \in Requests |-> Idle]
      /\ envReg = [p \in Provider |-> [f \in Field |-> None]]
  BY DEF Init
<1> QED
  BY <1>1, <1>2, <1>3, <1>4, Down

LEMMA Stutter ==
    ASSUME IInv, UNCHANGED vars
    PROVE  IInv'
<1>1. /\ UNCHANGED <<rows, config, boot, mounted, envReg, envFlag, oauth, cache, plain, req>>
      /\ UNCHANGED <<minted, first, clean, alone, wasConfirmed>>
  BY DEF vars, disk, memory, history
<1>2. TypeOK'
  BY <1>1 DEF IInv, TypeOK, HeldOK
<1>3. AtWork'
  BY <1>1 DEF IInv, AtWork
<1>4. Consistent'
  <2>1. \A r \in Requests : InStep(req[r])' <=> InStep(req[r])
    <3> SUFFICES ASSUME NEW r \in Requests
                 PROVE  InStep(req[r])' <=> InStep(req[r])
      OBVIOUS
    <3>1. PICK v : v = req[r] /\ v = req'[r]
      BY <1>1
    <3>2. InStep(v)' <=> InStep(v)
      BY <1>1, StaysInStep
    <3> QED
      BY <3>1, <3>2 DEF InStep
  <2>2. (Registered' <=> Registered) /\ Refreshed' = Refreshed
    BY <1>1, StaysRegistered, StaysRefreshed
  <2> QED
    BY <1>1, <2>1, <2>2 DEF IInv, Consistent
<1>5. TokensOfThisBoot'
  BY <1>1 DEF IInv, TokensOfThisBoot, ThisBoots
<1>6. TokenKept'
  BY <1>1 DEF IInv, TokenKept
<1> QED
  BY <1>2, <1>3, <1>4, <1>5, <1>6 DEF IInv

LEMMA NextStep ==
    ASSUME IInv, Next
    PROVE  IInv'
<1>1. ASSUME NEW env \in EnvRegistries, NEW merge \in MergeAtBoot, NEW flag \in EnvOptOut,
             NEW d \in Displays, Boot(env, merge, flag, d)
      PROVE  IInv'
  BY <1>1, BootStep
<1>2. CASE MintSetupToken
  BY <1>2, MintStep
<1>3. CASE Stop
  BY <1>3, StopStep
<1>4. ASSUME NEW r \in Requests, NEW cred \in {Admin} \cup 1..MaxBoots,
             \/ \E wanted \in SUBSET Provider, optOut \in BOOLEAN :
                  Confirm(r, cred, wanted, optOut)
             \/ \E p \in Provider, body \in Bodies : Update(r, cred, p, body)
             \/ \E p \in Provider, body \in Bodies : Create(r, cred, p, body)
             \/ \E p \in Provider : Revert(r, cred, p)
      PROVE  IInv'
  BY <1>4, ConfirmStep, UpdateStep, CreateStep, RevertStep
<1>5. ASSUME NEW r \in Requests,
             \/ ConfirmEnable(r) \/ UpdateOIDCConfig(r)
             \/ CreateRead(r) \/ UpsertOIDCProvider(r) \/ DeleteOIDCProvider(r)
             \/ LoadMerged(r) \/ Rebuild(r)
             \/ RefreshConfig(r) \/ RefreshRows(r) \/ RefreshStates(r) \/ RefreshCache(r)
             \/ ConfirmCheck(r) \/ ClearSetupTokenHash(r) \/ ForgetPlain(r)
             \/ RequestFail(r)
      PROVE  IInv'
  BY <1>5, ConfirmEnableStep, UpdateConfigStep, CreateReadStep, RowWriteStep, LoadMergedStep,
     RebuildStep, RefreshConfigStep, RefreshRowsStep, RefreshStatesStep, RefreshCacheStep,
     ConfirmCheckStep, ClearStep, RequestFailStep
<1> QED
  BY <1>1, <1>2, <1>3, <1>4, <1>5 DEF Next

\* Every interleaving of boots, stops and the statements of Confirm, Update,
\* Create, Revert and RefreshState keeps the inductive invariant: who is at
\* work, what a request running alone holds, and where the hash of the setup
\* token is.
THEOREM Invariance == Spec => []IInv
<1>1. Init => IInv
  BY InitHolds
<1>2. IInv /\ [Next]_vars => IInv'
  BY NextStep, Stutter
<1> QED
  BY <1>1, <1>2, PTL DEF Spec

----------------------------------------------------------------------------
(* The setup token *)

\* The process that EnsureSetupToken left with a token offers it, accepts it
\* and stores its hash until the first confirmation, whatever Confirm, Update,
\* Create and Revert do or fail to do concurrently.
THEOREM TokenIsOffered == Spec => []TokenOffered
<1>1. IInv => TokenOffered
  BY DEF IInv, TokenKept, TokenOffered, verifySetupToken, SetupToken, NeedsSetupToken
<1> QED
  BY <1>1, Invariance, PTL

\* No request of this process is admitted by verifySetupToken with a token
\* that an earlier process generated.
THEOREM OldTokensAreDead == Spec => []OldTokensDead
<1>1. IInv => OldTokensDead
  <2> SUFFICES ASSUME IInv, boot = "up", mounted, NEW t \in 1..first
               PROVE  ~verifySetupToken(t)
    BY DEF OldTokensDead
  <2>1. ThisBoots(cache.config.hash) /\ first \in Nat
    BY DEF IInv, TypeOK, TokensOfThisBoot
  <2> QED
    BY <2>1 DEF ThisBoots, verifySetupToken
<1> QED
  BY <1>1, Invariance, PTL

----------------------------------------------------------------------------
(* What the rows say *)

\* What the registry holds of a provider is its merged settings.
LEMMA RegistryOf ==
    ASSUME Registered, NEW p \in Provider, rows \in [Provider -> Row \cup {None}],
           envReg \in [Provider -> Settings]
    PROVE  /\ oauth[p] = None <=> MergedRegistry(envReg)[p] = None
           /\ oauth[p] # None => oauth[p].values = MergedRegistry(envReg)[p]
<1>1. PICK reg : reg = MergedRegistry(envReg)
  OBVIOUS
<1>2. reg[p] \in Settings \cup {None}
  BY <1>1, MergedType
<1>3. oauth \in Discovered(reg)
  BY <1>1 DEF Registered
<1>4. PICK ok \in [{q \in Provider : reg[q] # None} -> BOOLEAN] :
         oauth = [q \in Provider |-> IF reg[q] = None THEN None
                                      ELSE [values |-> reg[q], ok |-> ok[q]]]
  BY <1>3 DEF Discovered
<1>5. reg[p] # None => [values |-> reg[p], ok |-> ok[p]] \in InitState
  BY <1>2 DEF InitState
<1>6. oauth[p] = IF reg[p] = None THEN None ELSE [values |-> reg[p], ok |-> ok[p]]
  BY <1>4
<1>7. reg[p] # None => oauth[p] # None /\ oauth[p].values = reg[p]
  BY <1>5, <1>6, OnboardingAssumption
<1> QED
  BY <1>1, <1>6, <1>7

\* buildView names the layer the merged value comes from.
LEMMA ViewOf ==
    ASSUME NEW p \in Provider, NEW f \in Field, MergedRegistry(envReg)[p] # None
    PROVE  MergedRegistry(envReg)[p][f]
             = IF buildView(p, f).source = "db" THEN buildView(p, f).override
               ELSE buildView(p, f).default
<1>1. MergedRegistry(envReg)[p] = mergeFields(p, rows[p], envReg)
  BY DEF MergedRegistry
<1>2. MergedRegistry(envReg)[p][f] = pickStr(IF rows[p] = None THEN None ELSE rows[p].values[f],
                                             envReg[p][f], WellKnown[p][f])
  BY <1>1 DEF mergeFields
<1> QED
  BY <1>2 DEF pickStr, buildView, Source, Default

\* After a boot, and after Confirm, Update, Create or Revert ran alone to the
\* end, the cache, the registry and the views agree with the rows.
THEOREM RequestsAreCoherent == Spec => []Coherent
<1>1. IInv => Coherent
  <2> SUFFICES ASSUME IInv, boot = "up", clean
               PROVE  /\ cache.config = config
                      /\ cache.state = DetermineBootState(EnabledView(envReg), oauth,
                                                          config.optOut, envFlag)
                      /\ \A p \in Provider :
                           oauth[p] = None <=> MergedRegistry(envReg)[p] = None
                      /\ \A p \in Provider, f \in Field :
                           LET view == buildView(p, f)
                           IN  oauth[p] # None =>
                                 oauth[p].values[f] = IF view.source = "db" THEN view.override
                                                      ELSE view.default
    BY DEF Coherent
  <2>1. Registered /\ cache = Refreshed
    BY DEF IInv, Consistent
  <2>2. /\ cache.config = config
        /\ cache.state = DetermineBootState(EnabledView(envReg), oauth, config.optOut, envFlag)
    BY <2>1 DEF Refreshed
  <2>3. rows \in [Provider -> Row \cup {None}] /\ envReg \in [Provider -> Settings]
    BY DEF IInv, TypeOK
  <2>4. \A p \in Provider : oauth[p] = None <=> MergedRegistry(envReg)[p] = None
    BY <2>1, <2>3, RegistryOf
  <2>5. ASSUME NEW p \in Provider, NEW f \in Field, oauth[p] # None
        PROVE  oauth[p].values[f] = IF buildView(p, f).source = "db"
                                    THEN buildView(p, f).override
                                    ELSE buildView(p, f).default
    <3>1. oauth[p].values = MergedRegistry(envReg)[p] /\ MergedRegistry(envReg)[p] # None
      BY <2>1, <2>3, <2>5, RegistryOf
    <3> QED
      BY <3>1, ViewOf
  <2> QED
    BY <2>2, <2>4, <2>5
<1> QED
  BY <1>1, Invariance, PTL

\* A verdict that confirms means what DetermineBootState's strict rule says.
LEMMA ConfirmedMeans ==
    ASSUME Confirmed(DetermineBootState(EnabledView(envReg), oauth, config.optOut, envFlag)),
           NEW on, on = {p \in Provider : InEnv(envReg, p) /\ MergedEnabled(rows[p])}
    PROVE  /\ \A p \in on : oauth[p] # None /\ oauth[p].ok
           /\ on = {} => config.optOut \/ envFlag
<1>1. PICK e : e = EnabledView(envReg)
  OBVIOUS
<1>2. /\ DOMAIN e = {p \in Provider : InEnv(envReg, p)}
      /\ \A p \in DOMAIN e : e[p] = MergedEnabled(rows[p])
  BY <1>1 DEF EnabledView
<1>3. on = {p \in DOMAIN e : e[p]}
  BY <1>2
<1>4. /\ on # {} => ~Broken(on, oauth)
      /\ on = {} => config.optOut \/ envFlag
  BY <1>1, <1>3 DEF DetermineBootState, Confirmed
<1> QED
  BY <1>4 DEF Broken

\* RequireOIDCConfirmed serves /v1 only while every provider that Status shows
\* as on is initialised, or with an explicit opt-out.
THEOREM TrafficNeedsWorkingProviders == Spec => []ServedOnlyIfWorking
<1>1. IInv => ServedOnlyIfWorking
  <2> SUFFICES ASSUME IInv, boot = "up", clean, Confirmed(cache.state),
                      NEW on, on = {p \in Provider : InEnv(envReg, p) /\ StatusProvider(p).enabled}
               PROVE  /\ \A p \in on : StatusProvider(p).init_ok
                      /\ on = {} => config.optOut \/ envFlag
    BY DEF ServedOnlyIfWorking
  <2>1. Confirmed(DetermineBootState(EnabledView(envReg), oauth, config.optOut, envFlag))
    BY DEF IInv, Consistent, Refreshed
  <2>2. on = {p \in Provider : InEnv(envReg, p) /\ MergedEnabled(rows[p])}
    BY DEF StatusProvider
  <2>3. /\ \A p \in on : oauth[p] # None /\ oauth[p].ok
        /\ on = {} => config.optOut \/ envFlag
    BY <2>1, <2>2, ConfirmedMeans
  <2> QED
    BY <2>3 DEF StatusProvider
<1> QED
  BY <1>1, Invariance, PTL
============================================================================
