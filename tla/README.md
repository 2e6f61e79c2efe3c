# mod-users in TLA+

`mod-users` is the identity module of a Go service: accounts, passwords, email
codes, OIDC sign-in, step-up tokens and SSH keys, behind an HTTP API, with all
durable state in PostgreSQL and a React library on top. This directory models
the parts of it whose correctness depends on the order in which concurrent
requests, goroutines and the clock take their steps, checks them with TLC on
small instances, and proves the main results with TLAPS for every size.

All handlers have the same shape: read a few rows, decide, write in one or more
statements or transactions, and answer. Everything a handler remembers between
two statements can be stale when it is used. The modules keep that shape: each
SQL statement (or each transaction whose effects appear together) is one atomic
step, and what a handler holds in between is the record of its request.

## Inventory

| Component | State | Operations | Talks to |
|---|---|---|---|
| Email one-time codes (`handlers/auth/emailcode.go`, `identities.go`, `email_codes.sql`, migration 0103) | `email_codes` rows: expiry, attempts, consumed; the `emailCodeSlots` semaphore; send goroutines | request, verify, step-up request, step-up verify, the code sent by registration | accounts, mail, step-up tokens |
| Step-up tokens (`auth/stepup.go`) | signed tokens; the in-memory map of spent ids | issue, verify, janitor | credential management, SSH keys |
| Credential management (`handlers/identities.go`, `service/identities.go`, link mode of `handlers/auth/oidc.go`) | `auth_local`, `auth_oidc_identities` | start link, link callback, unlink, set password, remove password | step-up tokens, password reset |
| Password reset (`handlers/auth/reset.go`) | `password_resets` rows; the request's goroutine | request, confirm | mail, `auth_local` |
| Registration and first user (`handlers/auth/register.go`, `users/hooks.go`) | `user_accounts`, the wildcard grant | register, first-user hook | email codes, authz |
| OIDC login (`handlers/auth/oidc.go`, `auth/oauth.go`, `oauth_state.go`, `resolver.go`) | the signed state and its cookie; `user_accounts`, `auth_oidc_identities` | start, callback in three modes, the five branches of `Resolve` | provider, first-user hook |
| User accounts service (`service/user_accounts.go`) | `user_accounts`, archived entities | create, update, delete, assume; record login (an audit entry only) | authz, audit |
| Guest accounts (`handlers/auth/anonymous.go`) | `anon_tokens` | create, upgrade | user accounts |
| SSH public keys (`service/ssh_keys.go`, `ssh_key_resolver.go`, `handlers/ssh_keys.go`) | key rows, archived by revocation | register, revoke, resolve a fingerprint | step-up tokens, authz |
| OAuth provider registry (`auth/oauth.go`) | the current registry, swapped under a lock | rebuild, look up | onboarding |
| OIDC onboarding and provider administration (`handlers/oidc_config.go`, `oidc_providers.go`, `config/oidc_state.go`, `provider_merge.go`) | `oidc_config`, `oidc_providers`, the cached boot state, the setup token | boot, confirm, put, post and delete a provider, status | registry |
| JWT secret bootstrap (`config/jwtsecret_bootstrap.go`) | the persisted secret, an advisory lock | load or create | other instances |
| JWT signing and verification (`auth/jwt.go`) | none | issue, verify | secret |
| Authorization (`authz/authz.go`) | `grants`, group memberships, owners (mod-authz, mod-core) | `Authorize`, `AuthorizeType` | every service |
| Administration endpoints (`cmd/server/main.go`, `handlers/user_accounts.go`, `handlers/assume.go`) | wildcard grants, assumed sessions, audit entries | grant and revoke administration, assume, create, list, get | authz |
| App membership (`handlers/apps.go`) | `apps_user_accounts` | assign, change roles, remove | authz |
| Password login, claim mapping, mail, wiring, GUI | see `PROJECT.json` | | |

What is hard to test here:

* several requests for one code, token, identity, key or account at the same time,
  where one conditional `UPDATE`, one row count or one unique index has to decide;
* decisions taken from a row read before the statement that writes (`SetPassword`,
  `Update`, `Resolve`, `PasswordResetConfirm`, provider `PUT` and `POST`, and every
  administrative handler, which authorises first);
* a configuration kept three times (rows, registry, cached verdict) and rewritten by
  handlers that hold no lock over their statements and wait for the network in between;
* instances that boot at once, and a lock whose holder dies;
* a login that is one request at the start and another, perhaps of another instance,
  browser or flow, at the end;
* clocks that differ by construction: the server's clock stamps a code's expiry, `now()`
  is the transaction's start and `clock_timestamp()` the statement's;
* goroutines that outlive their request, with or without its context, and an in-memory
  map pruned by a janitor while requests use it;
* permissions reached from two ends, the instance and its type, through groups of groups;
* steps that fail, replies that are lost and processes that die half way.

What makes each part correct:

* a code is accepted once, for its own purpose, within its budget of guesses; a
  full semaphore recovers;
* a step-up token pays for one change in each life of a server process, apart from requests that
  store it only after its expiry;
* no sequence of changes locks an account out, and no identity changes hands;
* a used reset link is closed;
* a fresh database gets its administrator; an account counts as verified, and others are linked
  to it, only through an address proved for it or put by an update in the place of a proved one;
  an upgraded guest keeps no guest token;
* a key is never taken for that of an account it was not registered with, or that is
  gone, and revocations leave a trace;
* what a process serves is what its rows say, and its operator is never locked out of
  the onboarding;
* a fleet has one secret, and a login ends where and with whom it began;
* a grant on the type of persons reaches the accounts of persons and no others, and whoever acts
  or grants in another's name is on record.

`PROJECT.json` lists the hazards line by line with the properties that cover
them.

## Modules

| Module | Models | Checked by | Proved in |
|---|---|---|---|
| `OneTimeCode` | the promise: issue, guess within a budget, use once | refined by `EmailCodes` | |
| `EmailCodes` | minting and spending email codes | `codes_verify`, `codes_sends` | `EmailCodes_proofs` |
| `StepUp` | step-up tokens, the map of spent ids, the janitor | `stepup_tokens` | `Tokens_proofs` |
| `StepUpGate` | the gate as the endpoints behind it meet it: a map per process, expiry, restarts | through `Credentials` and `SshKeys` | `Credentials_proofs`, `SshKeys_proofs` |
| `Credentials` | sign-in methods and the endpoints that change them, on top of `StepUpGate` | `cred_changes` | `Credentials_proofs` |
| `PasswordReset` | reset links from request to confirmation | `reset_confirm`, `reset_mail` | `PasswordReset_proofs` |
| `Accounts` | creation and update of accounts, the resolver, the first user | `accounts_races`, `accounts_update` | `Accounts_proofs` |
| `OidcOnboarding` | provider rows, registry, cached boot state, setup token | `onboarding` | `OidcOnboarding_proofs` |
| `Sessions` | the secret of a fleet, session tokens, OIDC logins | `sessions` | `Tokens_proofs` |
| `Authz` | the Authorizer's decisions over its tables | through the two below | `Administration_proofs` |
| `Administration` | administration, assumed identities, account creation and app membership on top of `Authz` | `admin` | `Administration_proofs` |
| `SshKeys` | SSH keys, with account deletion and sudo, on top of `Authz` and `StepUpGate` | `ssh_keys` | `SshKeys_proofs` |

The `MC*` modules declare model values, the instances' tables and the symmetry sets; the
`.cfg` files give the constants. History variables, named as such in each module, record what
the properties talk about; guards read them only to enforce a bound. A definition commented
as a mutant is a plausible defect of the definition after it; no specification uses it.

### EmailCodes

State: `codes` are the rows of `email_codes`; `slots` is the number of tokens
in the `emailCodeSlots` channel; `send` and `req` hold the goroutines and the
verify handlers in flight; `accounts` and `clock` are what they read.

* `VerifyLookup`, `VerifyClaim`, `VerifyCompare`, `VerifyConsume`, `VerifyGrant`
  are the stages of `EmailCodeVerify`; `StepUpVerify` has the same stages
  with another purpose and another reward. Whether a guess is right is chosen at
  the comparison, since no earlier statement reads it. `VerifyReplyLost` commits
  a statement and fails the handler.
* `Dispatch`, `Register` and `StepUpRequest` start a send. Only a dispatched one
  takes a slot and runs under `emailCodeSendTimeout`. `SendCheck` is the advisory
  pre-check, `SendStamp` the expiry from the server's clock, `SendBegin` the
  transaction's `now()`, `SendInsert` the mint function under its advisory lock,
  `SendMail` the delivery.
* `Crash` loses everything but the rows.

`OneTimeCode` knows issued codes, guesses and uses only. `Implements` maps it onto
`minted`, `compared` and `grants`.

### StepUp

A token is its payload (account and expiry); the signature is external, so only
issued tokens verify. `VerifyCheck` ends with the expiry and binding checks,
`VerifyStore` is the `LoadOrStore`. The janitor takes one time per tick and
visits the keys one by one, as `sync.Map.Range` does, so requests run between two
visits. `Restart` empties the map.

### StepUpGate

What `Credentials` and `SshKeys` share. `StepUp` looks at one process closely; this module has
several, each with its own map (`spent`), and knows of a token only for whom it was issued and
whether its time is over. `Arrive` and `TokenValid` are `checkStepUp` up to the single-use check,
`LoadOrStore` is that check, `PruneToken` the janitor, `RestartGate` a restart, which loses the map
and the requests. As history `pass` is the token a request stored in time, `made` the tokens that
have paid for a change in this life of a process, and `overdrawn` the accounts changed without
payment. What the code does not promise is left out of the account by name: another process,
another life, and a store after the expiry (`"late"`).

### Credentials

`owner` is `auth_oidc_identities`, `local` is `auth_local`, `links` the accounts with a signed
link-mode state. `requireStepUp` and `consumeToken` are the two halves of the gate. What the token
of `StartLink` buys is the state: the callback asks for none, and until it expires the state can
be presented again, so links are not counted one by one. Unlink and RemovePassword run under SERIALIZABLE: `DeleteBegin`
reads the snapshot, `DeleteCommit` deletes unless another such transaction of the
account committed meanwhile (`Conflict`, external: PostgreSQL), `DeleteRetry` is
the rerun. `SetRead` and `SetCommit` are SetPassword, whose read is outside its
transaction. `LinkRead` and `LinkInsert` are the link-mode callback, which meets
the unique index. `ResetUpsert` is the password a reset writes without the gate.

### PasswordReset

The request's goroutine (`JobLookup`, `JobInsert`, `JobMail`) can only complete a
step while the handler has not returned, because it uses the request's context
and `net/http` cancels that (`ContextLives`, external). `ConfirmLookup`,
`ConfirmUpsert` and `ConfirmConsume` are the three statements of the
confirmation. `Faults` switches failures and crashes on; the runs that are about
order alone leave it off.

### Accounts

`rows` is `user_accounts` reduced to email and verification, `guests` the accounts
with an `anon_tokens` row, `admins` those with the wildcard grant.

* `RegisterCount` and `AutoCount` read `count(*)`; `RegisterCommit` and `autoCreate` insert and
  commit, with the unique indexes on email and identity; `firstUserHook` comes after the
  commit, in a transaction of its own, and may fail.
* `ResolveIdentity` and `ResolveEmail` are the two lookups of `Resolve`, `Branch` its
  decision table, `linkIdentity` and `verifyAndLink` its writes.
* `UpdateRead` and `UpdateCommit` are `Update`: the row is loaded by
  `authorizeUserAccount`, and both columns are written from what was loaded.
  `VerifyRead` and `VerifyMark` are the `verify_email` purpose of `EmailCodeVerify`, which
  also writes the email back (`MarkLoaded`).

As history `proved` holds the addresses that a code or a provider has proved for an account, and
`carried` those that nobody proved but an `Update` put on a row that stayed verified, since it
writes back the `email_verified_at` it loaded. A later login through such a carried address is
linked: the resolver sees a verified row. `VerifiedWasEarned` says that this is the only way, and
only for accounts that have proved some address.

### OidcOnboarding

`rows` and `config` are the tables; `oauth` is the registry with each provider's outcome of
discovery, `cache` what `RefreshState` last stored, `plain` the plaintext token in memory.

* `Boot` is the part of `main` before the first request: nothing interleaves with it.
  `MergeAtBoot` says which registry the handlers get as the environment's: `main.go` hands
  over the merged one, a generated app the plain one. `MintSetupToken` is a step of its own
  because the process can die between clearing the old hash and storing the new one.
* `Confirm` is `ConfirmEnable` once per provider, `UpdateOIDCConfig`, `LoadMerged`, `Rebuild`, the
  four steps of `RefreshState` and, if confirmed, `ClearSetupTokenHash`, `ForgetPlain` and a
  second refresh. `Update`, `Create` and `Revert` write one row and share the rest.
* `RequestFail` ends a handler after any statement, keeping what it did. `Stop` keeps the
  rows only.

`Field` stands for the settings OAuth cannot do without; the optional ones follow the same
path. `clean` is true after a request that ran alone and was answered, and after a boot:
`Coherent` and `ServedOnlyIfWorking` are about those moments, because two overlapping
requests do leave registry and rows apart (see the observations below).

### Sessions

`secret` is the row of `auth_jwt_secrets`, `lock` the advisory lock, `inst` the progress of
each instance. `BootStart` to `Unlock` are the statements of `bootstrapJWTSecretFromDB`; `Stop`
is a failure or a crash, which drops the connection and with it the lock. `IssueJWT` and
`IssueStepUp` sign with the instance's secret, `verifyLocal` checks type, signature and expiry.

`Start` signs a state and sets the cookie. `ProviderAnswers` (external) yields a code.
`CallbackBegin` takes any code and any state to any browser at any instance, since that is what may
arrive, and ends with the call of the provider's token endpoint; while the request is `waiting`
the state may expire, the browser may start another login and the instance may crash.
`CallbackFinish` goes on with the provider's answer (`Exchanged`, external: a code is redeemed once,
or the call fails). `StateAccepted` and `NonceMatches` are the handler's conditions in order. Every
answer clears the cookie, whatever it holds by then, but the answer may be lost.

### Authz and Administration

`Chain` is the least fixed point that `WITH RECURSIVE ... UNION` computes, `Seed` the rows it
starts from. `checkWildcardGrant`, `checkGrantOrOwn` and `checkTypeGrant` are the three queries;
`Authorize` and `AuthorizeType` the two entry points, which ask for a wildcard first. A decision is
an operator over one snapshot; the code asks in two statements, and a change between them is not
modelled. `SatisfiedBy` is the operation registry of mod-authz.

`Administration` splits every handler into its decision (`GrantAdmin`, `RevokeAdmin`, `Create`,
`Assume`, `Membership`) and its write (`CreateWildcardGrant`, `DeleteWildcardGrant`, `CreateCommit`,
`AssumeCommit`, `MembershipWrite`), between which grants, wildcards among them, and memberships may
change (`Outside`). Every handler runs in a session of `Sessions`: one that a login gave, or one
that `Assume` issued a token for. The token names the effective actor of the session that asked
for it, so one assumed inside another names only the account on the way; which person signed in
is history. `trail` are the audit entries of `Assume`. Accounts are held by persons, who own
themselves, or by corporations, which `List` shows as well.

### SshKeys

`Gate` and `checkStepUp` are the step-up check of both families of routes; `AuthorizeAccount` and `LoadEntity` are
`loadAuthorizedAccount`; `InsertSSHPublicKey` meets the partial unique index; `LoadKey` and
`ArchiveSSHPublicKey` are `Revoke`, the second with its row count. `Assume` hands out a session
that outlives the permission. `ResolveKey` and `ResolveHolder` are the two reads of `ResolveActor`.

## Runs

Passing runs:

* `codes_verify`: one account, two purposes, two codes, two concurrent
  verifications, two attempts per code. Both orders of "claim the last attempt" and
  "consume with an earlier one" occur, as do expiry between lookup and claim, lost
  replies and crashes. Checks `TypeOK`, `SingleUse`, `GuessBound`,
  `PurposeIsolation`, `NoReset` and `Implements`.
* `codes_sends`: two sends, three codes, a cooldown of three ticks and a send
  timeout of one. Checks that the semaphore counts exactly the dispatched sends
  (`SlotsExact`), that a full one recovers (`SlotsRecover`), that requested codes keep
  their distance (`SpacingHolds`) and so only few are live at once (`LiveCodesBounded`).
  The distance is the cooldown less the send timeout, not the cooldown: the insert is
  stamped with the start of its transaction.
* `stepup_tokens`: two tokens, three requests, two accounts, the janitor and restarts.
  Checks `TypeOK`, `LiveSingleUse` and `Drained`.
* `cred_changes`: two accounts, two identities, two concurrent requests, and one step-up token
  that two server processes, their restarts and the janitor let pass more than once. Checks `KeepsSignIn`, `NoTakeover`, `EachChangePaid` and
  `BlindOnlyIfRaced`. With the gate off there is one guard less and no other
  transition, so the gated instance shows the same races: the second process, or the first after
  a restart, accepts the token of a second request. It ends where the hashes run out and the
  token has expired, so deadlock is not checked.
* `reset_confirm`: two links, two accounts, two concurrent confirmations, failures and
  crashes. Checks `TypeOK`, `UsedIsClosed`, `ClosedForGood`.
* `accounts_races`: two accounts, two emails, one identity, two concurrent requests from an
  empty database. Checks `TypeOK`, `FirstIsAdmin`, `VerifiedWasEarned`,
  `TokensAreForGuests`.
* `onboarding`: two providers, one with a built-in issuer, and both, one or none in the environment,
  two settings, two requests that may overlap, two boots, either wiring and either display of
  the token. Checks `Coherent`, `ServedOnlyIfWorking`, `TokenOffered` and `OldTokensDead`: after
  every kind of write the registry, the cached verdict and the endpoints' views agree with the
  rows; `/v1` is open only with working providers or an opt-out; until the first confirmation
  the token shown at boot is the one that works; and no token of an earlier process does.
  It ends where the bounds do, so deadlock is not checked.
* `sessions`: two instances, two browsers, two flows, two boots, one callback at a time that
  waits for the provider, every mode of the callback. Checks `TokensHonoured`, `LoginBound` and `BootCompletes`.
  It ends where the clock and the boots do, so deadlock is not checked.
* `admin`: an administrator, another person, a corporation with an account and a person to come,
  a group in a group that may become a cycle, four types, two concurrent requests, three in all,
  and one change from outside. Checks `SentinelPowerless`, `PersonGrantsExact` (a grant on
  `natural_person` lets its holder read, or with `manage` assume, the accounts of all persons and
  read none of a corporation) and `AdministrationTraced`. Three requests are an assumption, one
  inside it or a grant made under it, and another request beside them. It ends where its bounds do.
* `ssh_keys`: a user and an operator, one fingerprint, two rows, two concurrent requests or
  resolutions, and one token in one process that restarts. Checks `ResolvedWasCurrent`, `RevocationsAudited` and
  `SelfChangesPaid`.

Runs that show a disagreement between the code and what is written about it:

* `reset_mail`: with nothing failing, the handler returns first, its context is cancelled
  and no mail is sent.
* `accounts_update`: an update that names no email undoes a verification committed since it
  loaded the row, against `user_accounts.go:47`.

Smaller observations, made while modelling and visible in the modules, without a run:

* Step-up: a request that passes the expiry check in the last moment and stalls can store its
  id after the janitor pruned it, so a replay of the token in that moment succeeds too; the
  comment at `stepup.go:162` takes expiry to make pruning harmless. `LiveSingleUse` is what
  holds. The map is also not shared between replicas.
* Two first `SetPassword` requests both find no password; the second replaces the first
  unverified, against the comment at `identities.go:427`. `BlindOnlyIfRaced` is what holds.
* Two confirmations that look one reset token up before either consumes it both set a password;
  `mod-users-spec.md:236` calls the tokens single-use. `UsedIsClosed` is what holds.
* Two registrations of an empty table both count zero and both get the wildcard grant, which
  `hooks.go:18` reserves for the very first account. If a guest account is the first row,
  nobody ever counts as the first user.
* Unlink refuses an unknown identity of an account with one method with 409 rather than 404
  (`UnlinkRefused` keeps that arithmetic).
* `email_codes.sql:37` promises one code per window where `SpacingHolds` is what the two clocks
  allow.
* Onboarding: when two refreshes overlap, the older one can put a cleared hash back into the
  cache, and the token is accepted until the next refresh (`oidc_config.go:412`). Two rebuilds
  can swap the registry in the other order (`oauth.go:336`), two overlapping `PUT`s lose one
  `enabled` flag, and two `POST`s of one provider both succeed. "Empty list implies opt-out"
  (`oidc_config.go:327`) holds for an empty registry only. With `main.go`'s wiring the
  environment's registry is the merged one of the boot: reverting an override shows the
  environment's value only after a restart, and a provider disabled at boot is not in Status.
* Login: when `Exchange` fails the handler has no payload, so the test-mode branch at
  `oidc.go:226` is never taken, against the comment above it.
* Administration: `AssignUser` answers 201 with the requested roles although a member keeps the
  old ones, `UpdateUserRoles` answers 200 for somebody who is no member, and revoking the last
  administrator is allowed. The token of an assumption made in an assumed session names the
  account in between, where `mod-users-spec.md:218` says that tokens embed the admin's original UUID;
  the audit entries lead further back (`AdministrationTraced`). A caller whose grant is revoked
  between the decision and the write still makes the grant.
* Update puts a new, unproved address on a row and keeps it verified (`user_accounts.go:537`);
  logins through that address are then linked to the account.
* A code or a reset link that expires after its lookup is still honoured: neither the claim and
  the consume (`emailcode.go:299`) nor the password write (`reset.go:125`) looks at the expiry again.
* SSH keys: deleting an account leaves its keys active, so that their fingerprints can be neither
  registered again (409) nor revoked (403); the resolver knows them to nobody.

### Bounds

`MaxTime` and `MaxSeconds` stop the clock, `MaxUses` the uses of one reset token, `MaxTokens` the step-up or
session tokens, `MaxBoots` the boots, `MaxRequests` the administrative requests of a history,
`MaxEdits` the changes from outside, `Enrolled` the accounts put into apps, `MaxWaiting` the
callbacks that wait for a provider at once, and the finite sets of codes, tokens, hashes, keys and
accounts the number of rows. Where there is no `MaxRequests`, requests and sends are slots that
are used again and again, so two of them stand for any number of requests of which two overlap.
Every property here is broken, when it is, by two or three overlapping requests on one row; the
instances are chosen so that the row can be created, expire, be exhausted and be replaced within
the bound. Two boots of `onboarding` and of `sessions` let a process stop half way and the
next one find what it left, and two requests there are one that overlaps the other or one after
the other in either boot. In `sessions` one live token suffices, since each is checked by itself
against every instance, and with one provider a code's provider cannot differ from the path's.
Sizes beyond these are covered by the proofs, for every safety property the runs check.

### Fairness

* `EmailCodes!FairSpec`: time passes, and a goroutine whose context has expired gets to run
  (`runBoundedEmailWork` gives it a deadline, and every call it makes takes the context).
  Nothing is assumed of the database or the mail relay.
* `StepUp!StepUpFairSpec`: time passes and the janitor's ticker keeps firing.
* `PasswordReset!FairSpec`: goroutines and handlers keep running. That is what makes the
  counterexample of `reset_mail` one of order rather than of stopping.
* `Sessions!Spec`: PostgreSQL executes the statements of a boot, and hands a free lock to a waiting
  session. Weak fairness per instance suffices for `BootCompletes` because boots are finite in
  number. Nothing makes an instance boot or serve.

## Proofs

All theorems hold for any number of accounts, codes, tokens, identities, keys, instances, groups
and concurrent requests, any cooldown, lifetime and capacity, and without the bounds of the
runs mattering. The assumptions are the named `ASSUME`s of the modules: the
kinds of the parameters, that sets whose elements are counted are finite (requests and sends,
identities), that `None` is not an ordinary value, in `EmailCodes` that the send timeout is
shorter than the cooldown and the cooldown at most the lifetime (20 seconds, 60 seconds and 5
minutes in the code), and in `Authz` and `Administration` the shape of the registries: type
entities are no groups, each operation is implied by itself and by manage, list implies read
and manage implies assume.

* `EmailCodes_proofs`: `TypeCorrect`, `SemaphoreExact`, `CodesAreSingleUse`,
  `GuessesBounded` and `Refinement`. `SingleUse` is not inductive: a second request could hold
  the same code past its consumption. `Ownership` says that at most one request is past
  consuming a code, and only before its grant; `Budget` that the comparisons made and the
  requests about to compare are covered by claimed attempts; `InFlight` that a code held was
  minted, and compared before it is consumed. `SlotsExact` is inductive with `TypeOK`.
  `RowsAreOnlySpent` (`NoReset`) is an action property that follows from it step by step.
  `PurposesAreIsolated`, `CodesAreSpaced` and `LiveCodesAreBounded` rest on a
  second inductive invariant, `OrderInv` (`OrderInvariance`). `LookedUp` says that whatever a
  request holds was minted for its account, purpose and endpoint.
  `SendsInOrder` and `MintedInOrder` order the clock readings of a send and of its row: started,
  stamped, transaction begun, inserted; a row expires at most one lifetime after its transaction
  began, and a public one is inserted within the send timeout of that. `Apart` says that of two
  rows the later was inserted when the earlier one's cooldown was over. Neither the distance nor
  the number of live codes is inductive without them, because the expiry is stamped by one clock
  and the cooldown tested by another. The bound itself is an injection of the live codes into the
  windows of a lifetime: spaced codes fall into different ones.
* `Credentials_proofs`: `TypeCorrect`, `LastMethodIsKept`, `IdentitiesStay`,
  `BlindWritesWereRaced`, `ChangesArePaid`. `OtherMethod` says that a deletion that may
  still commit leaves its account another method: deletions are the only steps that take
  methods away, and each one invalidates the others that are open. `Knows` says that a password
  which a SetPassword under way could have seen is the one it verified, because every hash
  written is new. `Accounted` says that a token stored in time stays in its process's map until it
  has expired, which it then is for good, and that no two requests of a process hold it; `Holding`
  that a request past the gate holds one issued to its account and has not spent it, through
  retries too.
* `PasswordReset_proofs`: `TypeCorrect`, `UsedTokensAreClosed`; the conjunction of the two is
  inductive. `ClosingIsFinal` (`ClosedForGood`) is an action
  property: no statement of `reset.go` opens a row again, and only `ConfirmLookup`, which finds
  no closed row, adds a confirmation that will use one.
* `Accounts_proofs`: `TypeCorrect`, `FreshDatabaseGetsAdmin`, `VerifiedIsEarned`,
  `TokensOnlyForGuests`. `Early` says that while the table is empty every open
  creation has counted zero, `Vouched` that what the resolver or an update goes on
  with was earned when it was looked up, which stays true because proofs are not forgotten, `GuestsSeen` that a request about to write
  an email into a guest's row knows that it is one, `Known` that rows stay.
* `Tokens_proofs`, about both kinds of token: `FleetHonoursTokens` and `LoginsAreBound` for
  `Sessions`, `StepUpTypeCorrect` and `TokensAreSingleUseWhileLive` for `StepUp`, whose names
  carry its own prefix so that one module can extend both. `OneSecret` says that whatever an instance past its boot knows and whatever was
  signed comes from the one row; before the row is written nothing has been signed, and it is
  never overwritten. The argument does not use the lock: the conditional insert alone is enough
  for agreement. `Bound` says that a cookie names a state which its own browser
  started, and so does a callback that waits.
  `Remembered` says that a step-up token accepted while live stays in the map until it has
  expired; for that the map must hold the token's own expiry and the janitor's time must lie in
  the past (`Agreement`).
* `Administration_proofs`: `SentinelConfersNothing`, `PersonGrantsCoverPersons`,
  `AdministrationIsTraced`. `ChainMonotone` (a larger seed reaches no less) gives
  `TypeCoversInstances`: a type-level permission covers every instance, cycles of groups included;
  `ExactTypeOnly` is the converse, that a grant on a type entity does not reach instances of
  another type. `Traced` says that the entries lead from the person of every session, and of every
  request under way, to the account it acts for, and that a pending grant was decided for a holder
  of administration.
* `SshKeys_proofs`: `ResolutionsAreCurrent`, `OneAuditEntry`, `OwnChangesArePaid`, whatever the
  Authorizer decides. `UniqueActive` is the index; `Current` says that what a resolution under way
  has read was the truth unless the holder is deleted by now, which the second read sees because
  archiving is final; `Accounted` and `Holding` are the argument of `Credentials` again.
* `OidcOnboarding_proofs`: `TokenIsOffered`, `OldTokensAreDead`, `RequestsAreCoherent`,
  `TrafficNeedsWorkingProviders`, all from `Invariance`. None of the four is inductive, because
  what is cached was read some statements earlier. `TokenKept` and `TokensOfThisBoot` follow the
  hash through every copy of it: stored, cached, and held by a refresh under way; before the first
  confirmation no request is about to clear it. `AtWork` says that a request which runs alone is
  the only one open, and `Consistent` what it then knows after each statement: the registry it
  loaded is the merged one, the registry it installed is what the rows say, and each of the three
  reads of `RefreshState` is still true. `Move` is the one lemma behind the fifteen statements of
  a request: a statement keeps the invariant if what the request holds after it is in step with
  what it leaves behind and the token is untouched or the process confirmed.

Only model-checked: the liveness properties `SlotsRecover`, `Drained` and `BootCompletes`, which
need fairness and are out of the prover's reach; and the two properties of the runs that show a
violation. Every invariant and every action property of a passing run is a theorem.

## Not modelled

* Cryptography, hashing and constant-time behaviour; wording and status codes beyond success and
  failure; audit observers, except that they can fail a transaction, that revocations of keys
  are counted and that the entries of `Assume` are kept; names and profile data.
* The EdDSA mode of session tokens, with its verification keys and their rotation: static
  configuration, nothing persisted.
* Claim mapping, the parsing of SSH keys, PEM and the environment: sequential functions of their
  input that keep nothing.
* The anonymous system actor: a row that migrations write and nothing changes.
* In the user accounts service: `RecordLogin`, which writes an audit entry and no column;
  `PUT /self`, which changes the names that the core module keeps and not the account's row; and
  the lists. In the onboarding: `MarkExternallyManaged`, which fixes the cached state when a proxy
  manages the providers, and the `Saved` reads.
* Whether a callback that logs in and one that links insert the same identity: `Credentials` has
  the link callbacks only, `Accounts` the logins; both meet the same unique index.
* SMTP; routes and middleware chains; the GUI library.

`PROJECT.json` gives the reason for each component left out.

## Plan

1. Theorems about what remains true when requests of `OidcOnboarding` overlap: which of registry,
   rows and cache can be apart, and by whose statements.
2. A composition of `Accounts` with deletion by archiving, so that registration and resolution
   meet archived accounts.
3. The session state of the GUI's `auth-context`.
