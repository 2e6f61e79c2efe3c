------------------------------ MODULE Accounts ------------------------------
(***************************************************************************)
(* How user accounts come to be and how their email changes: registration, *)
(* the five branches of the OIDC resolver, creation by an administrator,   *)
(* guest accounts, the profile update and the email verification; and the  *)
(* grant that makes the first user administrator.                          *)
(*                                                                         *)
(* Transactions are READ COMMITTED.  What a handler reads before its       *)
(* writing transaction is kept in its record and may be stale by then; the *)
(* statements of a writing transaction become visible together.            *)
(***************************************************************************)
EXTENDS Integers, FiniteSets

CONSTANTS
    Account,    \* primary keys of user_accounts
    Email,      \* canonical addresses
    Identity,   \* (issuer, subject) pairs
    Requests,   \* concurrent requests
    None

ASSUME NoneAssumption == None \notin Account \cup Email \cup Identity

VARIABLES
    rows,       \* user_accounts: the rows, by id
    owner,      \* auth_oidc_identities: the account of each identity
    guests,     \* anon_tokens: accounts that have a continuity token
    admins,     \* accounts with the wildcard manage grant
    req,        \* requests in flight
    \* history, read by the properties only
    first,      \* the account Register or autoCreate put into an empty table
    hookLost,   \* accounts whose first-user hook failed
    proved,     \* <<account, email>>: a code or a provider has proved the email
    carried,    \* <<account, email>>: put on a verified row, and not proved (yet)
    stray       \* identities linked to an account found by an unearned email

history == <<first, hookLost, proved, carried, stray>>
vars    == <<rows, owner, guests, admins, req, history>>

----------------------------------------------------------------------------
(* Rows and requests *)

exist == DOMAIN rows

\* A row of user_accounts; a guest has a NULL email.
Row == [email: Email \cup {None}, verified: BOOLEAN]

\* What a provider asserts: the identity, an email claim and email_verified.
Principal == [identity: Identity, email: Email \cup {None}, verified: BOOLEAN]

\* A registration brings an email only.
NewAccount == [identity: Identity \cup {None}, email: Email \cup {None}, verified: BOOLEAN]

Idle == [pc |-> "idle"]

Looking  == [pc: {"lookup", "count"}, who: Principal]
Joining  == [pc: {"link", "verify"}, who: Principal, account: Account]
Creating == [pc: {"create"}, who: NewAccount, isFirst: BOOLEAN]
Hooking  == [pc: {"hook"}, account: Account]
Updating == [pc: {"update"}, account: Account, email: Email \cup {None}, seen: Row]
Marking  == [pc: {"mark"}, account: Account, email: Email]

NoRows == [a \in {} |-> None]

WithRow(a, row) == [b \in exist \cup {a} |-> IF b = a THEN row ELSE rows[b]]

\* GetUserAccountByEmail.
HasEmail(e) == {a \in exist : rows[a].email = e}

\* The unique index on email, for a write to account a; NULLs do not collide.
EmailFree(e, a) == e = None \/ HasEmail(e) \subseteq {a}

\* The unique index on (issuer, subject).
IdentityFree(i) == i = None \/ owner[i] = None

Write(a, row) == rows' = WithRow(a, row)

\* Notes who has proved which address.
Proves(a, e, evidence) ==
    /\ proved'  = IF evidence THEN proved \cup {<<a, e>>} ELSE proved
    /\ carried' = IF evidence THEN carried \ {<<a, e>>} ELSE carried

\* What makes an address count as verified for an account: it was proved, or
\* an update put it in the place of another while the account had proved one.
Earned(p, c, a, e) ==
    \/ <<a, e>> \in p
    \/ <<a, e>> \in c /\ \E f \in Email \cup {None} : <<a, f>> \in p

Unearned(a, who) == IF who.verified \/ Earned(proved, carried, a, who.email) THEN {} ELSE {who.identity}

Bind(i, a) == owner' = IF i = None THEN owner ELSE [owner EXCEPT ![i] = a]

Answer(r) == req' = [req EXCEPT ![r] = Idle]

Init ==
    /\ rows = NoRows
    /\ owner = [i \in Identity |-> None]
    /\ guests = {}
    /\ admins = {}
    /\ req = [r \in Requests |-> Idle]
    /\ first = None
    /\ hookLost = {}
    /\ proved = {} /\ carried = {}
    /\ stray = {}

----------------------------------------------------------------------------
(* Creating an account *)

\* Mutant: the count is expected to include the new account.
CountsAsFirstOwn == Cardinality(exist) = 1

\* isFirst: SELECT count(*) FROM user_accounts is zero.
CountsAsFirst == exist = {}

\* Register after its checks: the transaction begins with the count.
RegisterCount(r, e) ==
    /\ req[r] = Idle
    /\ req' = [req EXCEPT ![r] =
                 [pc |-> "create", isFirst |-> CountsAsFirst,
                  who |-> [identity |-> None, email |-> e, verified |-> FALSE]]]
    /\ UNCHANGED <<rows, owner, guests, admins, history>>

\* autoCreate: its own count.
AutoCount(r) ==
    /\ req[r].pc = "count"
    /\ req' = [req EXCEPT ![r] =
                 [pc |-> "create", isFirst |-> CountsAsFirst, who |-> req[r].who]]
    /\ UNCHANGED <<rows, owner, guests, admins, history>>

\* The inserts of Register and autoCreate and the commit; a unique violation
\* rolls everything back.  The first user's hook comes after the commit.
CreateCommit(r) ==
    /\ req[r].pc = "create"
    /\ LET who == req[r].who IN
         IF EmailFree(who.email, None) /\ IdentityFree(who.identity)
         THEN \E a \in Account \ exist :
                /\ Write(a, [email |-> who.email, verified |-> who.verified])
                /\ Proves(a, who.email, who.verified)
                /\ Bind(who.identity, a)
                /\ first' = IF exist = {} THEN a ELSE first
                /\ req' = [req EXCEPT ![r] =
                             IF req[r].isFirst THEN [pc |-> "hook", account |-> a] ELSE Idle]
         ELSE Answer(r) /\ UNCHANGED <<rows, owner, first, proved, carried>>
    /\ UNCHANGED <<guests, admins, hookLost, stray>>

\* Register's commit, and autoCreate's, which inserts the identity as well.
RegisterCommit(r) == req[r].pc = "create" /\ req[r].who.identity = None /\ CreateCommit(r)

autoCreate(r) == req[r].pc = "create" /\ req[r].who.identity # None /\ CreateCommit(r)

\* The hook grants the wildcard, in a transaction of its own.
firstUserHook(r) ==
    /\ req[r].pc = "hook"
    /\ admins' = admins \cup {req[r].account}
    /\ Answer(r)
    /\ UNCHANGED <<rows, owner, guests, history>>

\* UserAccountService.Create: one transaction, no hook.  It needs an
\* authorized caller, so there is an account already.
Create(e) ==
    /\ exist # {}
    /\ EmailFree(e, None)
    /\ \E a \in Account \ exist : Write(a, [email |-> e, verified |-> FALSE])
    /\ UNCHANGED <<owner, guests, admins, req, history>>

\* Mutant: the token's transaction commits without the account's.
CreateTokenAlone ==
    /\ \E a \in Account \ exist : guests' = guests \cup {a}
    /\ UNCHANGED <<rows, owner, admins, req, history>>

\* CreateAnonymousUser: a row with a NULL email and its anon_tokens row.
CreateAnonymousUser ==
    /\ \E a \in Account \ exist : /\ Write(a, [email |-> None, verified |-> FALSE])
                                  /\ guests' = guests \cup {a}
    /\ UNCHANGED <<owner, admins, req, history>>

----------------------------------------------------------------------------
(* Resolve *)

\* Branch 1 returns the account of a known identity and changes no modelled
\* state.  Otherwise the email is looked up next, or with no email claim the
\* account is created.
ResolveIdentity(r, who) ==
    /\ req[r] = Idle
    /\ owner[who.identity] = None
    /\ req' = [req EXCEPT ![r] =
                 [pc |-> IF who.email = None THEN "count" ELSE "lookup", who |-> who]]
    /\ UNCHANGED <<rows, owner, guests, admins, history>>

\* Branches 2, 3 and 4 for an account found by its email.
Branch(a, who) ==
    IF rows[a].verified THEN "link" ELSE IF who.verified THEN "verify" ELSE "refuse"

ResolveEmail(r) ==
    /\ req[r].pc = "lookup"
    /\ LET who == req[r].who IN
         \/ \E a \in HasEmail(who.email) :
              req' = [req EXCEPT ![r] =
                        IF Branch(a, who) = "refuse" THEN Idle
                        ELSE [pc |-> Branch(a, who), who |-> who, account |-> a]]
         \/ /\ HasEmail(who.email) = {}
            /\ req' = [req EXCEPT ![r] = [pc |-> "count", who |-> who]]
    /\ UNCHANGED <<rows, owner, guests, admins, history>>

\* linkIdentity, branch 2.
linkIdentity(r) ==
    /\ req[r].pc = "link"
    /\ IF IdentityFree(req[r].who.identity)
       THEN /\ Bind(req[r].who.identity, req[r].account)
            /\ stray' = stray \cup Unearned(req[r].account, req[r].who)
       ELSE UNCHANGED <<owner, stray>>
    /\ Answer(r)
    /\ UNCHANGED <<rows, guests, admins, first, hookLost, proved, carried>>

\* verifyAndLink, branch 3: writes the email it looked up back.
verifyAndLink(r) ==
    /\ req[r].pc = "verify"
    /\ LET who == req[r].who
           a   == req[r].account
       IN  IF IdentityFree(who.identity) /\ EmailFree(who.email, a)
           THEN /\ Write(a, [email |-> who.email, verified |-> TRUE])
                /\ Proves(a, who.email, who.verified)
                /\ Bind(who.identity, a)
                /\ stray' = stray \cup Unearned(a, who)
           ELSE UNCHANGED <<rows, owner, proved, carried, stray>>
    /\ Answer(r)
    /\ UNCHANGED <<guests, admins, first, hookLost>>

----------------------------------------------------------------------------
(* UserAccountService.Update and the verify_email purpose *)

\* authorizeUserAccount loads the row; e = None when the input names no email.
UpdateRead(r, a, e) ==
    /\ req[r] = Idle
    /\ a \in exist
    /\ req' = [req EXCEPT ![r] =
                 [pc |-> "update", account |-> a, email |-> e, seen |-> rows[a]]]
    /\ UNCHANGED <<rows, owner, guests, admins, history>>

\* Mutant: an upgraded guest keeps the continuity token.
UpgradedNone(seen, e) == FALSE

\* wasAnonymous && nowHasEmail.
Upgraded(seen, e) == seen.email = None /\ e # None

\* UpdateUserAccount sets both columns: the new or the loaded email, and the
\* loaded email_verified_at, so that a new address that nobody has proved
\* counts as verified.  The upgrade of a guest revokes its token.
UpdateCommit(r) ==
    /\ req[r].pc = "update"
    /\ LET a    == req[r].account
           seen == req[r].seen
           e    == IF req[r].email = None THEN seen.email ELSE req[r].email
           row  == [email |-> e, verified |-> seen.verified]
       IN  IF EmailFree(e, a)
           THEN /\ Write(a, row)
                /\ guests' = IF Upgraded(seen, e) THEN guests \ {a} ELSE guests
                /\ carried' = IF seen.verified /\ req[r].email # None
                               THEN carried \cup ({<<a, e>>} \ proved) ELSE carried
           ELSE UNCHANGED <<rows, guests, carried>>
    /\ Answer(r)
    /\ UNCHANGED <<owner, admins, first, hookLost, proved, stray>>

\* EmailCodeVerify with purpose verify_email: the account is loaded by its
\* email, the code is checked (EmailCodes), and the row is marked.
VerifyRead(r, e) ==
    /\ req[r] = Idle
    /\ \E a \in HasEmail(e) :
         req' = [req EXCEPT ![r] = [pc |-> "mark", account |-> a, email |-> e]]
    /\ UNCHANGED <<rows, owner, guests, admins, history>>

\* Mutant: only email_verified_at is set, on whatever email the row has by now.
MarkCurrent(a, e) ==
    /\ Write(a, [rows[a] EXCEPT !.verified = TRUE])
    /\ Proves(a, e, TRUE)

\* UpdateUserAccount with the email that was loaded.
MarkLoaded(a, e) ==
    /\ Write(a, [email |-> e, verified |-> TRUE])
    /\ Proves(a, e, TRUE)

VerifyMark(r) ==
    /\ req[r].pc = "mark"
    /\ IF EmailFree(req[r].email, req[r].account)
       THEN MarkLoaded(req[r].account, req[r].email)
       ELSE UNCHANGED <<rows, proved, carried>>
    /\ Answer(r)
    /\ UNCHANGED <<owner, guests, admins, first, hookLost, stray>>

----------------------------------------------------------------------------

\* A statement fails, an observer refuses, the client is gone or the process
\* dies: an open transaction is rolled back.  A hook that fails is logged.
Fail(r) ==
    /\ req[r] # Idle
    /\ hookLost' = IF req[r].pc = "hook" THEN hookLost \cup {req[r].account} ELSE hookLost
    /\ Answer(r)
    /\ UNCHANGED <<rows, owner, guests, admins, first, proved, carried, stray>>

Request(r) ==
    \/ \E e \in Email : RegisterCount(r, e) \/ VerifyRead(r, e)
    \/ AutoCount(r) \/ RegisterCommit(r) \/ autoCreate(r) \/ firstUserHook(r)
    \/ \E who \in Principal : ResolveIdentity(r, who)
    \/ ResolveEmail(r) \/ linkIdentity(r) \/ verifyAndLink(r)
    \/ \E a \in Account, e \in Email \cup {None} : UpdateRead(r, a, e)
    \/ UpdateCommit(r)
    \/ VerifyMark(r)
    \/ Fail(r)

Next ==
    \/ \E r \in Requests : Request(r)
    \/ \E e \in Email : Create(e)
    \/ CreateAnonymousUser

Spec == Init /\ [][Next]_vars

----------------------------------------------------------------------------
(* Properties *)

TypeOK ==
    /\ exist \subseteq Account
    /\ rows \in [exist -> Row]
    /\ owner \in [Identity -> Account \cup {None}]
    /\ guests \subseteq exist
    /\ admins \subseteq exist
    /\ req \in [Requests -> Looking \cup Joining \cup Creating \cup Hooking
                            \cup Updating \cup Marking \cup {Idle}]
    /\ first \in Account \cup {None}
    /\ hookLost \subseteq Account
    /\ proved \subseteq Account \X (Email \cup {None})
    /\ carried \subseteq Account \X (Email \cup {None})
    /\ stray \subseteq Identity

\* A fresh database gets its administrator: the account committed first, if it
\* registered or came from a provider, has the wildcard grant, is about to get
\* it, or its hook failed; however many registrations ran at the same time.
FirstIsAdmin ==
    first # None =>
        \/ first \in admins \cup hookLost
        \/ \E r \in Requests : req[r].pc = "hook" /\ req[r].account = first

\* No race between verifying, updating and resolving makes an address count as
\* verified that was neither proved for that account nor put there by an
\* update; and the resolver links an identity whose email its provider does not
\* vouch for (ErrUnverifiedTakeover) only through an address earned in that way,
\* however stale its lookup.
VerifiedWasEarned ==
    /\ \A a \in exist : rows[a].verified => Earned(proved, carried, a, rows[a].email)
    /\ stray = {}

\* A continuity token opens guest accounts only: no order of updates gives an
\* account an email and leaves its token.
TokensAreForGuests == \A a \in guests : rows[a].email = None

\* UpdateUserAccountInput's comment: nil fields are left unchanged.
NilLeftUnchanged ==
    [][\A r \in Requests : req[r].pc = "update" /\ req[r].email = None /\ req'[r] = Idle =>
          rows' = rows]_vars

----------------------------------------------------------------------------
(* The inductive invariant *)

\* The accounts that requests hold exist: rows are never deleted.
Known ==
    \A r \in Requests :
        req[r].pc \in {"link", "verify", "hook", "update", "mark"} => req[r].account \in exist

\* While the table is empty, every open creation has counted zero.
Early == exist = {} => \A r \in Requests : req[r].pc = "create" => req[r].isFirst

\* What the resolver and an update go on with was earned when they read it.
Vouched ==
    \A r \in Requests :
        /\ req[r].pc = "link" => Earned(proved, carried, req[r].account, req[r].who.email)
        /\ req[r].pc = "verify" => req[r].who.verified
        /\ req[r].pc = "update" /\ req[r].seen.verified => Earned(proved, carried, req[r].account, req[r].seen.email)

\* A request that will write an email into a guest's row saw that it had none;
\* requests that look or looked their account up by email hold no guest.
GuestsSeen ==
    \A r \in Requests :
        /\ req[r].pc = "lookup" => req[r].who.email # None
        /\ req[r].pc = "update" /\ req[r].account \in guests => req[r].seen.email = None
        /\ req[r].pc \in {"verify", "mark"} => req[r].account \notin guests

IInv == /\ TypeOK /\ Known /\ Early /\ Vouched /\ GuestsSeen
        /\ FirstIsAdmin /\ VerifiedWasEarned /\ TokensAreForGuests
=============================================================================
