--------------------------- MODULE Administration ---------------------------
(***************************************************************************)
(* The administrative endpoints that act on the strength of an Authorizer  *)
(* decision: creating, reading and listing accounts, granting and revoking *)
(* administration, assuming identities, and the members of apps.           *)
(*                                                                         *)
(* Each handler first authorises and then writes, in separate statements:  *)
(* the tables may change in between.  Grants, wildcards among them, and    *)
(* memberships of groups change from outside (the authz module's own       *)
(* endpoints).  An account is held by a person, who owns itself, or by a   *)
(* corporation, which nobody owns.                                         *)
(***************************************************************************)
EXTENDS Authz, Naturals

CONSTANTS
    Account,    \* entities that are, or may become, account holders
    Existing,   \* those that have an account at the start
    Admin,      \* the first user, who holds the wildcard manage grant
    Person,     \* the type natural_person
    App, Role,
    Enrolled,   \* bound: accounts whose membership of apps is changed
    Requests,   \* concurrent requests
    Given, Nested, \* further grants and the memberships at the start
    OutsideGrants, OutsideMembers, \* what may change from outside
    MaxEdits,   \* bound: changes from outside
    MaxRequests \* bound: requests of one history

ASSUME AdministrationAssumption ==
    /\ Account \subseteq Entity \ (Group \cup TypeEntities)
    /\ Existing \subseteq Account /\ Admin \in Existing /\ Enrolled \subseteq Account
    /\ Person \in Type
    /\ None \notin Type
    /\ Given \subseteq Grant /\ OutsideGrants \subseteq Grant
    /\ Nested \subseteq Member /\ OutsideMembers \subseteq Member
    /\ {"create", "list", "read", "update", "assume"} \subseteq Operation
    /\ SatisfiedBy["list"] \subseteq SatisfiedBy["read"]
    /\ SatisfiedBy[Manage] \subseteq SatisfiedBy["assume"]

VARIABLES
    exist,      \* account holders with a row in user_accounts
    members,    \* apps_user_accounts: the roles, or None
    assumed,    \* sessions that Assume has issued tokens for
    trail,      \* audit entries of Assume, as <<sudo_uuid, actor_uuid>>
    req,        \* requests in flight
    \* history, read by guards of bounds and by the properties only
    edits,      \* changes from outside so far
    served,     \* requests begun
    held,       \* who has held a wildcard manage grant so far
    made        \* who brought a wildcard grant about, and in whose name

history == <<edits, served, held, made>>
vars    == <<tables, exist, members, assumed, trail, req, history>>

Idle == [pc |-> "idle"]

\* A session: the subject of its token is the actor, the assumed account the
\* sudo actor.  No token says which person signed in; only properties read it.
Session  == [person: Account, actor: Account, sudo: Account \cup {None}]
Login(u) == [person |-> u, actor |-> u, sudo |-> None]
Sessions == {Login(u) : u \in exist} \cup assumed

Wildcard(u) == [actor |-> u, op |-> Manage, target |-> None]

\* Holders of administration; the registry implies manage by nothing else.
Holders == {u \in Entity : authorizePrelude(grants, u, Manage)}

Init ==
    /\ grants = {Wildcard(Admin)} \cup Given
    /\ actorMembers = Nested /\ targetMembers = Nested
    /\ owner = [e \in Entity |-> IF e \in Existing /\ ExactType[e] = Person THEN e ELSE None]
    /\ exist = Existing
    /\ members = [m \in App \X Account |-> None]
    /\ assumed = {} /\ trail = {}
    /\ req = [r \in Requests |-> Idle]
    /\ edits = 0 /\ served = 0 /\ held = Holders /\ made = {}

----------------------------------------------------------------------------
(* Authorising *)

\* The handler has authorised the caller and looked up what the path names.
Begin(r, next) ==
    /\ req[r] = Idle
    /\ served < MaxRequests
    /\ served' = served + 1
    /\ req' = [req EXCEPT ![r] = next]
    /\ UNCHANGED <<tables, exist, members, assumed, trail, edits, held, made>>

\* grantAdminFn, revokeAdminFn: manage without a target.
MayGrant(s) == Authorize(effectiveActor(s), Manage, None)

GrantAdmin(r, s, u) ==
    /\ Begin(r, [pc |-> "grant", session |-> s, account |-> u])
    /\ u \in exist
    /\ MayGrant(s)

RevokeAdmin(r, s, u) ==
    /\ Begin(r, [pc |-> "revoke", session |-> s, account |-> u])
    /\ u \in exist
    /\ MayGrant(s)

\* UserAccountService.Assume up to its transaction; a person owns itself and
\* so may assume itself.
Assume(r, s, u) ==
    /\ Begin(r, [pc |-> "assume", session |-> s, account |-> u])
    /\ u \in exist
    /\ Authorize(effectiveActor(s), "assume", u)

\* AuthorizeCreate.
Create(r, s) ==
    /\ Begin(r, [pc |-> "create"])
    /\ AuthorizeType(effectiveActor(s), "create", Person)

\* AssignUser, UpdateUserRoles, RemoveUser: update without a target.
Membership(r, s, op, app, u, role) ==
    /\ Begin(r, [pc |-> op, app |-> app, account |-> u, role |-> role])
    /\ Authorize(effectiveActor(s), "update", None)
    /\ u \in exist

----------------------------------------------------------------------------
(* Writing *)

Answer(r) == req' = [req EXCEPT ![r] = Idle]

\* CreateWildcardGrant and DeleteWildcardGrant.
CreateWildcardGrant(r) ==
    /\ req[r].pc = "grant"
    /\ grants' = grants \cup {Wildcard(req[r].account)}
    /\ Answer(r)
    /\ UNCHANGED <<actorMembers, targetMembers, owner, exist, members, assumed, trail, edits, served>>
    /\ held' = held \cup Holders'
    /\ made' = made \cup {[person |-> req[r].session.person, as |-> effectiveActor(req[r].session)]}

DeleteWildcardGrant(r) ==
    /\ req[r].pc = "revoke"
    /\ grants' = grants \ {Wildcard(req[r].account)}
    /\ Answer(r)
    /\ UNCHANGED <<actorMembers, targetMembers, owner, exist, members, assumed, trail, history>>

\* The token of IssueAssumeJWTWithSigner: the effective actor is its subject,
\* so in a session that is itself assumed the first actor is no longer named.
AssumeToken(s, u) == [person |-> s.person, actor |-> effectiveActor(s), sudo |-> u]

\* Mutant: the token is issued although the audit entry was not written.
ObserveBestEffort(r) ==
    /\ trail' \in {trail, trail \cup {<<effectiveActor(req[r].session), req[r].account>>}}
    /\ assumed' = assumed \cup {AssumeToken(req[r].session, req[r].account)}

\* The transaction with the audit entry and, if it commits, the token; the
\* signer may fail.
ObserveAndSign(r) ==
    /\ trail' = trail \cup {<<effectiveActor(req[r].session), req[r].account>>}
    /\ assumed' \in {assumed, assumed \cup {AssumeToken(req[r].session, req[r].account)}}

AssumeCommit(r) ==
    /\ req[r].pc = "assume"
    /\ ObserveAndSign(r) \/ UNCHANGED <<assumed, trail>>
    /\ Answer(r)
    /\ UNCHANGED <<tables, exist, members, history>>

\* The transaction of Create; the new person owns itself.
CreateCommit(r) ==
    /\ req[r].pc = "create"
    /\ \E u \in Account \ exist :
         /\ ExactType[u] = Person
         /\ exist' = exist \cup {u}
         /\ owner' = [owner EXCEPT ![u] = u]
    /\ Answer(r)
    /\ UNCHANGED <<grants, actorMembers, targetMembers, members, assumed, trail, history>>

\* INSERT ... ON CONFLICT DO NOTHING: a member keeps the roles it has.
AssignUserAccountToApp(m, role) ==
    members' = [members EXCEPT ![m] = IF @ = None THEN role ELSE @]

\* UPDATE: no row, no effect, and the handler answers 200 all the same.
SetAppUserAccountRoles(m, role) ==
    members' = [members EXCEPT ![m] = IF @ = None THEN None ELSE role]

RemoveUserAccountFromApp(m) == members' = [members EXCEPT ![m] = None]

MembershipWrite(r) ==
    /\ \/ req[r].pc = "assign"
          /\ AssignUserAccountToApp(<<req[r].app, req[r].account>>, req[r].role)
       \/ req[r].pc = "roles"
          /\ SetAppUserAccountRoles(<<req[r].app, req[r].account>>, req[r].role)
       \/ req[r].pc = "remove"
          /\ RemoveUserAccountFromApp(<<req[r].app, req[r].account>>)
    /\ Answer(r)
    /\ UNCHANGED <<tables, exist, assumed, trail, history>>

----------------------------------------------------------------------------
(* The tables change from outside: grants and memberships. *)

Outside ==
    /\ edits < MaxEdits
    /\ edits' = edits + 1
    /\ \/ \E g \in OutsideGrants :
            /\ grants' \in {grants \cup {g}, grants \ {g}}
            /\ UNCHANGED <<actorMembers, targetMembers>>
       \/ \E m \in OutsideMembers :
            /\ actorMembers' \in {actorMembers \cup {m}, actorMembers \ {m}}
            /\ UNCHANGED <<grants, targetMembers>>
       \/ \E m \in OutsideMembers :
            /\ targetMembers' \in {targetMembers \cup {m}, targetMembers \ {m}}
            /\ UNCHANGED <<grants, actorMembers>>
    /\ UNCHANGED <<owner, exist, members, assumed, trail, req, served, made>>
    /\ held' = held \cup Holders'

Next ==
    \/ \E r \in Requests, s \in Sessions :
         \/ \E u \in Account : GrantAdmin(r, s, u) \/ RevokeAdmin(r, s, u) \/ Assume(r, s, u)
         \/ Create(r, s)
         \/ \E op \in {"assign", "roles", "remove"}, app \in App, u \in Enrolled, role \in Role :
              Membership(r, s, op, app, u, role)
    \/ \E r \in Requests : \/ CreateWildcardGrant(r)
                           \/ DeleteWildcardGrant(r)
                           \/ AssumeCommit(r)
                           \/ CreateCommit(r)
                           \/ MembershipWrite(r)
    \/ Outside

Spec == Init /\ [][Next]_vars

----------------------------------------------------------------------------
(* Reading *)

\* List: list on the type natural_person, whatever the rows.
MayList(actor) == AuthorizeType(actor, "list", Person)

\* Get: read on the account's holder.
MayGet(actor, u) == u \in exist /\ Authorize(actor, "read", u)

\* What a grant on the type natural_person is worth.  Whoever may list the
\* accounts may read each one that a person holds, and whoever may manage the
\* type may assume each of them, administrators and accounts created later
\* included ("effectively full admin", authz.go).  The accounts that List shows
\* beyond those, held by a corporation, may be read only by those who could
\* read them without any grant on that type.
PersonGrantsExact ==
    \A actor, u \in exist :
        IF ExactType[u] = Person
        THEN /\ MayList(actor) => MayGet(actor, u)
             /\ AuthorizeType(actor, Manage, Person) => Authorize(actor, "assume", u)
        ELSE MayGet(actor, u) =>
               AuthorizeOver({g \in grants : g.target # TypeEntity[Person]}, actor, "read", u)

\* From a the entries lead to b.
Leads(entries, a, b) ==
    \A S \in SUBSET Account : a \in S /\ Closed(entries, S) => b \in S

\* Whoever acts in another's name, by however many assumptions one inside the
\* other, is led there by audit entries from the account that signed in, though
\* the token may name only an account on the way; and a wildcard grant that the
\* endpoint makes is led in this way from the person behind it to an account
\* that has held administration ("audit log entries under the assumed identity
\* trace back to the acting admin").
AdministrationTraced ==
    /\ \A s \in assumed : Leads(trail, s.person, s.sudo)
    /\ \A m \in made : Leads(trail, m.person, m.as) /\ m.as \in held

=============================================================================
