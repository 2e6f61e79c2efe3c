----------------------- MODULE Administration_proofs -----------------------
(***************************************************************************)
(* Proofs about Authz and Administration for any registry of operations    *)
(* and types, any groups, grants and memberships, and any number of        *)
(* concurrent requests.                                                    *)
(***************************************************************************)
EXTENDS Administration, TLAPS

\* The types that the arguments need.
Typed ==
    /\ TablesOK
    /\ exist \subseteq Account
    /\ assumed \subseteq Session
    /\ trail \subseteq Account \X Account
    /\ req \in [Requests -> [pc: {"idle", "create"}]
                 \cup [pc: {"grant", "revoke", "assume"}, session: Session, account: Account]
                 \cup [pc: {"assign", "roles", "remove"}, app: App, account: Account, role: Role]]
    /\ members \in [App \X Account -> Role \cup {None}]

\* Every present holder of administration is on record; a session is led by
\* audit entries to the account that it acts for, and so is one whose request
\* is still in flight; a request to grant administration was authorised for a
\* holder.
Traced ==
    /\ Holders \subseteq held
    /\ \A s \in assumed : Leads(trail, s.person, s.sudo) /\ s.sudo # None
    /\ \A r \in Requests : req[r].pc \in {"grant", "revoke", "assume"} =>
          Leads(trail, req[r].session.person, effectiveActor(req[r].session))
    /\ \A r \in Requests : req[r].pc = "grant" => effectiveActor(req[r].session) \in held
    /\ \A m \in made : Leads(trail, m.person, m.as) /\ m.as \in held

----------------------------------------------------------------------------
(* Chains *)

\* A larger seed reaches no less: TargetChain is monotone in its seed.
LEMMA ChainMonotone ==
    ASSUME NEW M \in SUBSET Member, NEW A, NEW B, A \subseteq B
    PROVE  Chain(M, A) \subseteq Chain(M, B)
<1>1. ASSUME NEW g \in Chain(M, A), g \notin B
      PROVE  g \in Chain(M, B)
  <2>1. g \in Group /\ \A S \in SUBSET Group : Closed(M, A \cup S) => g \in S
    BY <1>1 DEF Chain
  <2>2. ASSUME NEW S \in SUBSET Group, Closed(M, B \cup S)
        PROVE  g \in S
    <3> DEFINE T == (S \cup B) \cap Group
    <3>1. Closed(M, A \cup T)
      BY <2>2 DEF Closed, Member
    <3>2. g \in T
      BY <2>1, <3>1
    <3> QED
      BY <1>1, <3>2
  <2> QED
    BY <2>1, <2>2 DEF Chain
<1>2. B \subseteq Chain(M, B)
  BY DEF Chain
<1> QED
  BY <1>1, <1>2

\* What is neither in the seed nor a group is in no chain.
LEMMA ChainBounded ==
    ASSUME NEW M, NEW A, NEW e, e \notin A, e \notin Group
    PROVE  e \notin Chain(M, A)
BY DEF Chain

----------------------------------------------------------------------------
(* Decisions *)

\* A type-level permission covers every instance of exactly that type: the
\* two entry points, one walking from the type and one from the instance,
\* never disagree (the "instance semantics" of Authorize).
LEMMA TypeCoversInstances ==
    ASSUME TablesOK, NEW actor \in Entity, NEW op \in Operation,
           NEW e \in Entity \ TypeEntities,
           AuthorizeType(actor, op, ExactType[e])
    PROVE  Authorize(actor, op, e)
<1>1. e # None /\ actor # None
  BY AuthzAssumption
<1>2. CASE authorizePrelude(grants, actor, op)
  BY <1>1, <1>2 DEF Authorize, AuthorizeOver
<1>3. CASE checkTypeGrant(grants, actor, SatisfiedBy[op], ExactType[e])
  <2>1. {TypeEntity[ExactType[e]]} \subseteq Seed(e)
    BY DEF Seed
  <2>2. Chain(targetMembers, {TypeEntity[ExactType[e]]}) \subseteq Chain(targetMembers, Seed(e))
    BY <2>1, ChainMonotone DEF TablesOK
  <2>3. Granted(grants, actor, SatisfiedBy[op], Seed(e))
    BY <1>3, <2>2 DEF checkTypeGrant, Granted
  <2> QED
    BY <1>1, <2>3 DEF Authorize, AuthorizeOver, checkGrantOrOwn
<1> QED
  BY <1>2, <1>3 DEF AuthorizeType

\* What satisfies one set of operations satisfies a larger one.
LEMMA OperationsMonotone ==
    ASSUME NEW actor, NEW target, NEW o1 \in Operation, NEW o2 \in Operation,
           SatisfiedBy[o1] \subseteq SatisfiedBy[o2], Authorize(actor, o1, target)
    PROVE  Authorize(actor, o2, target)
BY DEF Authorize, AuthorizeOver, authorizePrelude, checkWildcardGrant, checkGrantOrOwn, Granted

\* Grants on the sentinel's entity decide nothing about other type entities:
\* the chain from a type entity has only groups besides itself.
LEMMA SentinelLemma == SentinelPowerless
<1> DEFINE rest == {g \in grants : g.target # TypeEntity[Sentinel]}
<1>1. SUFFICES ASSUME NEW actor \in Entity, NEW op \in Operation,
                      NEW e \in TypeEntities \ {TypeEntity[Sentinel]},
                      Authorize(actor, op, e)
               PROVE  AuthorizeOver(rest, actor, op, e)
  BY DEF SentinelPowerless
<1>2. /\ TypeEntity[Sentinel] \notin Group
      /\ TypeEntity[Sentinel] # None
      /\ e # None /\ actor # None
  BY AuthzAssumption DEF TypeEntities
<1>3. Seed(e) = {e}
  BY DEF Seed
<1>4. TypeEntity[Sentinel] \notin Chain(targetMembers, Seed(e))
  BY <1>2, <1>3, ChainBounded
<1>5. CASE authorizePrelude(grants, actor, op)
  <2>1. \A g \in grants : g.target = None => g \in rest
    BY <1>2
  <2> HIDE DEF rest
  <2> QED
    BY <1>2, <1>5, <2>1 DEF AuthorizeOver, authorizePrelude, checkWildcardGrant
<1>6. CASE checkGrantOrOwn(grants, actor, SatisfiedBy[op], e)
  <2>1. \A g \in grants : g.target \in Chain(targetMembers, Seed(e)) => g \in rest
    BY <1>4
  <2> HIDE DEF rest
  <2> QED
    BY <1>2, <1>6, <2>1 DEF AuthorizeOver, checkGrantOrOwn, Granted
<1> QED
  BY <1>1, <1>5, <1>6 DEF Authorize, AuthorizeOver

\* A grant on the entity of a type decides nothing about what has another
\* exact type, through whatever groups: no chain leads to that entity.
LEMMA ExactTypeOnly ==
    ASSUME NEW actor \in Entity, NEW op \in Operation, NEW t \in Type,
           NEW e \in Entity \ TypeEntities, ExactType[e] # t,
           Authorize(actor, op, e)
    PROVE  AuthorizeOver({g \in grants : g.target # TypeEntity[t]}, actor, op, e)
<1> DEFINE rest == {g \in grants : g.target # TypeEntity[t]}
<1>1. /\ TypeEntity[t] \in TypeEntities /\ TypeEntity[t] \notin Group
      /\ TypeEntity[t] # None /\ e # None /\ actor # None
  BY AuthzAssumption DEF TypeEntities
<1>2. TypeEntity[t] \notin Seed(e)
  BY <1>1, AuthzAssumption DEF Seed
<1>3. TypeEntity[t] \notin Chain(targetMembers, Seed(e))
  BY <1>1, <1>2, ChainBounded
<1>4. CASE authorizePrelude(grants, actor, op)
  <2>1. \A g \in grants : g.target = None => g \in rest
    BY <1>1
  <2> HIDE DEF rest
  <2>2. AuthorizeOver(rest, actor, op, e)
    BY <1>1, <1>4, <2>1 DEF AuthorizeOver, authorizePrelude, checkWildcardGrant
  <2> QED
    BY <2>2 DEF rest
<1>5. CASE checkGrantOrOwn(grants, actor, SatisfiedBy[op], e)
  <2>1. \A g \in grants : g.target \in Chain(targetMembers, Seed(e)) => g \in rest
    BY <1>3
  <2> HIDE DEF rest
  <2>2. AuthorizeOver(rest, actor, op, e)
    BY <1>1, <1>5, <2>1 DEF AuthorizeOver, checkGrantOrOwn, Granted
  <2> QED
    BY <2>2 DEF rest
<1> QED
  BY <1>4, <1>5 DEF Authorize, AuthorizeOver

\* What a grant on the type natural_person is worth.
LEMMA PersonLemma ==
    ASSUME Typed
    PROVE  PersonGrantsExact
<1>0. SUFFICES ASSUME NEW actor \in exist, NEW u \in exist
               PROVE  IF ExactType[u] = Person
                      THEN /\ MayList(actor) => MayGet(actor, u)
                           /\ AuthorizeType(actor, Manage, Person) => Authorize(actor, "assume", u)
                      ELSE MayGet(actor, u) =>
                             AuthorizeOver({g \in grants : g.target # TypeEntity[Person]}, actor, "read", u)
  BY DEF PersonGrantsExact
<1>1. /\ actor \in Entity
      /\ u \in Entity \ TypeEntities
      /\ Person \in Type /\ "list" \in Operation /\ "read" \in Operation /\ "assume" \in Operation
  BY AdministrationAssumption DEF Typed
<1>2. ASSUME ExactType[u] = Person, MayList(actor)
      PROVE  MayGet(actor, u)
  <2>1. Authorize(actor, "list", u)
    BY <1>1, <1>2, TypeCoversInstances DEF MayList, Typed
  <2>2. Authorize(actor, "read", u)
    BY <1>1, <2>1, OperationsMonotone, AdministrationAssumption
  <2> QED
    BY <2>2 DEF MayGet
<1>3. ASSUME ExactType[u] = Person, AuthorizeType(actor, Manage, Person)
      PROVE  Authorize(actor, "assume", u)
  <2>1. Manage \in Operation
    BY AuthzAssumption
  <2>2. Authorize(actor, Manage, u)
    BY <1>1, <1>3, <2>1, TypeCoversInstances DEF Typed
  <2>3. SatisfiedBy[Manage] \subseteq SatisfiedBy["assume"]
    BY AdministrationAssumption
  <2> QED
    BY <1>1, <2>1, <2>2, <2>3, OperationsMonotone
<1>4. ASSUME ExactType[u] # Person, MayGet(actor, u)
      PROVE  AuthorizeOver({g \in grants : g.target # TypeEntity[Person]}, actor, "read", u)
  BY <1>1, <1>4, ExactTypeOnly DEF MayGet
<1> QED
  BY <1>2, <1>3, <1>4

----------------------------------------------------------------------------
(* The audit trail *)

\* Everybody is led to itself.
LEMMA LeadsSelf ==
    ASSUME NEW t, NEW a
    PROVE  Leads(t, a, a)
BY DEF Leads

\* A longer trail leads no less far.
LEMMA LeadsMonotone ==
    ASSUME NEW t, NEW u, t \subseteq u, NEW a, NEW b, Leads(t, a, b)
    PROVE  Leads(u, a, b)
BY DEF Leads, Closed

\* An entry leads one step further.
LEMMA LeadsOn ==
    ASSUME NEW t, NEW a, NEW b, NEW c, Leads(t, a, b)
    PROVE  Leads(t \cup {<<b, c>>}, a, c)
<1>1. ASSUME NEW S \in SUBSET Account, a \in S, Closed(t \cup {<<b, c>>}, S)
      PROVE  c \in S
  <2>1. Closed(t, S)
    BY <1>1 DEF Closed
  <2>2. b \in S
    BY <1>1, <2>1 DEF Leads
  <2>3. <<b, c>> \in t \cup {<<b, c>>} /\ <<b, c>>[1] = b /\ <<b, c>>[2] = c
    OBVIOUS
  <2> QED
    BY <1>1, <2>2, <2>3 DEF Closed
<1> QED
  BY <1>1 DEF Leads

----------------------------------------------------------------------------
(* The invariants *)

\* The session of a request belongs to accounts, and is led to its actor.
LEMMA SessionLemma ==
    ASSUME Typed, Traced, NEW s \in Sessions
    PROVE  /\ s \in Session
           /\ effectiveActor(s) \in Account /\ effectiveActor(s) \in Entity
           /\ Leads(trail, s.person, effectiveActor(s))
<1>0. None \notin Account /\ Account \subseteq Entity
  BY AuthzAssumption, AdministrationAssumption
<1>1. CASE s \in assumed
  <2>1. s.sudo # None /\ Leads(trail, s.person, s.sudo) /\ s \in Session
    BY <1>1 DEF Traced, Typed
  <2> QED
    BY <1>0, <2>1 DEF effectiveActor, Session
<1>2. ASSUME NEW u \in exist, s = Login(u)
      PROVE  /\ s \in Session
             /\ effectiveActor(s) \in Account /\ effectiveActor(s) \in Entity
             /\ Leads(trail, s.person, effectiveActor(s))
  <2>1. s.person = u /\ effectiveActor(s) = u /\ u \in Account
    BY <1>2 DEF Login, effectiveActor, Typed
  <2>2. s \in Session
    BY <1>2, <2>1 DEF Login, Session
  <2> QED
    BY <1>0, <2>1, <2>2, LeadsSelf
<1> QED
  BY <1>1, <1>2 DEF Sessions

\* Each step keeps the types.
LEMMA TypedStep ==
    ASSUME Typed, Traced, [Next]_vars
    PROVE  Typed'
<1> USE DEF Typed, TablesOK
<1>0. /\ Account \subseteq Entity /\ Admin \in Account /\ None \notin Entity
      /\ \A u \in Account : Wildcard(u) \in Grant
  BY AuthzAssumption, AdministrationAssumption DEF Wildcard, Grant
<1>1. ASSUME NEW r \in Requests, NEW s \in Sessions, NEW u \in Account,
             GrantAdmin(r, s, u) \/ RevokeAdmin(r, s, u) \/ Assume(r, s, u)
      PROVE  Typed'
  <2>1. s \in Session
    BY SessionLemma
  <2> QED
    BY <1>1, <2>1 DEF GrantAdmin, RevokeAdmin, Assume, Begin, tables
<1>2. ASSUME NEW r \in Requests, NEW s \in Sessions, Create(r, s)
      PROVE  Typed'
  BY <1>2 DEF Create, Begin, tables
<1>3. ASSUME NEW r \in Requests, NEW s \in Sessions, NEW op \in {"assign", "roles", "remove"},
             NEW app \in App, NEW u \in Enrolled, NEW role \in Role,
             Membership(r, s, op, app, u, role)
      PROVE  Typed'
  BY <1>3, AdministrationAssumption DEF Membership, Begin, tables
<1>4. ASSUME NEW r \in Requests, CreateWildcardGrant(r) \/ DeleteWildcardGrant(r)
      PROVE  Typed'
  <2>1. req[r].account \in Account
    BY <1>4 DEF CreateWildcardGrant, DeleteWildcardGrant
  <2>2. grants' \subseteq Grant
    BY <1>0, <1>4, <2>1 DEF CreateWildcardGrant, DeleteWildcardGrant
  <2> QED
    BY <1>4, <2>2 DEF CreateWildcardGrant, DeleteWildcardGrant, Answer, Idle
<1>5. ASSUME NEW r \in Requests, CreateCommit(r)
      PROVE  Typed'
  BY <1>0, <1>5 DEF CreateCommit, Answer, Idle
<1>6. ASSUME NEW r \in Requests, MembershipWrite(r)
      PROVE  Typed'
  <2>1. /\ req[r].app \in App /\ req[r].account \in Account /\ req[r].role \in Role
    BY <1>6 DEF MembershipWrite
  <2>2. members' \in [App \X Account -> Role \cup {None}]
    BY <1>6, <2>1 DEF MembershipWrite, AssignUserAccountToApp, SetAppUserAccountRoles,
                      RemoveUserAccountFromApp
  <2> QED
    BY <1>6, <2>2 DEF MembershipWrite, Answer, Idle, tables
<1>7. ASSUME NEW r \in Requests, AssumeCommit(r)
      PROVE  Typed'
  <2>1. req[r].session \in Session /\ req[r].account \in Account
    BY <1>7 DEF AssumeCommit
  <2>2. effectiveActor(req[r].session) \in Account
    BY <2>1 DEF Session, effectiveActor
  <2>3. AssumeToken(req[r].session, req[r].account) \in Session
    BY <2>1, <2>2 DEF AssumeToken, Session
  <2>4. assumed' \subseteq Session /\ trail' \subseteq Account \X Account
    BY <1>7, <2>1, <2>2, <2>3 DEF AssumeCommit, ObserveAndSign
  <2> QED
    BY <1>7, <2>4 DEF AssumeCommit, Answer, Idle, tables
<1>8. CASE Outside
  BY <1>8, AdministrationAssumption DEF Outside
<1>9. CASE UNCHANGED vars
  BY <1>9 DEF vars, tables
<1> QED
  BY <1>1, <1>2, <1>3, <1>4, <1>5, <1>6, <1>7, <1>8, <1>9 DEF Next

\* Manage without a target is decided by wildcard grants alone.
LEMMA OnlyHoldersGrant ==
    ASSUME NEW s, effectiveActor(s) \in Entity, MayGrant(s)
    PROVE  effectiveActor(s) \in Holders
BY DEF MayGrant, Authorize, AuthorizeOver, Holders

\* Fewer grants, fewer holders.
LEMMA HoldersMonotone ==
    ASSUME grants' \subseteq grants, actorMembers' = actorMembers
    PROVE  Holders' \subseteq Holders
BY DEF Holders, authorizePrelude, checkWildcardGrant, ActorChain, Chain, Closed

\* What the trace says of all but the requests, when the tables give nobody
\* administration and the history is as it was.
LEMMA SettledStep ==
    ASSUME Traced, grants' \subseteq grants,
           UNCHANGED <<actorMembers, assumed, trail, held, made>>
    PROVE  /\ Holders' \subseteq held'
           /\ \A s \in assumed' : Leads(trail', s.person, s.sudo) /\ s.sudo # None
           /\ \A m \in made' : Leads(trail', m.person, m.as) /\ m.as \in held'
           /\ \A a, b : Leads(trail, a, b) => Leads(trail', a, b)
BY HoldersMonotone, LeadsMonotone DEF Traced

\* A request that is answered leaves the others' claims.
LEMMA AnswerStep ==
    ASSUME Typed, Traced, NEW r \in Requests, Answer(r), held \subseteq held', trail \subseteq trail'
    PROVE  /\ \A q \in Requests : req'[q].pc \in {"grant", "revoke", "assume"} =>
                Leads(trail', req'[q].session.person, effectiveActor(req'[q].session))
           /\ \A q \in Requests : req'[q].pc = "grant" => effectiveActor(req'[q].session) \in held'
<1>1. \A q \in Requests : \/ req'[q] = Idle
                          \/ req'[q] = req[q]
  BY DEF Answer, Typed
<1>2. Idle.pc = "idle"
  BY DEF Idle
<1>3. \A a, b : Leads(trail, a, b) => Leads(trail', a, b)
  BY LeadsMonotone
<1>4. ASSUME NEW q \in Requests, req'[q].pc \in {"grant", "revoke", "assume"}
      PROVE  Leads(trail', req'[q].session.person, effectiveActor(req'[q].session))
  <2>1. req'[q] = req[q]
    BY <1>1, <1>2, <1>4
  <2>2. Leads(trail, req[q].session.person, effectiveActor(req[q].session))
    BY <1>4, <2>1 DEF Traced
  <2>3. trail \subseteq trail'
    OBVIOUS
  <2> QED
    BY <2>1, <2>2, <2>3, LeadsMonotone
<1>5. ASSUME NEW q \in Requests, req'[q].pc = "grant"
      PROVE  effectiveActor(req'[q].session) \in held'
  BY <1>1, <1>2, <1>5 DEF Traced
<1> QED
  BY <1>4, <1>5

\* Each step keeps the trace.
LEMMA TracedStep ==
    ASSUME Typed, Traced, [Next]_vars
    PROVE  Traced'
<1>1. ASSUME NEW r \in Requests, NEW s \in Sessions, NEW u, NEW op \in {"grant", "revoke", "assume"},
             Begin(r, [pc |-> op, session |-> s, account |-> u]),
             op = "grant" => MayGrant(s)
      PROVE  Traced'
  <2>1. effectiveActor(s) \in Entity /\ Leads(trail, s.person, effectiveActor(s))
    BY SessionLemma
  <2>2. op = "grant" => effectiveActor(s) \in held
    BY <1>1, <2>1, OnlyHoldersGrant DEF Traced
  <2>3. UNCHANGED <<grants, actorMembers, assumed, trail, held, made>>
    BY <1>1 DEF Begin, tables
  <2>4. \A q \in Requests : \/ req'[q] = [pc |-> op, session |-> s, account |-> u]
                            \/ req'[q] = req[q]
    BY <1>1 DEF Begin, Typed
  <2>5. ASSUME NEW q \in Requests, req'[q].pc \in {"grant", "revoke", "assume"}
        PROVE  /\ Leads(trail', req'[q].session.person, effectiveActor(req'[q].session))
               /\ req'[q].pc = "grant" => effectiveActor(req'[q].session) \in held'
    <3>1. CASE req'[q] = [pc |-> op, session |-> s, account |-> u]
      <4>1. req'[q].session = s /\ req'[q].pc = op
        BY <3>1
      <4> QED
        BY <2>1, <2>2, <2>3, <4>1
    <3>2. CASE req'[q] = req[q]
      <4>1. /\ Leads(trail, req[q].session.person, effectiveActor(req[q].session))
            /\ req[q].pc = "grant" => effectiveActor(req[q].session) \in held
        BY <2>5, <3>2 DEF Traced
      <4> QED
        BY <2>3, <3>2, <4>1
    <3> QED
      BY <2>4, <3>1, <3>2
  <2> QED
    BY <2>3, <2>5, SettledStep DEF Traced
<1>2. ASSUME NEW r \in Requests, NEW next, Begin(r, next),
             next.pc \notin {"grant", "revoke", "assume"}
      PROVE  Traced'
  <2>1. UNCHANGED <<grants, actorMembers, assumed, trail, held, made>>
    BY <1>2 DEF Begin, tables
  <2>2. \A q \in Requests : req'[q] = next \/ req'[q] = req[q]
    BY <1>2 DEF Begin, Typed
  <2>3. ASSUME NEW q \in Requests, req'[q].pc \in {"grant", "revoke", "assume"}
        PROVE  /\ Leads(trail', req'[q].session.person, effectiveActor(req'[q].session))
               /\ req'[q].pc = "grant" => effectiveActor(req'[q].session) \in held'
    <3>1. req'[q] = req[q]
      BY <1>2, <2>2, <2>3
    <3>2. /\ Leads(trail, req[q].session.person, effectiveActor(req[q].session))
          /\ req[q].pc = "grant" => effectiveActor(req[q].session) \in held
      BY <2>3, <3>1 DEF Traced
    <3> QED
      BY <2>1, <3>1, <3>2
  <2> QED
    BY <2>1, <2>3, SettledStep DEF Traced
<1>3. ASSUME NEW r \in Requests, CreateWildcardGrant(r)
      PROVE  Traced'
  <2> DEFINE new == [person |-> req[r].session.person, as |-> effectiveActor(req[r].session)]
  <2>1. /\ Leads(trail, new.person, new.as) /\ new.as \in held
    BY <1>3 DEF CreateWildcardGrant, Traced
  <2>2. /\ made' = made \cup {new} /\ held \subseteq held' /\ Holders' \subseteq held'
        /\ UNCHANGED <<assumed, trail>> /\ Answer(r)
    BY <1>3 DEF CreateWildcardGrant
  <2>3. \A a, b : Leads(trail, a, b) => Leads(trail', a, b)
    BY <2>2, LeadsMonotone
  <2> HIDE DEF new
  <2>4. \A m \in made' : Leads(trail', m.person, m.as) /\ m.as \in held'
    BY <2>1, <2>2, <2>3 DEF Traced
  <2>5. \A s \in assumed' : Leads(trail', s.person, s.sudo) /\ s.sudo # None
    BY <2>2, <2>3 DEF Traced
  <2> QED
    BY <2>2, <2>4, <2>5, AnswerStep DEF Traced
<1>4. ASSUME NEW r \in Requests, DeleteWildcardGrant(r) \/ CreateCommit(r) \/ MembershipWrite(r)
      PROVE  Traced'
  <2>1. /\ grants' \subseteq grants /\ Answer(r)
        /\ UNCHANGED <<actorMembers, assumed, trail, held, made>>
    BY <1>4 DEF DeleteWildcardGrant, CreateCommit, MembershipWrite, tables, history
  <2> QED
    BY <2>1, SettledStep, AnswerStep DEF Traced
<1>5. ASSUME NEW r \in Requests, AssumeCommit(r)
      PROVE  Traced'
  <2>1. /\ UNCHANGED <<grants, actorMembers, held, made>> /\ Answer(r)
        /\ trail \subseteq trail'
    BY <1>5 DEF AssumeCommit, ObserveAndSign, tables, history
  <2>2. Holders' \subseteq held'
    BY <2>1, HoldersMonotone DEF Traced
  <2>3. \A a, b : Leads(trail, a, b) => Leads(trail', a, b)
    BY <2>1, LeadsMonotone
  <2>4. \A m \in made' : Leads(trail', m.person, m.as) /\ m.as \in held'
    BY <2>1, <2>3 DEF Traced
  <2>5. ASSUME NEW s \in assumed', s \notin assumed
        PROVE  Leads(trail', s.person, s.sudo) /\ s.sudo # None
    <3>1. /\ s = AssumeToken(req[r].session, req[r].account)
          /\ trail' = trail \cup {<<effectiveActor(req[r].session), req[r].account>>}
      BY <1>5, <2>5 DEF AssumeCommit, ObserveAndSign
    <3>2. Leads(trail, req[r].session.person, effectiveActor(req[r].session))
      BY <1>5 DEF AssumeCommit, Traced
    <3>3. Leads(trail', req[r].session.person, req[r].account)
      BY <3>1, <3>2, LeadsOn
    <3>4. req[r].account # None
      BY <1>5, AuthzAssumption, AdministrationAssumption DEF AssumeCommit, Typed
    <3>5. s.person = req[r].session.person /\ s.sudo = req[r].account
      BY <3>1 DEF AssumeToken
    <3> QED
      BY <3>3, <3>4, <3>5
  <2>6. \A s \in assumed' : Leads(trail', s.person, s.sudo) /\ s.sudo # None
    BY <2>3, <2>5 DEF Traced
  <2> QED
    BY <2>1, <2>2, <2>4, <2>6, AnswerStep DEF Traced
<1>6. CASE Outside
  <2>1. /\ UNCHANGED <<assumed, trail, req, made>>
        /\ held \subseteq held' /\ Holders' \subseteq held'
    BY <1>6 DEF Outside
  <2>2. \A a, b : Leads(trail, a, b) => Leads(trail', a, b)
    BY <2>1, LeadsMonotone
  <2> QED
    BY <2>1, <2>2 DEF Traced
<1>7. CASE UNCHANGED vars
  <2>1. UNCHANGED <<grants, actorMembers, assumed, trail, held, made, req>>
    BY <1>7 DEF vars, tables, history
  <2> QED
    BY <2>1, SettledStep DEF Traced
<1>8. ASSUME NEW r \in Requests, NEW s \in Sessions, NEW u \in Account,
             GrantAdmin(r, s, u) \/ RevokeAdmin(r, s, u) \/ Assume(r, s, u)
      PROVE  Traced'
  BY <1>1, <1>8 DEF GrantAdmin, RevokeAdmin, Assume
<1>9. ASSUME NEW r \in Requests, NEW s \in Sessions,
             \/ Create(r, s)
             \/ \E op \in {"assign", "roles", "remove"}, app \in App, u \in Enrolled, role \in Role :
                  Membership(r, s, op, app, u, role)
      PROVE  Traced'
  BY <1>2, <1>9 DEF Create, Membership
<1> QED
  BY <1>3, <1>4, <1>5, <1>6, <1>7, <1>8, <1>9 DEF Next

\* The holders at the start are on record, and nobody has assumed anybody.
LEMMA InitInv ==
    ASSUME Init
    PROVE  Typed /\ Traced
<1>1. Typed
  BY AuthzAssumption, AdministrationAssumption
     DEF Init, Typed, TablesOK, Wildcard, Grant, Idle
<1>2. Traced
  BY DEF Init, Traced, Idle
<1> QED
  BY <1>1, <1>2

----------------------------------------------------------------------------
(* The theorems *)

\* The tables hold what their columns allow, administration is held only by
\* those on record, and every session and pending request is led by audit
\* entries to the account that it acts for.
THEOREM Invariance == Spec => [](Typed /\ Traced)
<1>1. Init => Typed /\ Traced
  BY InitInv
<1>2. Typed /\ Traced /\ [Next]_vars => (Typed /\ Traced)'
  BY TypedStep, TracedStep
<1> QED
  BY <1>1, <1>2, PTL DEF Spec

\* In every reachable state of the tables, grants on the sentinel's entity
\* confer nothing over other type entities.
THEOREM SentinelConfersNothing == Spec => []SentinelPowerless
BY SentinelLemma, PTL

\* A grant on the type natural_person covers every account that a person
\* holds, for reading and for assuming, and none that a corporation holds,
\* whatever the groups, grants and accounts.
THEOREM PersonGrantsCoverPersons == Spec => []PersonGrantsExact
<1>1. Typed => PersonGrantsExact
  BY PersonLemma
<1> QED
  BY <1>1, Invariance, PTL

\* The audit entries of Assume lead from the person who signed in to the
\* account acted for, and from whoever brings a wildcard grant about to an
\* account that has held administration, for any nesting of assumptions.
THEOREM AdministrationIsTraced == Spec => []AdministrationTraced
<1>1. Traced => AdministrationTraced
  BY DEF Traced, AdministrationTraced
<1> QED
  BY <1>1, Invariance, PTL
=============================================================================
