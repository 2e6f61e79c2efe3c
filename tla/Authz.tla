------------------------------- MODULE Authz -------------------------------
(***************************************************************************)
(* The grants-table Authorizer: may an actor perform an operation on an    *)
(* entity, or on the resources of a type?  The tables belong to the authz  *)
(* and core modules; every call reads them anew.                           *)
(*                                                                         *)
(* A call is two statements, the wildcard check and, if that fails, the    *)
(* check on the target.  Here they see one snapshot.  An allowed call is   *)
(* allowed by one of the two, hence by the tables of that moment, so no    *)
(* permission is lost by this; a denial that no single moment justifies    *)
(* is not modelled, and it changes nothing.                                *)
(*                                                                         *)
(* A grant without a target is a wildcard.  Actors and targets may be      *)
(* members of groups, and groups of groups, in cycles too.  Each type has  *)
(* an entity of its own, whose exact type is the sentinel.                 *)
(***************************************************************************)
EXTENDS FiniteSets

CONSTANTS
    Entity,         \* entities.id
    Group,          \* those that are actor or target groups
    Type,           \* types.id
    TypeEntity,     \* types.entity_id
    ExactType,      \* entities.fundamental_type_id
    Sentinel,       \* the type of the type entities
    Operation,      \* slugs of the operation registry
    SatisfiedBy,    \* OpReg.SatisfiedBy: the operations that imply each one
    Manage,         \* the operation "manage"
    None

TypeEntities == {TypeEntity[t] : t \in Type}

ASSUME AuthzAssumption ==
    /\ None \notin Entity
    /\ Group \subseteq Entity
    /\ TypeEntity \in [Type -> Entity]
    /\ \A t, u \in Type : TypeEntity[t] = TypeEntity[u] => t = u
    /\ TypeEntities \cap Group = {}
    /\ ExactType \in [Entity -> Type]
    /\ Sentinel \in Type
    /\ \A e \in TypeEntities : ExactType[e] = Sentinel
    /\ Manage \in Operation
    /\ SatisfiedBy \in [Operation -> SUBSET Operation]
    /\ \A op \in Operation : {op, Manage} \subseteq SatisfiedBy[op]

VARIABLES
    grants,         \* grants
    actorMembers,   \* authz_actor_group_members, as <<member, group>>
    targetMembers,  \* authz_target_group_members, as <<member, group>>
    owner           \* entities.owner_id

tables == <<grants, actorMembers, targetMembers, owner>>

Grant  == [actor: Entity, op: Operation, target: Entity \cup {None}]
Member == Entity \X Group

TablesOK ==
    /\ grants \subseteq Grant
    /\ actorMembers \subseteq Member
    /\ targetMembers \subseteq Member
    /\ owner \in [Entity -> Entity \cup {None}]

----------------------------------------------------------------------------
(* The chains.  WITH RECURSIVE ... UNION computes the least set that holds *)
(* the seed and, with each member, its groups.                             *)

Closed(members, S) == \A m \in members : m[1] \in S => m[2] \in S

Chain(members, seed) ==
    seed \cup {g \in Group : \A S \in SUBSET Group :
                   Closed(members, seed \cup S) => g \in S}

ActorChain(actor) == Chain(actorMembers, {actor})

\* Mutants: the target alone; the type entity for type entities too.
SeedAlone(target) == {target}
SeedAll(target)   == {target, TypeEntity[ExactType[target]]}

\* The seed of checkGrantOrOwn's TargetChain: the target and, unless it is a
\* type entity itself, the entity of its exact type.
Seed(target) ==
    {target} \cup IF target \in TypeEntities THEN {}
                  ELSE {TypeEntity[ExactType[target]]}

----------------------------------------------------------------------------
(* The checks, over a set gs of grants *)

\* checkWildcardGrant.
checkWildcardGrant(gs, actor, ops) ==
    \E g \in gs : g.target = None /\ g.op \in ops /\ g.actor \in ActorChain(actor)

\* The EXISTS over grants that checkGrantOrOwn and checkTypeGrant share.
Granted(gs, actor, ops, seed) ==
    \E g \in gs : /\ g.target # None
                  /\ g.op \in ops
                  /\ g.actor \in ActorChain(actor)
                  /\ g.target \in Chain(targetMembers, seed)

\* checkGrantOrOwn: ownership satisfies every operation.
checkGrantOrOwn(gs, actor, ops, target) ==
    Granted(gs, actor, ops, Seed(target)) \/ owner[target] = actor

\* checkTypeGrant: the chain starts at the type's entity, and nobody owns.
checkTypeGrant(gs, actor, ops, type) == Granted(gs, actor, ops, {TypeEntity[type]})

\* effectiveActor: the sudo actor before the actor.
effectiveActor(ctx) == IF ctx.sudo # None THEN ctx.sudo ELSE ctx.actor

\* authorizePrelude: an unregistered operation needs a wildcard manage.
authorizePrelude(gs, actor, op) ==
    checkWildcardGrant(gs, actor,
                       IF op \in Operation THEN SatisfiedBy[op] ELSE SatisfiedBy[Manage])

AuthorizeOver(gs, actor, op, target) ==
    /\ actor # None
    /\ \/ authorizePrelude(gs, actor, op)
       \/ /\ op \in Operation
          /\ target # None
          /\ checkGrantOrOwn(gs, actor, SatisfiedBy[op], target)

\* Authorize; a target of None is nil.
Authorize(actor, op, target) == AuthorizeOver(grants, actor, op, target)

\* AuthorizeType; an id that is not positive (None) is denied to everybody, an
\* id without a row (outside Type) to all but the holders of a wildcard.
AuthorizeType(actor, op, type) ==
    /\ actor # None
    /\ type # None
    /\ \/ authorizePrelude(grants, actor, op)
       \/ /\ op \in Operation
          /\ type \in Type
          /\ checkTypeGrant(grants, actor, SatisfiedBy[op], type)

----------------------------------------------------------------------------
(* Properties of the decisions *)

\* Grants on the sentinel's own entity decide nothing about another type's
\* entity, through whatever groups ("a grant on the sentinel "type" entity
\* confers nothing over type entities").
SentinelPowerless ==
    LET rest == {g \in grants : g.target # TypeEntity[Sentinel]}
    IN  rest # grants =>
            \A actor \in Entity, op \in Operation, e \in TypeEntities \ {TypeEntity[Sentinel]} :
                Authorize(actor, op, e) => AuthorizeOver(rest, actor, op, e)

=============================================================================
