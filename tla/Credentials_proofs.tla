------------------------- MODULE Credentials_proofs -------------------------
(***************************************************************************)
(* Proofs about Credentials for any number of accounts, identities and     *)
(* concurrent requests: no race takes an account's last sign-in method     *)
(* away or moves an identity, only a raced SetPassword is blind, and every *)
(* gated change has been paid for, by a token that pays once in each life  *)
(* of a server process.                                                    *)
(***************************************************************************)
EXTENDS Credentials, TLAPS, FiniteSetTheorems

\* The part of the types that the arguments below need; overwrote is left out.
CoreType ==
    /\ owner \in [Identity -> Account \cup {Nil}]
    /\ local \in [Account -> Hash \cup {Nil}]
    /\ req \in [Requests -> Waiting \cup Gated \cup Deleting \cup Setting \cup Linking \cup {Idle}]
    /\ written \subseteq Hash

IInv == CoreType /\ OtherMethod

\* Where a request is tells what it holds.
LEMMA Held ==
    ASSUME CoreType, NEW r \in Requests
    PROVE  /\ req[r].pc = "gate" => req[r] \in Waiting
           /\ req[r].pc = "begin" => req[r] \in Gated
           /\ req[r].pc = "commit" => req[r] \in Deleting
           /\ req[r].pc = "upsert" => req[r] \in Setting
           /\ req[r].pc = "insert" => req[r] \in Linking
<1>1. req[r] \in Waiting \cup Gated \cup Deleting \cup Setting \cup Linking \cup {Idle}
  BY DEF CoreType
<1> QED
  BY <1>1 DEF Waiting, Gated, Deleting, Setting, Linking, Idle

\* An identity that is not the account's only method leaves another one.
LEMMA NotTheOnly ==
    ASSUME NEW a \in Account, NEW i \in Identities(a), Methods(a) - 1 # 0, ~HasLocal(a)
    PROVE  Identities(a) \ {i} # {}
<1>1. IsFiniteSet(Identities(a))
  <2>1. Identities(a) \in SUBSET Identity
    BY DEF Identities
  <2> QED
    BY <2>1, FS_Subset, ParamsAssumption
<1>2. Methods(a) = Cardinality(Identities(a)) /\ Cardinality(Identities(a)) \in Nat
  BY <1>1, FS_CardinalityType DEF Methods
<1>3. CASE Identities(a) = {i}
  <2>1. Cardinality(Identities(a)) = 1
    BY <1>3, FS_Singleton
  <2> QED
    BY <1>2, <2>1
<1> QED
  BY <1>3

\* Methods that are only added keep every open deletion safe.
LEMMA Grow ==
    ASSUME IInv, CoreType',
           \A i \in Identity : owner[i] # Nil => owner'[i] = owner[i],
           \A a \in Account : local[a] # Nil => local'[a] # Nil,
           \A r \in Requests : req'[r].pc = "commit" /\ ~req'[r].conflict => req'[r] = req[r]
    PROVE  IInv' /\ \A a \in Account : HasMethod(a) => HasMethod(a)'
<1>1. ASSUME NEW a \in Account
      PROVE  Identities(a) \subseteq Identities(a)' /\ (HasLocal(a) => HasLocal(a)')
  BY ParamsAssumption DEF Identities, HasLocal
<1>2. \A op, i : \A a \in Account : Spares(op, a, i) => Spares(op, a, i)'
  BY <1>1 DEF Spares
<1>3. ASSUME NEW r \in Requests, req'[r].pc = "commit", ~req'[r].conflict
      PROVE  Spares(req[r].op, req[r].account, req[r].target)' /\ req'[r] = req[r]
  <2>1. req'[r] = req[r] /\ req[r] \in Deleting
    BY <1>3, Held DEF IInv
  <2>2. req[r].account \in Account
    BY <2>1 DEF Deleting
  <2>3. Spares(req[r].op, req[r].account, req[r].target)
    BY <1>3, <2>1 DEF IInv, OtherMethod
  <2> QED
    BY <1>2, <2>1, <2>2, <2>3
<1>4. OtherMethod'
  BY <1>3 DEF OtherMethod
<1>5. \A a \in Account : HasMethod(a) => HasMethod(a)'
  BY <1>1 DEF HasMethod
<1> QED
  BY <1>4, <1>5 DEF IInv

\* The step where the snapshot is read: a deletion that goes on has seen
\* another method.
LEMMA BeginStep ==
    ASSUME IInv, NEW r \in Requests, DeleteBegin(r)
    PROVE  IInv' /\ \A a \in Account : HasMethod(a) => HasMethod(a)'
<1> DEFINE a == req[r].account
           i == req[r].target
           v == [pc |-> "commit", op |-> req[r].op, account |-> a,
                 target |-> i, conflict |-> FALSE]
<1>1. req[r] \in Gated /\ req[r].op \in {"unlink", "remove"} /\ a \in Account
      /\ (req[r].op = "unlink" => i \in Identity) /\ (req[r].op = "remove" => i = Nil)
  BY Held DEF IInv, DeleteBegin, Gated
<1>2. UNCHANGED <<owner, local, written>>
  BY DEF DeleteBegin, history
<1>3. CASE Answer(r)
  <2>1. req' \in [Requests -> Waiting \cup Gated \cup Deleting \cup Setting \cup Linking \cup {Idle}]
    BY <1>3 DEF Answer, IInv, CoreType
  <2>2. CoreType'
    BY <1>2, <2>1 DEF IInv, CoreType
  <2>3. \A q \in Requests : req'[q].pc = "commit" /\ ~req'[q].conflict => req'[q] = req[q]
    BY <1>3 DEF Answer, IInv, CoreType, Idle
  <2> QED
    BY <1>2, <2>2, <2>3, Grow
<1>4. CASE /\ req' = [req EXCEPT ![r] = v]
           /\ \/ req[r].op = "unlink" /\ owner[i] = a /\ Methods(a) - 1 # 0
              \/ req[r].op = "remove" /\ Identities(a) # {}
  <2>1. v \in Deleting
    <3>1. CASE req[r].op = "unlink"
      BY <1>1, <3>1 DEF Deleting
    <3>2. CASE req[r].op = "remove"
      BY <1>1, <3>2 DEF Deleting
    <3> QED
      BY <1>1, <3>1, <3>2
  <2>2. \A q \in Requests : req'[q] = IF q = r THEN v ELSE req[q]
    BY <1>4 DEF IInv, CoreType
  <2>3. CoreType'
    BY <1>2, <1>4, <2>1 DEF IInv, CoreType
  <2>4. Spares(req[r].op, a, i)
    <3>1. CASE req[r].op = "unlink" /\ owner[i] = a /\ Methods(a) - 1 # 0
      <4>1. i \in Identities(a)
        BY <1>1, <3>1 DEF Identities
      <4>2. HasLocal(a) \/ Identities(a) \ {i} # {}
        BY <1>1, <3>1, <4>1, NotTheOnly
      <4> QED
        BY <3>1, <4>2 DEF Spares
    <3> QED
      BY <1>4, <3>1 DEF Spares
  <2>5. \A b : Identities(b)' = Identities(b) /\ (HasLocal(b)' <=> HasLocal(b))
    BY <1>2 DEF Identities, HasLocal
  <2>6. \A op, b, j : Spares(op, b, j)' <=> Spares(op, b, j)
    BY <2>5 DEF Spares
  <2>7. v.account = a /\ v.op = req[r].op /\ v.target = i
    OBVIOUS
  <2> HIDE DEF v, a, i
  <2>8. ASSUME NEW q \in Requests, req'[q].pc = "commit", ~req'[q].conflict
        PROVE  Spares(req'[q].op, req'[q].account, req'[q].target)
    BY <2>2, <2>4, <2>7, <2>8 DEF IInv, OtherMethod
  <2>9. OtherMethod'
    BY <2>5, <2>8 DEF OtherMethod, Spares, Identities, HasLocal
  <2> QED
    BY <2>3, <2>5, <2>9 DEF IInv, HasMethod
<1> QED
  BY <1>1, <1>3, <1>4 DEF DeleteBegin, Move, UnlinkRefused, RemoveRefused

\* The step that removes a method: its account keeps one, the other open
\* deletions of that account are marked, and other accounts are untouched.
LEMMA CommitStep ==
    ASSUME IInv, NEW r \in Requests, DeleteCommit(r)
    PROVE  IInv' /\ \A b \in Account : HasMethod(b) => HasMethod(b)'
<1>1. req[r] \in Deleting /\ req[r].account \in Account
  BY Held DEF IInv, DeleteCommit, Deleting
<1>a. PICK a \in Account : a = req[r].account
  BY <1>1
<1>i. PICK i : i = req[r].target
  OBVIOUS
<1>2. Spares(req[r].op, a, i)
  BY <1>a, <1>i DEF IInv, OtherMethod, DeleteCommit, Conflict
<1>3. /\ owner' \in [Identity -> Account \cup {Nil}]
      /\ local' \in [Account -> Hash \cup {Nil}]
      /\ written' = written
  BY DEF IInv, CoreType, DeleteCommit, history
<1>4. \A q \in Requests :
        req'[q] = IF q = r THEN Idle
                  ELSE IF req[q].pc = "commit" /\ req[q].account = a
                       THEN [req[q] EXCEPT !.conflict = TRUE]
                       ELSE req[q]
  BY <1>a DEF DeleteCommit, MarkConflicts
<1>5. ASSUME NEW q \in Requests, req[q].pc = "commit"
      PROVE  /\ [req[q] EXCEPT !.conflict = TRUE] \in Deleting
             /\ [req[q] EXCEPT !.conflict = TRUE].conflict
  <2>1. req[q] \in Deleting
    BY <1>5, Held DEF IInv
  <2> QED
    BY <2>1 DEF Deleting
<1>6. CoreType'
  <2>1. \A q \in Requests :
          req'[q] \in Waiting \cup Gated \cup Deleting \cup Setting \cup Linking \cup {Idle}
    BY <1>4, <1>5 DEF IInv, CoreType
  <2>2. req' \in [Requests -> Waiting \cup Gated \cup Deleting \cup Setting \cup Linking \cup {Idle}]
    BY <2>1 DEF DeleteCommit, MarkConflicts
  <2> QED
    BY <1>3, <2>2 DEF IInv, CoreType
<1>7. ASSUME NEW q \in Requests, req'[q].pc = "commit", ~req'[q].conflict
      PROVE  req'[q] = req[q] /\ req[q].account # a
  <2>1. q # r
    <3>1. req'[r] = Idle
      BY <1>4
    <3> QED
      BY <1>7, <3>1 DEF Idle
  <2>2. ~(req[q].pc = "commit" /\ req[q].account = a)
    BY <1>4, <1>5, <1>7, <2>1
  <2>3. req'[q] = req[q]
    BY <1>4, <2>1, <2>2
  <2> QED
    BY <1>7, <2>2, <2>3
<1>8. ASSUME NEW b \in Account, b # a
      PROVE  Identities(b)' = Identities(b) /\ (HasLocal(b)' <=> HasLocal(b))
  BY <1>a, <1>8, ParamsAssumption DEF DeleteCommit, Identities, HasLocal, IInv, CoreType
<1>9. OtherMethod'
  <2>1. ASSUME NEW q \in Requests, req'[q].pc = "commit", ~req'[q].conflict
        PROVE  Spares(req[q].op, req[q].account, req[q].target)'
    <3>1. req'[q] = req[q] /\ req[q].account # a /\ req[q] \in Deleting
      BY <1>7, <2>1, Held DEF IInv
    <3>2. req[q].account \in Account
      BY <3>1 DEF Deleting
    <3>3. Spares(req[q].op, req[q].account, req[q].target)
      BY <2>1, <3>1 DEF IInv, OtherMethod
    <3> QED
      BY <1>8, <3>1, <3>2, <3>3 DEF Spares, Identities, HasLocal
  <2> QED
    BY <2>1 DEF OtherMethod
<1>10. HasMethod(a)'
  <2>1. CASE req[r].op = "unlink" /\ owner' = [owner EXCEPT ![i] = Nil] /\ local' = local
    <3>1. Identities(a) \ {i} \subseteq Identities(a)'
      BY <2>1 DEF Identities, IInv, CoreType
    <3>2. HasLocal(a) => HasLocal(a)'
      BY <2>1 DEF HasLocal
    <3> QED
      BY <1>2, <2>1, <3>1, <3>2 DEF Spares, HasMethod
  <2>2. CASE req[r].op = "remove" /\ owner' = owner
    <3>1. Identities(a)' = Identities(a)
      BY <2>2 DEF Identities
    <3> QED
      BY <1>2, <2>2, <3>1 DEF Spares, HasMethod
  <2> QED
    BY <1>i, <2>1, <2>2 DEF DeleteCommit
<1>11. \A b \in Account : HasMethod(b) => HasMethod(b)'
  BY <1>8, <1>10 DEF HasMethod
<1> QED
  BY <1>6, <1>9, <1>11 DEF IInv

\* A request past the gate names an identity if and only if it unlinks one.
LEMMA OnlyUnlinkNames ==
    ASSUME NEW op \in Op, NEW a \in Account, NEW i \in Identity \cup {Nil},
           op = "unlink" <=> i # Nil
    PROVE  Through(op, a, i) \in Gated
<1>1. CASE op = "unlink"
  BY <1>1 DEF Through, Gated
<1>2. CASE op # "unlink"
  BY <1>2 DEF Through, Gated
<1> QED
  BY <1>1, <1>2

\* Every other step only adds methods or moves a request along.
LEMMA OtherStep ==
    ASSUME IInv, NEW r \in Requests, Request(r), ~DeleteBegin(r), ~DeleteCommit(r)
    PROVE  IInv' /\ \A a \in Account : HasMethod(a) => HasMethod(a)'
<1>0. ASSUME NEW v, v \in Waiting \cup Gated \cup Setting \cup Linking \cup {Idle},
             req' = [req EXCEPT ![r] = v],
             owner' \in [Identity -> Account \cup {Nil}],
             local' \in [Account -> Hash \cup {Nil}],
             written' \subseteq Hash,
             \A i \in Identity : owner[i] # Nil => owner'[i] = owner[i],
             \A a \in Account : local[a] # Nil => local'[a] # Nil
      PROVE  IInv' /\ \A a \in Account : HasMethod(a) => HasMethod(a)'
  <2>1. v.pc # "commit"
    BY <1>0 DEF Waiting, Gated, Setting, Linking, Idle
  <2>2. \A q \in Requests : req'[q] = IF q = r THEN v ELSE req[q]
    BY <1>0 DEF IInv, CoreType
  <2>3. CoreType'
    BY <1>0 DEF IInv, CoreType
  <2> QED
    BY <1>0, <2>1, <2>2, <2>3, Grow
<1>1. ASSUME NEW v, v \in Waiting \cup Gated \cup Setting \cup Linking \cup {Idle},
             req' = [req EXCEPT ![r] = v], UNCHANGED <<owner, local, written>>
      PROVE  IInv' /\ \A a \in Account : HasMethod(a) => HasMethod(a)'
  BY <1>0, <1>1 DEF IInv, CoreType
<1>2. ASSUME NEW op \in Op, NEW a \in Account, NEW i \in Identity \cup {Nil},
             requireStepUp(r, op, a, i)
      PROVE  IInv' /\ \A b \in Account : HasMethod(b) => HasMethod(b)'
  <2>1. UNCHANGED <<owner, local, written>>
    BY <1>2 DEF requireStepUp, history
  <2>2. CASE req' = [req EXCEPT ![r] = Through(op, a, i)]
    <3>1. Through(op, a, i) \in Gated
      BY <1>2, OnlyUnlinkNames DEF requireStepUp
    <3> QED
      BY <1>1, <2>1, <2>2, <3>1
  <2>3. ASSUME NEW j \in JTI,
               req' = [req EXCEPT ![r] = [pc |-> "gate", op |-> op, account |-> a,
                                          target |-> i, jti |-> j]]
        PROVE  IInv' /\ \A b \in Account : HasMethod(b) => HasMethod(b)'
    <3> DEFINE v == [pc |-> "gate", op |-> op, account |-> a, target |-> i, jti |-> j]
    <3>1. v \in Waiting
      <4>1. CASE op = "unlink"
        BY <1>2, <4>1 DEF Waiting, requireStepUp
      <4>2. CASE op # "unlink"
        BY <1>2, <4>2 DEF Waiting, requireStepUp
      <4> QED
        BY <4>1, <4>2
    <3>2. req' = [req EXCEPT ![r] = v]
      BY <2>3
    <3> HIDE DEF v
    <3> QED
      BY <1>1, <2>1, <3>1, <3>2
  <2> QED
    BY <1>2, <2>2, <2>3 DEF requireStepUp
<1>9. CASE consumeToken(r)
  <2>1. req[r] \in Waiting
    BY <1>9, Held DEF consumeToken, IInv
  <2>2. Through(req[r].op, req[r].account, req[r].target) \in Gated
    <3>1. /\ req[r].op \in Op /\ req[r].account \in Account
          /\ req[r].target \in Identity \cup {Nil}
          /\ req[r].op = "unlink" <=> req[r].target # Nil
      BY <2>1, ParamsAssumption DEF Waiting, Op
    <3> QED
      BY <3>1, OnlyUnlinkNames
  <2>3. /\ \/ req' = [req EXCEPT ![r] = Through(req[r].op, req[r].account, req[r].target)]
           \/ req' = [req EXCEPT ![r] = Idle]
        /\ UNCHANGED <<owner, local, written>>
    BY <1>9 DEF consumeToken, Answer, history
  <2> QED
    BY <1>1, <2>2, <2>3
<1>10. CASE StartLink(r)
  BY <1>1, <1>10 DEF StartLink, Answer, history
<1>3. CASE DeleteRetry(r)
  <2>1. req[r] \in Deleting
    BY <1>3, Held DEF DeleteRetry, IInv
  <2>2. Through(req[r].op, req[r].account, req[r].target) \in Gated
    BY <2>1 DEF Through, Gated, Deleting, Op
  <2>3. /\ req' = [req EXCEPT ![r] = Through(req[r].op, req[r].account, req[r].target)]
        /\ UNCHANGED <<owner, local, written>>
    BY <1>3 DEF DeleteRetry, Move, history
  <2> QED
    BY <1>1, <2>2, <2>3
<1>4. CASE SetRead(r)
  <2> DEFINE v == [pc |-> "upsert", account |-> req[r].account,
                   seen |-> local[req[r].account], known |-> written]
  <2>1. req[r] \in Gated
    BY <1>4, Held DEF SetRead, IInv
  <2>2. v \in Setting
    BY <2>1 DEF Gated, Setting, IInv, CoreType
  <2>3. (req' = [req EXCEPT ![r] = v] \/ req' = [req EXCEPT ![r] = Idle])
        /\ UNCHANGED <<owner, local, written>>
    BY <1>4 DEF SetRead, Move, Answer, history
  <2> HIDE DEF v
  <2> QED
    BY <1>1, <2>2, <2>3
<1>5. CASE SetCommit(r)
  <2>1. req[r] \in Setting
    BY <1>5, Held DEF SetCommit, IInv
  <2>2. PICK h \in Hash : /\ local' = [local EXCEPT ![req[r].account] = h]
                          /\ written' = written \cup {h}
    BY <1>5 DEF SetCommit, UpsertAuthLocal
  <2>3. /\ local' \in [Account -> Hash \cup {Nil}] /\ written' \subseteq Hash
        /\ \A a \in Account : local[a] # Nil => local'[a] # Nil
    BY <2>1, <2>2, ParamsAssumption DEF Setting, IInv, CoreType
  <2>4. req' = [req EXCEPT ![r] = Idle] /\ owner' = owner
    BY <1>5 DEF SetCommit, Answer
  <2> QED
    BY <1>0, <2>3, <2>4 DEF IInv, CoreType
<1>6. ASSUME NEW a \in Account, NEW i \in Identity, LinkRead(r, a, i)
      PROVE  IInv' /\ \A b \in Account : HasMethod(b) => HasMethod(b)'
  <2> DEFINE v == [pc |-> "insert", account |-> a, target |-> i]
  <2>1. v \in Linking
    BY DEF Linking
  <2>2. req' = [req EXCEPT ![r] = v] /\ UNCHANGED <<owner, local, written>>
    BY <1>6 DEF LinkRead, history
  <2> HIDE DEF v
  <2> QED
    BY <1>1, <2>1, <2>2
<1>7. CASE LinkInsert(r)
  <2>1. req[r] \in Linking
    BY <1>7, Held DEF LinkInsert, IInv
  <2>2. /\ owner' \in [Identity -> Account \cup {Nil}]
        /\ \A i \in Identity : owner[i] # Nil => owner'[i] = owner[i]
    BY <1>7, <2>1 DEF LinkInsert, Unlinked, Linking, IInv, CoreType
  <2>3. req' = [req EXCEPT ![r] = Idle] /\ UNCHANGED <<local, written>>
    BY <1>7 DEF LinkInsert, Answer, history
  <2> QED
    BY <1>0, <2>2, <2>3 DEF IInv, CoreType
<1>8. CASE Fail(r)
  BY <1>1, <1>8 DEF Fail, Answer, history
<1> QED
  BY <1>2, <1>3, <1>4, <1>5, <1>6, <1>7, <1>8, <1>9, <1>10 DEF Request

\* Every step keeps the invariant and every account's last method.
LEMMA StepInv ==
    ASSUME IInv, [Next]_vars
    PROVE  IInv' /\ \A a \in Account : HasMethod(a) => HasMethod(a)'
<1>1. CASE UNCHANGED <<owner, local, req, written>>
  <2>1. CoreType'
    BY <1>1 DEF IInv, CoreType
  <2> QED
    BY <1>1, <2>1, Grow
<1>2. CASE UNCHANGED vars
  BY <1>1, <1>2 DEF vars, history
<1>3. CASE \E r \in Requests : Request(r)
  BY <1>3, BeginStep, CommitStep, OtherStep
<1>4. CASE Tokens
  BY <1>1, <1>4 DEF Tokens, history
<1>6. ASSUME NEW p \in Process, Restart(p)
      PROVE  IInv' /\ \A b \in Account : HasMethod(b) => HasMethod(b)'
  <2>1. UNCHANGED <<owner, local, written>> /\ \A r \in Requests : req'[r] \in {req[r], Idle}
    BY <1>6 DEF Restart, history
  <2>2. req' \in [Requests -> Waiting \cup Gated \cup Deleting \cup Setting \cup Linking \cup {Idle}]
    <3>1. req' = [r \in Requests |-> req'[r]]
      BY <1>6 DEF Restart
    <3> QED
      BY <2>1, <3>1 DEF IInv, CoreType
  <2>3. CoreType'
    BY <2>1, <2>2 DEF IInv, CoreType
  <2>4. \A r \in Requests : req'[r].pc = "commit" /\ ~req'[r].conflict => req'[r] = req[r]
    BY <2>1 DEF Idle
  <2> QED
    BY <2>1, <2>3, <2>4, Grow
<1>5. ASSUME NEW a \in Account, ResetUpsert(a)
      PROVE  IInv' /\ \A b \in Account : HasMethod(b) => HasMethod(b)'
  <2>1. PICK h \in Hash : local' = [local EXCEPT ![a] = h] /\ written' = written \cup {h}
    BY <1>5 DEF ResetUpsert, UpsertAuthLocal
  <2>2. UNCHANGED <<owner, req>>
    BY <1>5 DEF ResetUpsert
  <2>3. CoreType'
    BY <2>1, <2>2 DEF IInv, CoreType
  <2>4. \A b \in Account : local[b] # Nil => local'[b] # Nil
    BY <2>1, ParamsAssumption DEF IInv, CoreType
  <2> QED
    BY <2>2, <2>3, <2>4, Grow
<1> QED
  BY <1>2, <1>3, <1>4, <1>5, <1>6 DEF Next

----------------------------------------------------------------------------
(* The theorems *)

\* A deletion that may still commit always leaves its account another method.
THEOREM Invariance == Spec => []IInv
<1>1. Init => IInv
  BY DEF Init, IInv, CoreType, OtherMethod, Idle
<1>2. IInv /\ [Next]_vars => IInv'
  BY StepInv
<1> QED
  BY <1>1, <1>2, PTL DEF Spec

\* Unlink, RemovePassword, SetPassword, the link callback and the reset never
\* take an account's last sign-in method away, in any interleaving.
THEOREM LastMethodIsKept == Spec => KeepsSignIn
<1>1. IInv /\ [Next]_vars => [\A a \in Account : HasMethod(a) => HasMethod(a)']_vars
  BY StepInv
<1> QED
  BY <1>1, Invariance, PTL DEF Spec, KeepsSignIn

----------------------------------------------------------------------------
(* Identities *)

\* An identity never moves from one account to another in one step.
THEOREM IdentitiesStay == Spec => NoTakeover
<1> DEFINE A == \A i \in Identity : owner[i] # Nil => owner'[i] \in {owner[i], Nil}
<1>1. ASSUME IInv, [Next]_vars
      PROVE  A
  <2>1. CASE UNCHANGED owner
    BY <2>1
  <2>2. ASSUME NEW r \in Requests, DeleteCommit(r)
        PROVE  A
    BY <1>1, <2>2 DEF DeleteCommit, IInv, CoreType
  <2>3. ASSUME NEW r \in Requests, LinkInsert(r)
        PROVE  A
    BY <1>1, <2>3 DEF LinkInsert, Unlinked, IInv, CoreType
  <2>4. ASSUME NEW r \in Requests, Request(r), ~DeleteCommit(r), ~LinkInsert(r)
        PROVE  A
    BY <2>1, <2>4 DEF Request, requireStepUp, consumeToken, StartLink, DeleteBegin, DeleteRetry,
                      SetRead, SetCommit, LinkRead, Fail
  <2>5. CASE \/ UNCHANGED vars \/ Tokens
             \/ (\E a \in Account : ResetUpsert(a)) \/ \E p \in Process : Restart(p)
    BY <2>1, <2>5 DEF vars, Tokens, ResetUpsert, Restart
  <2> HIDE DEF A
  <2> QED
    BY <1>1, <2>2, <2>3, <2>4, <2>5 DEF Next
<1>2. IInv /\ [Next]_vars => [A]_vars
  BY <1>1
<1> QED
  BY <1>2, Invariance, PTL DEF Spec, NoTakeover

----------------------------------------------------------------------------
(* Passwords *)

\* A password in use was written; one that a SetPassword under way knew of is
\* the one it verified, because every write is new.
Knows ==
    /\ \A a \in Account : local[a] \in written \cup {Nil}
    /\ \A r \in Requests : req[r].pc = "upsert" =>
         /\ req[r].known \subseteq written
         /\ local[req[r].account] \in req[r].known => local[req[r].account] = req[r].seen
    /\ BlindOnlyIfRaced

\* A step that writes no password and starts no SetPassword.
LEMMA KnowsKept ==
    ASSUME IInv, Knows, UNCHANGED <<local, written, overwrote>>,
           \A r \in Requests : req'[r].pc = "upsert" => req'[r] = req[r]
    PROVE  Knows'
BY DEF Knows, BlindOnlyIfRaced

\* A password written for one account is new to every request.
LEMMA WriteIsNew ==
    ASSUME IInv, Knows, NEW a \in Account, UpsertAuthLocal(a),
           \A r \in Requests : req'[r].pc = "upsert" => req'[r] = req[r]
    PROVE  /\ \A b \in Account : local'[b] \in written' \cup {Nil}
           /\ \A r \in Requests : req'[r].pc = "upsert" =>
                /\ req'[r].known \subseteq written'
                /\ local'[req'[r].account] \in req'[r].known =>
                     local'[req'[r].account] = req'[r].seen
<1>1. PICK h \in Hash \ written : local' = [local EXCEPT ![a] = h] /\ written' = written \cup {h}
  BY DEF UpsertAuthLocal
<1>2. \A b \in Account : local'[b] = IF b = a THEN h ELSE local[b]
  BY <1>1 DEF IInv, CoreType
<1>3. ASSUME NEW r \in Requests, req'[r].pc = "upsert"
      PROVE  req'[r] = req[r] /\ req[r].account \in Account
  BY <1>3, Held DEF IInv, Setting
<1> QED
  BY <1>1, <1>2, <1>3 DEF Knows

LEMMA KnowsStep ==
    ASSUME IInv, Knows, [Next]_vars
    PROVE  Knows'
<1>1. ASSUME NEW r \in Requests, SetRead(r)
      PROVE  Knows'
  <2>1. req[r].account \in Account /\ UNCHANGED <<local, written, overwrote>>
    BY <1>1, Held DEF SetRead, IInv, Gated, history
  <2>2. CASE Answer(r)
    BY <2>1, <2>2, KnowsKept DEF Answer, Idle, IInv, CoreType
  <2>3. CASE req' = [req EXCEPT ![r] = [pc |-> "upsert", account |-> req[r].account,
                                          seen |-> local[req[r].account], known |-> written]]
    <3>1. \A q \in Requests : q # r => req'[q] = req[q]
      BY <2>3 DEF IInv, CoreType
    <3>2. /\ req'[r].account = req[r].account
          /\ req'[r].seen = local[req[r].account] /\ req'[r].known = written
      BY <2>3 DEF IInv, CoreType
    <3> QED
      BY <2>1, <3>1, <3>2 DEF Knows, BlindOnlyIfRaced
  <2> QED
    BY <1>1, <2>2, <2>3 DEF SetRead, Move
<1>2. ASSUME NEW r \in Requests, SetCommit(r)
      PROVE  Knows'
  <2>1. /\ req[r].account \in Account /\ UpsertAuthLocal(req[r].account)
        /\ req' = [req EXCEPT ![r] = Idle]
    BY <1>2, Held DEF SetCommit, Answer, IInv, Setting
  <2>2. \A q \in Requests : req'[q].pc = "upsert" => req'[q] = req[q]
    BY <2>1 DEF Idle, IInv, CoreType
  <2>3. BlindOnlyIfRaced'
    <3>1. \/ overwrote' = overwrote
          \/ overwrote' = [verified |-> req[r].seen = local[req[r].account],
                           raced |-> local[req[r].account] \notin req[r].known]
      BY <1>2 DEF SetCommit
    <3>2. \/ local[req[r].account] \notin req[r].known
          \/ req[r].seen = local[req[r].account]
      BY <1>2 DEF Knows, SetCommit
    <3>3. CASE overwrote' = overwrote
      BY <3>3 DEF Knows, BlindOnlyIfRaced
    <3>4. CASE overwrote' = [verified |-> req[r].seen = local[req[r].account],
                             raced |-> local[req[r].account] \notin req[r].known]
      <4>1. /\ overwrote'.verified = (req[r].seen = local[req[r].account])
            /\ overwrote'.raced = (local[req[r].account] \notin req[r].known)
        BY <3>4
      <4>2. overwrote'.verified \/ overwrote'.raced
        BY <3>2, <4>1, Zenon
      <4> QED
        BY <4>2 DEF BlindOnlyIfRaced
    <3> QED
      BY <3>1, <3>3, <3>4
  <2> QED
    BY <2>1, <2>2, <2>3, WriteIsNew DEF Knows
<1>3. ASSUME NEW a \in Account, ResetUpsert(a)
      PROVE  Knows'
  BY <1>3, WriteIsNew DEF ResetUpsert, Knows, BlindOnlyIfRaced
<1>4. ASSUME NEW r \in Requests, DeleteCommit(r)
      PROVE  Knows'
  <2>1. req[r].account \in Account
    BY <1>4, Held DEF DeleteCommit, IInv, Deleting
  <2>2. /\ UNCHANGED <<written, overwrote>>
        /\ \A a \in Account : local'[a] \in {local[a], Nil}
    BY <1>4, <2>1 DEF DeleteCommit, history, IInv, CoreType
  <2>3. ASSUME NEW q \in Requests, req'[q].pc = "upsert"
        PROVE  req'[q] = req[q] /\ req[q] \in Setting
    <3>1. req'[q] = IF q = r THEN Idle
                    ELSE IF req[q].pc = "commit" /\ req[q].account = req[r].account
                         THEN [req[q] EXCEPT !.conflict = TRUE] ELSE req[q]
      BY <1>4 DEF DeleteCommit, MarkConflicts
    <3>2. req[q].pc = "commit" => [req[q] EXCEPT !.conflict = TRUE].pc = "commit"
      BY Held DEF IInv, Deleting
    <3>3. req'[q] = req[q]
      BY <2>3, <3>1, <3>2 DEF Idle
    <3> QED
      BY <2>3, <3>3, Held DEF IInv
  <2>4. \A q \in Requests : req'[q].pc = "upsert" =>
          req[q].account \in Account /\ Nil \notin req[q].known
    BY <2>3, ParamsAssumption DEF Setting
  <2> QED
    BY <2>2, <2>3, <2>4 DEF Knows, BlindOnlyIfRaced
<1>5. ASSUME NEW r \in Requests, Request(r), ~SetRead(r), ~SetCommit(r), ~DeleteCommit(r)
      PROVE  Knows'
  <2>1. UNCHANGED <<local, written, overwrote>>
    BY <1>5 DEF Request, requireStepUp, consumeToken, StartLink, DeleteBegin, DeleteRetry, LinkRead,
                LinkInsert, Fail, history
  <2>2. \A q \in Requests : q # r => req'[q] = req[q]
    BY <1>5 DEF Request, requireStepUp, consumeToken, StartLink, DeleteBegin, DeleteRetry, LinkRead,
                LinkInsert, Fail, Answer, Move, IInv, CoreType
  <2>3. req'[r].pc # "upsert"
    BY <1>5 DEF Request, requireStepUp, consumeToken, StartLink, DeleteBegin, DeleteRetry, LinkRead,
                LinkInsert, Fail, Answer, Move, Through, Idle, IInv, CoreType
  <2> QED
    BY <2>1, <2>2, <2>3, KnowsKept
<1>6. CASE UNCHANGED vars \/ Tokens
  BY <1>6, KnowsKept DEF vars, history, Tokens
<1>7. ASSUME NEW p \in Process, Restart(p)
      PROVE  Knows'
  <2>1. UNCHANGED <<local, written, overwrote>>
    BY <1>7 DEF Restart, history
  <2>2. \A r \in Requests : req'[r] \in {req[r], Idle}
    BY <1>7 DEF Restart
  <2>3. Idle.pc # "upsert"
    BY DEF Idle
  <2> QED
    BY <2>1, <2>2, <2>3, KnowsKept
<1> QED
  BY <1>1, <1>2, <1>3, <1>4, <1>5, <1>6, <1>7 DEF Next

\* SetPassword replaces a password it has not verified only if that one was
\* written after it had looked.
THEOREM BlindWritesWereRaced == Spec => []BlindOnlyIfRaced
<1>1. ASSUME Init
      PROVE  Knows
  <2>1. \A a \in Account : local[a] \in written \cup {Nil}
    BY <1>1 DEF Init
  <2>2. \A r \in Requests : req[r].pc # "upsert"
    BY <1>1 DEF Init, Idle
  <2>3. overwrote.verified
    BY <1>1 DEF Init
  <2> QED
    BY <2>1, <2>2, <2>3 DEF Knows, BlindOnlyIfRaced
<1>2. IInv /\ Knows /\ [Next]_vars => Knows'
  BY KnowsStep
<1>3. Knows => BlindOnlyIfRaced
  BY DEF Knows
<1> QED
  BY <1>1, <1>2, <1>3, Invariance, PTL DEF Spec

----------------------------------------------------------------------------
(* The step-up gate *)

\* What the gate's own books promise.
Ledger == GateType /\ Accounted /\ EachChangePaid

\* A token that is issued, expires or is pruned, or a process that restarts.
LEMMA LedgerTokens ==
    ASSUME Ledger,
           \/ \E a \in Account : IssueToken(a)
           \/ \E j \in JTI : ExpireToken(j)
           \/ \E p \in Process, j \in JTI : PruneToken(p, j)
           \/ \E p \in Process : RestartGate(p)
    PROVE  Ledger'
<1> USE DEF Ledger, GateType, Accounted, EachChangePaid, gateHistory
<1>1. ASSUME NEW a \in Account, IssueToken(a)
      PROVE  Ledger'
  BY <1>1 DEF IssueToken
<1>2. ASSUME NEW j \in JTI, ExpireToken(j)
      PROVE  Ledger'
  BY <1>2 DEF ExpireToken
<1>3. ASSUME NEW p \in Process, NEW j \in JTI, PruneToken(p, j)
      PROVE  Ledger'
  BY <1>3 DEF PruneToken
<1>4. ASSUME NEW p \in Process, RestartGate(p)
      PROVE  Ledger'
  <2>1. /\ UNCHANGED <<uaid, expired, overdrawn>>
        /\ \A q \in Process : /\ spent'[q] = IF q = p THEN {} ELSE spent[q]
                              /\ made'[q] = IF q = p THEN {} ELSE made[q]
        /\ \A r \in Requests : /\ proc'[r] = IF proc[r] = p THEN Nil ELSE proc[r]
                               /\ pass'[r] = IF proc[r] = p THEN Nil ELSE pass[r]
    BY <1>4 DEF RestartGate, ServedBy
  <2>2. GateType'
    BY <1>4, <2>1 DEF RestartGate
  <2>3. Accounted'
    BY <2>1, GateAssumption
  <2> QED
    BY <2>1, <2>2, <2>3
<1> QED
  BY <1>1, <1>2, <1>3, <1>4

\* A request arrives, and a request is over.
LEMMA LedgerMoves ==
    ASSUME Ledger, NEW r \in Requests,
           (Arrive(r) /\ pass[r] = Nil) \/ (Release(r) /\ UNCHANGED gateTables)
    PROVE  Ledger'
<1> USE DEF Ledger, GateType, Accounted, EachChangePaid, gateHistory, gateTables
<1>1. CASE Arrive(r) /\ pass[r] = Nil
  BY <1>1, GateAssumption DEF Arrive
<1>2. CASE Release(r) /\ UNCHANGED gateTables
  <2>1. GateType'
    BY <1>2 DEF Release
  <2>2. \A q \in Requests : /\ pass'[q] = IF q = r THEN Nil ELSE pass[q]
                            /\ proc'[q] = IF q = r THEN Nil ELSE proc[q]
    BY <1>2 DEF Release
  <2>3. Accounted'
    BY <1>2, <2>2, GateAssumption
  <2> QED
    BY <1>2, <2>1, <2>3
<1> QED
  BY <1>1, <1>2

\* The id that LoadOrStore stores in time was in nobody's hands.
LEMMA LedgerStores ==
    ASSUME Ledger, NEW r \in Requests, NEW j \in JTI, proc[r] \in Process, LoadOrStore(r, j)
    PROVE  Ledger'
<1> USE DEF Ledger, GateType, Accounted, EachChangePaid, gateHistory
<1>1. /\ UNCHANGED <<uaid, expired, proc, made, overdrawn>>
      /\ \A p \in Process : spent'[p] = IF p = proc[r] THEN spent[p] \cup {j} ELSE spent[p]
      /\ \A q \in Requests : pass'[q] = IF q = r THEN (IF j \in expired THEN "late" ELSE j)
                                        ELSE pass[q]
      /\ j \notin spent[proc[r]]
  BY DEF LoadOrStore
<1>2. GateType'
  BY DEF LoadOrStore
<1>3. spent'[proc[r]] = spent[proc[r]] \cup {j} /\ \A p \in Process : spent[p] \subseteq spent'[p]
  <2>1. spent'[proc[r]] = spent[proc[r]] \cup {j}
    BY DEF LoadOrStore
  <2>2. ASSUME NEW p \in Process
        PROVE  spent[p] \subseteq spent'[p]
    <3> HIDE DEF Ledger, GateType, Accounted
    <3>1. CASE p = proc[r]
      BY <2>1, <3>1
    <3>2. CASE p # proc[r]
      BY <1>1, <3>2
    <3> QED
      BY <3>1, <3>2
  <2> QED
    BY <2>1, <2>2
<1>4. ASSUME NEW p \in Process
      PROVE  made[p] \subseteq spent'[p] \cup expired
  <2>1. made[p] \subseteq spent[p] \cup expired
    OBVIOUS
  <2> HIDE DEF Ledger, GateType, Accounted
  <2> QED
    BY <1>3, <2>1
<1>5. pass'[r] \in JTI => /\ j \notin expired /\ j \notin made[proc[r]] /\ pass'[r] = j
                         /\ \A q \in Requests : proc[q] = proc[r] => pass[q] # j
  BY <1>1, GateAssumption
<1>6. pass'[r] \in JTI => pass'[r] \in spent'[proc[r]] /\ pass'[r] \notin made[proc[r]]
  BY <1>3, <1>5
<1>7. ASSUME NEW q \in Requests, q # r, pass[q] \in JTI
      PROVE  /\ proc[q] \in Process
             /\ pass[q] \in spent'[proc[q]] \cup expired
             /\ pass[q] \notin made[proc[q]]
  BY <1>3, <1>7
<1>8. \A p, q \in Requests :
        pass'[p] \in JTI /\ pass'[p] = pass'[q] /\ proc[p] = proc[q] => p = q
  BY <1>1, <1>5
<1>9. Accounted'
  BY <1>1, <1>4, <1>6, <1>7, <1>8
<1> QED
  BY <1>1, <1>2, <1>9

\* A change that is paid for is charged to its token once.
LEMMA LedgerCharges ==
    ASSUME Ledger, NEW r \in Requests, NEW a \in Account, Charge(r, a), Release(r),
           UNCHANGED <<uaid, expired, spent>>, StepUpRequired => Paid(r, a)
    PROVE  Ledger'
<1> USE DEF Ledger, GateType, Accounted, EachChangePaid, gateHistory
<1>1. /\ overdrawn' = overdrawn
      /\ \A q \in Requests : /\ pass'[q] = IF q = r THEN Nil ELSE pass[q]
                             /\ proc'[q] = IF q = r THEN Nil ELSE proc[q]
  BY DEF Charge, Release
<1>2. CASE made' = made
  BY <1>1, <1>2, GateAssumption DEF Release
<1>3. CASE pass[r] \in JTI /\ made' = [made EXCEPT ![proc[r]] = @ \cup {pass[r]}]
  <2>1. \A p \in Process : made'[p] = IF p = proc[r] THEN made[p] \cup {pass[r]} ELSE made[p]
    BY <1>3
  <2>2. GateType'
    BY <1>3 DEF Charge, Release
  <2>3. Accounted'
    BY <1>1, <1>3, <2>1, GateAssumption
  <2> QED
    BY <1>1, <2>2, <2>3
<1> QED
  BY <1>2, <1>3 DEF Charge

\* A request past the gate has a token of its account in hand, or one that it
\* stored too late; before it has none.
Holding ==
    \A r \in Requests :
        /\ req[r] # Idle => proc[r] \in Process
        /\ req[r].pc = "gate" => uaid[req[r].jti] = req[r].account
        /\ req[r].pc \in {"begin", "commit", "upsert"} /\ StepUpRequired => pass[r] # Nil
        /\ req[r].pc \in {"idle", "gate", "insert"} => pass[r] = Nil
        /\ pass[r] \in JTI => uaid[pass[r]] = req[r].account

\* A request past the gate can pay for its change.
LEMMA CanPay ==
    ASSUME IInv, Ledger, Holding, NEW r \in Requests, StepUpRequired,
           req[r].pc \in {"begin", "commit", "upsert"}
    PROVE  Paid(r, req[r].account)
BY DEF Holding, Ledger, GateType, Accounted, Paid

\* What one request may do to its own part of the books.
LEMMA HoldingKept ==
    ASSUME IInv, Ledger, Holding, NEW r \in Requests, UNCHANGED uaid,
           \A q \in Requests : q # r =>
             /\ proc'[q] = proc[q] /\ pass'[q] = pass[q]
             /\ req'[q].pc = req[q].pc /\ (req[q] = Idle => req'[q] = Idle)
             /\ req[q] # Idle => req'[q].account = req[q].account
             /\ req[q].pc = "gate" => req'[q] = req[q],
           \/ req'[r] = Idle /\ pass'[r] = Nil
           \/ /\ req[r].pc \in {"begin", "commit"} /\ req'[r].pc \in {"begin", "commit", "upsert"}
              /\ req'[r].account = req[r].account
              /\ proc'[r] = proc[r] /\ pass'[r] = pass[r]
    PROVE  Holding'
<1>1. \A q \in Requests : req[q] = Idle \/ req[q].pc # "idle"
  BY DEF IInv, CoreType, Waiting, Gated, Deleting, Setting, Linking, Idle
<1>2. \A q \in Requests : pass[q] \in JTI => req[q] # Idle
  BY GateAssumption DEF Holding, Idle
<1>3. \A q \in Requests : q # r /\ req'[q] # Idle => req[q] # Idle
  OBVIOUS
<1> QED
  BY <1>1, <1>2, <1>3, GateAssumption DEF Holding, Idle

LEMMA PaymentStep ==
    ASSUME IInv, Ledger, Holding, [Next]_vars
    PROVE  (Ledger /\ Holding)'
<1> USE DEF gateHistory, gateTables
<1>1. CASE UNCHANGED <<req, gateVars>>
  BY <1>1 DEF gateVars, Ledger, Holding, GateType, Accounted, EachChangePaid
<1>2. ASSUME NEW r \in Requests, NEW op \in Op, NEW a \in Account, NEW i \in Identity \cup {Nil},
             requireStepUp(r, op, a, i)
      PROVE  (Ledger /\ Holding)'
  <2>1. pass[r] = Nil /\ Arrive(r)
    BY <1>2 DEF requireStepUp, Holding, Idle
  <2>2. Ledger'
    BY <2>1, LedgerMoves
  <2>3. /\ \A q \in Requests : q # r => req'[q] = req[q] /\ proc'[q] = proc[q]
        /\ proc'[r] \in Process /\ UNCHANGED <<uaid, pass>>
    BY <1>2, <2>1 DEF requireStepUp, Arrive, IInv, CoreType, Ledger, GateType
  <2>4. \/ req'[r].pc = "begin" /\ ~StepUpRequired
        \/ req'[r].pc = "gate" /\ uaid[req'[r].jti] = req'[r].account
    BY <1>2 DEF requireStepUp, TokenValid, Through, IInv, CoreType
  <2> QED
    BY <2>1, <2>2, <2>3, <2>4, GateAssumption DEF Holding
<1>3. ASSUME NEW r \in Requests, consumeToken(r), LoadOrStore(r, req[r].jti),
             req' = [req EXCEPT ![r] = Through(req[r].op, req[r].account, req[r].target)]
      PROVE  (Ledger /\ Holding)'
  <2>1. req[r].jti \in JTI /\ proc[r] \in Process /\ uaid[req[r].jti] = req[r].account
    BY <1>3, Held DEF consumeToken, IInv, Waiting, Holding, Idle
  <2>2. Ledger'
    BY <1>3, <2>1, LedgerStores
  <2>3. /\ \A q \in Requests : q # r => req'[q] = req[q] /\ pass'[q] = pass[q]
        /\ UNCHANGED <<uaid, proc>>
        /\ pass'[r] \in {req[r].jti, "late"}
        /\ req'[r].pc = "begin" /\ req'[r].account = req[r].account
    BY <1>3 DEF LoadOrStore, Through, IInv, CoreType, Ledger, GateType
  <2> QED
    BY <2>1, <2>2, <2>3, GateAssumption DEF Holding
<1>4. ASSUME NEW r \in Requests, Answer(r), UNCHANGED gateTables
      PROVE  (Ledger /\ Holding)'
  <2>1. Ledger'
    BY <1>4, LedgerMoves DEF Answer
  <2>2. /\ \A q \in Requests : q # r =>
             req'[q] = req[q] /\ pass'[q] = pass[q] /\ proc'[q] = proc[q]
        /\ req'[r] = Idle /\ pass'[r] = Nil
    BY <1>4 DEF Answer, Release, IInv, CoreType, Ledger, GateType
  <2> QED
    BY <1>4, <2>1, <2>2, HoldingKept
<1>5. ASSUME NEW r \in Requests, NEW v, Move(r, v), UNCHANGED gateTables,
             req[r].pc \in {"begin", "commit"}, v.pc \in {"begin", "commit", "upsert"},
             v.account = req[r].account
      PROVE  (Ledger /\ Holding)'
  <2>1. Ledger'
    BY <1>5 DEF Move, Ledger, GateType, Accounted, EachChangePaid
  <2>2. /\ \A q \in Requests : req'[q] = IF q = r THEN v ELSE req[q]
        /\ UNCHANGED <<uaid, proc, pass>>
    BY <1>5 DEF Move, IInv, CoreType
  <2> QED
    BY <1>5, <2>1, <2>2, HoldingKept
<1>6. ASSUME NEW r \in Requests, StartLink(r) \/ SetCommit(r)
      PROVE  (Ledger /\ Holding)'
  <2>1. /\ req[r].pc \in {"begin", "upsert"} /\ req[r].account \in Account
        /\ Charge(r, req[r].account) /\ Release(r) /\ UNCHANGED <<uaid, expired, spent>>
        /\ req' = [req EXCEPT ![r] = Idle]
    BY <1>6, Held DEF StartLink, SetCommit, Answer, IInv, Gated, Setting
  <2>2. Ledger'
    BY <2>1, CanPay, LedgerCharges
  <2>3. /\ \A q \in Requests : q # r =>
             req'[q] = req[q] /\ pass'[q] = pass[q] /\ proc'[q] = proc[q]
        /\ req'[r] = Idle /\ pass'[r] = Nil
    BY <2>1 DEF Release, IInv, CoreType, Ledger, GateType
  <2> QED
    BY <2>1, <2>2, <2>3, HoldingKept
<1>7. ASSUME NEW r \in Requests, DeleteCommit(r)
      PROVE  (Ledger /\ Holding)'
  <2>1. /\ req[r].pc = "commit" /\ req[r].account \in Account
        /\ Charge(r, req[r].account) /\ Release(r) /\ UNCHANGED <<uaid, expired, spent>>
    BY <1>7, Held DEF DeleteCommit, IInv, Deleting
  <2>2. Ledger'
    BY <2>1, CanPay, LedgerCharges
  <2>3. \A q \in Requests :
          req'[q] = IF q = r THEN Idle
                    ELSE IF req[q].pc = "commit" /\ req[q].account = req[r].account
                         THEN [req[q] EXCEPT !.conflict = TRUE] ELSE req[q]
    BY <1>7 DEF DeleteCommit, MarkConflicts
  <2>4. \A q \in Requests : req[q].pc = "commit" =>
          /\ [req[q] EXCEPT !.conflict = TRUE].pc = req[q].pc
          /\ [req[q] EXCEPT !.conflict = TRUE].account = req[q].account
    BY Held DEF IInv, Deleting
  <2>5. \A q \in Requests : q # r =>
          /\ proc'[q] = proc[q] /\ pass'[q] = pass[q]
          /\ req'[q].pc = req[q].pc /\ (req[q] = Idle => req'[q] = Idle)
          /\ req[q] # Idle => req'[q].account = req[q].account
          /\ req[q].pc = "gate" => req'[q] = req[q]
    BY <2>1, <2>3, <2>4 DEF Release, Ledger, GateType, Idle
  <2>6. req'[r] = Idle /\ pass'[r] = Nil
    BY <2>1, <2>3 DEF Release, Ledger, GateType
  <2> QED
    BY <2>1, <2>2, <2>5, <2>6, HoldingKept
<1>8. ASSUME NEW r \in Requests, NEW a \in Account, NEW i \in Identity, LinkRead(r, a, i)
      PROVE  (Ledger /\ Holding)'
  <2>1. pass[r] = Nil /\ Arrive(r)
    BY <1>8 DEF LinkRead, Holding, Idle
  <2>2. Ledger'
    BY <2>1, LedgerMoves
  <2>3. /\ \A q \in Requests : q # r => req'[q] = req[q] /\ proc'[q] = proc[q]
        /\ proc'[r] \in Process /\ UNCHANGED <<uaid, pass>> /\ req'[r].pc = "insert"
    BY <1>8, <2>1 DEF LinkRead, Arrive, IInv, CoreType, Ledger, GateType
  <2> QED
    BY <2>1, <2>2, <2>3, GateAssumption DEF Holding
<1>9. CASE Tokens
  <2>1. Ledger' /\ UNCHANGED <<req, proc, pass>>
    BY <1>9, LedgerTokens DEF Tokens, IssueToken, ExpireToken, PruneToken
  <2>2. \A j \in JTI : uaid[j] # Nil => uaid'[j] = uaid[j]
    BY <1>9 DEF Tokens, IssueToken, ExpireToken, PruneToken, Ledger, GateType
  <2>3. \A r \in Requests : /\ req[r].pc = "gate" => req[r] \in Waiting
                            /\ req[r] # Idle => req[r].account \in Account
    BY Held DEF IInv, CoreType, Waiting, Gated, Deleting, Setting, Linking
  <2>4. \A r \in Requests : pass[r] \in JTI => req[r] # Idle
    BY GateAssumption DEF Holding, Idle
  <2>5. \A r \in Requests : req[r].pc = "gate" => req[r].jti \in JTI /\ req[r] # Idle
    BY <2>3 DEF Waiting, Idle
  <2> QED
    BY <2>1, <2>2, <2>3, <2>4, <2>5, GateAssumption DEF Holding
<1>10. ASSUME NEW p \in Process, Restart(p)
       PROVE  (Ledger /\ Holding)'
  <2>1. Ledger'
    BY <1>10, LedgerTokens DEF Restart
  <2>2. /\ UNCHANGED uaid
        /\ \A r \in Requests :
             IF proc[r] = p THEN req'[r] = Idle /\ proc'[r] = Nil /\ pass'[r] = Nil
             ELSE req'[r] = req[r] /\ proc'[r] = proc[r] /\ pass'[r] = pass[r]
    BY <1>10 DEF Restart, RestartGate, ServedBy
  <2> QED
    BY <2>1, <2>2, GateAssumption DEF Holding, Idle
<1>11. ASSUME NEW r \in Requests, DeleteBegin(r) \/ DeleteRetry(r) \/ SetRead(r)
       PROVE  (Ledger /\ Holding)'
  <2>1. \/ Answer(r)
        \/ \E v : /\ Move(r, v) /\ v.pc \in {"begin", "commit", "upsert"}
                  /\ v.account = req[r].account
    BY <1>11 DEF DeleteBegin, DeleteRetry, SetRead, Through
  <2>2. req[r].pc \in {"begin", "commit"} /\ UNCHANGED gateTables
    BY <1>11 DEF DeleteBegin, DeleteRetry, SetRead
  <2> QED
    BY <1>4, <1>5, <2>1, <2>2
<1>12. ASSUME NEW r \in Requests, LinkInsert(r) \/ Fail(r)
       PROVE  (Ledger /\ Holding)'
  BY <1>4, <1>12 DEF LinkInsert, Fail
<1>13. ASSUME NEW r \in Requests, consumeToken(r)
       PROVE  (Ledger /\ Holding)'
  BY <1>3, <1>4, <1>13 DEF consumeToken
<1>14. CASE UNCHANGED vars \/ \E a \in Account : ResetUpsert(a)
  BY <1>1, <1>14 DEF vars, ResetUpsert
<1> QED
  BY <1>2, <1>6, <1>7, <1>8, <1>9, <1>10, <1>11, <1>12, <1>13, <1>14 DEF Next, Request

\* With step-up required every gated change used up a token of the account,
\* once per life of a process and token, whatever is retried, fails, races or
\* restarts, and for any number of processes.
THEOREM ChangesArePaid == Spec => []EachChangePaid
<1>1. Init => Ledger /\ Holding
  BY GateAssumption DEF Init, GateInit, Ledger, GateType, Accounted, EachChangePaid, Holding, Idle
<1>2. IInv /\ Ledger /\ Holding /\ [Next]_vars => (Ledger /\ Holding)'
  BY PaymentStep
<1>3. Ledger => EachChangePaid
  BY DEF Ledger
<1> QED
  BY <1>1, <1>2, <1>3, Invariance, PTL DEF Spec

----------------------------------------------------------------------------
(* Types *)

\* The variables that the invariants above leave out.
Rest == links \subseteq Account /\ overwrote \in [verified: BOOLEAN, raced: BOOLEAN]

LEMMA RestStep ==
    ASSUME IInv, Rest, [Next]_vars
    PROVE  Rest'
<1> USE DEF Rest
<1>1. ASSUME NEW r \in Requests, StartLink(r)
      PROVE  Rest'
  BY <1>1, Held DEF StartLink, history, IInv, Gated
<1>2. ASSUME NEW r \in Requests, SetCommit(r)
      PROVE  Rest'
  BY <1>2 DEF SetCommit
<1>3. ASSUME NEW r \in Requests, Request(r), ~StartLink(r), ~SetCommit(r)
      PROVE  Rest'
  BY <1>3 DEF Request, requireStepUp, consumeToken, DeleteBegin, DeleteCommit, DeleteRetry, SetRead,
              LinkRead, LinkInsert, Fail, history
<1>4. CASE \/ UNCHANGED vars \/ Tokens
           \/ (\E a \in Account : ResetUpsert(a)) \/ \E p \in Process : Restart(p)
  BY <1>4 DEF vars, Tokens, ResetUpsert, Restart, history
<1> QED
  BY <1>1, <1>2, <1>3, <1>4 DEF Next

\* Every variable keeps the type that TypeOK gives it.
THEOREM TypeCorrect == Spec => []TypeOK
<1>1. Init => Rest /\ Ledger /\ Holding
  BY GateAssumption DEF Init, GateInit, Ledger, GateType, Accounted, EachChangePaid, Holding, Idle,
                        Rest
<1>2. IInv /\ Rest /\ Ledger /\ Holding /\ [Next]_vars => (Rest /\ Ledger /\ Holding)'
  BY RestStep, PaymentStep
<1>3. IInv /\ Rest /\ Ledger => TypeOK
  BY DEF IInv, CoreType, Rest, Ledger, TypeOK
<1> QED
  BY <1>1, <1>2, <1>3, Invariance, PTL DEF Spec
=============================================================================
