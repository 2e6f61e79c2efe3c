------------------------------ MODULE SshKeys ------------------------------
(***************************************************************************)
(* SSH public keys: registration and revocation by the account itself or   *)
(* by an operator, the deletion of accounts, and the resolver that tells a *)
(* transport whose key is offered.                                         *)
(*                                                                         *)
(* The step-up gate, the authorisation, the archival check, the row that   *)
(* is looked up and the write are separate statements; only the write is   *)
(* in a transaction, with its audit entry.  The resolver reads the key's   *)
(* row and then the holder's entity.  A key is its fingerprint: whatever   *)
(* Parse refuses is a 400 before the gate and changes nothing.             *)
(***************************************************************************)
EXTENDS Authz, StepUpGate, Naturals

CONSTANTS
    Fingerprint,    \* of the keys that Parse accepts
    KeyId,          \* uuids of rows
    Operators       \* accounts that may hold the wildcard manage grant

Row == [fp: Fingerprint, account: Account, active: BOOLEAN]

ASSUME SshAssumption ==
    /\ Account \subseteq Entity
    /\ Operators \subseteq Account
    /\ None \notin Fingerprint \cup KeyId \cup Row

VARIABLES
    keys,       \* ssh_public_keys, by uuid
    archived,   \* account holders whose entity is archived
    assumed,    \* <<caller, account>>: sessions Assume has handed out
    req,        \* requests and resolutions in flight
    \* history, read by the properties only
    deletes,    \* audit entries "delete ssh_public_key", per key
    answer      \* what the last resolution answered, and the truth

history == <<deletes, answer>>
vars    == <<tables, keys, archived, assumed, req, history, gateVars>>

Idle == [pc |-> "idle"]

\* A request of caller "by", authorised as "as", for the keys of "account".
Register == [op: {"register"}, by: Account, as: Account, account: Account,
             fp: Fingerprint, key: {None}]
Revoke   == [op: {"revoke"}, by: Account, as: Account, account: Account,
             fp: {None}, key: KeyId]

Waiting   == [pc: {"gate"}, what: Register \cup Revoke, jti: JTI]
Request   == [pc: {"authorize", "entity", "write"}, what: Register \cup Revoke]
             \cup [pc: {"archive"}, what: Revoke]
Deletion  == [pc: {"delete"}, account: Account]
Resolving == [pc: {"holder"}, fp: Fingerprint, account: Account, truth: Account \cup {None}]

TypeOK ==
    /\ keys \in [KeyId -> Row \cup {None}]
    /\ archived \subseteq Account
    /\ assumed \subseteq Account \X Account
    /\ deletes \in [KeyId -> Nat]
    /\ req \in [Requests -> {Idle} \cup Waiting \cup Request \cup Deletion \cup Resolving]
    /\ answer \in [account: Account \cup {None}, truth: Account \cup {None}]
    /\ GateType

Wildcard(u) == [actor |-> u, op |-> Manage, target |-> None]

Init ==
    /\ grants \in {{Wildcard(u) : u \in S} : S \in SUBSET Operators}
    /\ actorMembers = {} /\ targetMembers = {}
    /\ owner = [e \in Entity |-> IF e \in Account THEN e ELSE None]
    /\ keys = [k \in KeyId |-> None]
    /\ archived = {} /\ assumed = {}
    /\ req = [r \in Requests |-> Idle]
    /\ deletes = [k \in KeyId |-> 0]
    /\ answer = [account |-> None, truth |-> None]
    /\ GateInit

Goto(r, next) == req' = [req EXCEPT ![r] = next] /\ UNCHANGED <<proc, pass>>
Answer(r)     == req' = [req EXCEPT ![r] = Idle] /\ Release(r)

----------------------------------------------------------------------------
(* The gate *)

\* Mutant: the operator routes never ask.
OperatorSelfNever(a, u) == FALSE

\* isSelfTargetingOperatorCall.
isSelfTargetingOperatorCall(a, u) == a = u

\* The caller's own account decides about the gate, whomever it acts as.
\* RegisterSelf and RevokeSelf are always gated, RegisterForAccount and
\* RevokeForAccount when they turn out to be about the caller.
Asked(what, self) == self \/ isSelfTargetingOperatorCall(what.by, what.account)

\* A request arrives; checkStepUp, if it is asked for a token, checks it.
Gate(r, what, self) ==
    /\ req[r] = Idle
    /\ what.as = what.by \/ <<what.by, what.as>> \in assumed
    /\ self => what.by = what.account
    /\ Arrive(r)
    /\ IF StepUpRequired /\ Asked(what, self)
       THEN \E j \in JTI : /\ TokenValid(j, what.by)
                           /\ req' = [req EXCEPT ![r] = [pc |-> "gate", what |-> what, jti |-> j]]
       ELSE req' = [req EXCEPT ![r] = [pc |-> "authorize", what |-> what]]
    /\ UNCHANGED <<tables, keys, archived, assumed, history>>

\* checkStepUp's single-use check: a replay answers 409.
checkStepUp(r) ==
    /\ req[r].pc = "gate"
    /\ \/ /\ LoadOrStore(r, req[r].jti)
          /\ req' = [req EXCEPT ![r] = [pc |-> "authorize", what |-> req[r].what]]
       \/ /\ req[r].jti \in spent[proc[r]]
          /\ Answer(r)
          /\ UNCHANGED gateTables
    /\ UNCHANGED <<tables, keys, archived, assumed, history>>

\* A token for an account, one that expires, and a janitor's visit.
Tokens ==
    /\ \/ \E a \in Account : IssueToken(a)
       \/ \E j \in JTI : ExpireToken(j)
       \/ \E p \in Process, j \in JTI : PruneToken(p, j)
    /\ UNCHANGED <<tables, keys, archived, assumed, req, history>>

\* A server process restarts.
Restart(p) ==
    /\ RestartGate(p)
    /\ req' = [r \in Requests |-> IF r \in ServedBy(p) THEN Idle ELSE req[r]]
    /\ UNCHANGED <<tables, keys, archived, assumed, history>>

----------------------------------------------------------------------------
(* SSHKeyService *)

\* loadAuthorizedAccount: assume on the holder ...
AuthorizeAccount(r) ==
    /\ req[r].pc = "authorize"
    /\ IF Authorize(req[r].what.as, "assume", req[r].what.account)
       THEN Goto(r, [req[r] EXCEPT !.pc = "entity"])
       ELSE Answer(r)
    /\ UNCHANGED <<tables, keys, archived, assumed, history, gateTables>>

\* ... whose entity must not be archived.
LoadEntity(r) ==
    /\ req[r].pc = "entity"
    /\ IF req[r].what.account \in archived
       THEN Answer(r)
       ELSE Goto(r, [req[r] EXCEPT !.pc = "write"])
    /\ UNCHANGED <<tables, keys, archived, assumed, history, gateTables>>

\* History: a key that an account changes for itself is charged to its token.
ChargeSelf(r, what) ==
    IF what.by = what.account THEN Charge(r, what.account) ELSE UNCHANGED gateHistory

\* ssh_public_keys_active_fingerprint_uq.
InUse(fp) == \E k \in KeyId : keys[k] # None /\ keys[k].active /\ keys[k].fp = fp

\* Register: the INSERT, or a 409.
InsertSSHPublicKey(r) ==
    /\ req[r].pc = "write" /\ req[r].what.op = "register"
    /\ LET w == req[r].what IN
         \/ /\ InUse(w.fp)
            /\ UNCHANGED <<keys, gateHistory>>
         \/ /\ ~InUse(w.fp)
            /\ \E k \in KeyId : /\ keys[k] = None
                                /\ keys' = [keys EXCEPT ![k] =
                                     [fp |-> w.fp, account |-> w.account, active |-> TRUE]]
            /\ ChargeSelf(r, w)
    /\ Answer(r)
    /\ UNCHANGED <<tables, archived, assumed, history, uaid, expired, spent>>

\* The active row that a revocation names, if it is the account's.
Named(k, a) == keys[k] # None /\ keys[k].account = a /\ keys[k].active

\* Revoke: GetActiveSSHPublicKeyByUUIDForUserAccount, or a 403.
LoadKey(r) ==
    /\ req[r].pc = "write" /\ req[r].what.op = "revoke"
    /\ IF Named(req[r].what.key, req[r].what.account)
       THEN Goto(r, [req[r] EXCEPT !.pc = "archive"])
       ELSE Answer(r)
    /\ UNCHANGED <<tables, keys, archived, assumed, history, gateTables>>

\* Mutant: WHERE uuid = $1 AND user_account_id = $2.
ArchivableAny(k, a) == keys[k] # None /\ keys[k].account = a

\* The row count of ArchiveSSHPublicKey.
Archivable(k, a) == Named(k, a)

\* ... and the audit entry with it; no row, then a 403.
ArchiveSSHPublicKey(r) ==
    /\ req[r].pc = "archive"
    /\ LET w == req[r].what IN
         IF Archivable(w.key, w.account)
         THEN /\ keys' = [keys EXCEPT ![w.key].active = FALSE]
              /\ deletes' = [deletes EXCEPT ![w.key] = @ + 1]
              /\ ChargeSelf(r, w)
         ELSE UNCHANGED <<keys, deletes, gateHistory>>
    /\ Answer(r)
    /\ UNCHANGED <<tables, archived, assumed, answer, uaid, expired, spent>>

\* A statement fails or the client goes away before the write.
Fail(r) ==
    /\ req[r] # Idle
    /\ Answer(r)
    /\ UNCHANGED <<tables, keys, archived, assumed, history, gateTables>>

----------------------------------------------------------------------------
(* Accounts and operators *)

\* Assume: a session in which the caller acts as the account, good for as
\* long as its token even if the caller may no longer assume it.
Assume(by, u) ==
    /\ by # u
    /\ Authorize(by, "assume", u)
    /\ assumed' = assumed \cup {<<by, u>>}
    /\ UNCHANGED <<tables, keys, archived, req, history, gateVars>>

\* UserAccountService.Delete: authorise ...
Delete(r, by, u) ==
    /\ req[r] = Idle
    /\ Authorize(by, "delete", u)
    /\ Goto(r, [pc |-> "delete", account |-> u])
    /\ UNCHANGED <<tables, keys, archived, assumed, history, gateTables>>

\* ... and archive the entity; keys and grants stay.
ArchiveEntity(r) ==
    /\ req[r].pc = "delete"
    /\ archived' = archived \cup {req[r].account}
    /\ Answer(r)
    /\ UNCHANGED <<tables, keys, assumed, history, gateTables>>

\* Administration is granted or revoked.
ChangeOperator(u) ==
    /\ grants' = IF Wildcard(u) \in grants THEN grants \ {Wildcard(u)}
                 ELSE grants \cup {Wildcard(u)}
    /\ UNCHANGED <<actorMembers, targetMembers, owner, keys, archived, assumed, req, history,
                   gateVars>>

----------------------------------------------------------------------------
(* ResolveActor *)

ActiveRows(fp) == {k \in KeyId : keys[k] # None /\ keys[k].active /\ keys[k].fp = fp}

\* History: whose key it is at this moment.
Truth(fp) ==
    LET holders == {keys[k].account : k \in ActiveRows(fp)} \ archived
    IN  IF Cardinality(ActiveRows(fp)) = 1 /\ holders # {}
        THEN CHOOSE a \in holders : TRUE ELSE None

\* ResolveActiveSSHPublicKey: the holder of an active row, or unknown.
ResolveKey(r, fp) ==
    /\ req[r] = Idle
    /\ \E k \in ActiveRows(fp) :
         Goto(r, [pc |-> "holder", fp |-> fp, account |-> keys[k].account,
                  truth |-> Truth(fp)])
    /\ UNCHANGED <<tables, keys, archived, assumed, history, gateTables>>

\* Mutant: the entity is not looked at.
HolderAny(a) == TRUE

HolderActive(a) == a \notin archived

\* GetEntityByID: an archived holder is unknown.
ResolveHolder(r) ==
    /\ req[r].pc = "holder"
    /\ answer' = IF HolderActive(req[r].account)
                 THEN [account |-> req[r].account, truth |-> req[r].truth]
                 ELSE [account |-> None, truth |-> None]
    /\ Answer(r)
    /\ UNCHANGED <<tables, keys, archived, assumed, deletes, gateTables>>

----------------------------------------------------------------------------

Next ==
    \/ Tokens
    \/ \E p \in Process : Restart(p)
    \/ \E u \in Operators : ChangeOperator(u)
    \/ \E by, u \in Account : Assume(by, u)
    \/ \E r \in Requests :
         \/ \E what \in Register \cup Revoke, self \in BOOLEAN : Gate(r, what, self)
         \/ checkStepUp(r)
         \/ AuthorizeAccount(r)
         \/ LoadEntity(r)
         \/ InsertSSHPublicKey(r)
         \/ LoadKey(r)
         \/ ArchiveSSHPublicKey(r)
         \/ Fail(r)
         \/ \E by, u \in Account : Delete(r, by, u)
         \/ ArchiveEntity(r)
         \/ \E fp \in Fingerprint : ResolveKey(r, fp)
         \/ ResolveHolder(r)

Spec == Init /\ [][Next]_vars

----------------------------------------------------------------------------
(* Properties *)

\* An account that ResolveActor names held the offered key, alone, and was
\* not deleted, at the moment the resolution began: a key revoked, moved to
\* another account or left behind by a deleted account before a connection
\* never opens it, even though row and entity are read one after the other
\* and a key may be registered for an account that is being deleted.
ResolvedWasCurrent == answer.account # None => answer.account = answer.truth

\* The audit log has one "delete" entry for a revoked key and none for an
\* active one, however many revocations of it race (the row count in Revoke).
RevocationsAudited ==
    \A k \in KeyId : deletes[k] = IF keys[k] # None /\ ~keys[k].active THEN 1 ELSE 0

\* With step-up required, every key that an account registers or revokes for
\* itself, through either family of routes and whomever it acts as, is charged
\* to a step-up token of its own as EachChangePaid says (the bypass that
\* isSelfTargetingOperatorCall closes).
SelfChangesPaid == EachChangePaid
=============================================================================
