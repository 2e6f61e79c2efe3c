----------------------------- MODULE Credentials -----------------------------
(***************************************************************************)
(* The sign-in methods of an account: at most one local password           *)
(* (auth_local) and any number of OIDC identities (auth_oidc_identities),  *)
(* changed by the self-service credential endpoints, by the link-mode OIDC *)
(* callback and by the password-reset confirmation.                        *)
(*                                                                         *)
(* Unlink and RemovePassword run in SERIALIZABLE transactions: they read a *)
(* snapshot and PostgreSQL aborts one of two that both read and changed    *)
(* the methods of one account.  Everything else is READ COMMITTED, one     *)
(* statement at a time.  A password hash is salted, so each one written is *)
(* new.                                                                    *)
(***************************************************************************)
EXTENDS StepUpGate, Integers, FiniteSets

CONSTANTS
    Identity,       \* (issuer, subject) pairs, also the name of their row
    Hash            \* password hashes

ASSUME ParamsAssumption ==
    /\ IsFiniteSet(Identity)
    /\ Nil \notin Account \cup Identity \cup Hash

VARIABLES
    owner,      \* auth_oidc_identities: the account of each identity
    local,      \* auth_local: the password hash of each account
    req,        \* requests in flight
    links,      \* accounts holding a link-mode state
    \* history, read by the properties only
    written,    \* hashes written so far
    overwrote   \* whether the last password that SetPassword replaced was the one it
                \* had verified, and whether it was written after that

history == <<written, overwrote>>
vars    == <<owner, local, req, links, history, gateVars>>

Idle == [pc |-> "idle"]
Op   == {"unlink", "remove", "set", "link"}

\* Unlink names an identity; the other operations do not.
Waiting  == [pc: {"gate"}, op: {"unlink"}, account: Account, target: Identity, jti: JTI]
            \cup [pc: {"gate"}, op: Op \ {"unlink"}, account: Account, target: {Nil}, jti: JTI]
Gated    == [pc: {"begin"}, op: {"unlink"}, account: Account, target: Identity]
            \cup [pc: {"begin"}, op: Op \ {"unlink"}, account: Account, target: {Nil}]
Deleting == [pc: {"commit"}, op: {"unlink"}, account: Account, target: Identity,
             conflict: BOOLEAN]
            \cup [pc: {"commit"}, op: {"remove"}, account: Account, target: {Nil},
                  conflict: BOOLEAN]
Setting  == [pc: {"upsert"}, account: Account, seen: Hash \cup {Nil},
             known: SUBSET Hash]     \* history: what was written by then
Linking  == [pc: {"insert"}, account: Account, target: Identity]

Identities(a)  == {i \in Identity : owner[i] = a}
HasLocal(a)    == local[a] # Nil
Methods(a)     == Cardinality(Identities(a)) + (IF HasLocal(a) THEN 1 ELSE 0)
HasMethod(a)   == Identities(a) # {} \/ HasLocal(a)

Init ==
    /\ owner \in [Identity -> Account \cup {Nil}]
    /\ local \in [Account -> Hash \cup {Nil}]
    /\ \A a, b \in Account : a # b /\ local[a] = local[b] => local[a] = Nil
    /\ written = {local[a] : a \in Account} \ {Nil}
    /\ req = [r \in Requests |-> Idle]
    /\ links \in SUBSET Account
    /\ overwrote = [verified |-> TRUE, raced |-> FALSE]
    /\ GateInit

Move(r, next) == req' = [req EXCEPT ![r] = next] /\ UNCHANGED <<proc, pass>>
Answer(r)     == req' = [req EXCEPT ![r] = Idle] /\ Release(r)

----------------------------------------------------------------------------
(* The step-up gate *)

Through(op, a, i) == [pc |-> "begin", op |-> op, account |-> a, target |-> i]

\* requireStepUp in Unlink, RemovePassword, SetPassword and StartLink, after
\* their stateless checks: the token's checks, or nothing if switched off.  A
\* request without a valid token answers 409 and changes nothing.
requireStepUp(r, op, a, i) ==
    /\ req[r] = Idle
    /\ op = "unlink" <=> i # Nil
    /\ Arrive(r)
    /\ IF StepUpRequired
       THEN \E j \in JTI :
              /\ TokenValid(j, a)
              /\ req' = [req EXCEPT ![r] = [pc |-> "gate", op |-> op, account |-> a,
                                           target |-> i, jti |-> j]]
       ELSE req' = [req EXCEPT ![r] = Through(op, a, i)]
    /\ UNCHANGED <<owner, local, links, history>>

\* ... and its single-use check, by which a replay answers 409.
consumeToken(r) ==
    /\ req[r].pc = "gate"
    /\ \/ /\ LoadOrStore(r, req[r].jti)
          /\ req' = [req EXCEPT ![r] =
                       Through(req[r].op, req[r].account, req[r].target)]
       \/ /\ req[r].jti \in spent[proc[r]]
          /\ Answer(r)
          /\ UNCHANGED gateTables
    /\ UNCHANGED <<owner, local, links, history>>

\* StartLink: a signed link-mode state for the account.  This is what its
\* token pays for; until it expires the state can be presented again.
StartLink(r) ==
    /\ req[r].pc = "begin" /\ req[r].op = "link"
    /\ links' = links \cup {req[r].account}
    /\ Charge(r, req[r].account)
    /\ Answer(r)
    /\ UNCHANGED <<owner, local, history, uaid, expired, spent>>

\* A token for the account, one that expires, and a janitor's visit.
Tokens ==
    /\ \/ \E a \in Account : IssueToken(a)
       \/ \E j \in JTI : ExpireToken(j)
       \/ \E p \in Process, j \in JTI : PruneToken(p, j)
    /\ UNCHANGED <<owner, local, req, links, history>>

\* A server process restarts.
Restart(p) ==
    /\ RestartGate(p)
    /\ req' = [r \in Requests |-> IF r \in ServedBy(p) THEN Idle ELSE req[r]]
    /\ UNCHANGED <<owner, local, links, history>>

----------------------------------------------------------------------------
(* Unlink and RemovePassword *)

\* Unlink's arithmetic: (oidcCount - 1) + hasLocal = 0, whether or not the
\* named identity is one of the account's.
UnlinkRefused(a) == Methods(a) - 1 = 0

\* RemovePassword's test.
RemoveRefused(a) == Identities(a) = {}

\* The transaction starts: IdentityCounts on its snapshot, the refusal, and
\* whether there is a row to delete.  Nothing to delete ends the request:
\* 404 for Unlink, success for RemovePassword.
DeleteBegin(r) ==
    /\ req[r].pc = "begin" /\ req[r].op \in {"unlink", "remove"}
    /\ LET a       == req[r].account
           i       == req[r].target
           unlink  == req[r].op = "unlink"
           refused == IF unlink THEN UnlinkRefused(a) ELSE HasLocal(a) /\ RemoveRefused(a)
           found   == IF unlink THEN owner[i] = a ELSE HasLocal(a)
       IN  IF ~refused /\ found
           THEN Move(r, [pc |-> "commit", op |-> req[r].op, account |-> a, target |-> i,
                         conflict |-> FALSE])
           ELSE Answer(r)
    /\ UNCHANGED <<owner, local, links, history, gateTables>>

\* Mutant: READ COMMITTED instead of SERIALIZABLE.
ConflictNever(r) == FALSE

\* Another serializable transaction of the account committed meanwhile.
Conflict(r) == req[r].conflict

\* The other serializable transactions of a that are open now read what this
\* one changed.
MarkConflicts(r, a) ==
    req' = [q \in Requests |->
              IF q = r THEN Idle
              ELSE IF req[q].pc = "commit" /\ req[q].account = a
                   THEN [req[q] EXCEPT !.conflict = TRUE]
                   ELSE req[q]]

\* The row is deleted and the transaction commits.  Where SetPassword or a
\* reset replaced the password meanwhile, PostgreSQL reports a serialization
\* failure and the retry deletes the new row: this step stands for both.
DeleteCommit(r) ==
    /\ req[r].pc = "commit"
    /\ ~Conflict(r)
    /\ LET a == req[r].account
           i == req[r].target
       IN  /\ \/ /\ req[r].op = "unlink"
                 /\ owner[i] = a
                 /\ owner' = [owner EXCEPT ![i] = Nil]
                 /\ UNCHANGED local
              \/ /\ req[r].op = "remove"
                 /\ HasLocal(a)
                 /\ local' = [local EXCEPT ![a] = Nil]
                 /\ UNCHANGED owner
           /\ MarkConflicts(r, a)
           /\ Charge(r, a)
    /\ Release(r)
    /\ UNCHANGED <<links, history, uaid, expired, spent>>

\* A serialization failure: the transaction is run again from its snapshot.
DeleteRetry(r) ==
    /\ req[r].pc = "commit"
    /\ Move(r, Through(req[r].op, req[r].account, req[r].target))
    /\ UNCHANGED <<owner, local, links, history, gateTables>>

----------------------------------------------------------------------------
(* SetPassword and PasswordResetConfirm *)

\* Mutant: a stored password is not compared with the one supplied.
SetReadUnchecked(r) ==
    /\ req[r].pc = "begin" /\ req[r].op = "set"
    /\ Move(r, [pc |-> "upsert", account |-> req[r].account, seen |-> Nil, known |-> written])
    /\ UNCHANGED <<owner, local, links, history, gateTables>>

\* GetAuthLocal outside the transaction.  With a row the supplied password is
\* verified against its hash, or the request ends with 401.
SetRead(r) ==
    /\ req[r].pc = "begin" /\ req[r].op = "set"
    /\ LET a == req[r].account IN
         \/ Move(r, [pc |-> "upsert", account |-> a, seen |-> local[a], known |-> written])
         \/ HasLocal(a) /\ Answer(r)
    /\ UNCHANGED <<owner, local, links, history, gateTables>>

\* UpsertAuthLocal.
UpsertAuthLocal(a) ==
    \E h \in Hash \ written :
        /\ local' = [local EXCEPT ![a] = h]
        /\ written' = written \cup {h}

SetCommit(r) ==
    /\ req[r].pc = "upsert"
    /\ LET a == req[r].account IN
         /\ UpsertAuthLocal(a)
         /\ overwrote' = IF HasLocal(a)
                         THEN [verified |-> req[r].seen = local[a],
                               raced |-> local[a] \notin req[r].known]
                         ELSE overwrote
         /\ Charge(r, a)
    /\ Answer(r)
    /\ UNCHANGED <<owner, links, uaid, expired, spent>>

\* PasswordResetConfirm writes the password without the gate; its token is
\* modelled in PasswordReset.
ResetUpsert(a) ==
    /\ UpsertAuthLocal(a)
    /\ UNCHANGED <<owner, req, links, overwrote, gateVars>>

----------------------------------------------------------------------------
(* The link-mode callback *)

\* handleLinkMode looks the identity up; a linked one ends the callback.
LinkRead(r, a, i) ==
    /\ req[r] = Idle
    /\ a \in links
    /\ owner[i] = Nil
    /\ Arrive(r)
    /\ req' = [req EXCEPT ![r] = [pc |-> "insert", account |-> a, target |-> i]]
    /\ UNCHANGED <<owner, local, links, history>>

\* Mutant: the insert replaces an existing row.
Insertable(i) == TRUE

\* The unique index on (issuer, subject).
Unlinked(i) == owner[i] = Nil

LinkInsert(r) ==
    /\ req[r].pc = "insert"
    /\ IF Unlinked(req[r].target)
       THEN owner' = [owner EXCEPT ![req[r].target] = req[r].account]
       ELSE UNCHANGED owner
    /\ Answer(r)
    /\ UNCHANGED <<local, links, history, gateTables>>

----------------------------------------------------------------------------

\* A statement fails, the transaction is rolled back (an observer's error
\* included) or the client is gone: the consumed step-up token stays consumed.
Fail(r) ==
    /\ req[r] # Idle
    /\ Answer(r)
    /\ UNCHANGED <<owner, local, links, history, gateTables>>

Request(r) ==
    \/ \E op \in Op, a \in Account, i \in Identity \cup {Nil} : requireStepUp(r, op, a, i)
    \/ consumeToken(r) \/ StartLink(r)
    \/ DeleteBegin(r) \/ DeleteCommit(r) \/ DeleteRetry(r)
    \/ SetRead(r) \/ SetCommit(r)
    \/ \E a \in Account, i \in Identity : LinkRead(r, a, i)
    \/ LinkInsert(r)
    \/ Fail(r)

Next ==
    \/ \E r \in Requests : Request(r)
    \/ \E a \in Account : ResetUpsert(a)
    \/ \E p \in Process : Restart(p)
    \/ Tokens

Spec == Init /\ [][Next]_vars

----------------------------------------------------------------------------
(* Properties *)

TypeOK ==
    /\ owner \in [Identity -> Account \cup {Nil}]
    /\ local \in [Account -> Hash \cup {Nil}]
    /\ req \in [Requests -> Waiting \cup Gated \cup Deleting \cup Setting \cup Linking \cup {Idle}]
    /\ links \subseteq Account
    /\ written \subseteq Hash
    /\ GateType
    /\ overwrote \in [verified: BOOLEAN, raced: BOOLEAN]

\* No sequence or race of credential changes takes an account's last sign-in
\* method away, although each one only counts what it sees.
KeepsSignIn == [][\A a \in Account : HasMethod(a) => HasMethod(a)']_vars

\* An identity never moves from one account to another in one step: two
\* callbacks that both found it unlinked cannot both have it.
NoTakeover ==
    [][\A i \in Identity : owner[i] # Nil => owner'[i] \in {owner[i], Nil}]_vars

\* SetPassword replaces a password it has not verified only if that one was
\* written after the request had looked.
BlindOnlyIfRaced == overwrote.verified \/ overwrote.raced

----------------------------------------------------------------------------
(* The inductive invariant behind KeepsSignIn *)

\* A deletion that leaves the account another method.
Spares(op, a, i) ==
    \/ op = "unlink" /\ (HasLocal(a) \/ Identities(a) \ {i} # {})
    \/ op = "remove" /\ Identities(a) # {}

\* A deletion that may still commit is one: only serializable deletions take
\* methods away, and each marks the others.
OtherMethod ==
    \A r \in Requests : req[r].pc = "commit" /\ ~req[r].conflict =>
        Spares(req[r].op, req[r].account, req[r].target)
=============================================================================
