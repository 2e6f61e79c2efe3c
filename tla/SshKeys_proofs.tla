--------------------------- MODULE SshKeys_proofs ---------------------------
(***************************************************************************)
(* Proofs about SshKeys for any number of accounts, keys and concurrent    *)
(* requests, whatever the Authorizer decides.                              *)
(***************************************************************************)
EXTENDS SshKeys, TLAPS, FiniteSetTheorems

\* The partial unique index: a fingerprint has one active row.
UniqueActive ==
    \A j, k \in KeyId :
        /\ keys[j] # None /\ keys[j].active
        /\ keys[k] # None /\ keys[k].active
        /\ keys[j].fp = keys[k].fp
        => j = k

\* A resolution under way has read the truth, unless the holder it read is
\* deleted by now; an answered one was right.
Current ==
    /\ \A r \in Requests : req[r].pc = "holder" /\ req[r].account \notin archived =>
         req[r].truth = req[r].account
    /\ ResolvedWasCurrent

\* The part of the types that the arguments below need; the gate's is left out.
CoreType ==
    /\ keys \in [KeyId -> Row \cup {None}]
    /\ archived \subseteq Account
    /\ assumed \subseteq Account \X Account
    /\ deletes \in [KeyId -> Nat]
    /\ req \in [Requests -> {Idle} \cup Waiting \cup Request \cup Deletion \cup Resolving]
    /\ answer \in [account: Account \cup {None}, truth: Account \cup {None}]

IInv == CoreType /\ UniqueActive /\ Current /\ RevocationsAudited

----------------------------------------------------------------------------
(* Types *)

\* Where a request is tells what it holds.
LEMMA Held ==
    ASSUME CoreType, NEW r \in Requests
    PROVE  /\ req[r].pc = "gate" => req[r] \in Waiting
           /\ req[r].pc \in {"authorize", "entity", "write", "archive"} => req[r] \in Request
           /\ req[r].pc = "delete" => req[r] \in Deletion
           /\ req[r].pc = "holder" => req[r] \in Resolving
<1>1. req[r] \in {Idle} \cup Waiting \cup Request \cup Deletion \cup Resolving
  BY DEF CoreType
<1> QED
  BY <1>1 DEF Idle, Waiting, Request, Deletion, Resolving

LEMMA TruthType ==
    ASSUME CoreType, NEW fp \in Fingerprint
    PROVE  Truth(fp) \in Account \cup {None}
BY DEF Truth, ActiveRows, CoreType, Row

\* A request moved to a legal place, with the other variables typed.
LEMMA TypeStep ==
    ASSUME CoreType, [Next]_vars
    PROVE  CoreType'
<1> USE DEF CoreType
<1>1. CASE Tokens
  BY <1>1 DEF Tokens, history
<1>2. CASE (\E u \in Operators : ChangeOperator(u)) \/ UNCHANGED vars
  BY <1>2 DEF ChangeOperator, vars, history
<1>3. ASSUME NEW by \in Account, NEW u \in Account, Assume(by, u)
      PROVE  CoreType'
  BY <1>3 DEF Assume, history
<1>4. ASSUME NEW r \in Requests, NEW what \in Register \cup Revoke, NEW self \in BOOLEAN,
             Gate(r, what, self)
      PROVE  CoreType'
  <2>1. [pc |-> "authorize", what |-> what] \in Request
    BY DEF Request
  <2>2. \A j \in JTI : [pc |-> "gate", what |-> what, jti |-> j] \in Waiting
    BY DEF Waiting
  <2>3. UNCHANGED <<keys, archived, assumed, history>>
    BY <1>4 DEF Gate
  <2>4. \E v \in Waiting \cup Request : req' = [req EXCEPT ![r] = v]
    BY <1>4, <2>1, <2>2 DEF Gate
  <2> QED
    BY <2>3, <2>4 DEF history
<1>13. ASSUME NEW r \in Requests, checkStepUp(r)
       PROVE  CoreType'
  <2>1. [pc |-> "authorize", what |-> req[r].what] \in Request
    BY <1>13, Held DEF checkStepUp, Waiting, Request
  <2>2. /\ UNCHANGED <<keys, archived, assumed, history>>
        /\ \E v \in Request \cup {Idle} : req' = [req EXCEPT ![r] = v]
    BY <1>13, <2>1 DEF checkStepUp, Answer
  <2> QED
    BY <2>2 DEF history
<1>14. ASSUME NEW p \in Process, Restart(p)
       PROVE  CoreType'
  <2>1. req' \in [Requests -> {Idle} \cup Waiting \cup Request \cup Deletion \cup Resolving]
    BY <1>14 DEF Restart
  <2> QED
    BY <1>14, <2>1 DEF Restart, history
<1>5. ASSUME NEW r \in Requests, AuthorizeAccount(r) \/ LoadEntity(r) \/ LoadKey(r)
      PROVE  CoreType'
  <2>1. req[r] \in Request
    BY <1>5, Held DEF AuthorizeAccount, LoadEntity, LoadKey
  <2>2. /\ \A pc \in {"entity", "write"} :
             req[r].pc # "archive" => [req[r] EXCEPT !.pc = pc] \in Request
        /\ req[r].what.op = "revoke" => [req[r] EXCEPT !.pc = "archive"] \in Request
    BY <2>1 DEF Request, Register, Revoke
  <2>3. req' \in [Requests -> {Idle} \cup Waiting \cup Request \cup Deletion \cup Resolving]
    BY <1>5, <2>2 DEF AuthorizeAccount, LoadEntity, LoadKey, Goto, Answer
  <2> QED
    BY <1>5, <2>3 DEF AuthorizeAccount, LoadEntity, LoadKey, history
<1>6. ASSUME NEW r \in Requests, InsertSSHPublicKey(r)
      PROVE  CoreType'
  <2>1. req[r] \in Request /\ req[r].what.op = "register"
    BY <1>6, Held DEF InsertSSHPublicKey
  <2>2. /\ req[r].what.fp \in Fingerprint /\ req[r].what.account \in Account
    BY <2>1 DEF Request, Register, Revoke
  <2>a. [fp |-> req[r].what.fp, account |-> req[r].what.account, active |-> TRUE] \in Row
    BY <2>2 DEF Row
  <2>3. keys' \in [KeyId -> Row \cup {None}]
    BY <1>6, <2>a DEF InsertSSHPublicKey
  <2> QED
    BY <1>6, <2>3 DEF InsertSSHPublicKey, Answer, history
<1>7. ASSUME NEW r \in Requests, ArchiveSSHPublicKey(r)
      PROVE  CoreType'
  <2>1. req[r].what.account \in Account
    BY <1>7, Held DEF ArchiveSSHPublicKey, Request, Register, Revoke
  <2>2. CASE Archivable(req[r].what.key, req[r].what.account)
    <3>1. keys' = [keys EXCEPT ![req[r].what.key].active = FALSE]
      BY <1>7, <2>2 DEF ArchiveSSHPublicKey
    <3>a. \A k \in KeyId : keys[k] # None => [keys[k] EXCEPT !.active = FALSE] \in Row
      BY DEF Row
    <3>2. keys' \in [KeyId -> Row \cup {None}]
      BY <2>2, <3>1, <3>a DEF Archivable, Named
    <3>3. deletes' \in [KeyId -> Nat]
      BY <1>7, <2>2 DEF ArchiveSSHPublicKey
    <3> QED
      BY <1>7, <3>2, <3>3 DEF ArchiveSSHPublicKey, Answer, Goto
  <2>3. CASE ~Archivable(req[r].what.key, req[r].what.account)
    BY <1>7, <2>3 DEF ArchiveSSHPublicKey, Answer, Goto
  <2> QED
    BY <2>2, <2>3
<1>8. ASSUME NEW r \in Requests, Fail(r)
      PROVE  CoreType'
  BY <1>8 DEF Fail, Answer, Goto, history
<1>9. ASSUME NEW r \in Requests, NEW by \in Account, NEW u \in Account, Delete(r, by, u)
      PROVE  CoreType'
  BY <1>9 DEF Delete, Goto, Deletion, history
<1>10. ASSUME NEW r \in Requests, ArchiveEntity(r)
       PROVE  CoreType'
  BY <1>10, Held DEF ArchiveEntity, Answer, Goto, Deletion, history
<1>11. ASSUME NEW r \in Requests, NEW fp \in Fingerprint, ResolveKey(r, fp)
       PROVE  CoreType'
  <2>1. PICK k \in ActiveRows(fp) :
          req' = [req EXCEPT ![r] = [pc |-> "holder", fp |-> fp, account |-> keys[k].account,
                                     truth |-> Truth(fp)]]
    BY <1>11 DEF ResolveKey, Goto
  <2>2. keys[k].account \in Account
    BY <2>1 DEF ActiveRows, Row
  <2>3. [pc |-> "holder", fp |-> fp, account |-> keys[k].account, truth |-> Truth(fp)] \in Resolving
    BY <2>2, TruthType DEF Resolving
  <2> QED
    BY <1>11, <2>1, <2>3 DEF ResolveKey, history
<1>12. ASSUME NEW r \in Requests, ResolveHolder(r)
       PROVE  CoreType'
  BY <1>12, Held DEF ResolveHolder, Answer, Goto, Resolving
<1> QED
  BY <1>1, <1>2, <1>3, <1>4, <1>5, <1>6, <1>7, <1>8, <1>9, <1>10, <1>11, <1>12, <1>13, <1>14 DEF Next

----------------------------------------------------------------------------
(* Keys and resolutions *)

\* With one active row, the holder read is the truth unless it is deleted.
LEMMA ReadsTheTruth ==
    ASSUME CoreType, UniqueActive, NEW fp \in Fingerprint, NEW k \in ActiveRows(fp),
           keys[k].account \notin archived
    PROVE  Truth(fp) = keys[k].account
<1>1. ActiveRows(fp) = {k}
  BY DEF ActiveRows, UniqueActive
<1>2. Cardinality(ActiveRows(fp)) = 1
  BY <1>1, FS_Singleton
<1>3. {keys[j].account : j \in ActiveRows(fp)} \ archived = {keys[k].account}
  BY <1>1
<1> QED
  BY <1>2, <1>3 DEF Truth

\* Steps that touch no key.
LEMMA KeysAlone ==
    ASSUME UniqueActive, RevocationsAudited, UNCHANGED <<keys, deletes>>
    PROVE  UniqueActive' /\ RevocationsAudited'
BY DEF UniqueActive, RevocationsAudited

\* Steps that start and finish no resolution.
LEMMA ResolutionsAlone ==
    ASSUME Current, CoreType, archived \subseteq archived', UNCHANGED answer,
           \A r \in Requests : req'[r].pc = "holder" => req'[r] = req[r]
    PROVE  Current'
BY DEF Current, ResolvedWasCurrent

\* A key is inserted only beside no active one, and archived only while it is
\* active, with its audit entry.
LEMMA KeyStep ==
    ASSUME IInv, NEW r \in Requests, InsertSSHPublicKey(r) \/ ArchiveSSHPublicKey(r)
    PROVE  UniqueActive' /\ RevocationsAudited'
<1> USE DEF IInv
<1>1. CASE UNCHANGED <<keys, deletes>>
  BY <1>1, KeysAlone
<1>2. CASE InsertSSHPublicKey(r) /\ keys' # keys
  <2> DEFINE row == [fp |-> req[r].what.fp, account |-> req[r].what.account, active |-> TRUE]
  <2>1. PICK k \in KeyId : keys[k] = None /\ keys' = [keys EXCEPT ![k] = row]
    BY <1>2 DEF InsertSSHPublicKey
  <2>2. ~InUse(row.fp) /\ deletes' = deletes
    BY <1>2 DEF InsertSSHPublicKey, history
  <2>3. row.active
    OBVIOUS
  <2> HIDE DEF row
  <2>4. \A j \in KeyId : keys'[j] = IF j = k THEN row ELSE keys[j]
    BY <2>1 DEF CoreType
  <2>5. UniqueActive'
    BY <2>2, <2>4 DEF UniqueActive, InUse
  <2>6. RevocationsAudited'
    BY <2>1, <2>2, <2>3, <2>4 DEF RevocationsAudited
  <2> QED
    BY <2>5, <2>6
<1>3. CASE ArchiveSSHPublicKey(r) /\ Archivable(req[r].what.key, req[r].what.account)
  <2>k. PICK k \in KeyId : k = req[r].what.key
    BY <1>3, Held DEF ArchiveSSHPublicKey, Request, Revoke
  <2>1. keys[k] \in Row /\ keys[k] # None /\ keys[k].active
    BY <1>3, <2>k DEF Archivable, Named, CoreType
  <2>2. PICK row \in Row : row = [keys[k] EXCEPT !.active = FALSE]
    BY <2>1 DEF Row
  <2>3. ~row.active /\ row # None
    BY <2>1, <2>2, SshAssumption DEF Row
  <2>4. keys' = [keys EXCEPT ![k] = row] /\ deletes' = [deletes EXCEPT ![k] = @ + 1]
    BY <1>3, <2>k, <2>2 DEF ArchiveSSHPublicKey
  <2>5. \A j \in KeyId : /\ keys'[j] = IF j = k THEN row ELSE keys[j]
                         /\ deletes'[j] = IF j = k THEN deletes[k] + 1 ELSE deletes[j]
    BY <2>4 DEF CoreType
  <2>6. UniqueActive'
    BY <2>3, <2>5 DEF UniqueActive
  <2>7. deletes[k] = 0
    BY <2>1 DEF RevocationsAudited
  <2>8. RevocationsAudited'
    BY <2>3, <2>5, <2>7 DEF RevocationsAudited
  <2> QED
    BY <2>6, <2>8
<1> QED
  BY <1>1, <1>2, <1>3 DEF InsertSSHPublicKey, ArchiveSSHPublicKey, history

\* Every step keeps the index, the audit log and the truth of resolutions.
LEMMA SafeStep ==
    ASSUME IInv, [Next]_vars
    PROVE  IInv'
<1>0. CoreType'
  BY TypeStep DEF IInv
<1> USE DEF IInv
<1>1. ASSUME NEW r \in Requests, \A q \in Requests : q # r => req'[q] = req[q],
             req'[r].pc # "holder", archived \subseteq archived', UNCHANGED answer
      PROVE  Current'
  BY <1>1, ResolutionsAlone
<1>2. CASE \/ Tokens
           \/ \E u \in Operators : ChangeOperator(u)
           \/ \E by, u \in Account : Assume(by, u)
           \/ UNCHANGED vars
  <2>1. UNCHANGED <<keys, deletes, archived, answer, req>>
    BY <1>2 DEF Tokens, ChangeOperator, Assume, vars, history
  <2> QED
    BY <1>0, <2>1, KeysAlone, ResolutionsAlone
<1>3. ASSUME NEW r \in Requests, NEW what \in Register \cup Revoke, NEW self \in BOOLEAN,
             Gate(r, what, self)
      PROVE  IInv'
  <2>1. /\ UNCHANGED <<keys, deletes, archived, answer>>
        /\ \A q \in Requests : q # r => req'[q] = req[q]
        /\ req'[r].pc \in {"gate", "authorize"}
    BY <1>3 DEF Gate, history, CoreType
  <2>2. Current'
    BY <1>1, <2>1
  <2> QED
    BY <1>0, <2>1, <2>2, KeysAlone
<1>10. ASSUME NEW r \in Requests, checkStepUp(r)
       PROVE  IInv'
  <2>1. /\ UNCHANGED <<keys, deletes, archived, answer>>
        /\ \A q \in Requests : q # r => req'[q] = req[q]
        /\ req'[r].pc \in {"idle", "authorize"}
    BY <1>10 DEF checkStepUp, Answer, Idle, history, CoreType
  <2>2. Current'
    BY <1>1, <2>1
  <2> QED
    BY <1>0, <2>1, <2>2, KeysAlone
<1>11. ASSUME NEW p \in Process, Restart(p)
       PROVE  IInv'
  <2>1. UNCHANGED <<keys, deletes, archived, answer>>
    BY <1>11 DEF Restart, history
  <2>2. \A r \in Requests : req'[r] \in {req[r], Idle}
    BY <1>11 DEF Restart
  <2>3. Idle.pc # "holder"
    BY DEF Idle
  <2> QED
    BY <1>0, <2>1, <2>2, <2>3, KeysAlone, ResolutionsAlone
<1>4. ASSUME NEW r \in Requests, AuthorizeAccount(r) \/ LoadEntity(r) \/ LoadKey(r)
      PROVE  IInv'
  <2>1. UNCHANGED <<keys, deletes, archived, answer>>
    BY <1>4 DEF AuthorizeAccount, LoadEntity, LoadKey, history
  <2>2. req[r] \in Request
    BY <1>4, Held DEF AuthorizeAccount, LoadEntity, LoadKey
  <2>3. /\ Idle.pc # "holder"
        /\ \A pc \in {"entity", "write", "archive"} : [req[r] EXCEPT !.pc = pc].pc # "holder"
    BY <2>2 DEF Idle, Request
  <2>4. Current'
    BY <1>1, <1>4, <2>1, <2>3 DEF CoreType, AuthorizeAccount, LoadEntity, LoadKey, Goto, Answer
  <2> QED
    BY <1>0, <2>1, <2>4, KeysAlone
<1>5. ASSUME NEW r \in Requests, InsertSSHPublicKey(r) \/ ArchiveSSHPublicKey(r)
      PROVE  IInv'
  <2>1. Current'
    BY <1>1, <1>5 DEF CoreType, InsertSSHPublicKey, ArchiveSSHPublicKey, Answer, history, Idle
  <2> QED
    BY <1>0, <1>5, <2>1, KeyStep
<1>6. ASSUME NEW r \in Requests, Fail(r) \/ ArchiveEntity(r)
      PROVE  IInv'
  <2>1. /\ UNCHANGED <<keys, deletes, answer>> /\ archived \subseteq archived'
        /\ req' = [req EXCEPT ![r] = Idle]
    BY <1>6 DEF Fail, ArchiveEntity, Answer, Goto, history
  <2>2. Current'
    BY <1>1, <2>1 DEF CoreType, Idle
  <2> QED
    BY <1>0, <2>1, <2>2, KeysAlone
<1>7. ASSUME NEW r \in Requests, NEW by \in Account, NEW u \in Account, Delete(r, by, u)
      PROVE  IInv'
  <2>1. /\ UNCHANGED <<keys, deletes, archived, answer>>
        /\ req' = [req EXCEPT ![r] = [pc |-> "delete", account |-> u]]
    BY <1>7 DEF Delete, Goto, history
  <2>2. Current'
    BY <1>1, <2>1 DEF CoreType
  <2> QED
    BY <1>0, <2>1, <2>2, KeysAlone
<1>8. ASSUME NEW r \in Requests, NEW fp \in Fingerprint, ResolveKey(r, fp)
      PROVE  IInv'
  <2>1. PICK k \in ActiveRows(fp) :
          req' = [req EXCEPT ![r] = [pc |-> "holder", fp |-> fp, account |-> keys[k].account,
                                     truth |-> Truth(fp)]]
    BY <1>8 DEF ResolveKey, Goto
  <2>2. UNCHANGED <<keys, deletes, archived, answer>>
    BY <1>8 DEF ResolveKey, history
  <2>3. keys[k].account \notin archived => Truth(fp) = keys[k].account
    BY ReadsTheTruth
  <2>4. Current'
    BY <2>1, <2>2, <2>3 DEF Current, ResolvedWasCurrent, CoreType
  <2> QED
    BY <1>0, <2>2, <2>4, KeysAlone
<1>9. ASSUME NEW r \in Requests, ResolveHolder(r)
      PROVE  IInv'
  <2>1. /\ req' = [req EXCEPT ![r] = Idle] /\ UNCHANGED <<keys, deletes, archived>>
    BY <1>9 DEF ResolveHolder, Answer, Goto
  <2>2. ResolvedWasCurrent'
    BY <1>9 DEF ResolveHolder, HolderActive, Current, ResolvedWasCurrent
  <2>3. Current'
    BY <2>1, <2>2 DEF Current, CoreType, Idle
  <2> QED
    BY <1>0, <2>1, <2>3, KeysAlone
<1> QED
  BY <1>2, <1>3, <1>4, <1>5, <1>6, <1>7, <1>8, <1>9, <1>10, <1>11 DEF Next

----------------------------------------------------------------------------
(* The step-up gate *)

\* What the gate's own books promise.
Ledger == GateType /\ Accounted /\ EachChangePaid

\* A token that is issued, expires or is pruned, or a process that restarts.
LEMMA LedgerTokens ==
    ASSUME Ledger,
           \/ \E a \in Account : IssueToken(a)
           \/ \E j \in JTI : ExpireToken(j)
           \/ \E p \in Process, j \in JTI : PruneToken(p, j)
           \/ \E p \in Process : RestartGate(p)
    PROVE  Ledger'
<1> USE DEF Ledger, GateType, Accounted, EachChangePaid, gateHistory
<1>1. ASSUME NEW a \in Account, IssueToken(a)
      PROVE  Ledger'
  BY <1>1 DEF IssueToken
<1>2. ASSUME NEW j \in JTI, ExpireToken(j)
      PROVE  Ledger'
  BY <1>2 DEF ExpireToken
<1>3. ASSUME NEW p \in Process, NEW j \in JTI, PruneToken(p, j)
      PROVE  Ledger'
  BY <1>3 DEF PruneToken
<1>4. ASSUME NEW p \in Process, RestartGate(p)
      PROVE  Ledger'
  <2>1. /\ UNCHANGED <<uaid, expired, overdrawn>>
        /\ \A q \in Process : /\ spent'[q] = IF q = p THEN {} ELSE spent[q]
                              /\ made'[q] = IF q = p THEN {} ELSE made[q]
        /\ \A r \in Requests : /\ proc'[r] = IF proc[r] = p THEN Nil ELSE proc[r]
                               /\ pass'[r] = IF proc[r] = p THEN Nil ELSE pass[r]
    BY <1>4 DEF RestartGate, ServedBy
  <2>2. GateType'
    BY <1>4, <2>1 DEF RestartGate
  <2>3. Accounted'
    BY <2>1, GateAssumption
  <2> QED
    BY <2>1, <2>2, <2>3
<1> QED
  BY <1>1, <1>2, <1>3, <1>4

\* A request arrives, and a request is over.
LEMMA LedgerMoves ==
    ASSUME Ledger, NEW r \in Requests,
           (Arrive(r) /\ pass[r] = Nil) \/ (Release(r) /\ UNCHANGED gateTables)
    PROVE  Ledger'
<1> USE DEF Ledger, GateType, Accounted, EachChangePaid, gateHistory, gateTables
<1>1. CASE Arrive(r) /\ pass[r] = Nil
  BY <1>1, GateAssumption DEF Arrive
<1>2. CASE Release(r) /\ UNCHANGED gateTables
  <2>1. GateType'
    BY <1>2 DEF Release
  <2>2. \A q \in Requests : /\ pass'[q] = IF q = r THEN Nil ELSE pass[q]
                            /\ proc'[q] = IF q = r THEN Nil ELSE proc[q]
    BY <1>2 DEF Release
  <2>3. Accounted'
    BY <1>2, <2>2, GateAssumption
  <2> QED
    BY <1>2, <2>1, <2>3
<1> QED
  BY <1>1, <1>2

\* The id that LoadOrStore stores in time was in nobody's hands.
LEMMA LedgerStores ==
    ASSUME Ledger, NEW r \in Requests, NEW j \in JTI, proc[r] \in Process, LoadOrStore(r, j)
    PROVE  Ledger'
<1> USE DEF Ledger, GateType, Accounted, EachChangePaid, gateHistory
<1>1. /\ UNCHANGED <<uaid, expired, proc, made, overdrawn>>
      /\ \A p \in Process : spent'[p] = IF p = proc[r] THEN spent[p] \cup {j} ELSE spent[p]
      /\ \A q \in Requests : pass'[q] = IF q = r THEN (IF j \in expired THEN "late" ELSE j)
                                        ELSE pass[q]
      /\ j \notin spent[proc[r]]
  BY DEF LoadOrStore
<1>2. GateType'
  BY DEF LoadOrStore
<1>3. spent'[proc[r]] = spent[proc[r]] \cup {j} /\ \A p \in Process : spent[p] \subseteq spent'[p]
  <2>1. spent'[proc[r]] = spent[proc[r]] \cup {j}
    BY DEF LoadOrStore
  <2>2. ASSUME NEW p \in Process
        PROVE  spent[p] \subseteq spent'[p]
    <3> HIDE DEF Ledger, GateType, Accounted
    <3>1. CASE p = proc[r]
      BY <2>1, <3>1
    <3>2. CASE p # proc[r]
      BY <1>1, <3>2
    <3> QED
      BY <3>1, <3>2
  <2> QED
    BY <2>1, <2>2
<1>4. ASSUME NEW p \in Process
      PROVE  made[p] \subseteq spent'[p] \cup expired
  <2>1. made[p] \subseteq spent[p] \cup expired
    OBVIOUS
  <2> HIDE DEF Ledger, GateType, Accounted
  <2> QED
    BY <1>3, <2>1
<1>5. pass'[r] \in JTI => /\ j \notin expired /\ j \notin made[proc[r]] /\ pass'[r] = j
                         /\ \A q \in Requests : proc[q] = proc[r] => pass[q] # j
  BY <1>1, GateAssumption
<1>6. pass'[r] \in JTI => pass'[r] \in spent'[proc[r]] /\ pass'[r] \notin made[proc[r]]
  BY <1>3, <1>5
<1>7. ASSUME NEW q \in Requests, q # r, pass[q] \in JTI
      PROVE  /\ proc[q] \in Process
             /\ pass[q] \in spent'[proc[q]] \cup expired
             /\ pass[q] \notin made[proc[q]]
  BY <1>3, <1>7
<1>8. \A p, q \in Requests :
        pass'[p] \in JTI /\ pass'[p] = pass'[q] /\ proc[p] = proc[q] => p = q
  BY <1>1, <1>5
<1>9. Accounted'
  BY <1>1, <1>4, <1>6, <1>7, <1>8
<1> QED
  BY <1>1, <1>2, <1>9

\* A change that is paid for is charged to its token once.
LEMMA LedgerCharges ==
    ASSUME Ledger, NEW r \in Requests, NEW a \in Account, Charge(r, a), Release(r),
           UNCHANGED <<uaid, expired, spent>>, StepUpRequired => Paid(r, a)
    PROVE  Ledger'
<1> USE DEF Ledger, GateType, Accounted, EachChangePaid, gateHistory
<1>1. /\ overdrawn' = overdrawn
      /\ \A q \in Requests : /\ pass'[q] = IF q = r THEN Nil ELSE pass[q]
                             /\ proc'[q] = IF q = r THEN Nil ELSE proc[q]
  BY DEF Charge, Release
<1>2. CASE made' = made
  BY <1>1, <1>2, GateAssumption DEF Release
<1>3. CASE pass[r] \in JTI /\ made' = [made EXCEPT ![proc[r]] = @ \cup {pass[r]}]
  <2>1. \A p \in Process : made'[p] = IF p = proc[r] THEN made[p] \cup {pass[r]} ELSE made[p]
    BY <1>3
  <2>2. GateType'
    BY <1>3 DEF Charge, Release
  <2>3. Accounted'
    BY <1>1, <1>3, <2>1, GateAssumption
  <2> QED
    BY <1>1, <2>2, <2>3
<1> QED
  BY <1>2, <1>3 DEF Charge

Past == {"authorize", "entity", "write", "archive"}

\* A request past the gate that is about the caller's own keys has a token of
\* the caller in hand, or one that it stored too late; before it has none.
Holding ==
    \A r \in Requests :
        /\ req[r].pc \in Past \cup {"gate"} => proc[r] \in Process
        /\ req[r].pc = "gate" => uaid[req[r].jti] = req[r].what.by
        /\ req[r].pc \in Past /\ StepUpRequired /\ req[r].what.by = req[r].what.account =>
             pass[r] # Nil
        /\ req[r].pc \notin Past => pass[r] = Nil
        /\ pass[r] \in JTI => uaid[pass[r]] = req[r].what.by

\* What one request may do to its own part of the books.
LEMMA HoldingKept ==
    ASSUME CoreType, Holding, NEW r \in Requests, UNCHANGED uaid,
           \A q \in Requests : q # r => req'[q] = req[q] /\ proc'[q] = proc[q] /\ pass'[q] = pass[q],
           \/ req'[r].pc \notin Past \cup {"gate"} /\ pass'[r] = Nil
           \/ /\ req[r].pc \in Past /\ req'[r].pc \in Past /\ req'[r].what = req[r].what
              /\ proc'[r] = proc[r] /\ pass'[r] = pass[r]
    PROVE  Holding'
<1>1. "gate" \notin Past
  BY DEF Past
<1> QED
  BY <1>1, GateAssumption DEF Holding

\* A request is answered, or goes on to the next statement.
LEMMA HoldingMoves ==
    ASSUME CoreType, Ledger, Holding, NEW r \in Requests, UNCHANGED gateTables,
           \/ Answer(r)
           \/ \E v : /\ Goto(r, v) /\ pass[r] = Nil /\ v.pc \notin Past \cup {"gate"}
           \/ \E v : /\ Goto(r, v) /\ req[r].pc \in Past /\ v.pc \in Past /\ v.what = req[r].what
    PROVE  (Ledger /\ Holding)'
<1>1. CASE Answer(r)
  <2>1. Ledger'
    BY <1>1, LedgerMoves DEF Answer
  <2>2. /\ \A q \in Requests : q # r =>
             req'[q] = req[q] /\ pass'[q] = pass[q] /\ proc'[q] = proc[q]
        /\ req'[r] = Idle /\ pass'[r] = Nil /\ uaid' = uaid
    BY <1>1 DEF Answer, Release, CoreType, Ledger, GateType, gateTables
  <2>3. req'[r].pc \notin Past \cup {"gate"}
    BY <2>2 DEF Idle, Past
  <2> QED
    BY <2>1, <2>2, <2>3, HoldingKept
<1>2. ASSUME NEW v, Goto(r, v)
      PROVE  /\ Ledger' /\ UNCHANGED <<uaid, proc, pass>>
             /\ \A q \in Requests : req'[q] = IF q = r THEN v ELSE req[q]
  BY <1>2 DEF Goto, Ledger, GateType, Accounted, EachChangePaid, gateTables, gateHistory, CoreType
<1>3. ASSUME NEW v, Goto(r, v), pass[r] = Nil, v.pc \notin Past \cup {"gate"}
      PROVE  (Ledger /\ Holding)'
  BY <1>2, <1>3, HoldingKept
<1>4. ASSUME NEW v, Goto(r, v), req[r].pc \in Past, v.pc \in Past, v.what = req[r].what
      PROVE  (Ledger /\ Holding)'
  BY <1>2, <1>4, HoldingKept
<1> QED
  BY <1>1, <1>3, <1>4

\* A key that an account changes for itself is paid for.
LEMMA WritePays ==
    ASSUME CoreType, Ledger, Holding, NEW r \in Requests,
           InsertSSHPublicKey(r) \/ ArchiveSSHPublicKey(r)
    PROVE  (Ledger /\ Holding)'
<1>1. /\ req[r] \in Request /\ req[r].pc \in Past /\ Answer(r)
      /\ UNCHANGED <<uaid, expired, spent>>
      /\ ChargeSelf(r, req[r].what) \/ UNCHANGED gateHistory
  BY Held DEF InsertSSHPublicKey, ArchiveSSHPublicKey, Past
<1>2. CASE UNCHANGED gateHistory
  BY <1>1, <1>2, HoldingMoves DEF gateTables
<1>3. CASE req[r].what.by = req[r].what.account /\ Charge(r, req[r].what.account)
  <2>1. req[r].what.account \in Account
    BY <1>1 DEF Request, Register, Revoke
  <2>2. StepUpRequired => Paid(r, req[r].what.account)
    BY <1>1, <1>3 DEF Holding, Ledger, GateType, Accounted, Paid
  <2>3. Ledger'
    BY <1>1, <1>3, <2>1, <2>2, LedgerCharges DEF Answer
  <2>4. /\ \A q \in Requests : q # r =>
             req'[q] = req[q] /\ pass'[q] = pass[q] /\ proc'[q] = proc[q]
        /\ req'[r] = Idle /\ pass'[r] = Nil
    BY <1>1 DEF Answer, Release, CoreType, Ledger, GateType
  <2>5. req'[r].pc \notin Past \cup {"gate"}
    BY <2>4 DEF Idle, Past
  <2> QED
    BY <1>1, <2>3, <2>4, <2>5, HoldingKept
<1> QED
  BY <1>1, <1>2, <1>3 DEF ChargeSelf

LEMMA PaymentStep ==
    ASSUME CoreType, Ledger, Holding, [Next]_vars
    PROVE  (Ledger /\ Holding)'
<1> USE DEF gateHistory, gateTables
<1>1. CASE UNCHANGED <<req, gateVars>>
  BY <1>1 DEF gateVars, Ledger, Holding, GateType, Accounted, EachChangePaid
<1>2. ASSUME NEW r \in Requests, NEW what \in Register \cup Revoke, NEW self \in BOOLEAN,
             Gate(r, what, self)
      PROVE  (Ledger /\ Holding)'
  <2>1. pass[r] = Nil /\ Arrive(r)
    BY <1>2 DEF Gate, Holding, Idle, Past
  <2>2. Ledger'
    BY <2>1, LedgerMoves
  <2>3. /\ \A q \in Requests : q # r => req'[q] = req[q] /\ proc'[q] = proc[q]
        /\ proc'[r] \in Process /\ UNCHANGED <<uaid, pass>>
    BY <1>2, <2>1 DEF Gate, Arrive, CoreType, Ledger, GateType
  <2>4. \/ req'[r].pc = "gate" /\ uaid[req'[r].jti] = req'[r].what.by
        \/ /\ req'[r].pc = "authorize"
           /\ ~(StepUpRequired /\ req'[r].what.by = req'[r].what.account)
    BY <1>2 DEF Gate, Asked, isSelfTargetingOperatorCall, TokenValid, CoreType
  <2>5. "gate" \notin Past /\ "authorize" \in Past
    BY DEF Past
  <2> QED
    BY <2>1, <2>2, <2>3, <2>4, <2>5, GateAssumption DEF Holding
<1>3. ASSUME NEW r \in Requests, checkStepUp(r), LoadOrStore(r, req[r].jti),
             req' = [req EXCEPT ![r] = [pc |-> "authorize", what |-> req[r].what]]
      PROVE  (Ledger /\ Holding)'
  <2>1. req[r].jti \in JTI /\ proc[r] \in Process /\ uaid[req[r].jti] = req[r].what.by
    BY <1>3, Held DEF checkStepUp, Waiting, Holding
  <2>2. Ledger'
    BY <1>3, <2>1, LedgerStores
  <2>3. /\ \A q \in Requests : q # r => req'[q] = req[q] /\ pass'[q] = pass[q]
        /\ UNCHANGED <<uaid, proc>>
        /\ pass'[r] \in {req[r].jti, "late"}
        /\ req'[r].pc = "authorize" /\ req'[r].what = req[r].what
    BY <1>3 DEF LoadOrStore, CoreType, Ledger, GateType
  <2>4. "gate" \notin Past /\ "authorize" \in Past
    BY DEF Past
  <2> QED
    BY <2>1, <2>2, <2>3, <2>4, GateAssumption DEF Holding
<1>4. ASSUME NEW r \in Requests, checkStepUp(r)
      PROVE  (Ledger /\ Holding)'
  BY <1>3, <1>4, HoldingMoves DEF checkStepUp
<1>5. ASSUME NEW r \in Requests, AuthorizeAccount(r) \/ LoadEntity(r) \/ LoadKey(r)
      PROVE  (Ledger /\ Holding)'
  <2>1. req[r] \in Request /\ req[r].pc \in Past /\ UNCHANGED gateTables
    BY <1>5, Held DEF AuthorizeAccount, LoadEntity, LoadKey, Past
  <2>2. \A pc \in Past : /\ [req[r] EXCEPT !.pc = pc].pc \in Past
                         /\ [req[r] EXCEPT !.pc = pc].what = req[r].what
    BY <2>1 DEF Request
  <2>3. Answer(r) \/ \E pc \in Past : Goto(r, [req[r] EXCEPT !.pc = pc])
    BY <1>5 DEF AuthorizeAccount, LoadEntity, LoadKey, Past
  <2> HIDE DEF gateTables
  <2> QED
    BY <2>1, <2>2, <2>3, HoldingMoves
<1>6. ASSUME NEW r \in Requests, Fail(r) \/ ArchiveEntity(r) \/ ResolveHolder(r)
      PROVE  (Ledger /\ Holding)'
  BY <1>6, HoldingMoves DEF Fail, ArchiveEntity, ResolveHolder
<1>7. ASSUME NEW r \in Requests, NEW by \in Account, NEW u \in Account, Delete(r, by, u)
      PROVE  (Ledger /\ Holding)'
  <2>1. /\ pass[r] = Nil /\ UNCHANGED gateTables
        /\ Goto(r, [pc |-> "delete", account |-> u])
    BY <1>7 DEF Delete, Holding, Idle, Past
  <2>2. [pc |-> "delete", account |-> u].pc \notin Past \cup {"gate"}
    BY DEF Past
  <2> QED
    BY <2>1, <2>2, HoldingMoves
<1>8. ASSUME NEW r \in Requests, NEW fp \in Fingerprint, ResolveKey(r, fp)
      PROVE  (Ledger /\ Holding)'
  <2>1. PICK k \in ActiveRows(fp) :
          Goto(r, [pc |-> "holder", fp |-> fp, account |-> keys[k].account, truth |-> Truth(fp)])
    BY <1>8 DEF ResolveKey
  <2>2. pass[r] = Nil /\ UNCHANGED gateTables
    BY <1>8 DEF ResolveKey, Holding, Idle, Past
  <2>3. [pc |-> "holder", fp |-> fp, account |-> keys[k].account, truth |-> Truth(fp)].pc
          \notin Past \cup {"gate"}
    BY DEF Past
  <2> QED
    BY <2>1, <2>2, <2>3, HoldingMoves
<1>9. CASE Tokens
  <2>1. Ledger' /\ UNCHANGED <<req, proc, pass>>
    BY <1>9, LedgerTokens DEF Tokens, IssueToken, ExpireToken, PruneToken
  <2>2. \A j \in JTI : uaid[j] # Nil => uaid'[j] = uaid[j]
    BY <1>9 DEF Tokens, IssueToken, ExpireToken, PruneToken, Ledger, GateType
  <2>3. \A r \in Requests : req[r].pc = "gate" =>
          req[r].jti \in JTI /\ req[r].what.by \in Account
    BY Held DEF Waiting, Register, Revoke
  <2>4. \A r \in Requests : req[r].pc \in Past => req[r].what.by \in Account
    BY Held DEF Request, Register, Revoke, Past
  <2>5. \A r \in Requests : pass[r] \in JTI => req[r].pc \in Past
    BY GateAssumption DEF Holding
  <2> QED
    BY <2>1, <2>2, <2>3, <2>4, <2>5, GateAssumption DEF Holding
<1>10. ASSUME NEW p \in Process, Restart(p)
       PROVE  (Ledger /\ Holding)'
  <2>1. Ledger'
    BY <1>10, LedgerTokens DEF Restart
  <2>2. /\ UNCHANGED uaid
        /\ \A r \in Requests :
             IF proc[r] = p THEN req'[r] = Idle /\ proc'[r] = Nil /\ pass'[r] = Nil
             ELSE req'[r] = req[r] /\ proc'[r] = proc[r] /\ pass'[r] = pass[r]
    BY <1>10 DEF Restart, RestartGate, ServedBy
  <2>3. Idle.pc \notin Past \cup {"gate"}
    BY DEF Idle, Past
  <2> QED
    BY <2>1, <2>2, <2>3, GateAssumption DEF Holding
<1>11. CASE \/ UNCHANGED vars
            \/ (\E u \in Operators : ChangeOperator(u)) \/ \E by, u \in Account : Assume(by, u)
  BY <1>1, <1>11 DEF vars, ChangeOperator, Assume
<1> QED
  BY <1>2, <1>4, <1>5, <1>6, <1>7, <1>8, <1>9, <1>10, <1>11, WritePays DEF Next

----------------------------------------------------------------------------
(* The theorems *)

LEMMA InitInv ==
    ASSUME Init
    PROVE  IInv /\ Ledger /\ Holding
<1>1. IInv
  BY DEF Init, IInv, CoreType, UniqueActive, Current, ResolvedWasCurrent, RevocationsAudited, Idle
<1>2. Ledger
  BY GateAssumption DEF Init, GateInit, Ledger, GateType, Accounted, EachChangePaid
<1>3. Holding
  BY GateAssumption DEF Init, GateInit, Holding, Idle, Past
<1> QED
  BY <1>1, <1>2, <1>3

\* Types, the unique index, the audit log and resolutions, in every state.
THEOREM Invariance == Spec => []IInv
<1>1. Init => IInv
  BY InitInv
<1>2. IInv /\ [Next]_vars => IInv'
  BY SafeStep
<1> QED
  BY <1>1, <1>2, PTL DEF Spec

\* ResolveActor never names an account that did not hold the key, alone and
\* undeleted, when the resolution began.
THEOREM ResolutionsAreCurrent == Spec => []ResolvedWasCurrent
<1>1. IInv => ResolvedWasCurrent
  BY DEF IInv, Current
<1> QED
  BY <1>1, Invariance, PTL

\* A revoked key has one audit entry, an active one none.
THEOREM OneAuditEntry == Spec => []RevocationsAudited
<1>1. IInv => RevocationsAudited
  BY DEF IInv
<1> QED
  BY <1>1, Invariance, PTL

\* With step-up required, every key that an account changes for itself used
\* up a token of its own, once per life of a process and token.
THEOREM OwnChangesArePaid == Spec => []SelfChangesPaid
<1>1. Init => CoreType /\ Ledger /\ Holding
  BY InitInv DEF IInv
<1>2. CoreType /\ Ledger /\ Holding /\ [Next]_vars => (CoreType /\ Ledger /\ Holding)'
  BY TypeStep, PaymentStep
<1>3. Ledger => SelfChangesPaid
  BY DEF Ledger, SelfChangesPaid
<1> QED
  BY <1>1, <1>2, <1>3, PTL DEF Spec
=============================================================================
