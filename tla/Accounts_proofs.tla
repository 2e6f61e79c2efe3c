--------------------------- MODULE Accounts_proofs ---------------------------
(***************************************************************************)
(* Proofs about Accounts for any number of accounts, emails, identities    *)
(* and concurrent requests.                                                *)
(***************************************************************************)
EXTENDS Accounts, TLAPS

Held == Looking \cup Joining \cup Creating \cup Hooking \cup Updating \cup Marking \cup {Idle}

\* What the invariant says of one request's record.
Sound(v) ==
    /\ v.pc \in {"link", "verify", "hook", "update", "mark"} => v.account \in exist
    /\ v.pc = "create" /\ exist = {} => v.isFirst
    /\ v.pc = "link" => Earned(proved, carried, v.account, v.who.email)
    /\ v.pc = "verify" => v.who.verified
    /\ v.pc = "update" /\ v.seen.verified => Earned(proved, carried, v.account, v.seen.email)
    /\ v.pc = "lookup" => v.who.email # None
    /\ v.pc = "update" /\ v.account \in guests => v.seen.email = None
    /\ v.pc \in {"verify", "mark"} => v.account \notin guests

RowsEarned == \A a \in exist : rows[a].verified => Earned(proved, carried, a, rows[a].email)

\* Evidence only grows: a carried address may become a proved one.
Grows ==
    /\ proved \subseteq proved' /\ proved' \subseteq Account \X (Email \cup {None})
    /\ carried \subseteq carried' \cup proved' /\ carried' \subseteq Account \X (Email \cup {None})

\* The invariant, request by request.
LEMMA ByRequest ==
    IInv <=> /\ TypeOK /\ RowsEarned /\ (\A r \in Requests : Sound(req[r]))
             /\ FirstIsAdmin /\ stray = {} /\ TokensAreForGuests
BY DEF IInv, Known, Early, Vouched, GuestsSeen, Sound, RowsEarned, VerifiedWasEarned

\* What was earned stays so.
LEMMA EarnedStays ==
    ASSUME proved \subseteq proved', carried \subseteq carried' \cup proved',
           NEW a, NEW e, Earned(proved, carried, a, e)
    PROVE  Earned(proved', carried', a, e)
BY DEF Earned

\* Where a request is tells what it holds.
LEMMA Kinds ==
    ASSUME NEW v \in Held
    PROVE  /\ v.pc \in {"lookup", "count"} => v \in Looking
           /\ v.pc \in {"link", "verify"} => v \in Joining
           /\ v.pc = "create" => v \in Creating
           /\ v.pc = "hook" => v \in Hooking
           /\ v.pc = "update" => v \in Updating
           /\ v.pc = "mark" => v \in Marking
BY DEF Held, Looking, Joining, Creating, Hooking, Updating, Marking, Idle

\* A request whose record is sound stays so while rows and evidence are only
\* added and no account that exists becomes a guest.
LEMMA StaysSound ==
    ASSUME exist \subseteq exist', proved \subseteq proved', carried \subseteq carried' \cup proved',
           guests' \cap exist \subseteq guests, NEW v, Sound(v)
    PROVE  Sound(v)'
BY EarnedStays DEF Sound

\* A step of request r that only changes its own record.
LEMMA ReadStep ==
    ASSUME IInv, NEW r \in Requests, NEW v \in Held, Sound(v), req[r].pc # "hook",
           req' = [req EXCEPT ![r] = v], UNCHANGED <<rows, owner, guests, admins, history>>
    PROVE  IInv'
<1>1. TypeOK /\ RowsEarned /\ (\A q \in Requests : Sound(req[q]))
      /\ FirstIsAdmin /\ stray = {} /\ TokensAreForGuests
  BY ByRequest
<1>2. req \in [Requests -> Held]
  BY <1>1 DEF TypeOK, Held
<1>3. TypeOK'
  <2>1. req' \in [Requests -> Held]
    BY <1>2
  <2> QED
    BY <1>1, <2>1 DEF TypeOK, Held, exist, history
<1>4. \A q \in Requests : Sound(req'[q])
  BY <1>1, <1>2
<1>5. (\A q \in Requests : Sound(req[q]))'
  BY <1>4 DEF Sound, Earned, exist, history
<1>6. FirstIsAdmin'
  <2>1. ASSUME NEW q \in Requests, req[q].pc = "hook"
        PROVE  req'[q] = req[q]
    BY <1>2, <2>1
  <2> QED
    BY <1>1, <2>1 DEF FirstIsAdmin, history
<1>7. RowsEarned' /\ stray' = {} /\ TokensAreForGuests'
  BY <1>1 DEF RowsEarned, Earned, TokensAreForGuests, exist, history
<1> QED
  BY <1>3, <1>5, <1>6, <1>7
     DEF IInv, Known, Early, Vouched, GuestsSeen, Sound, RowsEarned, VerifiedWasEarned

\* What writing a row does, if a verified one is earned.
LEMMA WriteRow ==
    ASSUME TypeOK, RowsEarned, NEW a \in Account, NEW row \in Row, Write(a, row), Grows,
           row.verified => Earned(proved', carried', a, row.email)
    PROVE  /\ exist' = exist \cup {a}
           /\ rows' \in [exist' -> Row]
           /\ rows'[a] = row
           /\ \A b \in exist : b # a => rows'[b] = rows[b]
           /\ RowsEarned'
<1>1. exist' = exist \cup {a} /\ rows'[a] = row /\ (\A b \in exist : b # a => rows'[b] = rows[b])
      /\ rows' = [b \in exist \cup {a} |-> IF b = a THEN row ELSE rows[b]]
  BY DEF Write, WithRow, exist
<1>2. rows' \in [exist' -> Row]
  BY <1>1 DEF TypeOK
<1>3. ASSUME NEW b \in exist', rows'[b].verified
      PROVE  Earned(proved', carried', b, rows'[b].email)
  <2>1. CASE b = a
    BY <1>1, <1>3, <2>1 DEF Earned
  <2>2. CASE b # a
    <3>1. b \in exist /\ rows'[b] = rows[b]
      BY <1>1, <2>2
    <3>2. Earned(proved, carried, b, rows[b].email)
      BY <1>3, <3>1 DEF RowsEarned
    <3> QED
      BY <3>1, <3>2 DEF Earned, Grows
  <2> QED
    BY <2>1, <2>2
<1>4. RowsEarned'
  BY <1>3 DEF RowsEarned, Earned
<1> QED
  BY <1>1, <1>2, <1>4

\* A step that writes a row: what is left to show.
LEMMA WriteStep ==
    ASSUME IInv, NEW a \in Account, NEW row \in Row, Write(a, row), Grows,
           row.verified => Earned(proved', carried', a, row.email),
           req' \in [Requests -> Held],
           \A q \in Requests : req'[q] = req[q] \/ Sound(req[q])',
           owner' \in [Identity -> Account \cup {None}],
           stray' = stray,
           guests' \cap exist \subseteq guests, guests' \subseteq exist', TokensAreForGuests',
           UNCHANGED <<admins, hookLost>>,
           FirstIsAdmin', first' \in Account \cup {None}
    PROVE  IInv'
<1>1. TypeOK /\ RowsEarned /\ (\A q \in Requests : Sound(req[q])) /\ stray = {}
  BY ByRequest
<1>2. exist' = exist \cup {a} /\ rows' \in [exist' -> Row] /\ RowsEarned'
  BY <1>1, WriteRow
<1>3. TypeOK'
  BY <1>1, <1>2 DEF TypeOK, Held, Grows
<1>4. (\A q \in Requests : Sound(req[q]))'
  <2>1. \A v : Sound(v) => Sound(v)'
    BY <1>2, StaysSound DEF Grows
  <2>2. ASSUME NEW q \in Requests, req'[q] = req[q]
        PROVE  Sound(req[q])'
    BY <1>1, <2>1, <2>2 DEF Sound, Earned
  <2> QED
    BY <2>2
<1> QED
  BY <1>1, <1>2, <1>3, <1>4
     DEF IInv, Known, Early, Vouched, GuestsSeen, Sound, RowsEarned, VerifiedWasEarned

\* The first account's claim to the grant survives a step that keeps first,
\* the grants and every pending hook.
LEMMA KeepsClaim ==
    ASSUME FirstIsAdmin, first' = first, admins \subseteq admins', hookLost \subseteq hookLost',
           \A q \in Requests : req[q].pc = "hook" => req'[q] = req[q]
    PROVE  FirstIsAdmin'
BY DEF FirstIsAdmin

\* Linking an identity keeps the type of owner.
LEMMA BindType ==
    ASSUME TypeOK, NEW a \in Account, NEW i \in Identity \cup {None}, Bind(i, a)
    PROVE  owner' \in [Identity -> Account \cup {None}]
BY NoneAssumption DEF TypeOK, Bind

LEMMA IdleSound == Idle \in Held /\ Sound(Idle) /\ Sound(Idle)'
BY DEF Held, Sound, Idle

\* Reading steps of the resolver, of registration, update and verification.
LEMMA ReadsPreserve ==
    ASSUME IInv, NEW r \in Requests,
           \/ \E e \in Email : RegisterCount(r, e) \/ VerifyRead(r, e)
           \/ AutoCount(r)
           \/ \E who \in Principal : ResolveIdentity(r, who)
           \/ ResolveEmail(r)
           \/ \E a \in Account, e \in Email \cup {None} : UpdateRead(r, a, e)
    PROVE  IInv'
<1>1. TypeOK /\ RowsEarned /\ TokensAreForGuests /\ req[r] \in Held /\ Sound(req[r])
  BY ByRequest DEF TypeOK, Held
<1>2. ASSUME NEW e \in Email, RegisterCount(r, e) PROVE IInv'
  <2> DEFINE v == [pc |-> "create", isFirst |-> CountsAsFirst,
                   who |-> [identity |-> None, email |-> e, verified |-> FALSE]]
  <2>1. v \in Held
    BY DEF Held, Creating, NewAccount, CountsAsFirst
  <2>2. Sound(v)
    BY DEF Sound, CountsAsFirst
  <2>9. req[r].pc # "hook"
    BY <1>2 DEF RegisterCount, Idle
  <2> QED
    BY <1>2, <2>1, <2>2, <2>9, ReadStep DEF RegisterCount
<1>3. ASSUME NEW e \in Email, VerifyRead(r, e) PROVE IInv'
  <2>1. PICK a \in HasEmail(e) : req' = [req EXCEPT ![r] = [pc |-> "mark", account |-> a, email |-> e]]
    BY <1>3 DEF VerifyRead
  <2>2. a \in exist /\ a \in Account /\ rows[a].email = e
    BY <1>1 DEF HasEmail, TypeOK
  <2> DEFINE v == [pc |-> "mark", account |-> a, email |-> e]
  <2>3. v \in Held
    BY <2>2 DEF Held, Marking
  <2>4. a \notin guests
    BY <1>1, <2>2, NoneAssumption DEF TokensAreForGuests
  <2>5. Sound(v)
    BY <2>2, <2>4 DEF Sound
  <2>9. req[r].pc # "hook"
    BY <1>3 DEF VerifyRead, Idle
  <2> QED
    BY <1>3, <2>1, <2>3, <2>5, <2>9, ReadStep DEF VerifyRead
<1>4. ASSUME AutoCount(r) PROVE IInv'
  <2> DEFINE v == [pc |-> "create", isFirst |-> CountsAsFirst, who |-> req[r].who]
  <2>1. req[r].who \in Principal
    BY <1>1, <1>4, Kinds DEF AutoCount, Looking
  <2>2. v \in Held
    BY <2>1 DEF Held, Creating, NewAccount, Principal, CountsAsFirst
  <2>3. Sound(v)
    BY DEF Sound, CountsAsFirst
  <2> QED
    BY <1>4, <2>2, <2>3, ReadStep DEF AutoCount
<1>5. ASSUME NEW who \in Principal, ResolveIdentity(r, who) PROVE IInv'
  <2> DEFINE v == [pc |-> IF who.email = None THEN "count" ELSE "lookup", who |-> who]
  <2>1. v \in Held /\ Sound(v)
    BY DEF Held, Looking, Sound
  <2>9. req[r].pc # "hook"
    BY <1>5 DEF ResolveIdentity, Idle
  <2> QED
    BY <1>5, <2>1, <2>9, ReadStep DEF ResolveIdentity
<1>6. ASSUME ResolveEmail(r) PROVE IInv'
  <2> DEFINE who == req[r].who
  <2>1. who \in Principal /\ who.verified \in BOOLEAN /\ req[r].pc = "lookup"
    BY <1>1, <1>6, Kinds DEF ResolveEmail, Looking, Principal
  <2>2. CASE /\ HasEmail(who.email) = {}
             /\ req' = [req EXCEPT ![r] = [pc |-> "count", who |-> who]]
    <3>1. [pc |-> "count", who |-> who] \in Held /\ Sound([pc |-> "count", who |-> who])
      BY <2>1 DEF Held, Looking, Sound
    <3> QED
      BY <1>6, <2>1, <2>2, <3>1, ReadStep DEF ResolveEmail
  <2>3. ASSUME NEW a \in HasEmail(who.email), Branch(a, who) = "refuse",
               req' = [req EXCEPT ![r] = Idle]
        PROVE  IInv'
    BY <1>6, <2>1, <2>3, IdleSound, ReadStep DEF ResolveEmail
  <2>4. ASSUME NEW a \in HasEmail(who.email), Branch(a, who) # "refuse",
               req' = [req EXCEPT ![r] = [pc |-> Branch(a, who), who |-> who, account |-> a]]
        PROVE  IInv'
    <3> DEFINE v == [pc |-> Branch(a, who), who |-> who, account |-> a]
    <3>1. a \in exist /\ a \in Account /\ rows[a].email = who.email
      BY <1>1 DEF HasEmail, TypeOK
    <3>2. \/ Branch(a, who) = "link" /\ rows[a].verified
          \/ Branch(a, who) = "verify" /\ who.verified
      BY <2>4 DEF Branch
    <3>3. v \in Held
      BY <2>1, <3>1, <3>2 DEF Held, Joining
    <3>4. a \notin guests
      BY <1>1, <2>1, <3>1 DEF Sound, TokensAreForGuests
    <3>5. Sound(v)
      BY <1>1, <3>1, <3>2, <3>4 DEF Sound, RowsEarned
    <3> QED
      BY <1>6, <2>1, <2>4, <3>3, <3>5, ReadStep DEF ResolveEmail
  <2> QED
    BY <1>6, <2>2, <2>3, <2>4 DEF ResolveEmail
<1>7. ASSUME NEW a \in Account, NEW e \in Email \cup {None}, UpdateRead(r, a, e) PROVE IInv'
  <2> DEFINE v == [pc |-> "update", account |-> a, email |-> e, seen |-> rows[a]]
  <2>1. a \in exist /\ rows[a] \in Row
    BY <1>1, <1>7 DEF UpdateRead, TypeOK
  <2>2. v \in Held
    BY <2>1 DEF Held, Updating
  <2>3. Sound(v)
    BY <1>1, <2>1 DEF Sound, TokensAreForGuests, RowsEarned
  <2>9. req[r].pc # "hook"
    BY <1>7 DEF UpdateRead, Idle
  <2> QED
    BY <1>7, <2>2, <2>3, <2>9, ReadStep DEF UpdateRead
<1> QED
  BY <1>2, <1>3, <1>4, <1>5, <1>6, <1>7

\* The commit of Register and autoCreate.
LEMMA CreatePreserves ==
    ASSUME IInv, NEW r \in Requests, CreateCommit(r)
    PROVE  IInv'
<1> DEFINE who == req[r].who
<1>1. /\ TypeOK /\ RowsEarned /\ FirstIsAdmin /\ TokensAreForGuests /\ Sound(req[r])
      /\ req \in [Requests -> Held] /\ req[r] \in Held
  BY ByRequest DEF TypeOK, Held
<1>2. req[r] \in Creating /\ who \in NewAccount /\ req[r].pc = "create"
  BY <1>1, Kinds DEF CreateCommit, Creating
<1>3. CASE Answer(r) /\ UNCHANGED <<rows, owner, first, proved, carried>>
  BY <1>2, <1>3, IdleSound, ReadStep DEF CreateCommit, Answer, history
<1>4. ASSUME NEW a \in Account \ exist,
             Write(a, [email |-> who.email, verified |-> who.verified]),
             Proves(a, who.email, who.verified),
             Bind(who.identity, a),
             first' = IF exist = {} THEN a ELSE first,
             req' = [req EXCEPT ![r] =
                       IF req[r].isFirst THEN [pc |-> "hook", account |-> a] ELSE Idle]
      PROVE  IInv'
  <2> DEFINE row == [email |-> who.email, verified |-> who.verified]
             v   == IF req[r].isFirst THEN [pc |-> "hook", account |-> a] ELSE Idle
  <2>1. row \in Row /\ who.identity \in Identity \cup {None}
    BY <1>2 DEF NewAccount, Row
  <2>0. Grows /\ (row.verified => Earned(proved', carried', a, row.email))
    BY <1>1, <1>2, <1>4 DEF CreateCommit, Grows, Proves, Earned, TypeOK, NewAccount
  <2>2. /\ exist' = exist \cup {a} /\ rows' \in [exist' -> Row] /\ rows'[a] = row
        /\ (\A b \in exist : b # a => rows'[b] = rows[b])
    BY <1>1, <1>4, <2>0, <2>1, WriteRow
  <2>3. v \in Held
    BY DEF Held, Hooking, Idle
  <2>4. req' \in [Requests -> Held] /\ req'[r] = v
        /\ \A q \in Requests : q # r => req'[q] = req[q]
    BY <1>1, <1>4, <2>3
  <2>5. Sound(req[r])'
    BY <2>2, <2>4 DEF Sound, Idle
  <2>6. owner' \in [Identity -> Account \cup {None}]
    BY <1>1, <1>4, <2>1, BindType
  <2>7. UNCHANGED <<guests, admins, hookLost, stray>>
    BY DEF CreateCommit
  <2>8. TokensAreForGuests' /\ guests' \subseteq exist'
    BY <1>1, <2>2, <2>7 DEF TokensAreForGuests, TypeOK
  <2>9. FirstIsAdmin'
    <3>1. CASE exist = {}
      <4>1. req[r].isFirst
        BY <1>1, <1>2, <3>1 DEF Sound
      <4>2. first' = a /\ req'[r] = [pc |-> "hook", account |-> a]
        BY <1>4, <2>4, <3>1, <4>1
      <4> QED
        BY <4>2 DEF FirstIsAdmin
    <3>2. CASE exist # {}
      BY <1>1, <1>2, <1>4, <2>4, <2>7, <3>2, KeepsClaim
    <3> QED
      BY <3>1, <3>2
  <2>10. first' \in Account \cup {None}
    BY <1>1, <1>4, <2>7 DEF TypeOK
  <2> QED
    BY <1>4, <2>0, <2>1, <2>4, <2>5, <2>6, <2>7, <2>8, <2>9, <2>10, WriteStep
<1> QED
  BY <1>3, <1>4 DEF CreateCommit

\* Creation by an administrator and of guests.
LEMMA OthersPreserve ==
    ASSUME IInv, (\E e \in Email : Create(e)) \/ CreateAnonymousUser
    PROVE  IInv'
<1>1. /\ TypeOK /\ RowsEarned /\ FirstIsAdmin /\ TokensAreForGuests
      /\ req \in [Requests -> Held]
  BY ByRequest DEF TypeOK, Held
<1>2. PICK a \in Account \ exist, e \in Email \cup {None} :
        /\ Write(a, [email |-> e, verified |-> FALSE])
        /\ guests' = guests \/ (guests' = guests \cup {a} /\ e = None)
        /\ UNCHANGED <<owner, admins, req, first, hookLost, proved, carried, stray>>
  BY DEF Create, CreateAnonymousUser, history
<1> DEFINE row == [email |-> e, verified |-> FALSE]
<1>3. row \in Row /\ Grows /\ ~row.verified
  BY <1>1, <1>2 DEF Row, Grows, TypeOK
<1>4. /\ exist' = exist \cup {a} /\ rows'[a] = row
      /\ (\A b \in exist : b # a => rows'[b] = rows[b])
  BY <1>1, <1>2, <1>3, WriteRow
<1>5. TokensAreForGuests' /\ guests' \subseteq exist' /\ guests' \cap exist \subseteq guests
  BY <1>1, <1>2, <1>4 DEF TokensAreForGuests, TypeOK
<1>6. FirstIsAdmin'
  BY <1>1, <1>2, KeepsClaim
<1>7. /\ owner' \in [Identity -> Account \cup {None}] /\ first' \in Account \cup {None}
  BY <1>1, <1>2 DEF TypeOK
<1> QED
  BY <1>1, <1>2, <1>3, <1>5, <1>6, <1>7, WriteStep

\* The hook grants, or fails and is noted; other failures only end a request.
LEMMA HookPreserves ==
    ASSUME IInv, NEW r \in Requests, firstUserHook(r) \/ Fail(r)
    PROVE  IInv'
<1>1. /\ TypeOK /\ RowsEarned /\ FirstIsAdmin /\ stray = {} /\ TokensAreForGuests
      /\ (\A q \in Requests : Sound(req[q])) /\ req \in [Requests -> Held]
  BY ByRequest DEF TypeOK, Held
<1>2. CASE req[r].pc = "hook"
  <2>1. req[r].account \in exist /\ req[r].account \in Account
    BY <1>1, <1>2 DEF Sound, TypeOK
  <2>2. /\ UNCHANGED <<rows, owner, guests, first, proved, carried, stray>>
        /\ req' = [req EXCEPT ![r] = Idle]
        /\ admins \subseteq admins' /\ admins' \subseteq admins \cup {req[r].account}
        /\ hookLost \subseteq hookLost' /\ hookLost' \subseteq hookLost \cup {req[r].account}
        /\ req[r].account \in admins' \cup hookLost'
    BY <1>2 DEF firstUserHook, Fail, Answer, history
  <2>3. req' \in [Requests -> Held] /\ req'[r] = Idle
        /\ \A q \in Requests : q # r => req'[q] = req[q]
    BY <1>1, <2>2, IdleSound
  <2>4. TypeOK'
    BY <1>1, <2>1, <2>2, <2>3 DEF TypeOK, Held, exist
  <2>5. ASSUME NEW q \in Requests PROVE Sound(req[q])'
    <3>1. CASE q = r
      BY <2>3, <3>1 DEF Sound, Idle
    <3>2. CASE q # r
      BY <1>1, <2>2, <2>3, <3>2 DEF Sound, Earned, exist
    <3> QED
      BY <3>1, <3>2
  <2>6. FirstIsAdmin'
    BY <1>1, <2>2, <2>3 DEF FirstIsAdmin
  <2>7. RowsEarned' /\ stray' = {} /\ TokensAreForGuests'
    BY <1>1, <2>2 DEF RowsEarned, Earned, TokensAreForGuests, exist
  <2> QED
    BY <2>4, <2>5, <2>6, <2>7
       DEF IInv, Known, Early, Vouched, GuestsSeen, Sound, RowsEarned, VerifiedWasEarned
<1>3. CASE req[r].pc # "hook"
  BY <1>3, IdleSound, ReadStep DEF firstUserHook, Fail, Answer, history
<1> QED
  BY <1>2, <1>3

\* linkIdentity writes no row.
LEMMA LinkPreserves ==
    ASSUME IInv, NEW r \in Requests, linkIdentity(r)
    PROVE  IInv'
<1> DEFINE who == req[r].who
<1>1. /\ TypeOK /\ RowsEarned /\ FirstIsAdmin /\ stray = {} /\ TokensAreForGuests
      /\ (\A q \in Requests : Sound(req[q])) /\ req \in [Requests -> Held]
  BY ByRequest DEF TypeOK, Held
<1>2. /\ req[r].pc = "link" /\ who \in Principal /\ req[r].account \in Account
      /\ Earned(proved, carried, req[r].account, who.email)
  <2>1. req[r].pc = "link" /\ req[r] \in Joining
    BY <1>1, Kinds DEF linkIdentity
  <2> QED
    BY <1>1, <2>1 DEF Joining, Sound
<1>3. /\ req' = [req EXCEPT ![r] = Idle]
      /\ UNCHANGED <<rows, guests, admins, first, hookLost, proved, carried>>
  BY DEF linkIdentity, Answer
<1>4. req' \in [Requests -> Held] /\ req'[r] = Idle
      /\ \A q \in Requests : q # r => req'[q] = req[q]
  BY <1>1, <1>3, IdleSound
<1>5. owner' \in [Identity -> Account \cup {None}]
  <2>1. who.identity \in Identity \cup {None}
    BY <1>2 DEF Principal
  <2>2. owner' = owner \/ Bind(who.identity, req[r].account)
    BY DEF linkIdentity
  <2> QED
    BY <1>1, <1>2, <2>1, <2>2, BindType DEF TypeOK
<1>6. stray' = {}
  <2>1. Unearned(req[r].account, who) = {}
    BY <1>2 DEF Unearned
  <2> QED
    BY <1>1, <2>1 DEF linkIdentity
<1>9. TypeOK'
  BY <1>1, <1>3, <1>4, <1>5, <1>6 DEF TypeOK, Held, exist
<1>10. ASSUME NEW q \in Requests PROVE Sound(req[q])'
  <2>1. CASE q = r
    BY <1>4, <2>1 DEF Sound, Idle
  <2>2. CASE q # r
    BY <1>1, <1>3, <1>4, <2>2 DEF Sound, Earned, exist
  <2> QED
    BY <2>1, <2>2
<1>11. FirstIsAdmin'
  BY <1>1, <1>2, <1>3, <1>4, KeepsClaim
<1>12. RowsEarned' /\ TokensAreForGuests'
  BY <1>1, <1>3 DEF RowsEarned, Earned, TokensAreForGuests, exist
<1> QED
  BY <1>6, <1>9, <1>10, <1>11, <1>12
     DEF IInv, Known, Early, Vouched, GuestsSeen, Sound, RowsEarned, VerifiedWasEarned

\* A request that ends by writing its account's row with an email.
LEMMA RewriteStep ==
    ASSUME IInv, NEW r \in Requests, NEW row \in Row, Write(req[r].account, row), Grows,
           row.verified => Earned(proved', carried', req[r].account, row.email),
           req[r].pc \in {"verify", "update", "mark"}, Answer(r),
           owner' \in [Identity -> Account \cup {None}],
           stray' = stray,
           guests' \subseteq guests,
           req[r].account \in guests' => row.email = None,
           UNCHANGED <<admins, first, hookLost>>
    PROVE  IInv'
<1> DEFINE a == req[r].account
<1>1. /\ TypeOK /\ RowsEarned /\ FirstIsAdmin /\ TokensAreForGuests
      /\ req \in [Requests -> Held] /\ Sound(req[r])
  BY ByRequest DEF TypeOK, Held
<1>2. a \in exist /\ a \in Account
  BY <1>1 DEF Sound, TypeOK
<1>3. PICK b \in Account : b = a
  BY <1>2
<1>10. row.verified => Earned(proved', carried', b, row.email)
  BY <1>3 DEF Earned
<1>4. /\ exist' = exist \cup {b} /\ rows'[b] = row
      /\ (\A c \in exist : c # b => rows'[c] = rows[c])
  BY <1>1, <1>3, <1>10, WriteRow
<1>5. req' \in [Requests -> Held] /\ req'[r] = Idle
      /\ \A q \in Requests : q # r => req'[q] = req[q]
  BY <1>1, IdleSound DEF Answer
<1>6. \A q \in Requests : req'[q] = req[q] \/ Sound(req[q])'
  BY <1>5 DEF Sound, Idle
<1>7. TokensAreForGuests' /\ guests' \subseteq exist'
  BY <1>1, <1>3, <1>4 DEF TokensAreForGuests, TypeOK
<1>8. FirstIsAdmin'
  BY <1>1, <1>5, KeepsClaim
<1>9. first' \in Account \cup {None}
  BY <1>1 DEF TypeOK
<1> QED
  BY <1>3, <1>5, <1>6, <1>7, <1>8, <1>9, <1>10, WriteStep

LEMMA RewritesPreserve ==
    ASSUME IInv, NEW r \in Requests, verifyAndLink(r) \/ UpdateCommit(r) \/ VerifyMark(r)
    PROVE  IInv'
<1>1. /\ TypeOK /\ (\A q \in Requests : Sound(req[q])) /\ req[r] \in Held
  BY ByRequest DEF TypeOK, Held
<1>2. ASSUME Answer(r), UNCHANGED <<rows, owner, guests, admins, history>>, req[r].pc # "hook"
      PROVE  IInv'
  BY <1>2, IdleSound, ReadStep DEF Answer
<1>3. CASE verifyAndLink(r)
  <2> DEFINE who == req[r].who
             row == [email |-> who.email, verified |-> TRUE]
  <2>1. req[r].pc = "verify" /\ req[r] \in Joining
    BY <1>1, <1>3, Kinds DEF verifyAndLink
  <2>2. /\ who \in Principal /\ who.verified /\ req[r].account \in Account
        /\ req[r].account \notin guests
    BY <1>1, <2>1 DEF Joining, Sound
  <2>3. row \in Row /\ who.identity \in Identity \cup {None}
    BY <2>2 DEF Row, Principal
  <2>4. CASE UNCHANGED <<rows, owner, proved, carried, stray>>
    BY <1>2, <1>3, <2>1, <2>4 DEF verifyAndLink, history
  <2>5. CASE /\ Write(req[r].account, row) /\ Bind(who.identity, req[r].account)
             /\ Proves(req[r].account, who.email, who.verified)
             /\ stray' = stray \cup Unearned(req[r].account, who)
    <3>1. stray' = stray
      BY <2>2, <2>5 DEF Unearned
    <3>2. owner' \in [Identity -> Account \cup {None}]
      BY <1>1, <2>2, <2>3, <2>5, BindType
    <3>3. UNCHANGED <<guests, admins, first, hookLost>> /\ Answer(r)
      BY <1>3 DEF verifyAndLink
    <3>4. Grows /\ (row.verified => Earned(proved', carried', req[r].account, row.email))
      BY <1>1, <2>2, <2>5, <3>3 DEF Grows, Proves, Earned, TypeOK, Principal
    <3> QED
      BY <2>1, <2>2, <2>3, <2>5, <3>1, <3>2, <3>3, <3>4, RewriteStep
  <2> QED
    BY <1>3, <2>4, <2>5 DEF verifyAndLink
<1>4. CASE UpdateCommit(r)
  <2> DEFINE seen == req[r].seen
             e    == IF req[r].email = None THEN seen.email ELSE req[r].email
             row  == [email |-> e, verified |-> seen.verified]
  <2>1. req[r].pc = "update" /\ req[r] \in Updating
    BY <1>1, <1>4, Kinds DEF UpdateCommit
  <2>2. /\ seen \in Row /\ row \in Row
        /\ (req[r].account \in guests => seen.email = None)
        /\ (seen.verified => Earned(proved, carried, req[r].account, seen.email))
        /\ req[r].account \in Account
    BY <1>1, <2>1 DEF Updating, Row, Sound
  <2>3. CASE UNCHANGED <<rows, guests, carried>>
    BY <1>2, <1>4, <2>1, <2>3 DEF UpdateCommit, history
  <2>4. CASE /\ Write(req[r].account, row)
             /\ guests' = IF Upgraded(seen, e) THEN guests \ {req[r].account} ELSE guests
             /\ carried' = IF seen.verified /\ req[r].email # None
                            THEN carried \cup ({<<req[r].account, e>>} \ proved) ELSE carried
    <3>1. UNCHANGED <<owner, admins, first, hookLost, proved, stray>> /\ Answer(r)
      BY <1>4 DEF UpdateCommit
    <3>2. guests' \subseteq guests /\ (req[r].account \in guests' => row.email = None)
      BY <2>2, <2>4 DEF Upgraded
    <3>3. owner' \in [Identity -> Account \cup {None}]
      BY <1>1, <3>1 DEF TypeOK
    <3>4. Grows
      BY <1>1, <2>2, <2>4, <3>1 DEF Grows, TypeOK, Row
    <3>5. ASSUME seen.verified
          PROVE  Earned(proved', carried', req[r].account, e)
      <4>1. PICK f \in Email \cup {None} : <<req[r].account, f>> \in proved
        BY <2>2, <3>5 DEF Earned, Row
      <4>2. CASE req[r].email = None
        BY <2>2, <3>4, <3>5, <4>2 DEF Earned, Grows
      <4>3. CASE req[r].email # None
        <5>1. <<req[r].account, e>> \in proved' \cup carried'
          BY <2>4, <3>1, <3>5, <4>3
        <5> QED
          BY <3>4, <4>1, <5>1 DEF Earned, Grows
      <4> QED
        BY <4>2, <4>3
    <3>6. row.verified => Earned(proved', carried', req[r].account, row.email)
      BY <3>5
    <3> QED
      BY <2>1, <2>2, <2>4, <3>1, <3>2, <3>3, <3>4, <3>6, RewriteStep
  <2> QED
    BY <1>4, <2>3, <2>4 DEF UpdateCommit
<1>5. CASE VerifyMark(r)
  <2> DEFINE row == [email |-> req[r].email, verified |-> TRUE]
  <2>1. req[r].pc = "mark" /\ req[r] \in Marking
    BY <1>1, <1>5, Kinds DEF VerifyMark
  <2>2. row \in Row /\ req[r].account \notin guests /\ req[r].account \in Account
    BY <1>1, <2>1 DEF Marking, Row, Sound
  <2>3. CASE UNCHANGED <<rows, proved, carried>>
    BY <1>2, <1>5, <2>1, <2>3 DEF VerifyMark, history
  <2>4. CASE Write(req[r].account, row) /\ Proves(req[r].account, req[r].email, TRUE)
    <3>1. UNCHANGED <<owner, guests, admins, first, hookLost, stray>> /\ Answer(r)
      BY <1>5 DEF VerifyMark
    <3>2. owner' \in [Identity -> Account \cup {None}]
      BY <1>1, <3>1 DEF TypeOK
    <3>3. Grows /\ (row.verified => Earned(proved', carried', req[r].account, row.email))
      BY <1>1, <2>2, <2>4, <3>1 DEF Grows, Proves, Earned, TypeOK, Row
    <3> QED
      BY <2>1, <2>2, <2>4, <3>1, <3>2, <3>3, RewriteStep
  <2> QED
    BY <1>5, <2>3, <2>4 DEF VerifyMark, MarkLoaded
<1> QED
  BY <1>3, <1>4, <1>5

LEMMA InitInvariant == Init => IInv
<1> SUFFICES ASSUME Init PROVE IInv
  OBVIOUS
<1>1. exist = {} /\ rows \in [exist -> Row]
  BY DEF Init, NoRows, exist
<1>2. TypeOK
  BY <1>1 DEF Init, TypeOK, Idle
<1>3. \A r \in Requests : Sound(req[r])
  BY DEF Init, Sound, Idle
<1>4. RowsEarned /\ FirstIsAdmin /\ stray = {} /\ TokensAreForGuests
  BY <1>1 DEF Init, RowsEarned, FirstIsAdmin, TokensAreForGuests
<1> QED
  BY <1>2, <1>3, <1>4, ByRequest

\* The invariant is inductive: no step of any handler breaks it.
THEOREM Invariance == Spec => []IInv
<1>1. ASSUME IInv, [Next]_vars PROVE IInv'
  <2>1. CASE UNCHANGED vars
    BY <1>1, <2>1 DEF vars, history, IInv, TypeOK, Known, Early, Vouched, GuestsSeen,
         FirstIsAdmin, VerifiedWasEarned, Earned, TokensAreForGuests, exist
  <2>2. ASSUME NEW r \in Requests, Request(r) PROVE IInv'
    BY <1>1, <2>2, ReadsPreserve, CreatePreserves, HookPreserves, LinkPreserves,
       RewritesPreserve DEF Request, RegisterCommit, autoCreate
  <2>3. CASE (\E e \in Email : Create(e)) \/ CreateAnonymousUser
    BY <1>1, <2>3, OthersPreserve
  <2> QED
    BY <1>1, <2>1, <2>2, <2>3 DEF Next
<1> QED
  BY <1>1, InitInvariant, PTL DEF Spec

\* Every variable keeps its type, and tokens and grants belong to accounts
\* that exist.
THEOREM TypeCorrect == Spec => []TypeOK
BY Invariance, PTL DEF IInv

\* The first account that registers or comes from a provider is made
\* administrator unless its hook fails, for any number of registrations.
THEOREM FreshDatabaseGetsAdmin == Spec => []FirstIsAdmin
BY Invariance, PTL DEF IInv

\* However verification, updates and the resolver interleave, an address counts
\* as verified for an account only if a code or a provider proved it, or an
\* update put it in the place of one while the account had proved some; and the
\* resolver links an identity that its provider does not vouch for only through
\* such an address.
THEOREM VerifiedIsEarned == Spec => []VerifiedWasEarned
BY Invariance, PTL DEF IInv

\* A guest that gets an email loses its continuity token, whatever order
\* concurrent updates commit in.
THEOREM TokensOnlyForGuests == Spec => []TokensAreForGuests
BY Invariance, PTL DEF IInv
=============================================================================
