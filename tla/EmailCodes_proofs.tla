-------------------------- MODULE EmailCodes_proofs --------------------------
(***************************************************************************)
(* Proofs about EmailCodes, for any number of accounts, codes, concurrent  *)
(* requests and sends, and any limits: the types, the semaphore, the       *)
(* guessing budget, single use, the refinement of OneTimeCode, then the    *)
(* isolation of accounts and purposes, expiry, the cooldown and the number *)
(* of codes alive together.                                                *)
(***************************************************************************)
EXTENDS EmailCodes, TLAPS, FiniteSetTheorems

----------------------------------------------------------------------------
(* Facts about the records *)

\* A request past its lookup holds a full record.
LEMMA BusyRequest ==
    ASSUME TypeOK, NEW r \in Requests, req[r] # Idle
    PROVE  req[r] \in Verifying
BY DEF TypeOK

\* A goroutine in flight holds a full record.
LEMMA BusySend ==
    ASSUME TypeOK, NEW s \in Sends, send[s] # Idle
    PROVE  send[s] \in Sending
BY DEF TypeOK

\* The sets that are counted are finite.
LEMMA Counted ==
    /\ IsFiniteSet(Dispatched)
    /\ \A c : IsFiniteSet(Comparing(c))
<1>1. Dispatched \in SUBSET Sends
  BY DEF Dispatched
<1>2. \A c : Comparing(c) \in SUBSET Requests
  BY DEF Comparing
<1> QED
  BY <1>1, <1>2, FS_Subset, FiniteProcesses

----------------------------------------------------------------------------
(* The sends *)

\* What a step of a send does to the state the verify handlers use: nothing,
\* or one fresh row.
Fresh ==
    /\ UNCHANGED <<req, compared, grants, granted>>
    /\ minted \subseteq minted'
    /\ minted' \subseteq CodeId
    /\ \A c \in minted : codes'[c] = codes[c]
    /\ \A c \in minted' \ minted : codes'[c].attempts = 0 /\ ~codes'[c].consumed

\* Finishing a goroutine keeps the semaphore exact.
LEMMA FinishExact ==
    ASSUME TypeOK, SlotsExact, NEW s \in Sends, send[s] # Idle, Finish(s)
    PROVE  /\ send' \in [Sends -> Sending \cup {Idle}]
           /\ slots' \in 0..SlotCap
           /\ SlotsExact'
<1>1. send' \in [Sends -> Sending \cup {Idle}]
  BY DEF TypeOK, Finish
<1>2. Dispatched' = Dispatched \ {s}
  BY DEF TypeOK, Finish, Dispatched
<1>3. send[s].via = "public" <=> s \in Dispatched
  BY DEF Dispatched
<1>4. SlotsExact'
  BY <1>2, <1>3, Counted, FS_RemoveElement DEF SlotsExact, Finish
<1>5. Cardinality(Dispatched') \in Nat
  BY <1>2, Counted, FS_RemoveElement, FS_CardinalityType
<1>6. slots' \in 0..SlotCap
  BY <1>4, <1>5, ParamsAssumption DEF SlotsExact, TypeOK, Finish
<1> QED
  BY <1>1, <1>4, <1>6

\* Moving a goroutine along keeps it too.
LEMMA AdvanceExact ==
    ASSUME TypeOK, SlotsExact, NEW s \in Sends, send[s] # Idle,
           NEW v, v \in Sending, v.via = send[s].via,
           send' = [send EXCEPT ![s] = v], slots' = slots
    PROVE  /\ send' \in [Sends -> Sending \cup {Idle}]
           /\ slots' \in 0..SlotCap
           /\ SlotsExact'
<1>1. v # Idle
  BY DEF Sending, Idle
<1>2. Dispatched' = Dispatched
  BY <1>1 DEF TypeOK, Dispatched
<1> QED
  BY <1>2 DEF TypeOK, SlotsExact

\* Starting a goroutine, in the semaphore or outside it.
LEMMA SpawnExact ==
    ASSUME TypeOK, SlotsExact, NEW s \in Sends, send[s] = Idle,
           NEW via \in Entry, NEW u \in User, NEW p \in Purpose,
           Spawn(s, via, u, p),
           slots' = IF via = "public" THEN slots + 1 ELSE slots
    PROVE  /\ send' \in [Sends -> Sending \cup {Idle}]
           /\ SlotsExact'
<1> DEFINE v == [pc |-> "check", via |-> via, user |-> u, purpose |-> p,
                 started |-> clock, expires |-> 0, created |-> 0]
<1>1. v \in Sending
  BY DEF Sending, TypeOK
<1>2. v # Idle
  BY <1>1 DEF Sending, Idle
<1>3. send' = [send EXCEPT ![s] = v]
  BY DEF Spawn
<1>4. send' \in [Sends -> Sending \cup {Idle}]
  BY <1>1, <1>3 DEF TypeOK
<1> HIDE DEF v
<1>v. v.via = via
  BY DEF v
<1>5. Dispatched' = IF via = "public" THEN Dispatched \cup {s} ELSE Dispatched
  <2>1. \A t \in Sends : send'[t] = IF t = s THEN v ELSE send[t]
    BY <1>3 DEF TypeOK
  <2> QED
    BY <2>1, <1>2, <1>v DEF Dispatched
<1>6. s \notin Dispatched
  BY DEF Dispatched
<1>7. SlotsExact'
  BY <1>5, <1>6, Counted, FS_AddElement DEF SlotsExact
<1> QED
  BY <1>4, <1>7

\* Every step of a send keeps the types and the semaphore, and touches the
\* rows only by adding a fresh one.
LEMMA SendStep ==
    ASSUME TypeOK, SlotsExact, NEW s \in Sends, Send(s)
    PROVE  TypeOK' /\ SlotsExact' /\ Fresh
<1>1. CASE \E u \in User, p \in Purpose : Dispatch(s, u, p)
  <2>1. PICK u \in User, p \in Purpose : Dispatch(s, u, p)
    BY <1>1
  <2>2. send' \in [Sends -> Sending \cup {Idle}] /\ SlotsExact'
    BY <2>1, SpawnExact DEF Dispatch, Entry
  <2>3. slots' \in 0..SlotCap
    BY <2>1, ParamsAssumption DEF Dispatch, TypeOK
  <2> QED
    BY <2>1, <2>2, <2>3 DEF Dispatch, TypeOK, Fresh, history, minted
<1>2. CASE \E u \in User : Register(s, u)
  <2>1. PICK u \in User : Register(s, u)
    BY <1>2
  <2>2. send' \in [Sends -> Sending \cup {Idle}] /\ SlotsExact'
    BY <2>1, SpawnExact DEF Register, Entry
  <2> QED
    BY <2>1, <2>2 DEF Register, TypeOK, Fresh, history, minted
<1>3. CASE \E u \in User : StepUpRequest(s, u)
  <2>1. PICK u \in User : StepUpRequest(s, u)
    BY <1>3
  <2>2. send' \in [Sends -> Sending \cup {Idle}] /\ SlotsExact'
    BY <2>1, SpawnExact DEF StepUpRequest, Entry
  <2> QED
    BY <2>1, <2>2 DEF StepUpRequest, TypeOK, Fresh, history, minted
<1>4. ASSUME send[s] # Idle, Finish(s),
             UNCHANGED <<clock, accounts, codes, req, history>>
      PROVE  TypeOK' /\ SlotsExact' /\ Fresh
  BY <1>4, FinishExact DEF TypeOK, Fresh, history, minted
<1>5. CASE SendCheck(s)
  <2>1. CASE Finish(s)
    BY <1>4, <1>5, <2>1 DEF SendCheck, At
  <2>2. CASE send' = [send EXCEPT ![s].pc = "stamp"] /\ UNCHANGED slots
    <3> DEFINE v == [send[s] EXCEPT !.pc = "stamp"]
    <3>1. send[s] \in Sending
      BY <1>5, BusySend DEF SendCheck, At
    <3>2. v \in Sending /\ v.via = send[s].via
      BY <3>1 DEF Sending
    <3>3. send' = [send EXCEPT ![s] = v]
      BY <2>2
    <3>4. /\ send' \in [Sends -> Sending \cup {Idle}]
          /\ slots' \in 0..SlotCap
          /\ SlotsExact'
      <4> HIDE DEF v
      <4> QED
        BY <1>5, <2>2, <3>2, <3>3, AdvanceExact DEF SendCheck, At
    <3> QED
      BY <1>5, <3>4 DEF SendCheck, TypeOK, Fresh, history, minted
  <2> QED
    BY <1>5, <2>1, <2>2 DEF SendCheck
<1>6. CASE SendStamp(s)
  <2> DEFINE v == [send[s] EXCEPT !.pc = "begin", !.expires = clock + Expiry]
  <2>1. send[s] \in Sending
    BY <1>6, BusySend DEF SendStamp, At
  <2>e. clock + Expiry \in Nat
    BY ParamsAssumption DEF TypeOK
  <2>2. v \in Sending /\ v.via = send[s].via
    BY <2>1, <2>e DEF Sending
  <2>3. send' = [send EXCEPT ![s] = v]
    BY <1>6 DEF SendStamp
  <2>4. /\ send' \in [Sends -> Sending \cup {Idle}]
        /\ slots' \in 0..SlotCap
        /\ SlotsExact'
    <3> HIDE DEF v
    <3> QED
      BY <1>6, <2>2, <2>3, AdvanceExact DEF SendStamp, At
  <2> QED
    BY <1>6, <2>4 DEF SendStamp, TypeOK, Fresh, history, minted
<1>7. CASE SendBegin(s)
  <2> DEFINE v == [send[s] EXCEPT !.pc = "insert", !.created = clock]
  <2>1. send[s] \in Sending
    BY <1>7, BusySend DEF SendBegin, At
  <2>2. v \in Sending /\ v.via = send[s].via
    BY <2>1 DEF Sending, TypeOK
  <2>3. send' = [send EXCEPT ![s] = v]
    BY <1>7 DEF SendBegin
  <2>4. /\ send' \in [Sends -> Sending \cup {Idle}]
        /\ slots' \in 0..SlotCap
        /\ SlotsExact'
    <3> HIDE DEF v
    <3> QED
      BY <1>7, <2>2, <2>3, AdvanceExact DEF SendBegin, At
  <2> QED
    BY <1>7, <2>4 DEF SendBegin, TypeOK, Fresh, history, minted
<1>8. CASE SendInsert(s)
  <2>1. CASE Finish(s) /\ UNCHANGED <<codes, birth>>
    BY <1>4, <1>8, <2>1 DEF SendInsert, At, history
  <2>2. CASE ~MintBlocked(send[s].user, send[s].purpose)
    <3>1. send[s] \in Sending
      BY <1>8, BusySend DEF SendInsert, At
    <3> DEFINE row == [user |-> send[s].user, purpose |-> send[s].purpose,
                       created |-> send[s].created, expires |-> send[s].expires,
                       attempts |-> 0, consumed |-> FALSE]
               v == [send[s] EXCEPT !.pc = "mail"]
    <3>2. PICK c \in CodeId \ minted :
            /\ codes' = [d \in minted \cup {c} |-> IF d = c THEN row ELSE codes[d]]
            /\ birth' = [d \in minted \cup {c} |->
                           IF d = c THEN [via |-> send[s].via, at |-> clock] ELSE birth[d]]
      BY <1>8, <2>2 DEF SendInsert
    <3>3. row \in Row /\ row.attempts = 0 /\ ~row.consumed
      BY <3>1 DEF Sending, Row
    <3>4. v \in Sending /\ v.via = send[s].via
      BY <3>1 DEF Sending
    <3>5. send' = [send EXCEPT ![s] = v] /\ slots' = slots
      BY <1>8, <2>2 DEF SendInsert
    <3>6. [via |-> send[s].via, at |-> clock] \in [via: Entry, at: Nat]
      BY <3>1 DEF Sending, TypeOK
    <3> HIDE DEF row, v
    <3>7. /\ send' \in [Sends -> Sending \cup {Idle}]
          /\ slots' \in 0..SlotCap
          /\ SlotsExact'
      BY <1>8, <3>4, <3>5, AdvanceExact DEF SendInsert, At
    <3>8. minted' = minted \cup {c}
      BY <3>2 DEF minted
    <3>9. codes' \in [minted' -> Row]
      BY <3>2, <3>3, <3>8 DEF TypeOK
    <3>10. birth' \in [minted' -> [via: Entry, at: Nat]]
      BY <3>2, <3>6, <3>8 DEF TypeOK
    <3>11. TypeOK'
      BY <1>8, <3>2, <3>7, <3>8, <3>9, <3>10 DEF TypeOK, SendInsert
    <3>12. Fresh
      BY <1>8, <3>2, <3>3, <3>8 DEF TypeOK, SendInsert, Fresh
    <3> QED
      BY <3>7, <3>11, <3>12
  <2> QED
    BY <1>8, <2>1, <2>2 DEF SendInsert
<1>9. CASE SendMail(s)
  BY <1>4, <1>9 DEF SendMail, At
<1>10. CASE SendFail(s) \/ SendDeadline(s)
  BY <1>4, <1>10 DEF SendFail, SendDeadline
<1> QED
  BY <1>1, <1>2, <1>3, <1>5, <1>6, <1>7, <1>8, <1>9, <1>10 DEF Send

----------------------------------------------------------------------------
(* The verify handlers *)

\* A fresh row disturbs neither the budget nor the ownership of the others.
LEMMA FreshStep ==
    ASSUME IInv, TypeOK', Fresh
    PROVE  InFlight' /\ Budget' /\ Ownership' /\ SingleUse'
<1>1. \A c : Comparing(c)' = Comparing(c)
  BY DEF Fresh, Comparing
<1>2. \A r \in Requests : Owns(r)' <=> Owns(r)
  BY DEF Fresh, Owns
<1>3. \A r \in Requests : Owns(r) => req[r] # Idle
  BY DEF Owns, Idle
<1>4. InFlight'
  BY DEF IInv, InFlight, Fresh
<1>5. Budget'
  <2>1. \A c \in CodeId \ minted' : compared'[c] = 0 /\ grants'[c] = 0
    BY DEF IInv, Budget, Fresh
  <2>2. ASSUME NEW c \in minted'
        PROVE  /\ compared'[c] + Cardinality(Comparing(c)') <= codes'[c].attempts
               /\ codes'[c].attempts <= MaxAttempts
    <3>1. CASE c \in minted
      BY <1>1, <3>1 DEF IInv, Budget, Fresh
    <3>2. CASE c \notin minted
      <4>1. Comparing(c) = {}
        BY <3>2 DEF IInv, InFlight, Comparing, Idle
      <4>2. Cardinality(Comparing(c)') = 0
        BY <1>1, <4>1, FS_EmptySet
      <4>3. compared'[c] = 0 /\ codes'[c].attempts = 0
        BY <2>2, <3>2 DEF IInv, Budget, Fresh, TypeOK
      <4> QED
        BY <4>2, <4>3, ParamsAssumption
    <3> QED
      BY <3>1, <3>2
  <2> QED
    BY <2>1, <2>2 DEF Budget
<1>6. Ownership'
  <2>1. \A r \in Requests : Owns(r) => req[r].code \in minted
    BY <1>3 DEF IInv, InFlight
  <2>2. \A r \in Requests : Owns(r)' => /\ codes'[req'[r].code].consumed
                                        /\ grants'[req'[r].code] = 0
    BY <1>2, <2>1 DEF IInv, Ownership, Fresh
  <2>3. \A q, r \in Requests :
          Owns(q)' /\ Owns(r)' /\ req'[q].code = req'[r].code => q = r
    BY <1>2 DEF IInv, Ownership, Fresh
  <2>4. \A c \in minted' : ~codes'[c].consumed => grants'[c] = 0
    BY DEF IInv, Ownership, Budget, Fresh, TypeOK
  <2> QED
    BY <2>2, <2>3, <2>4 DEF Ownership
<1>7. SingleUse'
  BY DEF IInv, SingleUse, Fresh
<1> QED
  BY <1>4, <1>5, <1>6, <1>7

\* A handler that answers gives up its claims and what it owns.
LEMMA AnswerStep ==
    ASSUME IInv, NEW r \in Requests, req[r] # Idle, Answer(r),
           UNCHANGED <<clock, accounts, codes, send, slots, history>>
    PROVE  IInv'
<1>1. TypeOK'
  BY DEF IInv, TypeOK, Answer, history, minted
<1>2. SlotsExact'
  BY DEF IInv, SlotsExact, Dispatched
<1>3. \A q \in Requests : req'[q] = IF q = r THEN Idle ELSE req[q]
  BY DEF IInv, TypeOK, Answer
<1>4. \A c : Comparing(c)' = Comparing(c) \ {r}
  BY <1>3 DEF Comparing, Idle
<1>5. ASSUME NEW c
      PROVE  /\ Cardinality(Comparing(c)') \in Nat
             /\ Cardinality(Comparing(c)) \in Nat
             /\ Cardinality(Comparing(c)') <= Cardinality(Comparing(c))
  <2>1. IsFiniteSet(Comparing(c))
    BY Counted
  <2> QED
    BY <1>4, <2>1, FS_Subset, FS_CardinalityType
<1>6. InFlight'
  BY <1>3 DEF IInv, InFlight, history, minted
<1>7. Budget'
  <2>1. minted' = minted /\ codes' = codes /\ compared' = compared /\ grants' = grants
    BY DEF history, minted
  <2>2. \A c \in minted : codes[c].attempts \in Nat /\ compared[c] \in Nat
    BY DEF IInv, TypeOK, Row
  <2> QED
    BY <1>5, <2>1, <2>2, ParamsAssumption DEF IInv, Budget
<1>8. \A q \in Requests : Owns(q)' => q # r /\ Owns(q) /\ req'[q] = req[q]
  BY <1>3 DEF Owns, Idle
<1>9. Ownership'
  BY <1>8 DEF IInv, Ownership, history, minted
<1> QED
  BY <1>1, <1>2, <1>6, <1>7, <1>9 DEF IInv, SingleUse, history

\* VerifyLookup only starts a request on an existing row.
LEMMA LookupStep ==
    ASSUME IInv, NEW r \in Requests, NEW u \in User, NEW p \in Purpose,
           NEW via \in Endpoint, VerifyLookup(r, u, p, via)
    PROVE  IInv'
<1>1. PICK c \in GetActiveEmailCode(u, p) :
        req' = [req EXCEPT ![r] = [pc |-> "claim", user |-> u, purpose |-> p, via |-> via,
                                   code |-> c, last |-> FALSE]]
  BY DEF VerifyLookup
<1> DEFINE v == [pc |-> "claim", user |-> u, purpose |-> p, via |-> via,
                 code |-> c, last |-> FALSE]
<1>2. c \in minted
  BY DEF GetActiveEmailCode, Active
<1>3. v \in Verifying /\ v.pc = "claim" /\ v.code = c
  BY <1>2 DEF Verifying, IInv, TypeOK
<1>4. req' = [req EXCEPT ![r] = v]
  BY <1>1
<1> HIDE DEF v
<1>5. \A q \in Requests : req'[q] = IF q = r THEN v ELSE req[q]
  BY <1>4 DEF IInv, TypeOK
<1>6. req[r] = Idle
  BY DEF VerifyLookup
<1>7. UNCHANGED <<clock, accounts, codes, send, slots, birth, compared, grants, granted, minted>>
  BY DEF VerifyLookup, history, minted
<1>8. TypeOK'
  BY <1>3, <1>4, <1>7 DEF IInv, TypeOK
<1>9. SlotsExact'
  BY <1>7 DEF IInv, SlotsExact, Dispatched
<1>10. InFlight'
  BY <1>2, <1>3, <1>5, <1>7 DEF IInv, InFlight
<1>11. \A d : Comparing(d)' = Comparing(d)
  BY <1>3, <1>5, <1>6 DEF Comparing, Idle
<1>12. \A q \in Requests : Owns(q)' => Owns(q) /\ req'[q] = req[q]
  BY <1>3, <1>5 DEF Owns
<1> QED
  BY <1>7, <1>8, <1>9, <1>10, <1>11, <1>12 DEF IInv, Budget, Ownership, SingleUse

\* A request at "claim" or "consume" changes an unconsumed row and moves on: a
\* move to "compare" is paid for by an attempt, a move to ownership by
\* consuming the row, so the mover is the row's only owner.
LEMMA RowStep ==
    ASSUME IInv, NEW r \in Requests, NEW c, c = req[r].code,
           req[r].pc \in {"claim", "consume"},
           ~codes[c].consumed,
           NEW row \in Row,
           codes[c].attempts <= row.attempts, row.attempts <= MaxAttempts,
           codes' = [codes EXCEPT ![c] = row],
           NEW v \in Verifying \cup {Idle},
           req' = [req EXCEPT ![r] = v],
           v # Idle => v.code = c,
           v.pc = "compare" => row.attempts = codes[c].attempts + 1,
           v.pc \in {"consume", "grant"} => compared[c] > 0,
           (v.pc = "grant" \/ (v.pc = "compare" /\ v.last)) => row.consumed,
           UNCHANGED <<clock, accounts, send, slots, history>>
    PROVE  IInv'
<1>1. req[r] # Idle
  BY DEF Idle
<1>2. c \in minted /\ c \in CodeId /\ c \in DOMAIN codes
  BY <1>1 DEF IInv, InFlight, TypeOK, minted
<1>3. UNCHANGED <<clock, accounts, send, slots, birth, compared, grants, granted>>
  BY DEF history
<1>4. minted' = minted
  BY DEF minted
<1>5. \A d \in minted : codes'[d] = IF d = c THEN row ELSE codes[d]
  BY DEF IInv, TypeOK
<1>6. \A q \in Requests : req'[q] = IF q = r THEN v ELSE req[q]
  BY DEF IInv, TypeOK
<1>7. TypeOK'
  BY <1>3, <1>4 DEF IInv, TypeOK
<1>8. SlotsExact'
  BY <1>3 DEF IInv, SlotsExact, Dispatched
<1>9. InFlight'
  BY <1>2, <1>3, <1>4, <1>6 DEF IInv, InFlight
<1>10. Budget'
  <2>1. \A d \in CodeId \ minted' : compared'[d] = 0 /\ grants'[d] = 0
    BY <1>3, <1>4 DEF IInv, Budget
  <2>2. ASSUME NEW d \in minted
        PROVE  /\ compared'[d] + Cardinality(Comparing(d)') <= codes'[d].attempts
               /\ codes'[d].attempts <= MaxAttempts
    <3>1. /\ IsFiniteSet(Comparing(d))
          /\ Cardinality(Comparing(d)) \in Nat
      BY Counted, FS_CardinalityType
    <3>2. /\ compared[d] \in Nat /\ codes[d].attempts \in Nat /\ row.attempts \in Nat
          /\ compared[d] + Cardinality(Comparing(d)) <= codes[d].attempts
          /\ codes[d].attempts <= MaxAttempts
      BY DEF IInv, TypeOK, Row, Budget
    <3>3. CASE d # c
      <4>1. Comparing(d)' = Comparing(d)
        BY <1>6, <3>3 DEF Comparing, Idle
      <4> QED
        BY <1>3, <1>5, <3>2, <3>3, <4>1
    <3>4. CASE d = c /\ v.pc = "compare"
      <4>1. Comparing(d)' = Comparing(d) \cup {r} /\ r \notin Comparing(d)
        BY <1>6, <3>4 DEF Comparing, Idle
      <4>2. Cardinality(Comparing(d)') = Cardinality(Comparing(d)) + 1
        BY <3>1, <4>1, FS_AddElement
      <4> QED
        BY <1>3, <1>5, <3>1, <3>2, <3>4, <4>2
    <3>5. CASE d = c /\ v.pc # "compare"
      <4>1. Comparing(d)' = Comparing(d)
        BY <1>6, <3>5 DEF Comparing, Idle
      <4> QED
        BY <1>3, <1>5, <3>1, <3>2, <3>5, <4>1, ParamsAssumption
    <3> QED
      BY <3>3, <3>4, <3>5
  <2> QED
    BY <2>1, <2>2, <1>4 DEF Budget
<1>11. Ownership'
  <2>1. \A q \in Requests : Owns(q) => req[q].code # c /\ req[q].code \in minted
    BY DEF IInv, Ownership, InFlight, Owns, Idle
  <2>2. \A q \in Requests : Owns(q)' =>
            \/ q = r /\ row.consumed /\ req'[q].code = c
            \/ q # r /\ Owns(q) /\ req'[q] = req[q]
    BY <1>6 DEF Owns, Idle
  <2>3. grants[c] = 0
    BY <1>2 DEF IInv, Ownership
  <2>4. \A q \in Requests : Owns(q)' => /\ codes'[req'[q].code].consumed
                                        /\ grants'[req'[q].code] = 0
    BY <1>2, <1>3, <1>5, <2>1, <2>2, <2>3 DEF IInv, Ownership
  <2>5. \A p, q \in Requests :
          Owns(p)' /\ Owns(q)' /\ req'[p].code = req'[q].code => p = q
    BY <2>1, <2>2 DEF IInv, Ownership
  <2>6. \A d \in minted' : ~codes'[d].consumed => grants'[d] = 0
    BY <1>3, <1>4, <1>5, <2>3 DEF IInv, Ownership
  <2> QED
    BY <2>4, <2>5, <2>6 DEF Ownership
<1>12. SingleUse'
  BY <1>3 DEF IInv, SingleUse
<1> QED
  BY <1>7, <1>8, <1>9, <1>10, <1>11, <1>12 DEF IInv

Updated(row, n, b) == [row EXCEPT !.attempts = n, !.consumed = b]

\* Updating a row's counter and its consumed mark gives a row.
LEMMA RowUpdate ==
    ASSUME NEW row \in Row, NEW n \in Nat, NEW b \in BOOLEAN
    PROVE  /\ Updated(row, n, b) \in Row
           /\ Updated(row, n, b).attempts = n
           /\ Updated(row, n, b).consumed = b
BY DEF Row, Updated

\* The two conditional updates, whether or not their reply arrives.
LEMMA UpdateStep ==
    ASSUME IInv, NEW r \in Requests,
           VerifyClaim(r) \/ VerifyConsume(r) \/ VerifyReplyLost(r)
    PROVE  IInv'
<1> DEFINE c == req[r].code
           spent == [codes[c] EXCEPT !.consumed = TRUE]
<1>1. req[r] # Idle
  BY DEF VerifyClaim, VerifyConsume, VerifyReplyLost, Idle
<1>2. req[r] \in Verifying /\ c \in minted
  BY <1>1, BusyRequest DEF IInv, InFlight
<1>3. codes[c] \in Row
  BY <1>2 DEF IInv, TypeOK
<1>4. UNCHANGED <<clock, accounts, send, slots, history>>
  BY DEF VerifyClaim, VerifyConsume, VerifyReplyLost
<1>5. CASE codes' = codes /\ Answer(r)
  BY <1>1, <1>4, <1>5, AnswerStep
<1>6. codes[c].attempts \in Nat /\ codes[c].attempts <= MaxAttempts
  BY <1>2, <1>3 DEF IInv, Budget, Row
<1>7. ASSUME Claimable(c)
      PROVE  /\ Claimed(c) \in Row
             /\ Claimed(c).attempts = codes[c].attempts + 1
             /\ codes[c].attempts <= Claimed(c).attempts
             /\ Claimed(c).attempts <= MaxAttempts
  <2>1. codes[c].attempts < MaxAttempts
    BY <1>7 DEF Claimable
  <2> DEFINE b == codes[c].consumed \/ codes[c].attempts + 1 >= MaxAttempts
             n == codes[c].attempts + 1
  <2>3. n \in Nat /\ b \in BOOLEAN
    BY <1>6
  <2>4. Claimed(c) = Updated(codes[c], n, b)
    BY <1>3 DEF Claimed, Row, Updated
  <2>2. /\ Claimed(c) \in Row
        /\ Claimed(c).attempts = n
    <3> HIDE DEF n, b, c
    <3> QED
      BY <1>3, <2>3, <2>4, RowUpdate
  <2> QED
    BY <1>6, <2>1, <2>2, ParamsAssumption
<1>8. /\ spent \in Row /\ spent.attempts = codes[c].attempts /\ spent.consumed = TRUE
      /\ codes[c].attempts <= spent.attempts /\ spent.attempts <= MaxAttempts
  <2>0. spent = Updated(codes[c], codes[c].attempts, TRUE)
    BY <1>3 DEF Row, Updated
  <2>1. /\ spent \in Row /\ spent.attempts = codes[c].attempts
        /\ spent.consumed = TRUE
    <3> HIDE DEF spent, c
    <3> QED
      BY <1>3, <1>6, <2>0, RowUpdate
  <2> QED
    BY <1>6, <2>1
<1>9. CASE req[r].pc = "claim" /\ Claimable(c) /\ codes' = [codes EXCEPT ![c] = Claimed(c)]
  <2>1. ~codes[c].consumed
    BY <1>9 DEF Claimable
  <2>2. CASE Answer(r)
    <3>1. Idle \in Verifying \cup {Idle} /\ Idle.pc = "idle"
      BY DEF Idle
    <3>2. req' = [req EXCEPT ![r] = Idle]
      BY <2>2 DEF Answer
    <3> HIDE DEF c
    <3>3. c = req[r].code
      BY DEF c
    <3> QED
      BY <1>4, <1>7, <1>9, <2>1, <3>1, <3>2, <3>3, RowStep
  <2>3. CASE req' = [req EXCEPT ![r].pc = "compare", ![r].last = Claimed(c).consumed]
    <3> DEFINE v == [req[r] EXCEPT !.pc = "compare", !.last = Claimed(c).consumed]
    <3>1. Claimed(c).consumed \in BOOLEAN
      BY <1>7, <1>9 DEF Row
    <3>2. v \in Verifying /\ v.pc = "compare" /\ v.code = c /\ v.last = Claimed(c).consumed
      BY <1>2, <3>1 DEF Verifying
    <3>3. req' = [req EXCEPT ![r] = v]
      BY <2>3
    <3> HIDE DEF v, c
    <3>4. c = req[r].code
      BY DEF c
    <3> QED
      BY <1>4, <1>7, <1>9, <2>1, <3>2, <3>3, <3>4, RowStep
  <2> QED
    BY <1>9, <2>2, <2>3 DEF VerifyClaim, VerifyConsume, VerifyReplyLost
<1>10. CASE /\ req[r].pc = "consume" /\ ~codes[c].consumed
            /\ codes' = [codes EXCEPT ![c].consumed = TRUE]
  <2>1. codes' = [codes EXCEPT ![c] = spent]
    BY <1>10
  <2>2. CASE Answer(r)
    <3>1. Idle \in Verifying \cup {Idle} /\ Idle.pc = "idle"
      BY DEF Idle
    <3>2. req' = [req EXCEPT ![r] = Idle]
      BY <2>2 DEF Answer
    <3> HIDE DEF c, spent
    <3>3. c = req[r].code
      BY DEF c
    <3> QED
      BY <1>4, <1>8, <1>10, <2>1, <3>1, <3>2, <3>3, RowStep
  <2>3. CASE req' = [req EXCEPT ![r].pc = "grant"]
    <3> DEFINE v == [req[r] EXCEPT !.pc = "grant"]
    <3>1. v \in Verifying /\ v.pc = "grant" /\ v.code = c
      BY <1>2 DEF Verifying
    <3>2. compared[c] > 0
      BY <1>1, <1>10 DEF IInv, InFlight
    <3>3. req' = [req EXCEPT ![r] = v]
      BY <2>3
    <3> HIDE DEF v, c, spent
    <3>4. c = req[r].code
      BY DEF c
    <3> QED
      BY <1>4, <1>8, <1>10, <2>1, <3>1, <3>2, <3>3, <3>4, RowStep
  <2> QED
    BY <1>10, <2>2, <2>3 DEF VerifyClaim, VerifyConsume, VerifyReplyLost
<1>11. CASE /\ req[r].pc = "consume" /\ codes[c].consumed
            /\ codes' = [codes EXCEPT ![c].consumed = TRUE] /\ Answer(r)
  <2>1. spent = codes[c]
    BY <1>3, <1>11 DEF Row
  <2>2. codes' = codes
    BY <1>2, <1>11, <2>1 DEF IInv, TypeOK
  <2> QED
    BY <1>5, <1>11, <2>2
<1> QED
  BY <1>5, <1>9, <1>10, <1>11 DEF VerifyClaim, VerifyConsume, VerifyReplyLost
\* A comparison turns one pending comparison into a made one; the owner of a
\* row stays its owner or gives up.
LEMMA CompareStep ==
    ASSUME IInv, NEW r \in Requests, VerifyCompare(r)
    PROVE  IInv'
<1> DEFINE c == req[r].code
<1>1. req[r] # Idle /\ req[r].pc = "compare"
  BY DEF VerifyCompare, Idle
<1>2. req[r] \in Verifying /\ c \in minted /\ c \in CodeId
  BY <1>1, BusyRequest DEF IInv, InFlight, Verifying
<1>3. UNCHANGED <<clock, accounts, codes, send, slots, birth, grants, granted, minted>>
  BY DEF VerifyCompare, minted
<1>4. PICK v \in Verifying \cup {Idle} :
        /\ req' = [req EXCEPT ![r] = v]
        /\ \/ v = Idle
           \/ v.pc = "grant" /\ req[r].last /\ v.code = c
           \/ v.pc = "consume" /\ v.code = c
  <2>1. CASE Answer(r)
    BY <2>1 DEF Answer
  <2>2. CASE req[r].last /\ req' = [req EXCEPT ![r].pc = "grant"]
    <3> DEFINE v == [req[r] EXCEPT !.pc = "grant"]
    <3>1. v \in Verifying /\ v.pc = "grant" /\ v.code = c
      BY <1>2 DEF Verifying
    <3>2. req' = [req EXCEPT ![r] = v]
      BY <2>2
    <3> HIDE DEF v
    <3> QED
      BY <2>2, <3>1, <3>2
  <2>3. CASE ~req[r].last /\ req' = [req EXCEPT ![r].pc = "consume"]
    <3> DEFINE v == [req[r] EXCEPT !.pc = "consume"]
    <3>1. v \in Verifying /\ v.pc = "consume" /\ v.code = c
      BY <1>2 DEF Verifying
    <3>2. req' = [req EXCEPT ![r] = v]
      BY <2>3
    <3> HIDE DEF v
    <3> QED
      BY <3>1, <3>2
  <2> QED
    BY <2>1, <2>2, <2>3 DEF VerifyCompare
<1>5. \A q \in Requests : req'[q] = IF q = r THEN v ELSE req[q]
  BY <1>4 DEF IInv, TypeOK
<1>6. \A d \in CodeId : compared'[d] = IF d = c THEN compared[d] + 1 ELSE compared[d]
  BY <1>2 DEF VerifyCompare, IInv, TypeOK
<1>7. \A d \in CodeId : compared[d] \in Nat
  BY DEF IInv, TypeOK
<1> HIDE DEF c
<1>c. c = req[r].code
  BY DEF c
<1>8. compared' \in [CodeId -> Nat]
  BY <1>2, <1>7, <1>c DEF VerifyCompare, IInv, TypeOK
<1>9. TypeOK'
  BY <1>3, <1>4, <1>8 DEF IInv, TypeOK
<1>10. SlotsExact'
  BY <1>3 DEF IInv, SlotsExact, Dispatched
<1>11. InFlight'
  <2>1. minted \subseteq CodeId
    BY DEF IInv, TypeOK
  <2>2. \A d \in minted : compared[d] > 0 => compared'[d] > 0
    BY <1>6, <1>7, <2>1
  <2>3. compared'[c] > 0
    BY <1>2, <1>6, <1>7
  <2> QED
    BY <1>2, <1>3, <1>4, <1>5, <2>2, <2>3 DEF IInv, InFlight
<1>12. Budget'
  <2>1. \A d \in CodeId \ minted' : compared'[d] = 0 /\ grants'[d] = 0
    BY <1>2, <1>3, <1>6 DEF IInv, Budget
  <2>2. ASSUME NEW d \in minted
        PROVE  /\ compared'[d] + Cardinality(Comparing(d)') <= codes'[d].attempts
               /\ codes'[d].attempts <= MaxAttempts
    <3>1. /\ IsFiniteSet(Comparing(d))
          /\ Cardinality(Comparing(d)) \in Nat
      BY Counted, FS_CardinalityType
    <3>2. /\ d \in CodeId /\ compared[d] \in Nat /\ codes[d].attempts \in Nat
          /\ compared[d] + Cardinality(Comparing(d)) <= codes[d].attempts
          /\ codes[d].attempts <= MaxAttempts
      BY DEF IInv, TypeOK, Row, Budget
    <3>3. CASE d # c
      <4>1. Comparing(d)' = Comparing(d)
        BY <1>c, <1>4, <1>5, <3>3 DEF Comparing, Idle
      <4> QED
        BY <1>3, <1>6, <3>2, <3>3, <4>1
    <3>4. CASE d = c
      <4>1. Comparing(d)' = Comparing(d) \ {r} /\ r \in Comparing(d)
        BY <1>c, <1>1, <1>4, <1>5, <3>4 DEF Comparing, Idle
      <4>2. Cardinality(Comparing(d)') = Cardinality(Comparing(d)) - 1
        BY <3>1, <4>1, FS_RemoveElement
      <4> QED
        BY <1>3, <1>6, <3>1, <3>2, <3>4, <4>2
    <3> QED
      BY <3>3, <3>4
  <2> QED
    BY <2>1, <2>2, <1>3 DEF Budget
<1>13. Ownership'
  <2>1. \A q \in Requests : Owns(q)' => Owns(q) /\ req'[q].code = req[q].code
    BY <1>c, <1>1, <1>4, <1>5 DEF Owns, Idle
  <2> QED
    BY <1>3, <2>1 DEF IInv, Ownership
<1>14. SingleUse'
  BY <1>3 DEF IInv, SingleUse
<1> QED
  BY <1>9, <1>10, <1>11, <1>12, <1>13, <1>14 DEF IInv

\* Only an owner grants, and it was the only one.
LEMMA GrantStep ==
    ASSUME IInv, NEW r \in Requests, VerifyGrant(r)
    PROVE  IInv'
<1> DEFINE c == req[r].code
<1>1. req[r] # Idle /\ req[r].pc = "grant" /\ Owns(r)
  BY DEF VerifyGrant, Idle, Owns
<1>2. req[r] \in Verifying /\ c \in minted /\ c \in CodeId
  BY <1>1, BusyRequest DEF IInv, InFlight, Verifying
<1>3. UNCHANGED <<clock, accounts, codes, send, slots, birth, compared, minted>>
  BY DEF VerifyGrant, minted
<1>4. \A q \in Requests : req'[q] = IF q = r THEN Idle ELSE req[q]
  BY DEF VerifyGrant, Answer, IInv, TypeOK
<1>5. grants[c] = 0 /\ codes[c].consumed
  BY <1>1 DEF IInv, Ownership
<1>6. \A d \in CodeId : grants'[d] = IF d = c THEN 1 ELSE grants[d]
  BY <1>2, <1>5 DEF VerifyGrant, IInv, TypeOK
<1>7. granted' \subseteq Grant
  <2>1. [code |-> c, user |-> req[r].user, purpose |-> req[r].purpose,
         via |-> req[r].via] \in Grant
    BY <1>2 DEF Verifying, Grant
  <2> QED
    BY <2>1 DEF VerifyGrant, IInv, TypeOK
<1>8. grants' \in [CodeId -> Nat]
  BY <1>2, <1>5 DEF VerifyGrant, IInv, TypeOK
<1>9. TypeOK'
  <2>1. req' \in [Requests -> Verifying \cup {Idle}]
    BY DEF VerifyGrant, Answer, IInv, TypeOK
  <2> QED
    BY <1>3, <1>7, <1>8, <2>1 DEF IInv, TypeOK
<1>10. SlotsExact'
  BY <1>3 DEF IInv, SlotsExact, Dispatched
<1>11. InFlight'
  BY <1>3, <1>4 DEF IInv, InFlight
<1>12. Budget'
  <2>1. \A d : Comparing(d)' = Comparing(d)
    BY <1>1, <1>4 DEF Comparing, Idle
  <2>2. \A d \in CodeId \ minted : grants'[d] = grants[d]
    BY <1>2, <1>6
  <2> QED
    BY <1>3, <2>1, <2>2 DEF IInv, Budget
<1>13. Ownership'
  <2>1. \A q \in Requests : Owns(q)' => q # r /\ Owns(q) /\ req'[q] = req[q]
    BY <1>4 DEF Owns, Idle
  <2>2. \A q \in Requests : Owns(q)' =>
            /\ req[q].code # c
            /\ req[q].code \in CodeId
    BY <1>1, <2>1, BusyRequest DEF IInv, Ownership, Owns, Verifying, Idle
  <2>3. \A d \in minted : d \in CodeId
    BY DEF IInv, TypeOK
  <2> QED
    BY <1>3, <1>5, <1>6, <2>1, <2>2, <2>3 DEF IInv, Ownership
<1>14. SingleUse'
  BY <1>6 DEF IInv, SingleUse
<1> QED
  BY <1>9, <1>10, <1>11, <1>12, <1>13, <1>14 DEF IInv

\* A crash forgets every request and every goroutine.
LEMMA CrashStep ==
    ASSUME IInv, Crash
    PROVE  IInv'
<1>1. UNCHANGED <<clock, accounts, codes, birth, compared, grants, granted, minted>>
  BY DEF Crash, history, minted
<1>2. Dispatched' = {}
  BY DEF Crash, Dispatched
<1>3. SlotsExact' /\ slots' \in 0..SlotCap
  BY <1>2, FS_EmptySet, ParamsAssumption DEF SlotsExact, Crash
<1>4. TypeOK'
  BY <1>1, <1>3 DEF IInv, TypeOK, Crash
<1>5. \A c : Comparing(c)' = {}
  BY DEF Crash, Comparing, Idle
<1>6. Budget'
  <2>1. ASSUME NEW c \in minted
        PROVE  compared[c] + Cardinality(Comparing(c)') <= codes[c].attempts
    <3>1. Cardinality(Comparing(c)') = 0
      BY <1>5, FS_EmptySet
    <3>2. Cardinality(Comparing(c)) \in Nat
      BY Counted, FS_CardinalityType
    <3>3. compared[c] \in Nat /\ codes[c].attempts \in Nat
      BY DEF IInv, TypeOK, Row
    <3> QED
      BY <3>1, <3>2, <3>3 DEF IInv, Budget
  <2> QED
    BY <1>1, <2>1 DEF IInv, Budget
<1>7. \A r \in Requests : ~Owns(r)' /\ req'[r] = Idle
  BY DEF Crash, Owns, Idle
<1> QED
  BY <1>1, <1>3, <1>4, <1>6, <1>7 DEF IInv, InFlight, Ownership, SingleUse

----------------------------------------------------------------------------
(* The inductive invariant *)

LEMMA InitInv == Init => IInv
<1> SUFFICES ASSUME Init PROVE IInv
  OBVIOUS
<1>1. minted = {} /\ DOMAIN codes = {}
  BY DEF Init, minted, NoRows
<1>2. Dispatched = {}
  BY DEF Init, Dispatched
<1>3. SlotsExact /\ slots \in 0..SlotCap
  BY <1>2, FS_EmptySet, ParamsAssumption DEF SlotsExact, Init
<1>4. TypeOK
  BY <1>1, <1>3 DEF Init, TypeOK, NoRows
<1>5. \A r \in Requests : ~Owns(r) /\ req[r] = Idle
  BY DEF Init, Owns, Idle
<1>6. InFlight /\ Budget /\ Ownership /\ SingleUse
  BY <1>1, <1>5 DEF Init, InFlight, Budget, Ownership, SingleUse
<1> QED
  BY <1>3, <1>4, <1>6 DEF IInv

LEMMA NextInv == IInv /\ [Next]_vars => IInv'
<1> SUFFICES ASSUME IInv, [Next]_vars PROVE IInv'
  OBVIOUS
<1>1. CASE UNCHANGED vars
  BY <1>1 DEF vars, history, IInv, TypeOK, SlotsExact, Dispatched, InFlight, Budget,
              Comparing, Ownership, Owns, SingleUse, minted
<1>2. CASE \E r \in Requests : Verify(r)
  <2>1. PICK r \in Requests : Verify(r)
    BY <1>2
  <2>2. CASE VerifyFail(r)
    BY <2>2, AnswerStep DEF VerifyFail
  <2> QED
    BY <2>1, <2>2, LookupStep, UpdateStep, CompareStep, GrantStep DEF Verify
<1>3. CASE \E s \in Sends : Send(s)
  <2>1. PICK s \in Sends : Send(s)
    BY <1>3
  <2>2. TypeOK' /\ SlotsExact' /\ Fresh
    BY <2>1, SendStep DEF IInv
  <2> QED
    BY <2>2, FreshStep DEF IInv
<1>4. CASE Crash
  BY <1>4, CrashStep
<1>5. CASE Tick
  <2>1. UNCHANGED <<accounts, codes, req, send, slots, birth, compared, grants, granted, minted>>
    BY <1>5 DEF Tick, history, minted
  <2>2. clock' \in Nat
    BY <1>5 DEF Tick, IInv, TypeOK
  <2>3. TypeOK'
    BY <2>1, <2>2 DEF IInv, TypeOK
  <2> QED
    BY <2>1, <2>3 DEF IInv, SlotsExact, Dispatched, InFlight, Budget, Comparing,
                      Ownership, Owns, SingleUse
<1> QED
  BY <1>1, <1>2, <1>3, <1>4, <1>5 DEF Next
\* The inductive invariant holds in every reachable state.
THEOREM Invariance == Spec => []IInv
<1>1. Init => IInv
  BY InitInv
<1>2. IInv /\ [Next]_vars => IInv'
  BY NextInv
<1> QED
  BY <1>1, <1>2, PTL DEF Spec

----------------------------------------------------------------------------
(* The theorems *)

\* Every variable keeps its type; in particular the emailCodeSlots channel
\* never holds more tokens than its capacity and is never drained too often.
THEOREM TypeCorrect == Spec => []TypeOK
<1>1. IInv => TypeOK
  BY DEF IInv
<1> QED
  BY <1>1, Invariance, PTL

\* The semaphore counts exactly the dispatched sends in flight.
THEOREM SemaphoreExact == Spec => []SlotsExact
<1>1. IInv => SlotsExact
  BY DEF IInv
<1> QED
  BY <1>1, Invariance, PTL

\* EmailCodeVerify and StepUpVerify accept a code at most once.
THEOREM CodesAreSingleUse == Spec => []SingleUse
<1>1. IInv => SingleUse
  BY DEF IInv
<1> QED
  BY <1>1, Invariance, PTL

\* No more than MaxEmailCodeAttempts guesses are compared with one code.
LEMMA GuessesPaidFor == IInv => GuessBound
<1> SUFFICES ASSUME IInv, NEW c \in CodeId PROVE compared[c] <= MaxAttempts
  BY DEF GuessBound
<1>1. CASE c \notin minted
  BY <1>1, ParamsAssumption DEF IInv, Budget
<1>2. CASE c \in minted
  <2>1. Cardinality(Comparing(c)) \in Nat
    BY Counted, FS_CardinalityType
  <2>2. compared[c] \in Nat /\ codes[c].attempts \in Nat
    BY <1>2 DEF IInv, TypeOK, Row
  <2> QED
    BY <1>2, <2>1, <2>2, ParamsAssumption DEF IInv, Budget
<1> QED
  BY <1>1, <1>2

\* However requests interleave, no more than MaxEmailCodeAttempts guesses are
\* compared with one code.
THEOREM GuessesBounded == Spec => []GuessBound
BY GuessesPaidFor, Invariance, PTL

----------------------------------------------------------------------------
(* The refinement *)

LEMMA InitRefines == Init => OTC!Init
BY DEF Init, OTC!Init, minted, NoRows

LEMMA NextRefines == IInv /\ IInv' /\ [Next]_vars => [OTC!Next]_OTC!abstract
<1> SUFFICES ASSUME IInv, IInv', [Next]_vars
             PROVE  [OTC!Next]_OTC!abstract
  OBVIOUS
<1> USE DEF OTC!abstract
<1>1. CASE UNCHANGED <<minted, compared, grants>>
  BY <1>1
<1>2. ASSUME NEW r \in Requests, VerifyCompare(r) PROVE OTC!Next
  <2> DEFINE c == req[r].code
  <2>1. req[r] # Idle /\ req[r] \in Verifying /\ c \in minted /\ c \in CodeId
    BY <1>2, BusyRequest DEF IInv, InFlight, VerifyCompare, Verifying, Idle
  <2>2. compared'[c] = compared[c] + 1 /\ compared[c] \in Nat
    BY <1>2, <2>1 DEF IInv, TypeOK, VerifyCompare
  <2>3. compared'[c] <= MaxAttempts
    <3>1. GuessBound'
      BY GuessesPaidFor, PTL
    <3> QED
      BY <2>1, <3>1 DEF GuessBound
  <2>4. compared[c] < MaxAttempts
    BY <2>2, <2>3, ParamsAssumption
  <2>5. OTC!Guess(c)
    BY <1>2, <2>1, <2>4 DEF OTC!Guess, VerifyCompare, minted
  <2> QED
    BY <2>1, <2>5 DEF OTC!Next
<1>3. ASSUME NEW r \in Requests, VerifyGrant(r) PROVE OTC!Next
  <2> DEFINE c == req[r].code
  <2>1. /\ req[r] # Idle /\ req[r] \in Verifying /\ c \in minted /\ c \in CodeId
        /\ req[r].pc = "grant" /\ Owns(r)
    BY <1>3, BusyRequest DEF IInv, InFlight, VerifyGrant, Verifying, Idle, Owns
  <2>2. grants[c] = 0 /\ compared[c] > 0
    BY <2>1 DEF IInv, Ownership, InFlight
  <2>3. grants' = [grants EXCEPT ![c] = 1]
    BY <1>3, <2>1, <2>2 DEF VerifyGrant, IInv, TypeOK
  <2>4. OTC!Use(c)
    BY <1>3, <2>1, <2>2, <2>3 DEF OTC!Use, VerifyGrant, minted
  <2> QED
    BY <2>1, <2>4 DEF OTC!Next
<1>4. ASSUME NEW s \in Sends, SendInsert(s)
      PROVE  [OTC!Next]_OTC!abstract
  <2>1. CASE codes' = codes
    BY <1>4, <2>1 DEF SendInsert, minted
  <2>2. CASE \E c \in CodeId \ minted : DOMAIN codes' = minted \cup {c}
    <3>1. PICK c \in CodeId \ minted : minted' = minted \cup {c}
      BY <2>2 DEF minted
    <3>2. OTC!Issue(c)
      BY <1>4, <3>1 DEF OTC!Issue, SendInsert
    <3> QED
      BY <3>2 DEF OTC!Next
  <2> QED
    BY <1>4, <2>1, <2>2 DEF SendInsert
<1>5. CASE UNCHANGED vars
  BY <1>1, <1>5 DEF vars, history, minted
<1>6. ASSUME NEW r \in Requests, Verify(r) PROVE [OTC!Next]_OTC!abstract
  <2>1. CASE UNCHANGED <<compared, grants>> /\ DOMAIN codes' = DOMAIN codes
    BY <1>1, <2>1 DEF minted
  <2>2. CASE VerifyClaim(r) \/ VerifyConsume(r) \/ VerifyReplyLost(r)
    BY <2>1, <2>2 DEF VerifyClaim, VerifyConsume, VerifyReplyLost, history
  <2>3. CASE VerifyFail(r) \/ \E u \in User, p \in Purpose, via \in Endpoint :
                                 VerifyLookup(r, u, p, via)
    BY <2>1, <2>3 DEF VerifyFail, VerifyLookup, history
  <2> QED
    BY <1>2, <1>3, <1>6, <2>2, <2>3 DEF Verify
<1>7. ASSUME NEW s \in Sends, Send(s) PROVE [OTC!Next]_OTC!abstract
  <2>1. CASE UNCHANGED <<codes, history>>
    BY <1>1, <2>1 DEF minted, history
  <2> QED
    BY <1>4, <1>7, <2>1 DEF Send, Dispatch, Register, StepUpRequest, SendCheck,
          SendStamp, SendBegin, SendMail, SendFail, SendDeadline
<1>8. CASE Crash \/ Tick
  BY <1>1, <1>8 DEF Crash, Tick, history, minted
<1> QED
  BY <1>5, <1>6, <1>7, <1>8 DEF Next

\* The handlers, the goroutines and the SQL statements together implement the
\* abstract one-time code.
THEOREM Refinement == Spec => Implements
<1>1. Spec => []IInv
  BY Invariance
<1> QED
  BY <1>1, InitRefines, NextRefines, PTL DEF Spec, Implements, OTC!Spec

----------------------------------------------------------------------------
(* Rows are only ever spent *)

\* What every step does to the rows that exist: they stay, who they are for,
\* their times and their origin do not change, and they are only ever spent.
Kept ==
    /\ minted \subseteq minted'
    /\ \A c \in minted :
         /\ codes'[c].user = codes[c].user
         /\ codes'[c].purpose = codes[c].purpose
         /\ codes'[c].created = codes[c].created
         /\ codes'[c].expires = codes[c].expires
         /\ codes[c].attempts <= codes'[c].attempts
         /\ codes[c].consumed => codes'[c] = codes[c]
         /\ birth'[c] = birth[c]

\* Nothing happens to the rows.
LEMMA SameRows ==
    ASSUME TypeOK, codes' = codes, birth' = birth
    PROVE  Kept
BY DEF Kept, TypeOK, Row, minted

\* One statement of a verify handler updates one unconsumed row.
LEMMA UpdateKeeps ==
    ASSUME TypeOK, NEW c \in minted, ~codes[c].consumed,
           NEW n \in Nat, codes[c].attempts <= n, NEW b \in BOOLEAN,
           codes' = [codes EXCEPT ![c] = Updated(codes[c], n, b)], birth' = birth
    PROVE  Kept
<1>1. codes[c] \in Row
  BY DEF TypeOK
<1>2. PICK row : row = Updated(codes[c], n, b)
  OBVIOUS
<1>3. /\ row.user = codes[c].user /\ row.purpose = codes[c].purpose
      /\ row.created = codes[c].created /\ row.expires = codes[c].expires
      /\ row.attempts = n
  BY <1>1, <1>2 DEF Updated, Row
<1>4. minted' = minted
  BY DEF minted
<1>5. \A d \in minted : codes'[d] = IF d = c THEN row ELSE codes[d]
  BY <1>2 DEF TypeOK
<1>6. \A d \in minted : codes[d].attempts \in Nat
  BY DEF TypeOK, Row
<1> QED
  BY <1>3, <1>4, <1>5, <1>6 DEF Kept

\* The steps of the verify handlers.
LEMMA VerifyKeeps ==
    ASSUME IInv, NEW r \in Requests, Verify(r)
    PROVE  Kept
<1>0. TypeOK
  BY DEF IInv
<1>1. birth' = birth
  BY DEF Verify, VerifyLookup, VerifyClaim, VerifyCompare, VerifyConsume, VerifyGrant,
         VerifyFail, VerifyReplyLost, history
<1>2. CASE codes' = codes
  BY <1>0, <1>1, <1>2, SameRows
<1>3. PICK c : c = req[r].code
  OBVIOUS
<1>4. ASSUME req[r].pc \in {"claim", "consume"}
      PROVE  c \in minted /\ codes[c] \in Row /\ codes[c].attempts \in Nat
  BY <1>3, <1>4 DEF IInv, InFlight, TypeOK, Row, Idle
<1>5. CASE req[r].pc = "claim" /\ Claimable(c) /\ codes' = [codes EXCEPT ![c] = Claimed(c)]
  <2>1. PICK n : n = codes[c].attempts + 1
    OBVIOUS
  <2>2. PICK b : b = (codes[c].consumed \/ codes[c].attempts + 1 >= MaxAttempts)
    OBVIOUS
  <2>3. n \in Nat /\ b \in BOOLEAN /\ codes[c].attempts <= n /\ ~codes[c].consumed
    BY <1>4, <1>5, <2>1, <2>2 DEF Claimable
  <2>4. Claimed(c) = Updated(codes[c], n, b)
    BY <1>4, <1>5, <2>1, <2>2 DEF Claimed, Updated, Row
  <2> QED
    BY <1>0, <1>1, <1>4, <1>5, <2>3, <2>4, UpdateKeeps
<1>6. CASE /\ req[r].pc = "consume" /\ ~codes[c].consumed
           /\ codes' = [codes EXCEPT ![c].consumed = TRUE]
  <2>1. [codes[c] EXCEPT !.consumed = TRUE] = Updated(codes[c], codes[c].attempts, TRUE)
    BY <1>4, <1>6 DEF Updated, Row
  <2>2. codes' = [codes EXCEPT ![c] = Updated(codes[c], codes[c].attempts, TRUE)]
    BY <1>6, <2>1
  <2>3. PICK n : n = codes[c].attempts
    OBVIOUS
  <2>4. n \in Nat /\ codes[c].attempts <= n /\ TRUE \in BOOLEAN
    BY <1>4, <1>6, <2>3
  <2> QED
    BY <1>0, <1>1, <1>4, <1>6, <2>2, <2>3, <2>4, UpdateKeeps
<1>7. CASE /\ req[r].pc = "consume" /\ codes[c].consumed
           /\ codes' = [codes EXCEPT ![c].consumed = TRUE]
  <2>1. [codes[c] EXCEPT !.consumed = TRUE] = codes[c]
    BY <1>4, <1>7 DEF Row
  <2>2. codes' = codes
    BY <1>4, <1>7, <2>1 DEF IInv, TypeOK
  <2> QED
    BY <1>2, <2>2
<1>8. \/ codes' = codes
      \/ req[r].pc = "claim" /\ Claimable(c) /\ codes' = [codes EXCEPT ![c] = Claimed(c)]
      \/ req[r].pc = "consume" /\ codes' = [codes EXCEPT ![c].consumed = TRUE]
  BY <1>3 DEF Verify, VerifyLookup, VerifyClaim, VerifyCompare, VerifyConsume, VerifyGrant,
         VerifyFail, VerifyReplyLost
<1> QED
  BY <1>2, <1>5, <1>6, <1>7, <1>8

\* The steps of the sends: only SendInsert touches the table.
LEMMA SendKeeps ==
    ASSUME IInv, NEW s \in Sends, Send(s)
    PROVE  Kept
<1>0. TypeOK
  BY DEF IInv
<1>1. CASE codes' = codes /\ birth' = birth
  BY <1>0, <1>1, SameRows
<1>2. CASE SendInsert(s) /\ ~MintBlocked(send[s].user, send[s].purpose)
  <2>1. minted \subseteq minted' /\ \A c \in minted : codes'[c] = codes[c] /\ birth'[c] = birth[c]
    BY <1>2 DEF SendInsert, minted
  <2>2. \A c \in minted : codes[c].attempts \in Nat
    BY DEF IInv, TypeOK, Row
  <2> QED
    BY <2>1, <2>2 DEF Kept
<1> QED
  BY <1>1, <1>2 DEF Send, Dispatch, Register, StepUpRequest, SendCheck, SendStamp, SendBegin,
        SendInsert, SendMail, SendFail, SendDeadline, history

LEMMA RowsKept ==
    ASSUME IInv, [Next]_vars
    PROVE  Kept
<1>1. CASE Crash \/ Tick \/ UNCHANGED vars
  <2>1. codes' = codes /\ birth' = birth
    BY <1>1 DEF Crash, Tick, vars, history
  <2> QED
    BY <2>1, SameRows DEF IInv
<1> QED
  BY <1>1, VerifyKeeps, SendKeeps DEF Next

\* ClaimEmailCodeAttempt and ConsumeEmailCode are the only writers of a row:
\* no step lowers its attempts or reopens it, so nobody regains a budget.
THEOREM RowsAreOnlySpent == Spec => NoReset
<1>1. IInv /\ [Next]_vars =>
        [\A c \in minted : /\ c \in minted'
                           /\ codes[c].attempts <= codes'[c].attempts
                           /\ codes[c].consumed => codes'[c] = codes[c]]_vars
  BY RowsKept DEF Kept
<1> QED
  BY <1>1, Invariance, PTL DEF Spec, NoReset

----------------------------------------------------------------------------
(* What was looked up stays right *)

\* Whatever happens to the rows, a code keeps answering for what it answered.
LEMMA StillAnswers ==
    ASSUME Kept, NEW c, NEW u, NEW p, NEW via, Answers(c, u, p, via)
    PROVE  Answers(c, u, p, via)'
BY DEF Kept, Answers

\* A verify request after a step is idle, the one before it further on, or a
\* new one that has just looked up a live code.
LEMMA RequestMoves ==
    ASSUME TypeOK, NEW r \in Requests, Verify(r),
           NEW q \in Requests
    PROVE  \/ req'[q] = Idle
           \/ /\ req[q] # Idle
              /\ req'[q].code = req[q].code /\ req'[q].user = req[q].user
              /\ req'[q].purpose = req[q].purpose /\ req'[q].via = req[q].via
           \/ Answers(req'[q].code, req'[q].user, req'[q].purpose, req'[q].via)
<1> DEFINE Goal == \/ req'[q] = Idle
                   \/ /\ req[q] # Idle
                      /\ req'[q].code = req[q].code /\ req'[q].user = req[q].user
                      /\ req'[q].purpose = req[q].purpose /\ req'[q].via = req[q].via
                   \/ Answers(req'[q].code, req'[q].user, req'[q].purpose, req'[q].via)
<1>1. CASE q # r
  <2>1. req'[q] = req[q]
    BY <1>1 DEF TypeOK, Verify, VerifyLookup, VerifyClaim, VerifyCompare, VerifyConsume,
                VerifyGrant, VerifyFail, VerifyReplyLost, Answer
  <2> QED
    BY <2>1
<1>2. CASE q = r
  <2>1. CASE Answer(r)
    BY <1>2, <2>1 DEF Answer, TypeOK
  <2>2. ASSUME NEW u \in User, NEW p \in Purpose, NEW via \in Endpoint,
               VerifyLookup(r, u, p, via)
        PROVE  Goal
    <3>1. PICK c \in GetActiveEmailCode(u, p) :
            req' = [req EXCEPT ![r] =
                     [pc |-> "claim", user |-> u, purpose |-> p, via |-> via,
                      code |-> c, last |-> FALSE]]
      BY <2>2 DEF VerifyLookup
    <3>2. /\ req'[q].code = c /\ req'[q].user = u /\ req'[q].purpose = p
          /\ req'[q].via = via
      BY <1>2, <3>1 DEF TypeOK
    <3>3. c \in minted /\ codes[c].user = u /\ codes[c].purpose = p /\ clock < codes[c].expires
      BY <3>1 DEF GetActiveEmailCode, Active, TypeOK, Row
    <3>4. Accepts(via, p)
      BY <2>2 DEF VerifyLookup
    <3> QED
      BY <3>2, <3>3, <3>4 DEF Answers
  <2>3. ASSUME req[r].pc \in {"claim", "compare", "consume"},
               NEW pc, NEW last, req' = [req EXCEPT ![r].pc = pc, ![r].last = last]
        PROVE  Goal
    <3>1. req[r] # Idle /\ req[r] \in Verifying
      BY <2>3, BusyRequest DEF Idle
    <3>2. req'[r] = [req[r] EXCEPT !.pc = pc, !.last = last]
      BY <2>3 DEF TypeOK
    <3> QED
      BY <1>2, <3>1, <3>2 DEF Verifying
  <2>4. ASSUME req[r].pc \in {"claim", "compare", "consume"},
               NEW pc, req' = [req EXCEPT ![r].pc = pc]
        PROVE  Goal
    <3>1. req[r] # Idle /\ req[r] \in Verifying
      BY <2>4, BusyRequest DEF Idle
    <3>2. req'[r] = [req[r] EXCEPT !.pc = pc]
      BY <2>4 DEF TypeOK
    <3> QED
      BY <1>2, <3>1, <3>2 DEF Verifying
  <2>5. CASE VerifyClaim(r)
    BY <2>1, <2>3, <2>5 DEF VerifyClaim
  <2>6. CASE VerifyCompare(r)
    BY <2>1, <2>4, <2>6 DEF VerifyCompare
  <2>7. CASE VerifyConsume(r)
    BY <2>1, <2>4, <2>7 DEF VerifyConsume
  <2>8. CASE VerifyGrant(r) \/ VerifyFail(r) \/ VerifyReplyLost(r)
    BY <2>1, <2>8 DEF VerifyGrant, VerifyFail, VerifyReplyLost
  <2> QED
    BY <2>2, <2>5, <2>6, <2>7, <2>8 DEF Verify
<1> QED
  BY <1>1, <1>2

LEMMA LookedUpStep ==
    ASSUME IInv, LookedUp, [Next]_vars
    PROVE  LookedUp'
<1>0. TypeOK /\ Kept
  BY RowsKept DEF IInv
<1>1. ASSUME NEW q \in Requests, req'[q] # Idle
      PROVE  Answers(req[q].code, req[q].user, req[q].purpose, req[q].via)'
  <2>1. CASE req'[q] = req[q]
    BY <1>0, <1>1, <2>1, StillAnswers DEF LookedUp
  <2>2. ASSUME NEW r \in Requests, Verify(r)
        PROVE  Answers(req[q].code, req[q].user, req[q].purpose, req[q].via)'
    <3>1. CASE /\ req[q] # Idle
               /\ req'[q].code = req[q].code /\ req'[q].user = req[q].user
               /\ req'[q].purpose = req[q].purpose /\ req'[q].via = req[q].via
      BY <1>0, <3>1, StillAnswers DEF LookedUp
    <3>2. CASE Answers(req'[q].code, req'[q].user, req'[q].purpose, req'[q].via)
      BY <1>0, <3>2, StillAnswers
    <3> QED
      BY <1>0, <1>1, <2>2, <3>1, <3>2, RequestMoves
  <2>3. CASE \E s \in Sends : Send(s)
    BY <2>1, <2>3 DEF Send, Dispatch, Register, StepUpRequest, SendCheck, SendStamp, SendBegin,
                 SendInsert, SendMail, SendFail, SendDeadline
  <2>4. CASE Crash
    BY <1>1, <2>4 DEF Crash
  <2>5. CASE Tick \/ UNCHANGED vars
    BY <2>1, <2>5 DEF Tick, vars
  <2> QED
    BY <2>2, <2>3, <2>4, <2>5 DEF Next
<1>2. ASSUME NEW g \in granted'
      PROVE  Answers(g.code, g.user, g.purpose, g.via)'
  <2>1. CASE g \in granted
    BY <1>0, <2>1, StillAnswers DEF LookedUp
  <2>2. ASSUME NEW r \in Requests, VerifyGrant(r), g \notin granted
        PROVE  Answers(g.code, g.user, g.purpose, g.via)'
    <3>1. req[r] # Idle
      BY <2>2 DEF VerifyGrant, Idle
    <3>2. /\ g.code = req[r].code /\ g.user = req[r].user /\ g.purpose = req[r].purpose
          /\ g.via = req[r].via
      BY <2>2 DEF VerifyGrant
    <3>3. Answers(g.code, g.user, g.purpose, g.via)
      BY <3>1, <3>2 DEF LookedUp
    <3> QED
      BY <1>0, <3>3, StillAnswers
  <2>3. granted' = granted \/ \E r \in Requests : VerifyGrant(r)
    BY DEF Next, Verify, VerifyLookup, VerifyClaim, VerifyCompare, VerifyConsume, VerifyFail,
           VerifyReplyLost, Send, Dispatch, Register, StepUpRequest, SendCheck, SendStamp,
           SendBegin, SendInsert, SendMail, SendFail, SendDeadline, Crash, Tick, vars, history
  <2> QED
    BY <2>1, <2>2, <2>3
<1> QED
  BY <1>1, <1>2 DEF LookedUp

----------------------------------------------------------------------------
(* The order of a send's clock readings *)

\* What SendsInOrder says of one goroutine's record.
InOrder(v) ==
    /\ v.via = "stepup" => v.purpose = "credential_change"
    /\ v.pc # "check" => (v.purpose = "credential_change" => v.via = "stepup")
    /\ v.started <= clock
    /\ v.pc = "begin" => v.expires <= clock + Expiry
    /\ v.pc = "insert" => /\ v.started <= v.created
                          /\ v.created <= clock
                          /\ v.expires <= v.created + Expiry

\* Replacing one goroutine's record by another that is in order.
LEMMA OrderKept ==
    ASSUME TypeOK, SendsInOrder, NEW s \in Sends, NEW v,
           send' = [send EXCEPT ![s] = v], v = Idle \/ InOrder(v), clock' = clock
    PROVE  SendsInOrder'
<1>1. \A t \in Sends : send'[t] = IF t = s THEN v ELSE send[t]
  BY DEF TypeOK
<1> QED
  BY <1>1 DEF SendsInOrder, InOrder

\* The steps of one send.
LEMMA SendOrderStep ==
    ASSUME TypeOK, SendsInOrder, NEW s \in Sends, Send(s)
    PROVE  SendsInOrder'
<1>0. clock' = clock /\ clock \in Nat
  BY DEF TypeOK, Send, Dispatch, Register, StepUpRequest, SendCheck, SendStamp, SendBegin,
         SendInsert, SendMail, SendFail, SendDeadline
<1>1. ASSUME NEW via, NEW u, NEW p, Spawn(s, via, u, p),
             via = "stepup" => p = "credential_change"
      PROVE  SendsInOrder'
  <2> DEFINE v == [pc |-> "check", via |-> via, user |-> u, purpose |-> p,
                   started |-> clock, expires |-> 0, created |-> 0]
  <2>1. InOrder(v)
    BY <1>0, <1>1 DEF InOrder
  <2>2. send' = [send EXCEPT ![s] = v]
    BY <1>1 DEF Spawn
  <2> HIDE DEF v
  <2> QED
    BY <1>0, <2>1, <2>2, OrderKept
<1>2. CASE \E u \in User, p \in Purpose : Dispatch(s, u, p)
  BY <1>1, <1>2 DEF Dispatch
<1>3. CASE \E u \in User : Register(s, u) \/ StepUpRequest(s, u)
  BY <1>1, <1>3 DEF Register, StepUpRequest
<1>4. CASE Finish(s)
  BY <1>0, <1>4, OrderKept DEF Finish
<1>5. ASSUME NEW label, At(s, label)
      PROVE  send[s] \in Sending /\ send[s].pc = label /\ InOrder(send[s])
  BY <1>5, BusySend DEF At, SendsInOrder, InOrder
<1>6. CASE SendCheck(s) /\ ~Finish(s)
  <2> DEFINE v == [send[s] EXCEPT !.pc = "stamp"]
  <2>1. /\ send' = [send EXCEPT ![s] = v]
        /\ send[s].via = "stepup" \/ publicEmailCodePurpose(send[s].purpose)
    BY <1>6 DEF SendCheck
  <2>2. InOrder(v)
    BY <1>5, <1>6, <2>1 DEF SendCheck, InOrder, Sending, publicEmailCodePurpose
  <2> HIDE DEF v
  <2> QED
    BY <1>0, <2>1, <2>2, OrderKept
<1>7. CASE SendStamp(s)
  <2> DEFINE v == [send[s] EXCEPT !.pc = "begin", !.expires = clock + Expiry]
  <2>1. send' = [send EXCEPT ![s] = v]
    BY <1>7 DEF SendStamp
  <2>e. clock + Expiry \in Nat
    BY <1>0, ParamsAssumption
  <2>2. InOrder(v)
    BY <1>5, <1>7, <2>e DEF SendStamp, InOrder, Sending
  <2> HIDE DEF v
  <2> QED
    BY <1>0, <2>1, <2>2, OrderKept
<1>8. CASE SendBegin(s)
  <2> DEFINE v == [send[s] EXCEPT !.pc = "insert", !.created = clock]
  <2>1. send' = [send EXCEPT ![s] = v]
    BY <1>8 DEF SendBegin
  <2>2. InOrder(v)
    BY <1>0, <1>5, <1>8 DEF SendBegin, InOrder, Sending
  <2> HIDE DEF v
  <2> QED
    BY <1>0, <2>1, <2>2, OrderKept
<1>9. CASE SendInsert(s) /\ ~Finish(s)
  <2> DEFINE v == [send[s] EXCEPT !.pc = "mail"]
  <2>1. send' = [send EXCEPT ![s] = v]
    BY <1>9 DEF SendInsert
  <2>2. InOrder(v)
    BY <1>5, <1>9 DEF SendInsert, InOrder, Sending
  <2> HIDE DEF v
  <2> QED
    BY <1>0, <2>1, <2>2, OrderKept
<1>10. CASE SendMail(s) \/ SendFail(s) \/ SendDeadline(s)
  BY <1>4, <1>10 DEF SendMail, SendFail, SendDeadline
<1> QED
  BY <1>2, <1>3, <1>4, <1>6, <1>7, <1>8, <1>9, <1>10 DEF Send

LEMMA SendsInOrderStep ==
    ASSUME TypeOK, SendsInOrder, [Next]_vars
    PROVE  SendsInOrder'
<1>1. CASE \E s \in Sends : Send(s)
  BY <1>1, SendOrderStep
<1>2. CASE send' = send /\ clock' = clock
  BY <1>2 DEF SendsInOrder
<1>3. CASE \E r \in Requests : Verify(r)
  BY <1>2, <1>3 DEF Verify, VerifyLookup, VerifyClaim, VerifyCompare, VerifyConsume,
                    VerifyGrant, VerifyFail, VerifyReplyLost
<1>4. CASE Crash
  BY <1>4 DEF Crash, SendsInOrder
<1>5. CASE Tick
  <2>1. send' = send /\ clock' = clock + 1 /\ clock \in Nat
    BY <1>5 DEF Tick, TypeOK
  <2>2. ASSUME NEW s \in Sends, send[s] # Idle
        PROVE  send[s].started \in Nat /\ send[s].created \in Nat /\ send[s].expires \in Nat
    BY <2>2, BusySend DEF Sending
  <2> QED
    BY <2>1, <2>2, ParamsAssumption DEF SendsInOrder
<1>6. CASE UNCHANGED vars
  BY <1>2, <1>6 DEF vars
<1> QED
  BY <1>1, <1>3, <1>4, <1>5, <1>6 DEF Next

----------------------------------------------------------------------------
(* The order of the rows *)

\* Only SendInsert adds a row: it is stamped by its send, and no row of its
\* account and purpose is within the cooldown.
LEMMA NewRow ==
    ASSUME TypeOK, [Next]_vars, NEW c \in minted' \ minted
    PROVE  \E s \in Sends :
             /\ At(s, "insert") /\ clock' = clock
             /\ minted' = minted \cup {c}
             /\ codes'[c].user = send[s].user /\ codes'[c].purpose = send[s].purpose
             /\ codes'[c].created = send[s].created /\ codes'[c].expires = send[s].expires
             /\ birth'[c].via = send[s].via /\ birth'[c].at = clock
             /\ ~Recent(send[s].user, send[s].purpose)
<1>1. DOMAIN codes' # DOMAIN codes
  BY DEF minted
<1>2. \E s \in Sends : SendInsert(s)
  BY <1>1 DEF Next, Verify, VerifyLookup, VerifyClaim, VerifyCompare, VerifyConsume,
         VerifyGrant, VerifyFail, VerifyReplyLost, Send, Dispatch, Register, StepUpRequest,
         SendCheck, SendStamp, SendBegin, SendMail, SendFail, SendDeadline, Crash, Tick, vars
<1>3. PICK s \in Sends : SendInsert(s)
  BY <1>2
<1>4. ~Recent(send[s].user, send[s].purpose)
  BY <1>1, <1>3 DEF SendInsert, MintBlocked
<1>5. PICK d \in CodeId \ minted :
        /\ codes' = [x \in minted \cup {d} |->
                       IF x = d
                       THEN [user |-> send[s].user, purpose |-> send[s].purpose,
                             created |-> send[s].created, expires |-> send[s].expires,
                             attempts |-> 0, consumed |-> FALSE]
                       ELSE codes[x]]
        /\ birth' = [x \in minted \cup {d} |->
                       IF x = d THEN [via |-> send[s].via, at |-> clock] ELSE birth[x]]
  BY <1>3, <1>4 DEF SendInsert, MintBlocked
<1>6. minted' = minted \cup {d} /\ c = d
  BY <1>5 DEF minted
<1>7. /\ codes'[c] = [user |-> send[s].user, purpose |-> send[s].purpose,
                      created |-> send[s].created, expires |-> send[s].expires,
                      attempts |-> 0, consumed |-> FALSE]
      /\ birth'[c] = [via |-> send[s].via, at |-> clock]
  BY <1>5, <1>6
<1>8. At(s, "insert") /\ clock' = clock
  BY <1>3 DEF SendInsert
<1> QED
  BY <1>4, <1>6, <1>7, <1>8

\* The clock only goes forward.
LEMMA ClockForward ==
    ASSUME TypeOK, [Next]_vars
    PROVE  clock' \in Nat /\ clock <= clock'
<1>1. CASE clock' = clock
  BY <1>1 DEF TypeOK
<1>2. CASE Tick
  BY <1>2 DEF Tick, TypeOK
<1>3. clock' = clock \/ Tick
  BY DEF Next, Verify, VerifyLookup, VerifyClaim, VerifyCompare, VerifyConsume,
         VerifyGrant, VerifyFail, VerifyReplyLost, Send, Dispatch, Register, StepUpRequest,
         SendCheck, SendStamp, SendBegin, SendInsert, SendMail, SendFail, SendDeadline, Crash,
         vars
<1> QED
  BY <1>1, <1>2, <1>3

LEMMA MintedStep ==
    ASSUME IInv, SendsInOrder, MintedInOrder, Apart, [Next]_vars
    PROVE  MintedInOrder' /\ Apart'
<1>0. TypeOK /\ Kept
  BY RowsKept DEF IInv
<1>1. \A c \in minted : /\ codes[c].created \in Nat /\ codes[c].expires \in Nat
                        /\ birth[c].at \in Nat
  BY <1>0 DEF TypeOK, Row
<1>2. clock \in Nat /\ clock' \in Nat /\ clock <= clock'
  BY <1>0, ClockForward DEF TypeOK
<1>3. ASSUME NEW c \in minted' \ minted
      PROVE  /\ codes'[c].purpose = "credential_change" <=> birth'[c].via = "stepup"
             /\ codes'[c].created <= birth'[c].at
             /\ birth'[c].at <= clock'
             /\ codes'[c].expires <= codes'[c].created + Expiry
             /\ birth'[c].via = "public" => birth'[c].at <= codes'[c].created + SendTimeout
             /\ \A d \in minted' : /\ c # d
                                   /\ codes'[c].user = codes'[d].user
                                   /\ codes'[c].purpose = codes'[d].purpose
                                   => codes'[d].created + Cooldown <= birth'[c].at
  <2>1. PICK s \in Sends :
             /\ At(s, "insert") /\ clock' = clock
             /\ minted' = minted \cup {c}
             /\ codes'[c].user = send[s].user /\ codes'[c].purpose = send[s].purpose
             /\ codes'[c].created = send[s].created /\ codes'[c].expires = send[s].expires
             /\ birth'[c].via = send[s].via /\ birth'[c].at = clock
             /\ ~Recent(send[s].user, send[s].purpose)
    BY <1>0, NewRow
  <2>2. /\ send[s] # Idle /\ send[s].pc = "insert" /\ ~DeadlinePassed(s)
        /\ send[s] \in Sending
    BY <1>0, <2>1, BusySend DEF At
  <2>3. /\ send[s].started \in Nat /\ send[s].created \in Nat /\ send[s].expires \in Nat
        /\ send[s].started <= send[s].created /\ send[s].created <= clock
        /\ send[s].expires <= send[s].created + Expiry
        /\ send[s].purpose = "credential_change" <=> send[s].via = "stepup"
    BY <2>2 DEF Sending, SendsInOrder
  <2>4. send[s].via = "public" => clock <= send[s].created + SendTimeout
    BY <1>2, <2>2, <2>3, ParamsAssumption DEF DeadlinePassed
  <2>5. ASSUME NEW d \in minted, codes[d].user = send[s].user, codes[d].purpose = send[s].purpose
        PROVE  codes[d].created + Cooldown <= clock
    BY <1>1, <1>2, <2>1, <2>5, ParamsAssumption DEF Recent
  <2>6. \A d \in minted : /\ codes'[d].user = codes[d].user
                          /\ codes'[d].purpose = codes[d].purpose
                          /\ codes'[d].created = codes[d].created
    BY <1>0 DEF Kept
  <2>7. \A d \in minted' : c # d => d \in minted
    BY <2>1
  <2> QED
    BY <1>2, <2>1, <2>3, <2>4, <2>5, <2>6, <2>7
<1>4. \A c \in minted : /\ codes'[c].user = codes[c].user
                        /\ codes'[c].purpose = codes[c].purpose
                        /\ codes'[c].created = codes[c].created
                        /\ codes'[c].expires = codes[c].expires
                        /\ birth'[c] = birth[c]
  BY <1>0 DEF Kept
<1>5. MintedInOrder'
  BY <1>1, <1>2, <1>3, <1>4 DEF MintedInOrder
<1>6. Apart'
  <2> SUFFICES ASSUME NEW c \in minted', NEW d \in minted', c # d,
                      codes'[c].user = codes'[d].user, codes'[c].purpose = codes'[d].purpose
               PROVE  \/ codes'[c].created + Cooldown <= birth'[d].at
                      \/ codes'[d].created + Cooldown <= birth'[c].at
    BY DEF Apart
  <2>1. CASE c \notin minted
    BY <1>3, <2>1
  <2>2. CASE d \notin minted
    BY <1>3, <2>2
  <2>3. CASE c \in minted /\ d \in minted
    BY <1>4, <2>3 DEF Apart
  <2> QED
    BY <2>1, <2>2, <2>3
<1> QED
  BY <1>5, <1>6

\* The second inductive invariant: who a code is for and when it was minted.
THEOREM OrderInvariance == Spec => []OrderInv
<1>1. Init => OrderInv
  BY DEF Init, OrderInv, LookedUp, SendsInOrder, MintedInOrder, Apart, minted, NoRows
<1>2. IInv /\ OrderInv /\ [Next]_vars => OrderInv'
  BY LookedUpStep, SendsInOrderStep, MintedStep DEF OrderInv, IInv
<1> QED
  BY <1>1, <1>2, Invariance, PTL DEF Spec

\* The code that EmailCodeVerify or StepUpVerify accepts was minted for the
\* account and purpose it is accepted for, and credential_change codes come
\* from and go to step-up alone.
THEOREM PurposesAreIsolated == Spec => []PurposeIsolation
<1>1. TypeOK /\ OrderInv => PurposeIsolation
  <2> SUFFICES ASSUME TypeOK, OrderInv
               PROVE  PurposeIsolation
    OBVIOUS
  <2>1. \A c \in minted : codes[c].purpose = "credential_change" <=> birth[c].via = "stepup"
    BY DEF OrderInv, MintedInOrder
  <2>2. ASSUME NEW g \in granted
        PROVE  /\ g.code \in minted
               /\ codes[g.code].user = g.user
               /\ codes[g.code].purpose = g.purpose
               /\ Accepts(g.via, g.purpose)
    BY <2>2 DEF OrderInv, LookedUp, Answers
  <2>3. ASSUME NEW g \in granted
        PROVE  g.purpose = "credential_change" <=> g.via = "stepup"
    BY <2>2, <2>3 DEF TypeOK, Grant, Accepts, publicEmailCodePurpose, Endpoint
  <2> QED
    BY <2>1, <2>2, <2>3 DEF PurposeIsolation
<1> QED
  BY <1>1, TypeCorrect, OrderInvariance, PTL

----------------------------------------------------------------------------
(* The cooldown *)

\* Two public codes of one account and purpose: the one inserted later came
\* after the cooldown of the other.
LEMMA CooldownWaited ==
    ASSUME TypeOK, OrderInv, NEW c \in minted, NEW d \in minted, PublicPair(c, d),
           birth[c].at <= birth[d].at
    PROVE  codes[c].created + Cooldown <= birth[d].at
<1>1. /\ codes[c].created \in Nat /\ birth[c].at \in Nat
      /\ codes[d].created \in Nat /\ birth[d].at \in Nat
  BY DEF TypeOK, Row
<1>2. /\ birth[c].at <= codes[c].created + SendTimeout
      /\ birth[d].at <= codes[d].created + SendTimeout
  BY DEF OrderInv, MintedInOrder, PublicPair
<1>3. \/ codes[c].created + Cooldown <= birth[d].at
      \/ codes[d].created + Cooldown <= birth[c].at
  BY DEF OrderInv, Apart, PublicPair
<1> QED
  BY <1>1, <1>2, <1>3, ParamsAssumption, WindowAssumption

\* Public requests for one account and purpose mint no two codes closer
\* together than the cooldown less the send timeout.
LEMMA Spaced == TypeOK /\ OrderInv => SpacingHolds
<1> SUFFICES ASSUME TypeOK, OrderInv, NEW c \in minted, NEW d \in minted, PublicPair(c, d),
                    birth[c].at <= birth[d].at
             PROVE  birth[d].at - birth[c].at >= Cooldown - SendTimeout
  BY DEF SpacingHolds
<1>1. codes[c].created \in Nat /\ birth[c].at \in Nat /\ birth[d].at \in Nat
  BY DEF TypeOK, Row
<1>2. birth[c].at <= codes[c].created + SendTimeout
  BY DEF OrderInv, MintedInOrder, PublicPair
<1>3. codes[c].created + Cooldown <= birth[d].at
  BY CooldownWaited
<1> QED
  BY <1>1, <1>2, <1>3, ParamsAssumption

\* create_email_code_with_cooldown keeps publicly minted codes apart although
\* the pre-check of sendEmailCode is not atomic with the insert.
THEOREM CodesAreSpaced == Spec => []SpacingHolds
BY Spaced, TypeCorrect, OrderInvariance, PTL

\* Division with a remainder.
LEMMA Quotient ==
    ASSUME NEW x \in Int, NEW g \in Nat \ {0}
    PROVE  /\ x \div g \in Int
           /\ g * (x \div g) <= x
           /\ x < g * (x \div g) + g
OBVIOUS

\* Numbers a divisor apart have different quotients.
LEMMA QuotientsDiffer ==
    ASSUME NEW x \in Int, NEW y \in Int, NEW g \in Nat \ {0}, x + g <= y
    PROVE  x \div g # y \div g
<1> DEFINE a == x \div g
           b == y \div g
<1>1. a \in Int /\ b \in Int /\ x < g * a + g /\ g * b <= y /\ g * a <= x /\ y < g * b + g
  BY Quotient
<1> HIDE DEF a, b
<1>2. a # b
  BY <1>1
<1> QED
  BY <1>2 DEF a, b

\* Division is monotonic and keeps naturals natural.
LEMMA QuotientsGrow ==
    ASSUME NEW x \in Int, NEW y \in Int, NEW g \in Nat \ {0}, x <= y
    PROVE  x \div g <= y \div g
<1> DEFINE a == x \div g
           b == y \div g
<1>1. a \in Int /\ b \in Int /\ x < g * a + g /\ g * b <= y /\ g * a <= x /\ y < g * b + g
  BY Quotient
<1> HIDE DEF a, b
<1>2. g * a < g * (b + 1)
  BY <1>1
<1>3. a < b + 1
  BY <1>1, <1>2
<1> QED
  BY <1>1, <1>3 DEF a, b

LEMMA QuotientNat ==
    ASSUME NEW x \in Nat, NEW g \in Nat \ {0}
    PROVE  x \div g \in Nat
<1> DEFINE a == x \div g
<1>1. a \in Int /\ x < g * a + g
  BY Quotient
<1> HIDE DEF a
<1>2. a < 0 => g * (a + 1) <= 0
  BY <1>1
<1>3. a >= 0
  BY <1>1, <1>2
<1> QED
  BY <1>1, <1>3 DEF a

\* The live codes fall into windows of the spacing's length, numbered from the
\* end of the oldest one's cooldown, with no two in one window and the last
\* window at Expiry.
LEMMA LiveBound == TypeOK /\ OrderInv => LiveCodesBounded
<1> SUFFICES ASSUME TypeOK, OrderInv, NEW u \in User, NEW p \in Purpose
             PROVE  Cardinality({c \in Active(u, p) : birth[c].via = "public"}) <= MaxLive
  BY DEF LiveCodesBounded
<1>1. PICK g : g = Cooldown - SendTimeout
  OBVIOUS
<1>2. g \in Nat \ {0}
  BY <1>1, ParamsAssumption, WindowAssumption
<1>3. PICK base : base = clock - Expiry + 1 + Cooldown
  OBVIOUS
<1>w. PICK width : width = Expiry - 1 - Cooldown
  OBVIOUS
<1>4. PICK top : top = width \div g
  OBVIOUS
<1>5. base \in Int /\ clock \in Int /\ width \in Int /\ clock - base = width /\ -1 <= width
  BY <1>3, <1>w, ParamsAssumption, WindowAssumption DEF TypeOK
<1>6. top \in Int /\ top >= -1
  <2>1. top \in Int
    BY <1>2, <1>4, <1>5, Quotient
  <2>2. (-1) \div g <= top
    <3>1. -1 \in Int
      OBVIOUS
    <3> QED
      BY <1>2, <1>4, <1>5, <3>1, QuotientsGrow
  <2>3. (-1) \div g >= -1
    BY <1>2
  <2> QED
    BY <1>2, <2>1, <2>2, <2>3, Quotient
<1>7. PICK Live : Live = {c \in Active(u, p) : birth[c].via = "public"}
  OBVIOUS
<1>8. PICK window : window = [c \in Live |-> IF birth[c].at < base THEN -1
                                             ELSE (birth[c].at - base) \div g]
  OBVIOUS
<1>9. ASSUME NEW c \in Live
      PROVE  /\ c \in minted /\ codes[c].user = u /\ codes[c].purpose = p
             /\ birth[c].via = "public"
             /\ codes[c].created \in Nat /\ birth[c].at \in Nat
             /\ birth[c].at <= clock
             /\ base <= codes[c].created + Cooldown
  <2>1. /\ c \in minted /\ codes[c].user = u /\ codes[c].purpose = p
        /\ birth[c].via = "public" /\ codes[c].expires > clock
    BY <1>7, <1>9 DEF Active
  <2>2. /\ codes[c].created \in Nat /\ codes[c].expires \in Nat /\ birth[c].at \in Nat
        /\ clock \in Nat
    BY <2>1 DEF TypeOK, Row
  <2>3. birth[c].at <= clock /\ codes[c].expires <= codes[c].created + Expiry
    BY <2>1 DEF OrderInv, MintedInOrder
  <2> QED
    BY <1>3, <2>1, <2>2, <2>3, ParamsAssumption
<1>10. ASSUME NEW c \in Live
       PROVE  window[c] \in (-1)..top
  <2>1. CASE birth[c].at < base
    BY <1>6, <1>8, <2>1
  <2>2. CASE birth[c].at >= base
    <3>1. birth[c].at - base \in Nat /\ birth[c].at - base <= width
      BY <1>5, <1>9, <2>2
    <3>2. (birth[c].at - base) \div g \in Nat
      BY <1>2, <3>1, QuotientNat
    <3>3. (birth[c].at - base) \div g <= top
      <4>1. PICK x \in Int : x = birth[c].at - base
        BY <3>1
      <4>2. x <= width
        BY <3>1, <4>1
      <4>3. x \div g <= width \div g
        BY <1>2, <1>5, <4>2, QuotientsGrow
      <4> QED
        BY <1>4, <4>1, <4>3
    <3>4. window[c] = (birth[c].at - base) \div g
      BY <1>5, <1>8, <1>9, <2>2
    <3> QED
      BY <1>6, <3>2, <3>3, <3>4
  <2> QED
    BY <1>5, <1>9, <2>1, <2>2
<1>11. ASSUME NEW c \in Live, NEW d \in Live, c # d, birth[c].at <= birth[d].at
       PROVE  window[c] # window[d]
  <2>1. PublicPair(c, d)
    BY <1>9, <1>11 DEF PublicPair
  <2>2. birth[d].at >= base
    <3>1. codes[c].created + Cooldown <= birth[d].at
      BY <1>9, <1>11, <2>1, CooldownWaited
    <3> QED
      BY <1>5, <1>9, <3>1, ParamsAssumption
  <2>3. birth[d].at - base \in Nat
    BY <1>5, <1>9, <2>2
  <2>4. window[d] = (birth[d].at - base) \div g
    BY <1>5, <1>8, <1>9, <2>2
  <2>5. CASE birth[c].at < base
    <3>1. window[c] = -1
      BY <1>8, <2>5
    <3>2. (birth[d].at - base) \div g \in Nat
      BY <1>2, <2>3, QuotientNat
    <3> QED
      BY <2>4, <3>1, <3>2
  <2>6. CASE birth[c].at >= base
    <3>1. birth[d].at - birth[c].at >= g
      BY <1>1, <1>9, <1>11, <2>1, Spaced DEF SpacingHolds
    <3>2. /\ birth[c].at - base \in Int
          /\ (birth[c].at - base) + g <= birth[d].at - base
      BY <1>2, <1>5, <1>9, <3>1
    <3>3. window[c] = (birth[c].at - base) \div g
      BY <1>5, <1>8, <1>9, <2>6
    <3> QED
      BY <1>2, <2>3, <2>4, <3>2, <3>3, QuotientsDiffer
  <2> QED
    BY <1>5, <1>9, <2>5, <2>6
<1>12. window \in Injection(Live, (-1)..top)
  <2>1. window \in [Live -> (-1)..top]
    BY <1>8, <1>10
  <2>2. \A c, d \in Live : window[c] = window[d] => c = d
    <3> SUFFICES ASSUME NEW c \in Live, NEW d \in Live, c # d
                 PROVE  window[c] # window[d]
      OBVIOUS
    <3>1. birth[c].at <= birth[d].at \/ birth[d].at <= birth[c].at
      BY <1>9
    <3> QED
      BY <1>11, <3>1
  <2> QED
    BY <2>1, <2>2 DEF Injection, IsInjective
<1>13. IsFiniteSet((-1)..top) /\ Cardinality((-1)..top) = top + 2
  BY <1>6, FS_Interval
<1>14. Cardinality(Live) <= top + 2
  BY <1>12, <1>13, FS_Injection
<1>15. MaxLive = 2 + top
  BY <1>1, <1>4, <1>w DEF MaxLive
<1> QED
  BY <1>6, <1>7, <1>14, <1>15

\* The number of publicly requested codes of one account and purpose that are
\* alive together, and with it the guesses an address can be exposed to, is
\* bounded by the expiry, the cooldown and the send timeout.
THEOREM LiveCodesAreBounded == Spec => []LiveCodesBounded
BY LiveBound, TypeCorrect, OrderInvariance, PTL
=============================================================================
