------------------------ MODULE PasswordReset_proofs ------------------------
(***************************************************************************)
(* Proofs about PasswordReset for any number of accounts, tokens, requests *)
(* and confirmations, with failures and crashes: types, a used token is    *)
(* closed, and closing is final.                                           *)
(***************************************************************************)
EXTENDS PasswordReset, TLAPS, FiniteSetTheorems

IInv == TypeOK /\ UsedIsClosed

\* Where a goroutine or a confirmation is tells what it holds.
LEMMA Held ==
    ASSUME TypeOK
    PROVE  /\ \A s \in Senders : /\ job[s].pc = "lookup" => job[s] \in Lookup
                                 /\ job[s].pc = "insert" => job[s] \in Insert
                                 /\ job[s].pc = "mail" => job[s] \in Mail
           /\ \A r \in Requests : confirm[r].pc \in {"upsert", "consume"} =>
                                     confirm[r] \in Confirms /\ confirm[r] # Idle
<1>1. ASSUME NEW s \in Senders
      PROVE  /\ job[s].pc = "lookup" => job[s] \in Lookup
             /\ job[s].pc = "insert" => job[s] \in Insert
             /\ job[s].pc = "mail" => job[s] \in Mail
  <2>1. job[s] \in Jobs
    BY DEF TypeOK
  <2> QED
    BY <2>1 DEF Jobs, Lookup, Insert, Mail, New, Done
<1>2. ASSUME NEW r \in Requests, confirm[r].pc \in {"upsert", "consume"}
      PROVE  confirm[r] \in Confirms /\ confirm[r] # Idle
  <2>1. confirm[r] \in Confirms \cup {Idle}
    BY DEF TypeOK
  <2> QED
    BY <1>2, <2>1 DEF Idle
<1> QED
  BY <1>1, <1>2

\* The goroutine's steps leave confirmations and their tokens alone.
LEMMA JobStep ==
    ASSUME IInv, NEW s \in Senders,
           \/ \E a \in Account \cup {None} : PasswordResetRequest(s, a)
           \/ HandlerReturns(s)
           \/ Job(s)
    PROVE  IInv'
<1> USE DEF IInv
<1>1. /\ UNCHANGED <<clock, confirm, uses, unclosed>>
      /\ open' \subseteq Senders
  BY DEF PasswordResetRequest, HandlerReturns, Job, JobLookup, JobInsert, JobMail,
         JobEnds, TypeOK
<1>2. job' \in [Senders -> Jobs]
  <2>1. ASSUME NEW v \in Jobs, job' = [job EXCEPT ![s] = v]
        PROVE  job' \in [Senders -> Jobs]
    BY <2>1 DEF TypeOK
  <2>2. ASSUME NEW a \in Account \cup {None}, PasswordResetRequest(s, a)
        PROVE  job' \in [Senders -> Jobs]
    <3>1. [pc |-> "lookup", account |-> a] \in Jobs
      BY DEF Jobs, Lookup
    <3> QED
      BY <2>1, <2>2, <3>1 DEF PasswordResetRequest
  <2>3. CASE HandlerReturns(s)
    BY <2>3 DEF HandlerReturns, TypeOK
  <2>4. Done \in Jobs
    BY DEF Jobs
  <2>5. CASE JobLookup(s)
    <3>1. job[s] \in Lookup
      BY <2>5, Held DEF JobLookup
    <3>2. job[s].account # None => [pc |-> "insert", account |-> job[s].account] \in Jobs
      BY <3>1 DEF Lookup, Jobs, Insert
    <3> QED
      BY <2>1, <2>4, <2>5, <3>2 DEF JobLookup, Step
  <2>6. ASSUME NEW t \in Token, JobInsert(s, t)
        PROVE  job' \in [Senders -> Jobs]
    <3>1. job[s] \in Insert
      BY <2>6, Held DEF JobInsert
    <3>2. [pc |-> "mail", account |-> job[s].account, token |-> t] \in Jobs
      BY <3>1 DEF Insert, Jobs, Mail
    <3> QED
      BY <2>1, <2>6, <3>2 DEF JobInsert, Step
  <2>7. CASE JobMail(s) \/ JobEnds(s)
    BY <2>1, <2>4, <2>7 DEF JobMail, JobEnds, Step
  <2> QED
    BY <2>2, <2>3, <2>5, <2>6, <2>7 DEF Job
<1>3. /\ rows \subseteq rows' /\ rows' \subseteq Token
      /\ resets' \in [rows' -> Row]
      /\ \A t \in rows : resets'[t] = resets[t]
  <2>1. CASE UNCHANGED resets
    BY <2>1 DEF TypeOK, rows
  <2>2. ASSUME NEW t \in Token, JobInsert(s, t)
        PROVE  /\ rows \subseteq rows' /\ rows' \subseteq Token
               /\ resets' \in [rows' -> Row]
               /\ \A x \in rows : resets'[x] = resets[x]
    <3>1. job[s] \in Insert
      BY <2>2, Held DEF JobInsert
    <3>2. [account |-> job[s].account, expires |-> clock + Lifetime, consumed |-> FALSE] \in Row
      BY <3>1, ParamsAssumption DEF Insert, Row, TypeOK
    <3> QED
      BY <2>2, <3>2 DEF JobInsert, CreatePasswordReset, TypeOK, rows
  <2> QED
    BY <2>1, <2>2 DEF PasswordResetRequest, HandlerReturns, Job, JobLookup, JobMail, JobEnds
<1>4. mailed' \subseteq rows'
  <2>1. CASE UNCHANGED mailed
    BY <1>3, <2>1 DEF TypeOK
  <2>2. CASE JobMail(s)
    BY <1>3, <2>2, Held DEF JobMail, TypeOK, Mail
  <2> QED
    BY <2>1, <2>2 DEF PasswordResetRequest, HandlerReturns, Job, JobLookup, JobInsert, JobEnds
<1>5. ASSUME NEW q \in Senders, job'[q].pc = "mail"
      PROVE  job'[q].token \in rows'
  <2>1. CASE job'[q] = job[q]
    BY <1>3, <1>5, <2>1 DEF TypeOK
  <2>2. ASSUME NEW v, v.pc # "mail", job' = [job EXCEPT ![s] = v]
        PROVE  job'[q].token \in rows'
    BY <1>3, <1>5, <2>2 DEF TypeOK
  <2>3. ASSUME NEW t \in Token, JobInsert(s, t)
        PROVE  job'[q].token \in rows'
    <3>1. t \in rows'
      BY <2>3 DEF JobInsert, CreatePasswordReset, rows
    <3>2. q = s => job'[q].token = t
      BY <2>3 DEF JobInsert, Step, TypeOK
    <3>3. q # s => job'[q] = job[q]
      BY <2>3 DEF JobInsert, Step, TypeOK
    <3> QED
      BY <2>1, <3>1, <3>2, <3>3
  <2>4. CASE HandlerReturns(s)
    BY <2>1, <2>4 DEF HandlerReturns
  <2>5. CASE \E a \in Account \cup {None} : PasswordResetRequest(s, a)
    BY <2>2, <2>5 DEF PasswordResetRequest
  <2>6. CASE JobLookup(s) \/ JobMail(s) \/ JobEnds(s)
    BY <2>2, <2>6 DEF JobLookup, JobMail, JobEnds, Step, Done
  <2> QED
    BY <2>3, <2>4, <2>5, <2>6 DEF Job
<1>6. TypeOK'
  BY <1>1, <1>2, <1>3, <1>4, <1>5 DEF TypeOK
<1>7. UsedIsClosed'
  BY <1>1, <1>3 DEF UsedIsClosed
<1> QED
  BY <1>6, <1>7

\* Each statement of a confirmation, and its failure.
LEMMA ConfirmStep ==
    ASSUME IInv, NEW r \in Requests, Confirm(r)
    PROVE  IInv'
<1> USE DEF IInv
<1>1. ASSUME NEW t \in Token, ConfirmLookup(r, t)
      PROVE  IInv'
  <2> DEFINE v == [pc |-> "upsert", token |-> t]
  <2>1. v \in Confirms /\ v # Idle
    BY DEF Confirms, Idle, TypeOK
  <2>2. confirm' = [confirm EXCEPT ![r] = v] /\ t \in rows /\ resets[t].expires > clock
    BY <1>1 DEF ConfirmLookup, Active
  <2>3. UNCHANGED <<clock, resets, mailed, job, open, uses, unclosed>>
    BY <1>1 DEF ConfirmLookup
  <2>4. v.pc = "upsert" /\ v.token = t /\ confirm[r] = Idle
    BY <1>1 DEF ConfirmLookup
  <2> HIDE DEF v
  <2>5. \A q \in Requests : confirm'[q] = IF q = r THEN v ELSE confirm[q]
    BY <2>2 DEF TypeOK
  <2>6. TypeOK'
    BY <2>1, <2>2, <2>3, <2>4, <2>5 DEF TypeOK, rows
  <2>7. UsedIsClosed'
    BY <2>3, <2>4, <2>5 DEF UsedIsClosed, rows, Idle
  <2> QED
    BY <2>6, <2>7
<1>2. CASE ConfirmUpsert(r)
  <2> DEFINE t == confirm[r].token
             v == [confirm[r] EXCEPT !.pc = "consume"]
  <2>1. confirm[r] \in Confirms /\ confirm[r] # Idle /\ t \in rows
    BY <1>2, Held DEF ConfirmUpsert, TypeOK
  <2>2. v \in Confirms /\ v # Idle /\ v.pc = "consume" /\ v.token = t
    BY <2>1 DEF Confirms, Idle
  <2>3. /\ confirm' = [confirm EXCEPT ![r] = v]
        /\ uses' = [uses EXCEPT ![t] = @ + 1]
        /\ UNCHANGED <<clock, resets, mailed, job, open, unclosed>>
    BY <1>2 DEF ConfirmUpsert
  <2>4. \A q \in Requests : confirm'[q] = IF q = r THEN v ELSE confirm[q]
    BY <2>3 DEF TypeOK
  <2>5. \A x \in Token : x # t => uses'[x] = uses[x]
    BY <2>3 DEF TypeOK
  <2>6. \A q \in Requests : q # r /\ confirm[q].pc = "consume" => confirm'[q] = confirm[q]
    BY <2>4
  <2>7. confirm[r].pc # "consume"
    BY <1>2 DEF ConfirmUpsert
  <2>8. confirm'[r].pc = "consume" /\ confirm'[r].token = t
    BY <2>2, <2>4
  <2>9. TypeOK'
    BY <2>1, <2>2, <2>3, <2>4 DEF TypeOK, rows, Confirms
  <2> HIDE DEF v, t
  <2>10. UsedIsClosed'
    <3> SUFFICES ASSUME NEW x \in Token, uses'[x] > 0, x \notin unclosed'
                 PROVE  \/ x \in rows' /\ resets'[x].consumed
                        \/ \E q \in Requests : confirm'[q].pc = "consume"
                                               /\ confirm'[q].token = x
      BY DEF UsedIsClosed
    <3>1. CASE x = t
      BY <2>8, <3>1
    <3>2. CASE x # t
      BY <2>3, <2>5, <2>6, <2>7, <3>2 DEF UsedIsClosed, rows
    <3> QED
      BY <3>1, <3>2
  <2> QED
    BY <2>9, <2>10
<1>3. CASE ConfirmConsume(r)
  <2> DEFINE t == confirm[r].token
  <2>1. confirm[r] \in Confirms /\ t \in rows
    BY <1>3, Held DEF ConfirmConsume, TypeOK
  <2>2. /\ confirm' = [confirm EXCEPT ![r] = Idle]
        /\ resets' = [resets EXCEPT ![t].consumed = TRUE]
        /\ UNCHANGED <<clock, mailed, job, open, uses, unclosed>>
    BY <1>3 DEF ConfirmConsume, ConsumePasswordReset
  <2>3. \A q \in Requests : confirm'[q] = IF q = r THEN Idle ELSE confirm[q]
    BY <2>2 DEF TypeOK
  <2>4. /\ rows' = rows
        /\ resets' \in [rows -> Row]
        /\ resets'[t].consumed
        /\ \A x \in rows : /\ x # t => resets'[x] = resets[x]
                           /\ resets'[x].expires = resets[x].expires
    BY <2>1, <2>2 DEF TypeOK, rows, Row
  <2>5. TypeOK'
    BY <2>2, <2>3, <2>4 DEF TypeOK
  <2> HIDE DEF t
  <2>6. UsedIsClosed'
    BY <2>1, <2>2, <2>3, <2>4 DEF UsedIsClosed, t
  <2> QED
    BY <2>5, <2>6
<1>4. CASE ConfirmFails(r)
  <2>1. confirm' = [confirm EXCEPT ![r] = Idle]
        /\ UNCHANGED <<clock, resets, mailed, job, open, uses>>
    BY <1>4 DEF ConfirmFails
  <2>2. \A q \in Requests : confirm'[q] = IF q = r THEN Idle ELSE confirm[q]
    BY <2>1 DEF TypeOK
  <2>3. /\ unclosed \subseteq unclosed' /\ unclosed' \subseteq Token
        /\ confirm[r].pc = "consume" => confirm[r].token \in unclosed'
    BY <1>4, Held DEF ConfirmFails, TypeOK, Confirms
  <2>4. TypeOK'
    BY <2>1, <2>2, <2>3 DEF TypeOK, rows
  <2>5. UsedIsClosed'
    BY <2>1, <2>2, <2>3 DEF UsedIsClosed, rows
  <2> QED
    BY <2>4, <2>5
<1> QED
  BY <1>1, <1>2, <1>3, <1>4 DEF Confirm

\* A crash loses the closing statements of the confirmations in flight.
LEMMA CrashStep ==
    ASSUME IInv, Crash
    PROVE  IInv'
<1> USE DEF IInv
<1>1. /\ UNCHANGED <<clock, resets, mailed, uses>>
      /\ confirm' = [r \in Requests |-> Idle]
  BY DEF Crash
<1>2. /\ unclosed \subseteq unclosed' /\ unclosed' \subseteq Token
      /\ \A r \in Requests : confirm[r].pc = "consume" => confirm[r].token \in unclosed'
  BY Held DEF Crash, TypeOK, Confirms
<1>3. /\ job' \in [Senders -> Jobs] /\ open' \subseteq Senders
      /\ \A s \in Senders : job'[s].pc # "mail"
  BY DEF Crash, Jobs, New, Done
<1>4. TypeOK'
  BY <1>1, <1>2, <1>3 DEF TypeOK, rows
<1>5. UsedIsClosed'
  BY <1>1, <1>2 DEF UsedIsClosed, rows
<1> QED
  BY <1>4, <1>5

----------------------------------------------------------------------------
(* The theorems *)

\* Types, closing and expiry hold together in every reachable state.
THEOREM Invariance == Spec => []IInv
<1>1. Init => IInv
  BY DEF Init, IInv, TypeOK, UsedIsClosed, rows, Jobs, New, Idle
<1>2. IInv /\ [Next]_vars => IInv'
  <2> SUFFICES ASSUME IInv, [Next]_vars
               PROVE  IInv'
    OBVIOUS
  <2>1. CASE Tick
    <3>1. UNCHANGED <<resets, mailed, job, open, confirm, uses, unclosed>> /\ clock' \in Nat
      BY <2>1 DEF Tick, IInv, TypeOK
    <3> QED
      BY <3>1 DEF IInv, TypeOK, UsedIsClosed, rows
  <2>2. CASE UNCHANGED vars
    BY <2>2 DEF vars, IInv, TypeOK, UsedIsClosed, rows
  <2> QED
    BY <2>1, <2>2, JobStep, ConfirmStep, CrashStep DEF Next
<1> QED
  BY <1>1, <1>2, PTL DEF Spec

\* Every variable keeps its type.
THEOREM TypeCorrect == Spec => []TypeOK
  BY Invariance, PTL DEF IInv

\* PasswordResetConfirm leaves no used token open except where its closing
\* statement was lost.
THEOREM UsedTokensAreClosed == Spec => []UsedIsClosed
  BY Invariance, PTL DEF IInv

----------------------------------------------------------------------------
(* Closing is final *)

\* The confirmations that will still write a password with t.
Pending(t) == {r \in Requests : confirm[r].pc = "upsert" /\ confirm[r].token = t}

LEMMA PendingCounted ==
    ASSUME NEW t
    PROVE  IsFiniteSet(Pending(t)) /\ Cardinality(Pending(t)) \in Nat
<1>1. Pending(t) \in SUBSET Requests
  BY DEF Pending
<1>2. IsFiniteSet(Pending(t))
  BY <1>1, FS_Subset, FiniteProcesses
<1> QED
  BY <1>2, FS_CardinalityType

\* No step but ConfirmConsume writes an existing row, and it closes it.
LEMMA ClosedRowStays ==
    ASSUME TypeOK, [Next]_vars, NEW t \in rows, resets[t].consumed
    PROVE  resets'[t].consumed
<1>1. CASE resets' = resets
  BY <1>1
<1>2. ASSUME NEW s \in Senders, NEW x \in Token, JobInsert(s, x)
      PROVE  resets'[t].consumed
  BY <1>2 DEF JobInsert, CreatePasswordReset
<1>3. ASSUME NEW r \in Requests, ConfirmConsume(r)
      PROVE  resets'[t].consumed
  <2>1. t \in DOMAIN resets /\ resets[t] \in Row
    BY DEF TypeOK, rows
  <2>2. resets'[t] = IF t = confirm[r].token THEN [resets[t] EXCEPT !.consumed = TRUE]
                     ELSE resets[t]
    BY <1>3, <2>1 DEF ConfirmConsume, ConsumePasswordReset
  <2> QED
    BY <2>1, <2>2 DEF Row
<1> QED
  BY <1>1, <1>2, <1>3 DEF Next, vars, PasswordResetRequest, HandlerReturns, Job, JobLookup,
        JobMail, JobEnds, Confirm, ConfirmLookup, ConfirmUpsert, ConfirmFails, Crash, Tick

\* A closed token is not looked up again, and a confirmation that looked it up
\* before is counted as a use exactly when it stops being counted as pending.
LEMMA ClosedTokenCommits ==
    ASSUME TypeOK, [Next]_vars, NEW t \in rows, resets[t].consumed
    PROVE  Committed(t)' <= Committed(t)
<1>0. t \in Token /\ uses[t] \in Nat
  BY DEF TypeOK
<1>1. /\ IsFiniteSet(Pending(t)) /\ Cardinality(Pending(t)) \in Nat
      /\ Committed(t) = uses[t] + Cardinality(Pending(t))
      /\ Committed(t)' = uses'[t] + Cardinality(Pending(t)')
  BY PendingCounted DEF Committed, Pending
<1>2. ASSUME uses'[t] = uses[t], Pending(t)' \subseteq Pending(t)
      PROVE  Committed(t)' <= Committed(t)
  <2>1. Pending(t)' \in SUBSET Pending(t)
    BY <1>2
  <2>2. /\ IsFiniteSet(Pending(t)')
        /\ Cardinality(Pending(t)') <= Cardinality(Pending(t))
    BY <1>1, <2>1, FS_Subset
  <2>3. Cardinality(Pending(t)') \in Nat
    BY <2>2, FS_CardinalityType
  <2> QED
    BY <1>0, <1>1, <1>2, <2>2, <2>3
<1>3. CASE uses' = uses /\ confirm' = confirm
  BY <1>2, <1>3 DEF Pending
<1>4. ASSUME NEW r \in Requests, NEW x \in Token, ConfirmLookup(r, x)
      PROVE  Committed(t)' <= Committed(t)
  <2>1. x # t
    BY <1>4 DEF ConfirmLookup, Active
  <2>2. \A q \in Requests : confirm'[q] = IF q = r
                            THEN [pc |-> "upsert", token |-> x] ELSE confirm[q]
    BY <1>4 DEF ConfirmLookup, TypeOK
  <2>3. Pending(t)' \subseteq Pending(t)
    BY <2>1, <2>2 DEF Pending
  <2> QED
    BY <1>2, <1>4, <2>3 DEF ConfirmLookup
<1>5. ASSUME NEW r \in Requests, ConfirmUpsert(r)
      PROVE  Committed(t)' <= Committed(t)
  <2>1. confirm[r] \in Confirms /\ confirm[r].pc = "upsert"
    BY <1>5, Held DEF ConfirmUpsert
  <2>2. \A q \in Requests : q # r => confirm'[q] = confirm[q]
    BY <1>5 DEF ConfirmUpsert, TypeOK
  <2>3. confirm'[r].pc = "consume"
    BY <1>5, <2>1 DEF ConfirmUpsert, TypeOK, Confirms
  <2>4. Pending(t)' = Pending(t) \ {r}
    BY <2>2, <2>3 DEF Pending
  <2>5. CASE confirm[r].token # t
    <3>1. uses'[t] = uses[t]
      BY <1>0, <1>5, <2>5 DEF ConfirmUpsert, TypeOK
    <3> QED
      BY <1>2, <2>4, <3>1
  <2>6. CASE confirm[r].token = t
    <3>1. uses'[t] = uses[t] + 1
      BY <1>0, <1>5, <2>6 DEF ConfirmUpsert, TypeOK
    <3>2. r \in Pending(t)
      BY <2>1, <2>6 DEF Pending
    <3>3. Cardinality(Pending(t) \ {r}) = Cardinality(Pending(t)) - 1
      BY <1>1, <3>2, FS_RemoveElement
    <3> QED
      BY <1>0, <1>1, <2>4, <3>1, <3>3
  <2> QED
    BY <2>5, <2>6
<1>6. ASSUME NEW r \in Requests, confirm' = [confirm EXCEPT ![r] = Idle], uses' = uses
      PROVE  Committed(t)' <= Committed(t)
  <2>1. \A q \in Requests : confirm'[q] = IF q = r THEN Idle ELSE confirm[q]
    BY <1>6 DEF TypeOK
  <2>2. Pending(t)' \subseteq Pending(t)
    BY <2>1 DEF Pending, Idle
  <2> QED
    BY <1>2, <1>6, <2>2
<1>7. CASE Crash
  <2>1. uses' = uses /\ \A q \in Requests : confirm'[q] = Idle
    BY <1>7 DEF Crash
  <2>2. Pending(t)' \subseteq Pending(t)
    BY <2>1 DEF Pending, Idle
  <2> QED
    BY <1>2, <2>1, <2>2
<1>8. CASE \E r \in Requests : Confirm(r)
  BY <1>4, <1>5, <1>6, <1>8 DEF Confirm, ConfirmConsume, ConfirmFails
<1> QED
  BY <1>3, <1>7, <1>8 DEF Next, vars, PasswordResetRequest, HandlerReturns, Job, JobLookup,
        JobInsert, JobMail, JobEnds, Tick

\* A reset token that PasswordResetConfirm has closed stays closed, and sets no
\* password beyond the confirmations that had already looked it up.
THEOREM ClosingIsFinal == Spec => ClosedForGood
<1>1. TypeOK /\ [Next]_vars =>
        [\A t \in rows : resets[t].consumed =>
            resets'[t].consumed /\ Committed(t)' <= Committed(t)]_vars
  BY ClosedRowStays, ClosedTokenCommits
<1> QED
  BY <1>1, TypeCorrect, PTL DEF Spec, ClosedForGood
=============================================================================
