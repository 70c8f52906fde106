---------------------------- MODULE QRCodesProofs ----------------------------
(***************************************************************************)
(* What QRCodes guarantees for every number of codes, users, sessions and  *)
(* handlers: types, one login per code, for the user who confirmed it, and *)
(* the refinement of QRGrant.                                              *)
(***************************************************************************)
EXTENDS QRCodes, TLAPS

\* What each handler under way has checked, and still may rely on.
Handlers ==
    \A r \in Requests :
        /\ pc[r] # "idle" => code[r] \in Codes
        /\ pc[r] = "confirm" =>
              uid[r] \in Users /\ sess[r] \in Sessions /\ issuer[sess[r]] = uid[r]
        /\ pc[r] = "consume" => sess[r] \in Sessions /\ issuer[sess[r]] \in Users
        /\ pc[r] = "mint" =>
              /\ code[r] \in spent /\ grants[code[r]] = 0
              /\ uid[r] = user[code[r]] /\ sess[r] = hash[code[r]]
        /\ \A q \in Requests :
              pc[r] = "mint" /\ pc[q] = "mint" /\ code[r] = code[q] => r = q

\* A code that was consumed or cancelled has no row, and only a consumed one
\* was granted.
Gone ==
    /\ cancelled \cap spent = {}
    /\ \A c \in Codes :
          /\ c \in spent \cup cancelled => status[c] = "deleted"
          /\ grants[c] > 0 => c \in spent
          /\ grants[c] <= 1

\* The user and the session of a row come from one confirmation.
Confirmation ==
    \A c \in Codes :
        hash[c] # NoSession =>
            /\ hash[c] \in Sessions
            /\ user[c] \in Users
            /\ issuer[hash[c]] = user[c]

IInv == TypeOK /\ Handlers /\ Gone /\ Confirmation

LEMMA InitInv == Init => IInv
BY DEF Init, IInv, TypeOK, Handlers, Gone, Confirmation

\* The steps that only the table, its clock and the cancellations take.
LEMMA CodeSteps ==
    ASSUME IInv, NEW c \in Codes,
           Generate(c) \/ Cancel(c) \/ Expire(c) \/ DeleteExpired(c)
    PROVE  IInv'
<1> USE DEF reqVars, history, table
<1>1. CASE Generate(c)
  BY <1>1 DEF IInv, TypeOK, Handlers, Gone, Confirmation, Generate
<1>2. CASE Cancel(c)
  BY <1>2 DEF IInv, TypeOK, Handlers, Gone, Confirmation, Cancel, Delete, Row
<1>3. CASE Expire(c)
  BY <1>3 DEF IInv, TypeOK, Handlers, Gone, Confirmation, Expire
<1>4. CASE DeleteExpired(c)
  BY <1>4 DEF IInv, TypeOK, Handlers, Gone, Confirmation, DeleteExpired, Delete
<1>5. QED BY <1>1, <1>2, <1>3, <1>4

\* A handler that returns, or starts, leaves the promises to the others.
LEMMA ArriveSteps ==
    ASSUME IInv, NEW r \in Requests, Arrive(r)
    PROVE  IInv'
<1> USE QRAssumption DEF reqVars, history, table
<1>1. ASSUME NEW c \in Codes, ScanFind(r, c)
      PROVE  IInv'
  BY <1>1 DEF IInv, TypeOK, Handlers, Gone, Confirmation, ScanFind, Run
<1>2. ASSUME NEW c \in Codes, NEW s \in Sessions, SetSession(r, c, s)
      PROVE  IInv'
  BY <1>2 DEF IInv, TypeOK, Handlers, Gone, Confirmation, SetSession, Run
<1>3. ASSUME NEW c \in Codes, NEW s \in Sessions, NEW u \in Users, ConfirmFind(r, c, u, s)
      PROVE  IInv'
  <2>1. TypeOK'
    BY <1>3 DEF IInv, TypeOK, ConfirmFind, Run
  <2>2. \A t \in Sessions : issuer[t] \in Users => issuer'[t] = issuer[t]
    BY <1>3 DEF ConfirmFind, IInv, TypeOK
  <2>3. Handlers'
    BY <1>3, <2>2 DEF IInv, TypeOK, Handlers, ConfirmFind, Run
  <2>4. Gone'
    BY <1>3 DEF IInv, Gone, ConfirmFind, Run
  <2>5. Confirmation'
    BY <1>3, <2>2 DEF IInv, TypeOK, Confirmation, ConfirmFind, Run
  <2>6. QED BY <2>1, <2>3, <2>4, <2>5 DEF IInv
<1>4. QED BY <1>1, <1>2, <1>3 DEF Arrive

LEMMA RequestSteps ==
    ASSUME IInv, NEW r \in Requests, Step(r)
    PROVE  IInv'
<1> USE QRAssumption DEF reqVars, history, table, Return, Run
<1>1. CASE ScanUpdate(r)
  BY <1>1 DEF IInv, TypeOK, Handlers, Gone, Confirmation, ScanUpdate
<1>2. CASE ConfirmUpdate(r)
  BY <1>2 DEF IInv, TypeOK, Handlers, Gone, Confirmation, ConfirmUpdate
<1>3. CASE Consume(r)
  <2>1. /\ code[r] \in Codes /\ status[code[r]] = "confirmed"
        /\ code[r] \notin spent /\ code[r] \notin cancelled
        /\ grants[code[r]] = 0
        /\ hash[code[r]] = sess[r]
    BY <1>3 DEF Consume, Consumable, IInv, TypeOK, Handlers, Gone
  <2>2. TypeOK'
    BY <1>3, <2>1 DEF Consume, Delete, IInv, TypeOK
  <2>3. Handlers'
    BY <1>3, <2>1 DEF Consume, Delete, IInv, TypeOK, Handlers
  <2>4. Gone'
    BY <1>3, <2>1 DEF Consume, Delete, IInv, TypeOK, Gone
  <2>5. Confirmation'
    BY <1>3 DEF Consume, Delete, IInv, Confirmation
  <2>6. QED BY <2>2, <2>3, <2>4, <2>5 DEF IInv
<1>4. CASE ConsumeExpired(r)
  BY <1>4 DEF IInv, TypeOK, Handlers, Gone, Confirmation, ConsumeExpired, Delete
<1>5. CASE ConsumeRefused(r) \/ Fails(r)
  BY <1>5 DEF IInv, TypeOK, Handlers, Gone, Confirmation, ConsumeRefused, Fails
<1>6. CASE Mint(r)
  <2>1. /\ code[r] \in Codes /\ code[r] \in spent /\ grants[code[r]] = 0
        /\ \A q \in Requests : pc[q] = "mint" /\ code[q] = code[r] => q = r
    BY <1>6 DEF Mint, IInv, Handlers
  <2>2. grants' = [grants EXCEPT ![code[r]] = 1]
    BY <1>6, <2>1 DEF Mint
  <2>3. TypeOK'
    <3>1. grants' \in [Codes -> Nat]
      BY <2>1, <2>2 DEF IInv, TypeOK
    <3>2. QED BY <1>6, <3>1 DEF Mint, IInv, TypeOK
  <2>4. Handlers'
    BY <1>6, <2>1, <2>2 DEF Mint, IInv, TypeOK, Handlers
  <2>5. Gone'
    BY <1>6, <2>1, <2>2 DEF Mint, IInv, TypeOK, Gone
  <2>6. Confirmation'
    BY <1>6 DEF Mint, IInv, Confirmation
  <2>7. QED BY <2>3, <2>4, <2>5, <2>6 DEF IInv
<1>7. QED BY <1>1, <1>2, <1>3, <1>4, <1>5, <1>6 DEF Step

LEMMA NextInv == IInv /\ [Next]_vars => IInv'
<1>1. ASSUME IInv, UNCHANGED vars
      PROVE  IInv'
  BY <1>1 DEF IInv, TypeOK, Handlers, Gone, Confirmation, vars, reqVars, history, table
<1>2. QED BY <1>1, CodeSteps, ArriveSteps, RequestSteps DEF Next

LEMMA Invariance == Spec => []IInv
BY InitInv, NextInv, PTL DEF Spec

\* Type correctness of the table and its handlers.
THEOREM CodesTypeCorrect == Spec => []TypeOK
<1>1. IInv => TypeOK
  BY DEF IInv
<1>2. QED BY <1>1, Invariance, PTL

\* A code logs a PC in at most once, however many pages and phones race on it.
THEOREM CodeGrantsOnce == Spec => []SingleGrant
<1>1. IInv => SingleGrant
  BY DEF IInv, Gone, SingleGrant
<1>2. QED BY <1>1, Invariance, PTL

\* A code that was cancelled logs nobody in.
THEOREM CancelledNeverGrants == Spec => []CancelExcludesLogin
<1>1. IInv => CancelExcludesLogin
  BY DEF IInv, TypeOK, Gone, CancelExcludesLogin
<1>2. QED BY <1>1, Invariance, PTL

\* The PC is logged in as the user whose confirmation the table accepted.
THEOREM GrantIsForConfirmer == Spec => []SessionOfConfirmer
<1>1. IInv => SessionOfConfirmer
  BY DEF IInv, Handlers, Confirmation, SessionOfConfirmer
<1>2. QED BY <1>1, Invariance, PTL
(***************************************************************************)
(* The refinement of QRGrant.                                              *)
(***************************************************************************)

LEMMA InitRefines == Init => Grant!Init
BY DEF Init, Stage, Grant!Init

\* One row changes at a time, and with it one stage.
LEMMA StageStep ==
    ASSUME TypeOK, NEW c \in Codes, NEW new,
           status' = [status EXCEPT ![c] = new],
           \A d \in Codes \ {c} : d \in spent' <=> d \in spent
    PROVE  Stage' = [Stage EXCEPT ![c] = Stage'[c]]
<1> DEFINE updated == [Stage EXCEPT ![c] = Stage'[c]]
<1>1. \A d \in Codes : Stage'[d] = updated[d]
  <2>1. ASSUME NEW d \in Codes, d # c
        PROVE  Stage'[d] = Stage[d]
    BY <2>1 DEF TypeOK, Stage
  <2>2. QED BY <2>1 DEF Stage
<1>2. QED BY <1>1 DEF Stage

\* A row that is deleted without being consumed is dropped.
LEMMA DeleteRefines ==
    ASSUME TypeOK, Gone, NEW c \in Codes, Row(c), Delete(c), UNCHANGED spent
    PROVE  Grant!Drop(c)
<1>1. c \notin spent /\ Stage[c] \in Grant!Open
  BY DEF Gone, Row, Stage, Grant!Open
<1>2. Stage' = [Stage EXCEPT ![c] = Stage'[c]]
  BY StageStep DEF Delete
<1>3. Stage'[c] = "dropped"
  BY <1>1 DEF TypeOK, Delete, Stage
<1>4. QED BY <1>1, <1>2, <1>3 DEF Delete, Grant!Drop

\* A row whose column status moves on follows the stages.
LEMMA AdvanceRefines ==
    ASSUME TypeOK, NEW c \in Codes, NEW from, NEW to,
           status[c] = from, status' = [status EXCEPT ![c] = to],
           from # "deleted", to # "deleted", UNCHANGED spent
    PROVE  Grant!Advance(c, from, to)
<1>1. Stage' = [Stage EXCEPT ![c] = Stage'[c]]
  BY StageStep
<1>2. Stage[c] = from /\ Stage'[c] = to
  BY DEF TypeOK, Stage
<1>3. QED BY <1>1, <1>2 DEF Grant!Advance

LEMMA StageKept ==
    ASSUME UNCHANGED <<status, user, spent>>
    PROVE  UNCHANGED Grant!grantVars
BY DEF Stage, Grant!grantVars

LEMMA CodeRefines ==
    ASSUME IInv, NEW c \in Codes,
           Generate(c) \/ Cancel(c) \/ Expire(c) \/ DeleteExpired(c)
    PROVE  [Grant!Next]_(Grant!grantVars)
<1>1. CASE Generate(c)
  <2>1. Grant!Advance(c, "unused", "pending") /\ UNCHANGED user
    BY <1>1, AdvanceRefines DEF Generate, history, IInv
  <2>2. QED BY <2>1 DEF Grant!Next, Grant!Show
<1>2. CASE Cancel(c) \/ DeleteExpired(c)
  <2>1. Grant!Drop(c)
    BY <1>2, DeleteRefines DEF Cancel, DeleteExpired, history, IInv
  <2>2. QED BY <2>1 DEF Grant!Next
<1>3. CASE Expire(c)
  BY <1>3, StageKept DEF Expire, table, history
<1>4. QED BY <1>1, <1>2, <1>3

LEMMA RequestRefines ==
    ASSUME IInv, NEW r \in Requests, Step(r)
    PROVE  [Grant!Next]_(Grant!grantVars)
<1>1. PICK c \in Codes : code[r] = c
  BY DEF Step, ScanUpdate, ConfirmUpdate, Consume, ConsumeExpired, ConsumeRefused, Mint, Fails,
         IInv, Handlers
<1>2. CASE ScanUpdate(r)
  <2>1. CASE status[c] = "pending"
    <3>1. Grant!Advance(c, "pending", "scanned") /\ UNCHANGED user
      BY <1>1, <1>2, <2>1, AdvanceRefines DEF ScanUpdate, history, IInv
    <3>2. QED BY <3>1 DEF Grant!Next, Grant!Scan
  <2>2. CASE status[c] # "pending"
    BY <1>1, <1>2, <2>2, StageKept DEF ScanUpdate, history
  <2>3. QED BY <2>1, <2>2
<1>3. CASE ConfirmUpdate(r)
  <2>1. CASE status[c] = "scanned"
    <3>1. PICK u \in Users : uid[r] = u
      BY <1>3 DEF IInv, Handlers, ConfirmUpdate
    <3>2. Grant!Advance(c, "scanned", "confirmed") /\ user' = [user EXCEPT ![c] = u]
      BY <1>1, <1>3, <2>1, <3>1, AdvanceRefines DEF ConfirmUpdate, history, IInv
    <3>3. QED BY <3>2 DEF Grant!Next, Grant!Confirm
  <2>2. CASE status[c] # "scanned"
    BY <1>1, <1>3, <2>2, StageKept DEF ConfirmUpdate, table, history
  <2>3. QED BY <2>1, <2>2
<1>4. CASE Consume(r)
  <2>1. status[c] = "confirmed" /\ Delete(c) /\ spent' = spent \cup {c}
    BY <1>1, <1>4 DEF Consume, Consumable
  <2>2. Stage' = [Stage EXCEPT ![c] = Stage'[c]]
    BY <2>1, StageStep DEF Delete, IInv
  <2>3. Stage[c] = "confirmed" /\ Stage'[c] = "spent"
    BY <2>1 DEF IInv, TypeOK, Delete, Stage
  <2>4. Grant!Spend(c)
    BY <2>1, <2>2, <2>3 DEF Delete, Grant!Spend, Grant!Advance
  <2>5. QED BY <2>4 DEF Grant!Next
<1>5. CASE ConsumeExpired(r)
  <2>1. Row(c) /\ Delete(c) /\ UNCHANGED spent
    BY <1>1, <1>5 DEF ConsumeExpired, history
  <2>2. Grant!Drop(c)
    BY <2>1, DeleteRefines DEF IInv
  <2>3. QED BY <2>2 DEF Grant!Next
<1>6. CASE ConsumeRefused(r) \/ Mint(r) \/ Fails(r)
  BY <1>6, StageKept DEF ConsumeRefused, Mint, Fails, table, history
<1>7. QED BY <1>2, <1>3, <1>4, <1>5, <1>6 DEF Step

LEMMA NextRefines == IInv /\ [Next]_vars => [Grant!Next]_(Grant!grantVars)
<1>1. ASSUME NEW r \in Requests, Arrive(r)
      PROVE  UNCHANGED Grant!grantVars
  BY <1>1, StageKept DEF Arrive, ScanFind, SetSession, ConfirmFind, table, history
<1>2. ASSUME UNCHANGED vars
      PROVE  UNCHANGED Grant!grantVars
  BY <1>2, StageKept DEF vars, table, history
<1>3. QED BY <1>1, <1>2, CodeRefines, RequestRefines DEF Next

\* The table and the handlers that race on it implement the code that QRGrant
\* promises: shown, scanned, confirmed by one user, then spent once or dropped.
THEOREM CodesImplementGrant == Spec => ImplementsGrant
<1>1. Init => Grant!Init
  BY InitRefines
<1>2. IInv /\ [Next]_vars => [Grant!Next]_(Grant!grantVars)
  BY NextRefines
<1>3. QED BY <1>1, <1>2, Invariance, PTL DEF Spec, Grant!Spec, ImplementsGrant
=============================================================================
