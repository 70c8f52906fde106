------------------------- MODULE OAuthProviderProofs -------------------------
(***************************************************************************)
(* What OAuthProvider guarantees for every number of users, clients, codes *)
(* and requests under way: one access token per login, revocations that    *)
(* are final, and the refinement of TokenRotation.                         *)
(***************************************************************************)
EXTENDS OAuthProvider, TLAPS

\* Codes and tokens are random and differ, and a code has one owner.
RandomTokens ==
    /\ Owner \in [Codes -> Owners]
    /\ Codes \cap Pairs = {}
    /\ NoToken \notin Presented

\* A request that took a token out and may still store its successor.
Creates(r) == todo[r] \in {"retire", "access", "refresh"}

WasSpent(t) == IF t \in Codes THEN authCode[t] = "used" ELSE t \in consumed

\* What a request relies on between two of its statements.
Tasks ==
    \A r \in Requests :
        /\ todo[r] = "code" => tok[r] \in Codes /\ authCode[tok[r]] = "new"
        /\ todo[r] = "grant" => tok[r] \in Codes
        /\ todo[r] = "spend" \/ Creates(r) => tok[r] \in Presented /\ Chain(tok[r]) \in Codes
        /\ todo[r] = "retire" => tok[r] \in Pairs
        /\ Creates(r) =>
              /\ WasSpent(tok[r]) /\ authCode[Chain(tok[r])] = "used"
              /\ \A p \in Pairs : before[p] # tok[r]
        /\ todo[r] \in {"refresh", "undo", "answer"} => new[r] \in Pairs
        /\ todo[r] = "refresh" => origin[new[r]] = Chain(tok[r]) /\ before[new[r]] = NoToken

\* A revocation that goes on to the client disables or deletes it.
Goals == \A r \in Requests : todo[r] = "client" => goal[r] \in {"off", "gone"}

\* One request creates a code.
SoleCreator ==
    \A r, q \in Requests :
        todo[r] = "code" /\ todo[q] = "code" /\ tok[r] = tok[q] => r = q

\* A pair that goes back to a code came after it was spent, and a refresh token
\* after the token it replaces.
Lineage ==
    \A p \in Pairs :
        /\ origin[p] = NoToken => access[p] = "none" /\ before[p] = NoToken
        /\ origin[p] # NoToken => authCode[origin[p]] = "used"
        /\ before[p] = NoToken => refresh[p] = "none" /\ p \notin consumed
        /\ before[p] # NoToken => before[p] \in Presented /\ WasSpent(before[p])
        /\ p \in consumed => refresh[p] = "none"

\* A login has one end: a refresh token, or the request that took it out.
OneEnd ==
    /\ \A p, q \in Pairs :
          refresh[p] # "none" /\ refresh[q] # "none" /\ origin[p] = origin[q] => p = q
    /\ \A r \in Requests, p \in Pairs :
          Creates(r) /\ origin[p] = Chain(tok[r]) => refresh[p] = "none"
    /\ \A r, q \in Requests :
          Creates(r) /\ Creates(q) /\ Chain(tok[r]) = Chain(tok[q]) => r = q

\* The access token of a login belongs to its end.
AccessAtEnd ==
    \A p \in Pairs : access[p] = "paired" =>
        /\ \A q \in Pairs : refresh[q] # "none" /\ origin[q] = origin[p] => q = p
        /\ \A r \in Requests : Creates(r) /\ Chain(tok[r]) = origin[p] =>
              /\ todo[r] # "access"
              /\ todo[r] = "retire" => p = tok[r]
              /\ todo[r] = "refresh" => p = new[r]

\* What was revoked had been spent before.
OverSpent == \A k \in over : authCode[k] = "used"

Ends == OneEnd /\ AccessAtEnd /\ OneAccess

IInv == TypeOK /\ Goals /\ Tasks /\ SoleCreator /\ Lineage /\ Ends /\ OverSpent /\ RevocationFinal

LEMMA InitInv == Init => IInv
<1> SUFFICES ASSUME Init PROVE IInv
  OBVIOUS
<1>1. TypeOK
  BY DEF Init, TypeOK
<1>2. Goals /\ Tasks /\ SoleCreator /\ Lineage
  BY DEF Init, Goals, Tasks, SoleCreator, Lineage, Creates
<1>3. Ends /\ OverSpent /\ RevocationFinal
  BY DEF Init, Ends, OneEnd, AccessAtEnd, OneAccess, OverSpent, RevocationFinal, Creates
<1>4. QED BY <1>1, <1>2, <1>3 DEF IInv

(***************************************************************************)
(* Types                                                                   *)
(***************************************************************************)

LEMMA TableTypes ==
    ASSUME TypeOK
    PROVE  /\ \A ps \in SUBSET Pairs :
                 /\ Without(access, ps) \in [Pairs -> {"none", "paired", "left"}]
                 /\ Without(refresh, ps) \in [Pairs -> {"none", "unsent", "fresh", "stale"}]
           /\ \A owners : OwnedBy(owners) \in SUBSET Pairs
           /\ \A p \in Pairs : {p} \in SUBSET Pairs
BY DEF TypeOK, Without, OwnedBy

LEMMA RequestTypes ==
    ASSUME RandomTokens, TypeOK, Tasks, NEW r \in Requests,
           \/ \E k \in Codes : Authorize(r, k)
           \/ \E t \in Presented : Redeem(r, t)
           \/ \E u \in Users, c \in Clients : Revoke(r, u, c)
           \/ \E c \in Clients : Disable(r, c) \/ Remove(r, c)
           \/ CreateCode(r) \/ CreateCodeFails(r) \/ UpsertGrant(r)
    PROVE  TypeOK'
<1> USE DEF clients, tokens, locals, Return, Goto
<1>1. CASE \/ \E k \in Codes : Authorize(r, k)
           \/ \E t \in Presented : Redeem(r, t)
  BY <1>1 DEF TypeOK, Authorize, Redeem, Presented
<1>2. CASE \/ \E u \in Users, c \in Clients : Revoke(r, u, c)
           \/ \E c \in Clients : Disable(r, c) \/ Remove(r, c)
  <2>1. PICK owners \in SUBSET Owners, then \in {"keep", "off", "gone"} : StartRevoking(r, owners, then)
    <3>1. ASSUME NEW u \in Users, NEW c \in Clients, Revoke(r, u, c)
          PROVE  {<<u, c>>} \in SUBSET Owners /\ StartRevoking(r, {<<u, c>>}, "keep")
      BY <3>1 DEF Revoke, Owners
    <3>2. ASSUME NEW c \in Clients
          PROVE  Users \X {c} \in SUBSET Owners
      BY DEF Owners
    <3>3. QED BY <1>2, <3>1, <3>2 DEF Disable, Remove
  <2>2. QED BY <2>1 DEF TypeOK, StartRevoking
<1>3. CASE CreateCode(r) \/ CreateCodeFails(r)
  BY <1>3 DEF TypeOK, CreateCode, CreateCodeFails, Presented
<1>4. CASE UpsertGrant(r)
  <2>1. GrantOf(tok[r]) \in Owners
    BY <1>4 DEF UpsertGrant, Tasks, GrantOf, RandomTokens
  <2>2. QED BY <1>4, <2>1 DEF TypeOK, UpsertGrant
<1>5. QED BY <1>1, <1>2, <1>3, <1>4

LEMMA TokenTypes ==
    ASSUME RandomTokens, TypeOK, Tasks, NEW r \in Requests, TokenStep(r)
    PROVE  TypeOK'
<1> USE DEF clients, tokens, locals, Return, Goto
<1>1. CASE Spend(r) \/ SpendFails(r)
  <2>1. tok[r] \in Presented
    BY <1>1 DEF Spend, SpendFails, Tasks
  <2>2. CASE TakeOut(tok[r])
    <3>1. /\ authCode' \in [Codes -> {"new", "open", "expired", "used", "void"}]
          /\ refresh' \in [Pairs -> {"none", "unsent", "fresh", "stale"}]
          /\ consumed' \subseteq Pairs
      BY <2>1, <2>2, TableTypes DEF TakeOut, TypeOK, Presented
    <3>2. QED BY <1>1, <3>1 DEF Spend, SpendFails, TypeOK
  <2>3. CASE UNCHANGED <<authCode, refresh, consumed>>
    BY <1>1, <2>3 DEF Spend, SpendFails, TypeOK
  <2>4. QED BY <1>1, <2>2, <2>3 DEF Spend, SpendFails
<1>2. CASE Retire(r) \/ Undo(r)
  <2>1. PICK p \in Pairs : DropAccessRow(p)
    BY <1>2 DEF Retire, Undo, Tasks
  <2>2. access' \in [Pairs -> {"none", "paired", "left"}]
    BY <2>1, TableTypes DEF DropAccessRow, TypeOK
  <2>3. QED BY <1>2, <2>2 DEF Retire, Undo, TypeOK
<1>3. CASE \E p \in Pairs : InsertAccess(r, p)
  <2>1. Chain(tok[r]) \in Codes
    BY <1>3 DEF InsertAccess, Tasks, Creates
  <2>2. QED BY <1>3, <2>1 DEF TypeOK, InsertAccess, AddAccess
<1>4. CASE InsertAccessFails(r)
  <2>1. Chain(tok[r]) \in Codes
    BY <1>4 DEF InsertAccessFails, Tasks, Creates
  <2>2. QED BY <1>4, <2>1 DEF TypeOK, InsertAccessFails, AddAccess
<1>5. CASE InsertRefresh(r) \/ InsertRefreshFails(r) \/ Answer(r)
  BY <1>5 DEF TypeOK, InsertRefresh, InsertRefreshFails, AddRefresh, Answer
<1>6. QED BY <1>1, <1>2, <1>3, <1>4, <1>5 DEF TokenStep

LEMMA OtherTypes ==
    ASSUME RandomTokens, TypeOK, Goals,
           \/ \E r \in Requests : RevokeStep(r)
           \/ \E c \in Clients : Enable(c)
           \/ \E u \in Users : Leave(u)
           \/ \E k \in Codes : CodeAges(k)
           \/ \E p \in Pairs : RevokeToken(p) \/ PairAges(p)
    PROVE  TypeOK'
<1> USE DEF clients, tokens, locals, Return, Goto
<1>1. ASSUME NEW r \in Requests, DropAccess(r) \/ DropRefresh(r)
      PROVE  TypeOK'
  <2>1. /\ access' \in [Pairs -> {"none", "paired", "left"}]
        /\ refresh' \in [Pairs -> {"none", "unsent", "fresh", "stale"}]
    BY <1>1, TableTypes DEF DropAccess, DropRefresh, TypeOK
  <2>2. QED BY <1>1, <2>1 DEF DropAccess, DropRefresh, TypeOK
<1>2. ASSUME NEW r \in Requests, DropGrant(r)
      PROVE  TypeOK'
  BY <1>2 DEF DropGrant, TypeOK
<1>3. ASSUME NEW r \in Requests, SetClient(r)
      PROVE  TypeOK'
  <2>1. client' \in [Clients -> {"on", "off", "gone"}]
    <3>1. goal[r] \in {"off", "gone"} /\ client \in [Clients -> {"on", "off", "gone"}]
      BY <1>3 DEF SetClient, Goals, TypeOK
    <3>2. \A c : [client EXCEPT ![c] = goal[r]] \in [Clients -> {"on", "off", "gone"}]
      BY <3>1
    <3>3. QED BY <1>3, <3>1, <3>2 DEF SetClient
  <2>2. QED BY <1>3, <2>1 DEF SetClient, TypeOK
<1>4. ASSUME NEW c \in Clients, Enable(c)
      PROVE  TypeOK'
  BY <1>4 DEF Enable, TypeOK
<1>5. ASSUME NEW u \in Users, Leave(u)
      PROVE  TypeOK'
  <2>1. /\ access' \in [Pairs -> {"none", "paired", "left"}]
        /\ refresh' \in [Pairs -> {"none", "unsent", "fresh", "stale"}]
    BY <1>5, TableTypes DEF Leave
  <2>2. authCode' \in [Codes -> {"new", "open", "expired", "used", "void"}]
    BY <1>5 DEF Leave, TypeOK
  <2>3. here' \subseteq Users /\ grant' \subseteq Owners
    BY <1>5 DEF Leave, TypeOK
  <2>4. QED BY <1>5, <2>1, <2>2, <2>3 DEF Leave, TypeOK
<1>6. ASSUME NEW k \in Codes, CodeAges(k)
      PROVE  TypeOK'
  BY <1>6 DEF CodeAges, TypeOK
<1>7. ASSUME NEW p \in Pairs, RevokeToken(p) \/ PairAges(p)
      PROVE  TypeOK'
  <2>1. /\ access' \in [Pairs -> {"none", "paired", "left"}]
        /\ refresh' \in [Pairs -> {"none", "unsent", "fresh", "stale"}]
    BY <1>7, TableTypes DEF RevokeToken, PairAges, TypeOK
  <2>2. QED BY <1>7, <2>1 DEF RevokeToken, PairAges, TypeOK
<1>8. QED BY <1>1, <1>2, <1>3, <1>4, <1>5, <1>6, <1>7 DEF RevokeStep

LEMMA GoalsNext ==
    ASSUME TypeOK, Goals, Next
    PROVE  Goals'
<1> USE DEF Return, Goto, locals, Goals, TypeOK
<1>1. ASSUME NEW r \in Requests,
             \/ \E k \in Codes : Authorize(r, k)
             \/ \E t \in Presented : Redeem(r, t)
             \/ CreateCode(r) \/ CreateCodeFails(r) \/ UpsertGrant(r) \/ TokenStep(r)
      PROVE  Goals'
  <2>1. /\ \E step \in {"idle", "code", "grant", "spend", "retire", "access", "refresh", "undo", "answer"} :
              todo' = [todo EXCEPT ![r] = step]
        /\ \A q \in Requests \ {r} : goal'[q] = goal[q]
    BY <1>1 DEF Authorize, Redeem, CreateCode, CreateCodeFails, UpsertGrant, TokenStep, Spend, SpendFails,
                Retire, InsertAccess, InsertAccessFails, InsertRefresh, InsertRefreshFails, Undo, Answer
  <2>2. QED BY <2>1
<1>2. ASSUME NEW r \in Requests,
             \/ \E u \in Users, c \in Clients : Revoke(r, u, c)
             \/ \E c \in Clients : Disable(r, c) \/ Remove(r, c)
             \/ RevokeStep(r)
      PROVE  Goals'
  <2>1. CASE DropGrant(r)
    <3>1. CASE goal[r] = "keep"
      BY <2>1, <3>1 DEF DropGrant
    <3>2. CASE goal[r] # "keep"
      BY <2>1, <3>2 DEF DropGrant
    <3>3. QED BY <3>1, <3>2
  <2>2. CASE DropAccess(r) \/ DropRefresh(r) \/ SetClient(r)
    BY <2>2 DEF DropAccess, DropRefresh, SetClient
  <2>3. CASE ~RevokeStep(r)
    <3>1. PICK owners, then : StartRevoking(r, owners, then)
      BY <1>2, <2>3 DEF Revoke, Disable, Remove
    <3>2. QED BY <3>1 DEF StartRevoking
  <2>4. QED BY <2>1, <2>2, <2>3 DEF RevokeStep
<1>3. CASE \/ \E c \in Clients : Enable(c)
           \/ \E u \in Users : Leave(u)
           \/ \E k \in Codes : CodeAges(k)
           \/ \E p \in Pairs : RevokeToken(p) \/ PairAges(p)
  BY <1>3 DEF Enable, Leave, CodeAges, RevokeToken, PairAges
<1>4. QED BY <1>1, <1>2, <1>3 DEF Next

LEMMA TypesNext ==
    ASSUME RandomTokens, IInv, Next
    PROVE  TypeOK' /\ Goals'
BY RequestTypes, TokenTypes, OtherTypes, GoalsNext DEF Next, IInv

(***************************************************************************)
(* Steps that store no token                                               *)
(***************************************************************************)

\* A token keeps the code it goes back to.
LEMMA ChainKept ==
    ASSUME RandomTokens, TypeOK, NEW t \in Presented, Chain(t) \in Codes,
           \A p \in Pairs : origin[p] # NoToken => origin'[p] = origin[p]
    PROVE  Chain(t)' = Chain(t)
BY DEF RandomTokens, Chain, Presented

\* Rows go, tokens are taken out by statements whose result is lost, and
\* requests begin, give up or turn to revoking.
LEMMA QuietStep ==
    ASSUME RandomTokens, IInv, TypeOK', Goals',
           UNCHANGED <<origin, before>>,
           \A k \in Codes :
              \/ authCode'[k] = authCode[k]
              \/ authCode[k] \in {"open", "expired"} /\ authCode'[k] # "new",
           \A p \in Pairs :
              \/ access'[p] \in {access[p], "none"}
              \/ access[p] # "none" /\ access'[p] = "left",
           \A p \in Pairs : refresh'[p] # "none" => refresh[p] # "none",
           \A p \in Pairs : p \in consumed' =>
                p \in consumed \/ (refresh[p] # "none" /\ refresh'[p] = "none"),
           consumed \subseteq consumed',
           \A q \in Requests :
              \/ todo'[q] = todo[q] /\ tok'[q] = tok[q] /\ new'[q] = new[q]
              \/ todo'[q] \in {"idle", "dropAccess", "dropRefresh", "dropGrant", "client"}
              \/ todo'[q] = "spend" /\ tok'[q] \in Presented /\ Chain(tok'[q]) \in Codes
              \/ todo'[q] = "undo" /\ new'[q] \in Pairs,
           \A k \in over' :
              \/ k \in over
              \/ /\ authCode[k] = "used" /\ ~Creating(k)
                 /\ \A p \in Pairs : origin[p] = k => refresh'[p] = "none"
    PROVE  IInv'
<1>1. \A t \in Presented : Chain(t)' = Chain(t)
  BY DEF Chain
<1>2. \A q \in Requests : Creates(q)' \/ todo'[q] \in {"code", "grant"} =>
         todo'[q] = todo[q] /\ tok'[q] = tok[q] /\ new'[q] = new[q]
  BY DEF Creates
<1>3. \A q \in Requests : Creates(q)' => Creates(q)
  BY <1>2 DEF Creates
<1>4. \A t \in Presented : WasSpent(t) => WasSpent(t)'
  BY DEF WasSpent
<1>5. \A k \in Codes : authCode[k] \in {"new", "used"} => authCode'[k] = authCode[k]
  OBVIOUS
<1>6. Tasks'
  <2> SUFFICES ASSUME NEW q \in Requests
               PROVE  /\ todo'[q] = "code" => tok'[q] \in Codes /\ authCode'[tok'[q]] = "new"
                      /\ todo'[q] = "grant" => tok'[q] \in Codes
                      /\ todo'[q] = "spend" \/ Creates(q)' => tok'[q] \in Presented /\ Chain(tok[q])' \in Codes
                      /\ todo'[q] = "retire" => tok'[q] \in Pairs
                      /\ Creates(q)' =>
                            /\ WasSpent(tok[q])' /\ authCode'[Chain(tok[q])'] = "used"
                            /\ \A p \in Pairs : before'[p] # tok'[q]
                      /\ todo'[q] \in {"refresh", "undo", "answer"} => new'[q] \in Pairs
                      /\ todo'[q] = "refresh" => origin'[new'[q]] = Chain(tok[q])' /\ before'[new'[q]] = NoToken
    BY DEF Tasks
  <2>1. CASE todo'[q] = todo[q] /\ tok'[q] = tok[q] /\ new'[q] = new[q]
    <3>1. Creates(q)' <=> Creates(q)
      BY <2>1 DEF Creates
    <3>2. WasSpent(tok[q])' <=> IF tok[q] \in Codes THEN authCode'[tok[q]] = "used" ELSE tok[q] \in consumed'
      BY <2>1 DEF WasSpent
    <3>3. Chain(tok[q])' = Chain(tok[q])
      BY <2>1 DEF Chain
    <3>4. Creates(q)' => WasSpent(tok[q])'
      BY <1>5, <3>1, <3>2 DEF IInv, Tasks, WasSpent
    <3>5. QED BY <1>5, <2>1, <3>1, <3>3, <3>4 DEF IInv, Tasks
  <2>2. CASE todo'[q] \in {"idle", "dropAccess", "dropRefresh", "dropGrant", "client"}
    BY <2>2 DEF Creates
  <2>3. CASE todo'[q] = "spend" /\ tok'[q] \in Presented /\ Chain(tok'[q]) \in Codes
    BY <2>3 DEF Creates, Chain
  <2>4. CASE todo'[q] = "undo" /\ new'[q] \in Pairs
    BY <2>4 DEF Creates
  <2>5. QED BY <2>1, <2>2, <2>3, <2>4
<1>7. SoleCreator'
  BY <1>2 DEF IInv, SoleCreator
<1>8. Lineage'
  BY <1>4, <1>5 DEF IInv, TypeOK, Lineage, RandomTokens
<1>9. OneEnd'
  BY <1>2, <1>3, <1>1 DEF IInv, Ends, OneEnd, Tasks, Chain
<1>10. AccessAtEnd' /\ OneAccess'
  <2>1. \A p \in Pairs : access'[p] = "paired" => access[p] = "paired"
    OBVIOUS
  <2>2. \A q \in Requests : Creates(q)' => Chain(tok[q])' = Chain(tok[q])
    BY <1>2 DEF Chain
  <2>3. AccessAtEnd'
    BY <1>2, <1>3, <2>1, <2>2 DEF IInv, Ends, AccessAtEnd
  <2>4. OneAccess'
    BY <2>1 DEF IInv, Ends, OneAccess
  <2>5. QED BY <2>3, <2>4
<1>11. OverSpent'
  BY <1>5 DEF IInv, TypeOK, OverSpent
<1>12. RevocationFinal'
  <2>1. \A k : Creating(k)' => Creating(k)
    BY <1>2 DEF Creating, Creates, Chain
  <2>2. QED BY <2>1 DEF IInv, RevocationFinal
<1>13. QED BY <1>6, <1>7, <1>8, <1>9, <1>10, <1>11, <1>12 DEF IInv, Ends

(***************************************************************************)
(* Steps on the way to a new token                                         *)
(***************************************************************************)

LEMMA AuthorizeInv ==
    ASSUME RandomTokens, IInv, TypeOK', Goals', NEW r \in Requests, NEW k \in Codes, Authorize(r, k)
    PROVE  IInv'
<1> USE DEF Authorize, clients, tokens
<1>1. /\ todo'[r] = "code" /\ tok'[r] = k /\ authCode[k] = "new"
      /\ \A q \in Requests : tok[q] # k
      /\ \A q \in Requests \ {r} : todo'[q] = todo[q] /\ tok'[q] = tok[q]
      /\ UNCHANGED <<authCode, access, refresh, origin, before, consumed, new, over>>
  BY DEF IInv, TypeOK
<1>2. \A q \in Requests \ {r} :
         /\ Creates(q)' <=> Creates(q)
         /\ WasSpent(tok[q])' <=> WasSpent(tok[q])
         /\ Chain(tok[q])' = Chain(tok[q])
  BY <1>1 DEF Creates, WasSpent, Chain
<1>3. ~Creates(r)'
  BY <1>1 DEF Creates
<1>4. Tasks'
  BY <1>1, <1>2, <1>3 DEF IInv, Tasks
<1>5. SoleCreator'
  BY <1>1 DEF IInv, SoleCreator
<1>6. Lineage' /\ OverSpent'
  BY <1>1 DEF IInv, Lineage, OverSpent, WasSpent
<1>7. Ends'
  BY <1>1, <1>2, <1>3 DEF IInv, Ends, OneEnd, AccessAtEnd, OneAccess
<1>8. RevocationFinal'
  <2>1. \A j : Creating(j)' => Creating(j)
    BY <1>1, <1>2 DEF Creating
  <2>2. QED BY <1>1, <2>1 DEF IInv, RevocationFinal
<1>9. QED BY <1>4, <1>5, <1>6, <1>7, <1>8 DEF IInv

LEMMA CreateCodeInv ==
    ASSUME RandomTokens, IInv, TypeOK', Goals', NEW r \in Requests, CreateCode(r)
    PROVE  IInv'
<1> DEFINE k == tok[r]
<1> USE DEF CreateCode, Goto, clients
<1>1. k \in Codes /\ authCode[k] = "new"
  BY DEF IInv, Tasks
<1>2. /\ todo'[r] = "grant" /\ authCode'[k] = "open"
      /\ \A j \in Codes \ {k} : authCode'[j] = authCode[j]
      /\ \A q \in Requests \ {r} : todo'[q] = todo[q]
      /\ UNCHANGED <<access, refresh, origin, before, consumed, tok, new, over>>
  BY <1>1 DEF IInv, TypeOK
<1>3. \A q \in Requests :
         /\ Creates(q)' <=> q # r /\ Creates(q)
         /\ Chain(tok[q])' = Chain(tok[q])
  BY <1>2 DEF Creates, Chain, IInv
<1>4. \A t \in Presented : WasSpent(t)' <=> WasSpent(t)
  BY <1>1, <1>2 DEF WasSpent
<1>5. \A j \in Codes : authCode[j] = "used" => authCode'[j] = "used"
  BY <1>1, <1>2
<1>6. Tasks'
  <2> SUFFICES ASSUME NEW q \in Requests \ {r}
               PROVE  /\ todo[q] = "code" => tok[q] \in Codes /\ authCode'[tok[q]] = "new"
                      /\ Creates(q) => /\ tok[q] \in Presented
                                       /\ WasSpent(tok[q])' /\ authCode'[Chain(tok[q])] = "used"
    BY <1>1, <1>2, <1>3 DEF IInv, Tasks
  <2>1. todo[q] = "code" => tok[q] # k
    BY DEF IInv, SoleCreator
  <2>2. QED BY <1>2, <1>4, <1>5, <2>1 DEF IInv, Tasks
<1>7. SoleCreator'
  BY <1>2 DEF IInv, SoleCreator
<1>8. Lineage' /\ OverSpent'
  BY <1>2, <1>4, <1>5 DEF IInv, TypeOK, Lineage, OverSpent
<1>9. Ends'
  BY <1>2, <1>3 DEF IInv, Ends, OneEnd, AccessAtEnd, OneAccess
<1>10. RevocationFinal'
  <2>1. \A j : Creating(j)' => Creating(j)
    BY <1>2, <1>3 DEF Creating, Creates
  <2>2. QED BY <1>2, <2>1 DEF IInv, RevocationFinal
<1>11. QED BY <1>6, <1>7, <1>8, <1>9, <1>10 DEF IInv

\* The request that takes a token out becomes the end of its login.
LEMMA SpendInv ==
    ASSUME RandomTokens, IInv, TypeOK', Goals', NEW r \in Requests, Spend(r)
    PROVE  IInv'
<1> DEFINE t == tok[r]
<1> DEFINE k == Chain(t)
<1> USE DEF Spend, Goto, clients
<1>1. t \in Presented /\ k \in Codes /\ ~Creates(r)
  BY DEF IInv, Tasks, Creates
<1>2. /\ UNCHANGED <<access, origin, before, tok, new, over>>
      /\ todo'[r] = IF t \in Codes THEN "access" ELSE "retire"
      /\ \A q \in Requests \ {r} : todo'[q] = todo[q]
  BY DEF IInv, TypeOK
<1>3. /\ WasSpent(t)' /\ ~WasSpent(t)
      /\ \A s \in Presented \ {t} : WasSpent(s)' <=> WasSpent(s)
      /\ \A j \in Codes \ {t} : authCode'[j] = authCode[j]
      /\ t \in Codes => authCode[t] \in {"open", "expired"} /\ authCode'[t] = "used"
      /\ \A p \in Pairs : refresh'[p] = IF p = t THEN "none" ELSE refresh[p]
      /\ t \in Pairs => refresh[t] # "none"
      /\ consumed' = IF t \in Codes THEN consumed ELSE consumed \cup {t}
  BY <1>1 DEF TakeOut, Spendable, Without, WasSpent, IInv, TypeOK, Lineage, RandomTokens, Presented
<1>4. \A q \in Requests :
         /\ Creates(q)' <=> q = r \/ Creates(q)
         /\ Chain(tok[q])' = Chain(tok[q])
  BY <1>2 DEF Creates, Chain
<1>5. \A p \in Pairs : before[p] # t
  BY <1>1, <1>3 DEF IInv, Lineage, RandomTokens
<1>6. authCode'[k] = "used" /\ \A j \in Codes : authCode[j] = "used" => authCode'[j] = "used"
  BY <1>1, <1>3 DEF Chain, IInv, Lineage, RandomTokens, Presented
<1>7. /\ \A q \in Requests : Creates(q) => Chain(tok[q]) # k
      /\ \A p \in Pairs : origin[p] = k => p = t \/ refresh[p] = "none"
      /\ t \in Codes => \A p \in Pairs : origin[p] # k
  <2>1. CASE t \in Codes
    BY <1>3, <2>1 DEF Chain, IInv, Tasks, Lineage, RandomTokens
  <2>2. CASE t \notin Codes
    <3>1. t \in Pairs /\ origin[t] = k /\ refresh[t] # "none"
      BY <1>1, <1>3, <2>2 DEF Chain, Presented
    <3>2. QED BY <2>2, <3>1 DEF IInv, Ends, OneEnd
  <2>3. QED BY <2>1, <2>2
<1>8. Tasks'
  <2>1. \A q \in Requests : Creates(q)' =>
           /\ tok[q] \in Presented /\ Chain(tok[q]) \in Codes
           /\ WasSpent(tok[q])' /\ authCode'[Chain(tok[q])] = "used"
           /\ \A p \in Pairs : before[p] # tok[q]
    BY <1>1, <1>3, <1>4, <1>5, <1>6 DEF IInv, Tasks
  <2>2. \A q \in Requests : todo'[q] = "code" => tok[q] \in Codes /\ authCode'[tok[q]] = "new"
    BY <1>2, <1>3 DEF IInv, Tasks
  <2>3. t \notin Codes => t \in Pairs
    BY <1>1 DEF Presented
  <2>4. QED BY <1>1, <1>2, <1>4, <2>1, <2>2, <2>3 DEF IInv, Tasks
<1>9. SoleCreator'
  BY <1>2 DEF IInv, SoleCreator
<1>10. Lineage' /\ OverSpent'
  BY <1>2, <1>3, <1>5, <1>6 DEF IInv, TypeOK, Lineage, OverSpent, RandomTokens, WasSpent, Presented
<1>11. Ends'
  <2>1. OneEnd'
    BY <1>2, <1>3, <1>4, <1>7 DEF IInv, Ends, OneEnd
  <2>2. AccessAtEnd'
    <3> SUFFICES ASSUME NEW p \in Pairs, access[p] = "paired"
                 PROVE  /\ \A q \in Pairs : refresh'[q] # "none" /\ origin[q] = origin[p] => q = p
                        /\ \A q \in Requests : Creates(q)' /\ Chain(tok[q]) = origin[p] =>
                              /\ todo'[q] # "access"
                              /\ todo'[q] = "retire" => p = tok[q]
                              /\ todo'[q] = "refresh" => p = new[q]
      BY <1>2, <1>4 DEF AccessAtEnd
    <3>1. \A q \in Pairs : refresh'[q] # "none" /\ origin[q] = origin[p] => q = p
      BY <1>3 DEF IInv, Ends, AccessAtEnd
    <3>2. \A q \in Requests \ {r} : Creates(q)' /\ Chain(tok[q]) = origin[p] =>
             /\ todo'[q] # "access"
             /\ todo'[q] = "retire" => p = tok[q]
             /\ todo'[q] = "refresh" => p = new[q]
      BY <1>2, <1>4 DEF IInv, Ends, AccessAtEnd
    <3>3. k = origin[p] => t \notin Codes /\ p = t
      <4>1. t \notin Codes => t \in Pairs /\ origin[t] = k /\ refresh[t] # "none"
        BY <1>1, <1>3 DEF Chain, Presented
      <4>2. QED BY <1>7, <4>1 DEF IInv, Ends, AccessAtEnd
    <3>4. QED BY <1>2, <3>1, <3>2, <3>3
  <2>3. OneAccess'
    BY <1>2 DEF IInv, Ends, OneAccess
  <2>4. QED BY <2>1, <2>2, <2>3 DEF Ends
<1>12. RevocationFinal'
  <2>1. \A j \in over : j # k
    BY <1>1, <1>3 DEF IInv, OverSpent, RevocationFinal, Chain, Presented
  <2>2. \A j \in over : ~Creating(j)'
    BY <1>2, <1>4, <2>1 DEF IInv, RevocationFinal, Creating, Creates
  <2>3. QED BY <1>2, <1>3, <2>2 DEF IInv, RevocationFinal
<1>13. QED BY <1>8, <1>9, <1>10, <1>11, <1>12 DEF IInv

\* The access token of the token that was taken out is no longer paired.
LEMMA RetireInv ==
    ASSUME RandomTokens, IInv, TypeOK', Goals', NEW r \in Requests, Retire(r)
    PROVE  IInv'
<1> DEFINE t == tok[r]
<1> USE DEF Retire, Goto, clients
<1>1. t \in Pairs /\ Chain(t) \in Codes /\ Creates(r)
  BY DEF IInv, Tasks, Creates
<1>2. /\ UNCHANGED <<authCode, refresh, origin, before, consumed, tok, new, over>>
      /\ todo'[r] = "access"
      /\ \A q \in Requests \ {r} : todo'[q] = todo[q]
      /\ \A p \in Pairs : access'[p] = "paired" => access[p] = "paired" /\ p # t
      /\ \A p \in Pairs : access[p] = "none" => access'[p] = "none"
  BY <1>1 DEF DropAccessRow, Without, IInv, TypeOK
<1>3. \A q \in Requests :
         /\ Creates(q)' <=> Creates(q)
         /\ WasSpent(tok[q])' <=> WasSpent(tok[q])
         /\ Chain(tok[q])' = Chain(tok[q])
  BY <1>1, <1>2 DEF Creates, WasSpent, Chain
<1>4. Tasks' /\ SoleCreator'
  BY <1>1, <1>2, <1>3 DEF IInv, Tasks, SoleCreator
<1>5. Lineage' /\ OverSpent'
  BY <1>2 DEF IInv, Lineage, OverSpent, WasSpent
<1>6. OneEnd' /\ OneAccess'
  BY <1>2, <1>3 DEF IInv, Ends, OneEnd, OneAccess
<1>7. AccessAtEnd'
  <2> SUFFICES ASSUME NEW p \in Pairs, access'[p] = "paired",
                      NEW q \in Requests, Creates(q), Chain(tok[q]) = origin[p]
               PROVE  /\ todo'[q] # "access"
                      /\ todo'[q] = "retire" => p = tok[q]
                      /\ todo'[q] = "refresh" => p = new[q]
    BY <1>2, <1>3 DEF IInv, Ends, AccessAtEnd
  <2>1. CASE q = r
    BY <1>2, <2>1 DEF IInv, Ends, AccessAtEnd, Retire
  <2>2. CASE q # r
    BY <1>2, <2>2 DEF IInv, Ends, AccessAtEnd
  <2>3. QED BY <2>1, <2>2
<1>8. RevocationFinal'
  <2>1. \A j : Creating(j)' => Creating(j)
    BY <1>2, <1>3 DEF Creating, Creates
  <2>2. QED BY <1>2, <2>1 DEF IInv, RevocationFinal
<1>9. QED BY <1>4, <1>5, <1>6, <1>7, <1>8 DEF IInv, Ends

\* The new pair p, with the row of its access token and none of a refresh token.
LEMMA NewPairInv ==
    ASSUME RandomTokens, IInv, TypeOK', Goals', NEW r \in Requests, NEW p \in Pairs,
           NEW row \in {"paired", "left"}, todo[r] = "access", AddAccess(r, p, row),
           UNCHANGED <<authCode, refresh, before, consumed, over>>,
           \A q \in Requests \ {r} : todo'[q] = todo[q] /\ tok'[q] = tok[q] /\ new'[q] = new[q],
           \/ row = "paired" /\ todo'[r] = "refresh" /\ tok'[r] = tok[r] /\ new'[r] = p
           \/ row = "left" /\ todo'[r] = "idle"
    PROVE  IInv'
<1> DEFINE k == Chain(tok[r])
<1>1. k \in Codes /\ authCode[k] = "used" /\ Creates(r) /\ tok[r] \in Presented
  BY DEF IInv, Tasks, Creates
<1>2. /\ origin[p] = NoToken /\ origin'[p] = k /\ access'[p] = row
      /\ \A q \in Pairs \ {p} : origin'[q] = origin[q] /\ access'[q] = access[q]
      /\ refresh[p] = "none" /\ before[p] = NoToken /\ p \notin consumed
  BY DEF AddAccess, IInv, TypeOK, Lineage
<1>3. \A q \in Requests :
         /\ Creates(q)' => Creates(q) /\ tok'[q] = tok[q]
         /\ q # r => (Creates(q)' <=> Creates(q))
         /\ Creates(q) \/ todo[q] = "spend" => Chain(tok[q]) \in Codes /\ tok[q] \in Presented
  BY <1>1 DEF Creates, IInv, Tasks
<1>4. \A t \in Presented : Chain(t) \in Codes => Chain(t)' = Chain(t)
  BY <1>2 DEF Chain, RandomTokens, Presented
<1>5. \A t \in Presented : WasSpent(t)' <=> WasSpent(t)
  BY DEF WasSpent
<1>6. \A q \in Requests :
         /\ Creates(q)' \/ todo'[q] = "spend" =>
               Chain(tok[q])' = Chain(tok[q]) /\ tok'[q] = tok[q]
         /\ Creates(q)' => (WasSpent(tok[q])' <=> WasSpent(tok[q]))
  <2> SUFFICES ASSUME NEW q \in Requests, Creates(q)' \/ todo'[q] = "spend"
               PROVE  /\ Chain(tok[q])' = Chain(tok[q]) /\ tok'[q] = tok[q]
                      /\ WasSpent(tok[q])' <=> WasSpent(tok[q])
    OBVIOUS
  <2>1. tok'[q] = tok[q] /\ tok[q] \in Presented /\ Chain(tok[q]) \in Codes
    BY <1>3 DEF Creates
  <2>2. Chain(tok[q])' = Chain(tok[q])
    BY <1>4, <2>1 DEF Chain
  <2>3. WasSpent(tok[q])' <=> WasSpent(tok[q])
    BY <2>1 DEF WasSpent
  <2>4. QED BY <2>1, <2>2, <2>3
<1>7. Tasks'
  <2> SUFFICES ASSUME NEW q \in Requests
               PROVE  /\ todo'[q] = "code" => tok'[q] \in Codes /\ authCode[tok'[q]] = "new"
                      /\ todo'[q] = "grant" => tok'[q] \in Codes
                      /\ todo'[q] = "spend" \/ Creates(q)' => tok'[q] \in Presented /\ Chain(tok[q])' \in Codes
                      /\ todo'[q] = "retire" => tok'[q] \in Pairs
                      /\ Creates(q)' =>
                            /\ WasSpent(tok[q])' /\ authCode[Chain(tok[q])'] = "used"
                            /\ \A s \in Pairs : before[s] # tok'[q]
                      /\ todo'[q] \in {"refresh", "undo", "answer"} => new'[q] \in Pairs
                      /\ todo'[q] = "refresh" => origin'[new'[q]] = Chain(tok[q])' /\ before[new'[q]] = NoToken
    BY DEF Tasks
  <2>1. CASE q = r
    BY <1>1, <1>2, <1>6, <2>1 DEF IInv, Tasks, Creates
  <2>2. CASE q # r
    <3>1. todo[q] = "refresh" => new[q] # p
      BY <1>2, <1>3 DEF IInv, Tasks, Creates, RandomTokens, Presented
    <3>2. QED BY <1>2, <1>3, <1>6, <2>2, <3>1 DEF IInv, Tasks, Creates
  <2>3. QED BY <2>1, <2>2
<1>8. SoleCreator'
  BY DEF IInv, SoleCreator
<1>9. Lineage'
  BY <1>1, <1>2, <1>5 DEF IInv, TypeOK, Lineage, RandomTokens, Presented
<1>10. OverSpent'
  BY DEF IInv, OverSpent
<1>11. OneEnd'
  BY <1>2, <1>3, <1>6 DEF IInv, Ends, OneEnd
<1>12. AccessAtEnd'
  <2> SUFFICES ASSUME NEW s \in Pairs, access'[s] = "paired"
               PROVE  /\ \A q \in Pairs : refresh[q] # "none" /\ origin'[q] = origin'[s] => q = s
                      /\ \A q \in Requests : Creates(q)' /\ Chain(tok[q])' = origin'[s] =>
                            /\ todo'[q] # "access"
                            /\ todo'[q] = "retire" => s = tok'[q]
                            /\ todo'[q] = "refresh" => s = new'[q]
    BY DEF AccessAtEnd
  <2>1. CASE s = p
    <3>1. \A q \in Pairs : refresh[q] # "none" => origin'[q] # k
      BY <1>1, <1>2 DEF IInv, Ends, OneEnd
    <3>2. \A q \in Requests : Creates(q)' /\ Chain(tok[q])' = k => q = r
      BY <1>1, <1>3, <1>6 DEF IInv, Ends, OneEnd
    <3>3. row = "paired"
      BY <1>2, <2>1
    <3>4. QED BY <1>2, <2>1, <3>1, <3>2, <3>3
  <2>2. CASE s # p
    <3>1. access[s] = "paired" /\ origin'[s] = origin[s]
      BY <1>2, <2>2
    <3>2. origin[s] # k
      BY <1>1, <3>1 DEF IInv, Ends, AccessAtEnd
    <3>3. \A q \in Requests : Creates(q)' /\ Chain(tok[q])' = origin[s] => q # r
      BY <1>6, <3>2
    <3>4. QED BY <1>2, <1>3, <1>6, <3>1, <3>3 DEF IInv, Ends, AccessAtEnd
  <2>3. QED BY <2>1, <2>2
<1>13. OneAccess'
  <2>1. \A s \in Pairs : access[s] = "paired" => origin[s] # k
    BY <1>1 DEF IInv, Ends, AccessAtEnd
  <2>2. QED BY <1>2, <2>1 DEF IInv, Ends, OneAccess
<1>14. RevocationFinal'
  <2>1. \A j : Creating(j)' => Creating(j)
    BY <1>3, <1>6 DEF Creating, Creates
  <2>2. \A j \in over : \A s \in Pairs : origin'[s] = j => refresh[s] = "none"
    BY <1>2 DEF IInv, RevocationFinal
  <2>3. QED BY <2>1, <2>2 DEF IInv, RevocationFinal
<1>15. QED BY <1>7, <1>8, <1>9, <1>10, <1>11, <1>12, <1>13, <1>14 DEF IInv, Ends

\* The refresh token of the new pair becomes the end of its login.
LEMMA NewRefreshInv ==
    ASSUME RandomTokens, IInv, TypeOK', Goals', NEW r \in Requests,
           todo[r] = "refresh", AddRefresh(r),
           \E step \in {"answer", "undo"} : Goto(r, step),
           UNCHANGED <<authCode, access, origin, consumed, over>>
    PROVE  IInv'
<1> DEFINE p == new[r]
<1> DEFINE k == Chain(tok[r])
<1> USE DEF Goto
<1>1. /\ k \in Codes /\ authCode[k] = "used" /\ Creates(r) /\ tok[r] \in Presented /\ WasSpent(tok[r])
      /\ p \in Pairs /\ origin[p] = k /\ before[p] = NoToken /\ refresh[p] = "none" /\ p \notin consumed
  BY DEF IInv, Tasks, Creates, Lineage
<1>2. /\ refresh'[p] = "unsent" /\ before'[p] = tok[r]
      /\ \A q \in Pairs \ {p} : refresh'[q] = refresh[q] /\ before'[q] = before[q]
      /\ todo'[r] \in {"answer", "undo"}
      /\ \A q \in Requests \ {r} : todo'[q] = todo[q]
      /\ UNCHANGED <<tok, new>>
  BY <1>1 DEF AddRefresh, IInv, TypeOK
<1>3. \A q \in Requests :
         /\ Creates(q)' <=> q # r /\ Creates(q)
         /\ Chain(tok[q])' = Chain(tok[q])
         /\ WasSpent(tok[q])' <=> WasSpent(tok[q])
  BY <1>2 DEF Creates, Chain, WasSpent
<1>4. \A q \in Requests : Creates(q)' => Chain(tok[q]) # k
  BY <1>1, <1>3 DEF IInv, Ends, OneEnd
<1>5. Tasks'
  <2>1. \A q \in Requests : Creates(q)' => tok[q] # tok[r]
    BY <1>4
  <2>2. \A q \in Requests : todo'[q] = "refresh" => new[q] # p
    BY <1>1, <1>3, <1>4, <1>2 DEF IInv, Tasks, Creates
  <2>3. QED BY <1>1, <1>2, <1>3, <2>1, <2>2 DEF IInv, Tasks
<1>6. SoleCreator' /\ OverSpent'
  BY <1>2 DEF IInv, SoleCreator, OverSpent
<1>7. Lineage'
  <2> SUFFICES ASSUME NEW s \in Pairs
               PROVE  /\ origin[s] = NoToken => access[s] = "none" /\ before'[s] = NoToken
                      /\ origin[s] # NoToken => authCode[origin[s]] = "used"
                      /\ before'[s] = NoToken => refresh'[s] = "none" /\ s \notin consumed
                      /\ before'[s] # NoToken => before'[s] \in Presented /\ WasSpent(before'[s])
                      /\ s \in consumed => refresh'[s] = "none"
    BY DEF Lineage, WasSpent
  <2>1. tok[r] # NoToken /\ k # NoToken
    BY <1>1 DEF RandomTokens, Presented
  <2>2. CASE s = p
    BY <1>1, <1>2, <2>1, <2>2
  <2>3. CASE s # p
    BY <1>2, <2>3 DEF IInv, Lineage
  <2>4. QED BY <2>2, <2>3
<1>8. OneEnd'
  BY <1>1, <1>2, <1>3, <1>4 DEF IInv, Ends, OneEnd
<1>9. AccessAtEnd' /\ OneAccess'
  BY <1>1, <1>2, <1>3 DEF IInv, Ends, AccessAtEnd, OneAccess
<1>10. RevocationFinal'
  <2>1. k \notin over
    BY <1>1 DEF IInv, RevocationFinal, Creating, Creates
  <2>2. \A j : Creating(j)' => Creating(j)
    BY <1>2, <1>3 DEF Creating, Creates
  <2>3. QED BY <1>1, <1>2, <2>1, <2>2 DEF IInv, RevocationFinal
<1>11. QED BY <1>5, <1>6, <1>7, <1>8, <1>9, <1>10 DEF IInv, Ends

(***************************************************************************)
(* Every step                                                              *)
(***************************************************************************)

LEMMA RequestInv ==
    ASSUME RandomTokens, IInv, TypeOK', Goals', NEW r \in Requests,
           \/ \E t \in Presented : Redeem(r, t)
           \/ \E u \in Users, c \in Clients : Revoke(r, u, c)
           \/ \E c \in Clients : Disable(r, c) \/ Remove(r, c)
           \/ CreateCodeFails(r) \/ UpsertGrant(r)
    PROVE  IInv'
<1> USE DEF clients, tokens, Return
<1>1. CASE \E t \in Presented : Redeem(r, t)
  <2>1. PICK t \in Presented : Redeem(r, t)
    BY <1>1
  <2>2. Chain(t) \in Codes
    BY <2>1 DEF Redeem, Usable, Chain, IInv, TypeOK, Lineage, Presented, RandomTokens
  <2>3. /\ todo'[r] = "spend" /\ tok'[r] = t
        /\ \A q \in Requests \ {r} : todo'[q] = todo[q] /\ tok'[q] = tok[q]
        /\ UNCHANGED <<authCode, access, refresh, origin, before, consumed, new, over>>
    BY <2>1 DEF Redeem, IInv, TypeOK
  <2>4. QED BY <2>2, <2>3, QuietStep
<1>2. CASE ~\E t \in Presented : Redeem(r, t)
  <2>1. /\ UNCHANGED <<authCode, access, refresh, origin, before, consumed, over>>
        /\ todo'[r] \in {"idle", "dropAccess"}
        /\ \A q \in Requests \ {r} : todo'[q] = todo[q] /\ tok'[q] = tok[q] /\ new'[q] = new[q]
    <3>1. CASE CreateCodeFails(r) \/ UpsertGrant(r)
      BY <3>1 DEF CreateCodeFails, UpsertGrant, IInv, TypeOK
    <3>2. CASE ~(CreateCodeFails(r) \/ UpsertGrant(r))
      <4>1. PICK owners, then : StartRevoking(r, owners, then)
        BY <1>2, <3>2 DEF Revoke, Disable, Remove
      <4>2. QED BY <4>1 DEF StartRevoking, IInv, TypeOK
    <3>3. QED BY <3>1, <3>2
  <2>2. QED BY <2>1, QuietStep
<1>3. QED BY <1>1, <1>2

LEMMA TokenInv ==
    ASSUME RandomTokens, IInv, TypeOK', Goals', NEW r \in Requests, TokenStep(r)
    PROVE  IInv'
<1> USE DEF clients, tokens
<1>1. CASE SpendFails(r)
  <2>1. tok[r] \in Presented
    BY <1>1 DEF SpendFails, IInv, Tasks
  <2>2. /\ \A k \in Codes : authCode'[k] = authCode[k]
                           \/ (authCode[k] \in {"open", "expired"} /\ authCode'[k] # "new")
        /\ \A p \in Pairs : refresh'[p] # "none" => refresh[p] # "none"
        /\ \A p \in Pairs : p \in consumed' =>
              p \in consumed \/ (refresh[p] # "none" /\ refresh'[p] = "none")
        /\ consumed \subseteq consumed'
    BY <1>1, <2>1 DEF SpendFails, TakeOut, Spendable, Without, IInv, TypeOK, Presented
  <2>3. /\ UNCHANGED <<access, origin, before, over>> /\ todo'[r] = "idle"
        /\ \A q \in Requests \ {r} : todo'[q] = todo[q] /\ tok'[q] = tok[q] /\ new'[q] = new[q]
    BY <1>1 DEF SpendFails, Return, IInv, TypeOK
  <2>4. QED BY <2>2, <2>3, QuietStep
<1>2. CASE \E p \in Pairs : InsertAccess(r, p)
  <2>1. PICK p \in Pairs : InsertAccess(r, p)
    BY <1>2
  <2>2. /\ todo'[r] = "refresh" /\ tok'[r] = tok[r] /\ new'[r] = p
        /\ \A q \in Requests \ {r} : todo'[q] = todo[q] /\ tok'[q] = tok[q] /\ new'[q] = new[q]
    BY <2>1 DEF InsertAccess, IInv, TypeOK
  <2>3. QED BY <2>1, <2>2, NewPairInv DEF InsertAccess
<1>3. CASE InsertAccessFails(r)
  <2>1. /\ todo'[r] = "idle"
        /\ \A q \in Requests \ {r} : todo'[q] = todo[q] /\ tok'[q] = tok[q] /\ new'[q] = new[q]
        /\ UNCHANGED <<authCode, refresh, before, consumed, over>>
    BY <1>3 DEF InsertAccessFails, Return, IInv, TypeOK
  <2>2. CASE UNCHANGED <<origin, access>>
    BY <2>1, <2>2, QuietStep
  <2>3. CASE \E p \in Pairs : AddAccess(r, p, "left")
    BY <1>3, <2>1, <2>3, NewPairInv DEF InsertAccessFails
  <2>4. QED BY <1>3, <2>2, <2>3 DEF InsertAccessFails
<1>4. CASE InsertRefresh(r) \/ InsertRefreshFails(r)
  <2>1. CASE AddRefresh(r)
    BY <1>4, <2>1, NewRefreshInv DEF InsertRefresh, InsertRefreshFails
  <2>2. CASE ~AddRefresh(r)
    <3>1. /\ UNCHANGED <<authCode, access, refresh, origin, before, consumed, tok, new, over>>
          /\ todo'[r] = "undo" /\ new[r] \in Pairs
          /\ \A q \in Requests \ {r} : todo'[q] = todo[q]
      BY <1>4, <2>2 DEF InsertRefresh, InsertRefreshFails, Goto, IInv, TypeOK, Tasks
    <3>2. QED BY <3>1, QuietStep
  <2>3. QED BY <2>1, <2>2
<1>5. CASE Undo(r) \/ Answer(r)
  <2>1. new[r] \in Pairs
    BY <1>5 DEF Undo, Answer, IInv, Tasks
  <2>2. /\ \A p \in Pairs :
             \/ access'[p] = access[p] \/ access'[p] = "none"
             \/ access[p] # "none" /\ access'[p] = "left"
        /\ \A p \in Pairs : refresh'[p] # "none" => refresh[p] # "none"
    BY <1>5, <2>1 DEF Undo, Answer, DropAccessRow, Without, IInv, TypeOK
  <2>3. /\ UNCHANGED <<authCode, origin, before, consumed, over>> /\ todo'[r] = "idle"
        /\ \A q \in Requests \ {r} : todo'[q] = todo[q] /\ tok'[q] = tok[q] /\ new'[q] = new[q]
    BY <1>5 DEF Undo, Answer, Return, IInv, TypeOK
  <2>4. QED BY <2>2, <2>3, QuietStep
<1>6. QED BY <1>1, <1>2, <1>3, <1>4, <1>5, SpendInv, RetireInv DEF TokenStep

LEMMA RevokeInv ==
    ASSUME RandomTokens, IInv, TypeOK', Goals', NEW r \in Requests, RevokeStep(r)
    PROVE  IInv'
<1> USE DEF clients, tokens, Return, Goto
<1>1. CASE DropAccess(r)
  <2>1. \A p \in Pairs : access'[p] = access[p] \/ access'[p] = "none"
    BY <1>1 DEF DropAccess, Without
  <2>2. /\ UNCHANGED <<authCode, refresh, origin, before, consumed, tok, new, over>>
        /\ todo'[r] = "dropRefresh" /\ \A q \in Requests \ {r} : todo'[q] = todo[q]
    BY <1>1 DEF DropAccess, IInv, TypeOK
  <2>3. QED BY <2>1, <2>2, QuietStep
<1>2. CASE DropRefresh(r)
  <2>1. \A p \in Pairs : refresh'[p] # "none" => refresh[p] # "none"
    BY <1>2 DEF DropRefresh, Without
  <2>2. ASSUME NEW k \in over', k \notin over
        PROVE  /\ authCode[k] = "used" /\ ~Creating(k)
               /\ \A p \in Pairs : origin[p] = k => refresh'[p] = "none"
    BY <1>2, <2>2 DEF DropRefresh, Without, OwnedBy, RandomTokens, Presented
  <2>3. /\ UNCHANGED <<authCode, access, origin, before, consumed, tok, new>>
        /\ todo'[r] = "dropGrant" /\ \A q \in Requests \ {r} : todo'[q] = todo[q]
    BY <1>2 DEF DropRefresh, IInv, TypeOK
  <2>4. QED BY <2>1, <2>2, <2>3, QuietStep
<1>3. CASE DropGrant(r) \/ SetClient(r)
  <2>1. /\ UNCHANGED <<authCode, access, refresh, origin, before, consumed, over>>
        /\ todo'[r] \in {"idle", "client"}
        /\ \A q \in Requests \ {r} : todo'[q] = todo[q] /\ tok'[q] = tok[q] /\ new'[q] = new[q]
    <3>1. CASE SetClient(r) \/ (DropGrant(r) /\ goal[r] = "keep")
      BY <3>1 DEF SetClient, DropGrant, IInv, TypeOK
    <3>2. CASE DropGrant(r) /\ goal[r] # "keep"
      BY <3>2 DEF DropGrant, IInv, TypeOK
    <3>3. QED BY <1>3, <3>1, <3>2
  <2>2. QED BY <2>1, QuietStep
<1>4. QED BY <1>1, <1>2, <1>3 DEF RevokeStep

LEMMA EnvironmentInv ==
    ASSUME RandomTokens, IInv, TypeOK', Goals',
           \/ \E c \in Clients : Enable(c)
           \/ \E u \in Users : Leave(u)
           \/ \E k \in Codes : CodeAges(k)
           \/ \E p \in Pairs : RevokeToken(p) \/ PairAges(p)
    PROVE  IInv'
<1>1. /\ \A k \in Codes : authCode'[k] = authCode[k]
                         \/ (authCode[k] \in {"open", "expired"} /\ authCode'[k] # "new")
      /\ \A p \in Pairs : access'[p] = access[p] \/ access'[p] = "none"
      /\ \A p \in Pairs : refresh'[p] # "none" => refresh[p] # "none"
      /\ UNCHANGED <<origin, before, consumed, todo, tok, new, over>>
  <2> USE DEF clients, tokens, locals, Without, IInv, TypeOK
  <2>1. CASE \E c \in Clients : Enable(c)
    BY <2>1 DEF Enable
  <2>2. CASE \E u \in Users : Leave(u)
    BY <2>2 DEF Leave
  <2>3. CASE \E k \in Codes : CodeAges(k)
    BY <2>3 DEF CodeAges
  <2>4. CASE \E p \in Pairs : RevokeToken(p) \/ PairAges(p)
    BY <2>4 DEF RevokeToken, PairAges
  <2>5. QED BY <2>1, <2>2, <2>3, <2>4
<1>2. QED BY <1>1, QuietStep

LEMMA NextInv == RandomTokens /\ IInv /\ [Next]_vars => IInv'
<1> SUFFICES ASSUME RandomTokens, IInv, [Next]_vars
             PROVE  IInv'
  OBVIOUS
<1>1. CASE Next
  BY <1>1, TypesNext, AuthorizeInv, CreateCodeInv, RequestInv, TokenInv, RevokeInv, EnvironmentInv DEF Next
<1>2. CASE UNCHANGED vars
  <2>1. TypeOK' /\ Goals'
    BY <1>2 DEF vars, clients, tokens, locals, IInv, TypeOK, Goals
  <2>2. UNCHANGED <<authCode, access, refresh, origin, before, consumed, todo, tok, new, over>>
    BY <1>2 DEF vars, clients, tokens, locals
  <2>3. QED BY <2>1, <2>2, QuietStep
<1>3. QED BY <1>1, <1>2

LEMMA Invariance == RandomTokens => (Spec => []IInv)
<1> SUFFICES ASSUME RandomTokens PROVE Spec => []IInv
  OBVIOUS
<1>1. IInv /\ [Next]_vars => IInv'
  BY NextInv
<1>2. QED BY <1>1, InitInv, PTL DEF Spec

(***************************************************************************)
(* Theorems                                                                *)
(***************************************************************************)

\* The tables and the requests of the provider keep their types.
THEOREM ProviderTypeCorrect == RandomTokens => (Spec => []TypeOK)
<1>1. IInv => TypeOK
  BY DEF IInv
<1>2. QED BY <1>1, Invariance, PTL

\* A login of a client has one access token, whatever exchanges and refreshes
\* overlap and whichever statements fail, but for rows that those left behind.
THEOREM LoginHasOneAccess == RandomTokens => (Spec => []OneAccess)
<1>1. IInv => OneAccess
  BY DEF IInv, Ends
<1>2. QED BY <1>1, Invariance, PTL

\* After the revocation of a client's tokens no token of a login comes back that
\* no request was creating one of.
THEOREM ProviderRevocationIsFinal == RandomTokens => (Spec => []RevocationFinal)
<1>1. IInv => RevocationFinal
  BY DEF IInv
<1>2. QED BY <1>1, Invariance, PTL

(***************************************************************************)
(* Codes and refresh tokens are rotating credentials                       *)
(***************************************************************************)

issued == {k \in Codes : authCode[k] # "new"} \cup {p \in Pairs : before[p] # NoToken}
live   == {k \in Codes : authCode[k] \in {"open", "expired"}} \cup {p \in Pairs : refresh[p] # "none"}
spent  == {k \in Codes : authCode[k] = "used"} \cup consumed
parent == [t \in Presented |-> IF t \in Pairs THEN before[t] ELSE NoToken]

LEMMA DropStep ==
    ASSUME live' \subseteq live, UNCHANGED <<issued, spent, parent>>
    PROVE  Rotation!Next
<1>1. Rotation!Drop
  BY DEF Rotation!Drop, issued, live, spent, parent
<1>2. QED BY <1>1 DEF Rotation!Next

\* Rows go, but none is taken out and none is new.
LEMMA RowsGo ==
    ASSUME UNCHANGED <<before, consumed>>,
           \A k \in Codes :
              \/ authCode'[k] = authCode[k]
              \/ authCode[k] \in {"open", "expired"} /\ authCode'[k] \in {"expired", "void"},
           \A p \in Pairs : refresh'[p] # "none" => refresh[p] # "none"
    PROVE  Rotation!Next
<1>1. live' \subseteq live
  BY DEF live
<1>2. UNCHANGED <<issued, spent, parent>>
  BY DEF issued, spent, parent
<1>3. QED BY <1>1, <1>2, DropStep

\* The INSERT of a code is Issue.
LEMMA CodeRotates ==
    ASSUME RandomTokens, IInv, NEW r \in Requests, CreateCode(r)
    PROVE  Rotation!Next
<1> DEFINE k == tok[r]
<1>1. k \in Codes /\ authCode[k] = "new" /\ authCode' = [authCode EXCEPT ![k] = "open"]
  BY DEF CreateCode, IInv, Tasks
<1>2. UNCHANGED <<refresh, before, consumed>>
  BY DEF CreateCode
<1>3. k \in Presented /\ k \notin issued
  BY <1>1 DEF issued, Presented, RandomTokens
<1>4. issued' = issued \cup {k} /\ live' = live \cup {k} /\ spent' = spent /\ parent' = parent
  BY <1>1, <1>2 DEF issued, live, spent, parent, IInv, TypeOK
<1>5. QED BY <1>3, <1>4 DEF Rotation!Next, Rotation!Issue, issued, live, spent, parent

\* The UPDATE or DELETE that takes a token out is Spend, also when its result
\* is lost.
LEMMA SpendRotates ==
    ASSUME RandomTokens, IInv, NEW r \in Requests, todo[r] = "spend", TakeOut(tok[r]), UNCHANGED before
    PROVE  Rotation!Next
<1> DEFINE t == tok[r]
<1>1. t \in Presented /\ t \in live
  BY DEF IInv, Tasks, TakeOut, Spendable, live, Presented
<1>2. CASE t \in Codes
  <2>1. authCode' = [authCode EXCEPT ![t] = "used"] /\ UNCHANGED <<refresh, consumed>>
    BY <1>2 DEF TakeOut
  <2>2. authCode[t] \in {"open", "expired"} /\ t \notin Pairs
    BY <1>2 DEF TakeOut, Spendable, RandomTokens
  <2>3. live' = live \ {t} /\ spent' = spent \cup {t} /\ issued' = issued /\ parent' = parent
    BY <1>2, <2>1, <2>2 DEF live, spent, issued, parent, IInv, TypeOK
  <2>4. QED BY <1>1, <2>3 DEF Rotation!Next, Rotation!Spend, issued, live, spent, parent
<1>3. CASE t \notin Codes
  <2>1. t \in Pairs /\ UNCHANGED authCode /\ consumed' = consumed \cup {t}
    BY <1>1, <1>3 DEF TakeOut, Presented
  <2>2. \A p \in Pairs : refresh'[p] = IF p = t THEN "none" ELSE refresh[p]
    BY <1>3 DEF TakeOut, Without
  <2>3. live' = live \ {t} /\ spent' = spent \cup {t} /\ issued' = issued /\ parent' = parent
    BY <1>3, <2>1, <2>2 DEF live, spent, issued, parent
  <2>4. QED BY <1>1, <2>3 DEF Rotation!Next, Rotation!Spend, issued, live, spent, parent
<1>4. QED BY <1>2, <1>3

\* The INSERT of a refresh token is Replace.
LEMMA RefreshRotates ==
    ASSUME RandomTokens, IInv, NEW r \in Requests, todo[r] = "refresh", AddRefresh(r),
           UNCHANGED <<authCode, consumed>>
    PROVE  Rotation!Next
<1> DEFINE t == tok[r]
<1> DEFINE n == new[r]
<1>1. /\ t \in Presented /\ WasSpent(t) /\ \A p \in Pairs : before[p] # t
      /\ n \in Pairs /\ n \in Presented /\ before[n] = NoToken
  BY DEF IInv, Tasks, Creates, Presented
<1>2. refresh' = [refresh EXCEPT ![n] = "unsent"] /\ before' = [before EXCEPT ![n] = t]
  BY DEF AddRefresh
<1>3. t \in spent /\ t # NoToken /\ n \notin issued
  BY <1>1 DEF spent, issued, WasSpent, RandomTokens
<1>4. \A s \in issued : parent[s] # t
  BY <1>1, <1>3 DEF parent, issued, Presented
<1>5. issued' = issued \cup {n} /\ live' = live \cup {n} /\ spent' = spent
  BY <1>1, <1>2, <1>3 DEF issued, live, spent, IInv, TypeOK
<1>6. parent' = [parent EXCEPT ![n] = t]
  BY <1>1, <1>2 DEF parent, IInv, TypeOK
<1>7. QED BY <1>1, <1>3, <1>4, <1>5, <1>6
          DEF Rotation!Next, Rotation!Replace, issued, live, spent, parent

LEMMA RequestRotates ==
    ASSUME RandomTokens, IInv, NEW r \in Requests,
           \/ \E k \in Codes : Authorize(r, k)
           \/ \E t \in Presented : Redeem(r, t)
           \/ \E u \in Users, c \in Clients : Revoke(r, u, c)
           \/ \E c \in Clients : Disable(r, c) \/ Remove(r, c)
           \/ CreateCode(r) \/ CreateCodeFails(r) \/ UpsertGrant(r)
           \/ TokenStep(r) \/ RevokeStep(r)
    PROVE  Rotation!Next
<1> USE DEF tokens, clients
<1>1. CASE CreateCode(r)
  BY <1>1, CodeRotates
<1>2. CASE Spend(r) \/ SpendFails(r)
  <2>1. CASE TakeOut(tok[r])
    BY <1>2, <2>1, SpendRotates DEF Spend, SpendFails
  <2>2. CASE ~TakeOut(tok[r])
    BY <1>2, <2>2, RowsGo DEF Spend, SpendFails
  <2>3. QED BY <2>1, <2>2
<1>3. CASE InsertRefresh(r) \/ InsertRefreshFails(r)
  <2>1. CASE AddRefresh(r)
    BY <1>3, <2>1, RefreshRotates DEF InsertRefresh, InsertRefreshFails
  <2>2. CASE ~AddRefresh(r)
    BY <1>3, <2>2, RowsGo DEF InsertRefresh, InsertRefreshFails
  <2>3. QED BY <2>1, <2>2
<1>4. CASE DropRefresh(r) \/ Answer(r)
  <2>1. UNCHANGED <<authCode, before, consumed>>
    BY <1>4 DEF DropRefresh, Answer
  <2>2. \A p \in Pairs : refresh'[p] # "none" => refresh[p] # "none"
    BY <1>4 DEF DropRefresh, Answer, Without, IInv, TypeOK, Tasks
  <2>3. QED BY <2>1, <2>2, RowsGo
<1>5. CASE \/ \E k \in Codes : Authorize(r, k)
           \/ \E t \in Presented : Redeem(r, t)
           \/ \E u \in Users, c \in Clients : Revoke(r, u, c)
           \/ \E c \in Clients : Disable(r, c) \/ Remove(r, c)
           \/ CreateCodeFails(r) \/ UpsertGrant(r) \/ Retire(r) \/ Undo(r)
           \/ (\E p \in Pairs : InsertAccess(r, p)) \/ InsertAccessFails(r)
           \/ DropAccess(r) \/ DropGrant(r) \/ SetClient(r)
  <2>1. UNCHANGED <<authCode, refresh, before, consumed>>
    BY <1>5 DEF Authorize, Redeem, Revoke, Disable, Remove, StartRevoking, CreateCodeFails, UpsertGrant,
                Retire, Undo, InsertAccess, InsertAccessFails, DropAccess, DropGrant, SetClient
  <2>2. QED BY <2>1, RowsGo
<1>6. QED BY <1>1, <1>2, <1>3, <1>4, <1>5 DEF TokenStep, RevokeStep

LEMMA EnvironmentRotates ==
    ASSUME RandomTokens, IInv,
           \/ \E c \in Clients : Enable(c)
           \/ \E u \in Users : Leave(u)
           \/ \E k \in Codes : CodeAges(k)
           \/ \E p \in Pairs : RevokeToken(p) \/ PairAges(p)
    PROVE  Rotation!Next
<1> USE DEF tokens, clients, Without
<1>1. CASE \E c \in Clients : Enable(c)
  BY <1>1, RowsGo DEF Enable
<1>2. CASE \E u \in Users : Leave(u)
  BY <1>2, RowsGo DEF Leave
<1>3. CASE \E k \in Codes : CodeAges(k)
  BY <1>3, RowsGo DEF CodeAges, IInv, TypeOK
<1>4. CASE \E p \in Pairs : RevokeToken(p) \/ PairAges(p)
  BY <1>4, RowsGo DEF RevokeToken, PairAges, IInv, TypeOK
<1>5. QED BY <1>1, <1>2, <1>3, <1>4

\* The provider implements the rotating credential with two tables: codes and
\* refresh tokens are spent once, replaced once, and never live again.
THEOREM ProviderImplementsRotation == RandomTokens => (Spec => ImplementsRotation)
<1> SUFFICES ASSUME RandomTokens PROVE Spec => ImplementsRotation
  OBVIOUS
<1>1. Init => Rotation!Init
  BY DEF Init, Rotation!Init, Presented, RandomTokens
<1>2. IInv /\ [Next]_vars => [Rotation!Next]_(Rotation!rotationVars)
  <2>1. ASSUME UNCHANGED vars PROVE UNCHANGED Rotation!rotationVars
    BY <2>1 DEF vars, tokens, Rotation!rotationVars
  <2>2. ASSUME IInv, Next PROVE Rotation!Next
    BY <2>2, RequestRotates, EnvironmentRotates DEF Next
  <2>3. QED BY <2>1, <2>2
<1>3. QED BY <1>1, <1>2, Invariance, PTL DEF Spec, ImplementsRotation, Rotation!Spec
=============================================================================
