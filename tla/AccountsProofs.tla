---------------------------- MODULE AccountsProofs ----------------------------
(***************************************************************************)
(* What Accounts guarantees of its sessions, its administration and its    *)
(* clients, for every number of users, clients, tokens and requests.  The  *)
(* first part is about SessionTokens, whose variables are this module's: a *)
(* token has one successor, a revocation is final, a replay hits its own   *)
(* user only, and the table implements TokenRotation.  The second is about *)
(* UserAdmin: a super administrator stands, the checks of the handlers are *)
(* enough for a request nobody overtook, and a ban that nothing was under  *)
(* way for is not lifted by the gate.  The third inherits the theorems of  *)
(* OAuthProviderProofs: a behaviour of Accounts is one of OAuthProvider,   *)
(* and the two instances of a module say the same, definition by           *)
(* definition.                                                             *)
(***************************************************************************)
EXTENDS Accounts, Naturals, TLAPS

ProviderProofs == INSTANCE OAuthProviderProofs WITH Users <- Holders

(***************************************************************************)
(* The inductive invariant of the sessions                                 *)
(***************************************************************************)

\* Rows and marks belong to tokens that were issued; what was never issued
\* has no history.
IssuedOnly ==
    /\ table \subseteq issued
    /\ used \subseteq issued
    /\ finished \subseteq issued
    /\ \A t \in issued : owner[t] \in Users /\ family[t] = t
    /\ \A t \in Tokens \ issued : parent[t] = NoToken

\* A handler works on an actual user, or on a token that was issued.
Located ==
    /\ \A r \in Requests : pc[r] \in {"login", "revokeUser"} => ruid[r] \in Users
    /\ \A r \in Requests :
           pc[r] \in {"mark", "create", "revokeFamily"} => rtok[r] \in issued

\* A lineage starts at an issued token and stays with one user.
OneOwner ==
    \A t \in issued : root[t] \in issued /\ owner[root[t]] = owner[t]

\* Replacing comes after spending: a token with a successor is spent; the
\* request that is about to insert the successor of a token spent it, is the
\* only one, and no successor of it exists yet.
SpentFirst == \A t \in issued : parent[t] # NoToken => parent[t] \in used

SoleSpender ==
    \A r \in Requests : pc[r] = "create" =>
        /\ rtok[r] \in used
        /\ \A s \in issued : parent[s] # rtok[r]
        /\ \A q \in Requests : pc[q] = "create" /\ rtok[q] = rtok[r] => q = r

\* A renewal under way keeps its login from counting as revoked.
RenewalOpen ==
    \A r \in Requests : pc[r] = "create" => root[rtok[r]] \notin finished

IInv ==
    /\ TypeOK
    /\ IssuedOnly
    /\ Located
    /\ OneOwner
    /\ SpentFirst
    /\ SoleSpender
    /\ RenewalOpen
    /\ SingleSuccessor
    /\ RevocationFinal

LEMMA InitInv == Init => IInv
BY DEF Init, IInv, TypeOK, IssuedOnly, Located, OneOwner, SpentFirst,
       SoleSpender, RenewalOpen, SingleSuccessor, RevocationFinal

(***************************************************************************)
(* One lemma per group of actions                                          *)
(***************************************************************************)

\* Steps that change only where a request stands, without reaching "create".
LEMMA ControlStep ==
    ASSUME IInv, NEW r \in Requests,
           UNCHANGED <<rows, lineage, finished>>,
           TypeOK',
           \A q \in Requests \ {r} : pc'[q] = pc[q] /\ ruid'[q] = ruid[q]
                                     /\ rtok'[q] = rtok[q],
           pc'[r] \in {"login", "revokeUser"} => ruid'[r] \in Users,
           pc'[r] \in {"mark", "revokeFamily"} => rtok'[r] \in issued,
           pc'[r] # "create"
    PROVE  IInv'
<1>1. IssuedOnly' /\ OneOwner' /\ SpentFirst' /\ SingleSuccessor' /\ RevocationFinal'
  BY DEF IInv, rows, lineage, IssuedOnly, OneOwner, SpentFirst, SingleSuccessor,
         RevocationFinal
<1>2. Located'
  BY DEF IInv, lineage, Located
<1>3. SoleSpender' /\ RenewalOpen'
  BY DEF IInv, rows, lineage, SoleSpender, RenewalOpen
<1>4. QED BY <1>1, <1>2, <1>3 DEF IInv

\* Steps that only take rows away, or mark none, and return.
LEMMA DeletingStep ==
    ASSUME IInv, TypeOK',
           table' \subseteq table,
           UNCHANGED <<used, owner, family, lineage, finished>>,
           \A q \in Requests :
               \/ pc'[q] = pc[q] /\ ruid'[q] = ruid[q] /\ rtok'[q] = rtok[q]
               \/ pc'[q] = "idle"
    PROVE  IInv'
<1>1. IssuedOnly' /\ OneOwner' /\ SpentFirst' /\ SingleSuccessor' /\ RevocationFinal'
  BY DEF IInv, lineage, IssuedOnly, OneOwner, SpentFirst, SingleSuccessor,
         RevocationFinal
<1>2. Located'
  BY DEF IInv, lineage, Located
<1>3. SoleSpender' /\ RenewalOpen'
  BY DEF IInv, lineage, SoleSpender, RenewalOpen
<1>4. QED BY <1>1, <1>2, <1>3 DEF IInv

\* INSERT of a first token or of the successor of a token being renewed.
LEMMA CreateStep ==
    ASSUME IInv, TypeOK', NEW r \in Requests, NEW n \in Tokens,
           NEW u \in Users, NEW from \in Tokens \cup {NoToken},
           Create(n, u, from),
           from # NoToken => pc[r] = "create" /\ rtok[r] = from /\ owner[from] = u,
           UNCHANGED finished, Return(r)
    PROVE  IInv'
<1> DEFINE open == from # NoToken
<1>1. /\ n \notin issued /\ n \notin table /\ n \notin used /\ n \notin finished
      /\ issued' = issued \cup {n} /\ table' = table \cup {n}
      /\ UNCHANGED <<used, finished>>
  BY DEF Create, IInv, IssuedOnly
<1>2. /\ owner' = [owner EXCEPT ![n] = u] /\ family' = [family EXCEPT ![n] = n]
      /\ parent' = [parent EXCEPT ![n] = from]
      /\ root' = [root EXCEPT ![n] = IF from = NoToken THEN n ELSE root[from]]
  BY DEF Create, FamilyOf
<1>3. open => /\ from \in issued /\ from \in used /\ from # n
              /\ root[from] \in issued /\ owner[root[from]] = u
              /\ root[from] \notin finished
              /\ \A s \in issued : parent[s] # from
              /\ \A q \in Requests : pc[q] = "create" /\ rtok[q] = from => q = r
  BY <1>1 DEF IInv, Located, OneOwner, SoleSpender, RenewalOpen
<1>4. \A q \in Requests : pc'[q] # "idle" =>
          q # r /\ pc'[q] = pc[q] /\ ruid'[q] = ruid[q] /\ rtok'[q] = rtok[q]
  BY DEF Return, IInv, TypeOK
<1>5. \A t \in issued : /\ t # n /\ owner'[t] = owner[t] /\ family'[t] = family[t]
                        /\ parent'[t] = parent[t] /\ root'[t] = root[t]
  BY <1>1, <1>2 DEF IInv, TypeOK
<1>6. /\ owner'[n] = u /\ family'[n] = n /\ parent'[n] = from
      /\ root'[n] = IF from = NoToken THEN n ELSE root[from]
  BY <1>2 DEF IInv, TypeOK
<1>7. IssuedOnly'
  BY <1>1, <1>2, <1>5, <1>6 DEF IInv, IssuedOnly, TypeOK
<1>8. Located'
  BY <1>1, <1>4 DEF IInv, Located
<1>9. OneOwner'
  BY <1>1, <1>3, <1>5, <1>6 DEF IInv, OneOwner
<1>10. SpentFirst'
  BY <1>1, <1>3, <1>5, <1>6 DEF IInv, SpentFirst
<1>11. SoleSpender'
  <2>1. \A q \in Requests : pc'[q] = "create" =>
            q # r /\ pc[q] = "create" /\ rtok'[q] = rtok[q] /\ rtok[q] \in used
              /\ rtok[q] \in issued /\ \A s \in issued : parent[s] # rtok[q]
    BY <1>4 DEF IInv, SoleSpender, Located
  <2>2. \A q \in Requests : pc'[q] = "create" => from # rtok[q]
    BY <1>3, <2>1, NullAssumption DEF IInv, TypeOK
  <2>3. \A q \in Requests : pc'[q] = "create" =>
            \A s \in issued' : parent'[s] # rtok'[q]
    BY <1>1, <1>5, <1>6, <2>1, <2>2
  <2>4. \A p, q \in Requests :
            pc'[p] = "create" /\ pc'[q] = "create" /\ rtok'[q] = rtok'[p] => q = p
    BY <1>4 DEF IInv, SoleSpender
  <2>5. QED BY <1>1, <2>1, <2>3, <2>4 DEF SoleSpender
<1>12. RenewalOpen'
  BY <1>1, <1>4, <1>5 DEF IInv, Located, RenewalOpen
<1>13. SingleSuccessor'
  <2>1. SUFFICES ASSUME NEW a \in issued', NEW b \in issued',
                        parent'[a] = parent'[b], parent'[a] # NoToken
                 PROVE  a = b
    BY DEF SingleSuccessor
  <2>2. CASE a \in issued /\ b \in issued
    BY <1>5, <2>1, <2>2 DEF IInv, SingleSuccessor
  <2>3. CASE a = n \/ b = n
    BY <1>1, <1>3, <1>5, <1>6, <2>1, <2>3
  <2>4. QED BY <1>1, <2>2, <2>3
<1>14. RevocationFinal'
  BY <1>1, <1>3, <1>5, <1>6 DEF IInv, RevocationFinal, IssuedOnly
<1>15. QED
  BY <1>7, <1>8, <1>9, <1>10, <1>11, <1>12, <1>13, <1>14 DEF IInv

\* DELETE ... WHERE user_uid, by logout or by a password change.
LEMMA RevokeStep ==
    ASSUME IInv, TypeOK', NEW u \in Users, RevokeUser(u),
           \A q \in Requests :
               \/ pc'[q] = pc[q] /\ ruid'[q] = ruid[q] /\ rtok'[q] = rtok[q]
               \/ pc'[q] = "idle"
    PROVE  IInv'
<1>1. /\ table' = table \ UserRows(u) /\ finished' = finished \cup Quiet(u)
      /\ UNCHANGED <<used, owner, family, issued, parent, root>>
  BY DEF RevokeUser, lineage
<1>2. \A t \in Quiet(u) : t \in issued /\ owner[t] = u
  BY DEF Quiet, IInv, OneOwner
<1>3. IssuedOnly'
  BY <1>1, <1>2 DEF IInv, IssuedOnly
<1>4. OneOwner' /\ SpentFirst' /\ SingleSuccessor'
  BY <1>1 DEF IInv, OneOwner, SpentFirst, SingleSuccessor
<1>5. Located'
  BY <1>1 DEF IInv, Located
<1>6. SoleSpender'
  BY <1>1 DEF IInv, SoleSpender
<1>7. RenewalOpen'
  <2>1. \A q \in Requests : pc[q] = "create" => root[rtok[q]] \notin Quiet(u)
    BY DEF Quiet
  <2>2. QED BY <1>1, <2>1 DEF IInv, RenewalOpen
<1>8. RevocationFinal'
  <2>1. SUFFICES ASSUME NEW t \in table' PROVE root[t] \notin finished \cup Quiet(u)
    BY <1>1 DEF RevocationFinal
  <2>2. t \in table /\ t \in issued /\ owner[t] # u
    BY <1>1, <2>1 DEF UserRows, IInv, IssuedOnly
  <2>3. owner[root[t]] # u
    BY <2>2 DEF IInv, OneOwner
  <2>4. QED BY <1>2, <2>2, <2>3 DEF IInv, RevocationFinal
<1>9. QED BY <1>3, <1>4, <1>5, <1>6, <1>7, <1>8 DEF IInv

\* UPDATE ... WHERE used = FALSE succeeds: the request becomes sole spender.
LEMMA MarkStep ==
    ASSUME IInv, TypeOK', NEW r \in Requests, MarkUsed(r)
    PROVE  IInv'
<1> DEFINE t == rtok[r]
<1>1. /\ pc[r] = "mark" /\ t \in table /\ t \notin used /\ t \in issued
      /\ used' = used \cup {t} /\ pc' = [pc EXCEPT ![r] = "create"]
      /\ UNCHANGED <<table, owner, family, ruid, rtok, issued, parent, root, finished>>
  BY DEF MarkUsed, Markable, lineage, IInv, IssuedOnly
<1>2. /\ \A s \in issued : parent[s] # t
      /\ \A q \in Requests : pc[q] = "create" => rtok[q] # t
  BY <1>1, NullAssumption DEF IInv, SpentFirst, SoleSpender, TypeOK
<1>3. IssuedOnly' /\ OneOwner' /\ SpentFirst' /\ SingleSuccessor' /\ RevocationFinal'
  BY <1>1 DEF IInv, IssuedOnly, OneOwner, SpentFirst, SingleSuccessor, RevocationFinal
<1>4. Located'
  BY <1>1 DEF IInv, Located, TypeOK
<1>5. SoleSpender'
  BY <1>1, <1>2 DEF IInv, SoleSpender, TypeOK
<1>6. RenewalOpen'
  BY <1>1 DEF IInv, RenewalOpen, RevocationFinal, TypeOK
<1>7. QED BY <1>3, <1>4, <1>5, <1>6 DEF IInv

\* The UPDATE was applied but reported as failed: the token is spent for nobody.
LEMMA MarkFailsStep ==
    ASSUME IInv, TypeOK', NEW r \in Requests, MarkUsedFails(r)
    PROVE  IInv'
<1>1. /\ used \subseteq used' /\ used' \subseteq used \cup {rtok[r]}
      /\ rtok[r] \in issued /\ pc[r] = "mark"
      /\ UNCHANGED <<table, owner, family, issued, parent, root, finished>>
      /\ pc' = [pc EXCEPT ![r] = "idle"]
      /\ \A q \in Requests : q # r => ruid'[q] = ruid[q] /\ rtok'[q] = rtok[q]
  BY DEF MarkUsedFails, Return, lineage, IInv, Located, TypeOK
<1>2. IssuedOnly' /\ OneOwner' /\ SpentFirst' /\ SingleSuccessor' /\ RevocationFinal'
  BY <1>1 DEF IInv, IssuedOnly, OneOwner, SpentFirst, SingleSuccessor, RevocationFinal
<1>3. Located' /\ SoleSpender' /\ RenewalOpen'
  BY <1>1 DEF IInv, Located, SoleSpender, RenewalOpen, TypeOK
<1>4. QED BY <1>2, <1>3 DEF IInv

(***************************************************************************)
(* Type correctness                                                        *)
(***************************************************************************)

LEMMA ReturnType ==
    ASSUME TypeOK, NEW r \in Requests, Return(r)
    PROVE  /\ pc' \in [Requests -> {"idle", "login", "mark", "create", "revokeFamily", "revokeUser"}]
           /\ ruid' \in [Requests -> Users \cup {NoUser}]
           /\ rtok' \in [Requests -> Tokens \cup {NoToken}]
BY DEF Return, TypeOK

LEMMA CreateType ==
    ASSUME TypeOK, NEW n \in Tokens, NEW u \in Users, NEW from \in Tokens \cup {NoToken},
           Create(n, u, from)
    PROVE  /\ table' \subseteq Tokens /\ used' \subseteq Tokens /\ expired' \subseteq Tokens
           /\ owner' \in [Tokens -> Users \cup {NoUser}]
           /\ family' \in [Tokens -> Tokens \cup {NoToken}]
           /\ \A t \in table' : owner'[t] \in Users
           /\ issued' \subseteq Tokens
           /\ parent' \in [Tokens -> Tokens \cup {NoToken}]
           /\ root' \in [Tokens -> Tokens \cup {NoToken}]
<1>1. (IF from = NoToken THEN n ELSE root[from]) \in Tokens \cup {NoToken}
  BY DEF TypeOK
<1>2. QED BY <1>1 DEF Create, FamilyOf, TypeOK

LEMMA RevokeType ==
    ASSUME TypeOK, OneOwner, IssuedOnly, NEW u \in Users, RevokeUser(u)
    PROVE  /\ table' \subseteq table /\ finished' \subseteq Tokens
           /\ UNCHANGED <<used, expired, owner, family, issued, parent, root>>
BY DEF RevokeUser, Quiet, OneOwner, TypeOK, lineage

(***************************************************************************)
(* Every step preserves the invariant                                      *)
(***************************************************************************)

LEMMA ArriveInv ==
    ASSUME IInv, NEW r \in Requests, Arrive(r)
    PROVE  IInv'
<1>1. CASE \E u \in Users : LoginVerify(r, u)
  <2>1. PICK u \in Users : LoginVerify(r, u)
    BY <1>1
  <2>2. TypeOK'
    BY <2>1 DEF LoginVerify, rows, lineage, IInv, TypeOK
  <2>3. /\ UNCHANGED <<rows, lineage, finished>>
        /\ \A q \in Requests \ {r} : pc'[q] = pc[q] /\ ruid'[q] = ruid[q] /\ rtok'[q] = rtok[q]
        /\ pc'[r] = "login" /\ ruid'[r] \in Users
    BY <2>1 DEF LoginVerify, IInv, TypeOK
  <2>4. QED BY <2>2, <2>3, ControlStep
<1>2. CASE \E u \in Users : PasswordUpdated(r, u)
  <2>1. PICK u \in Users : PasswordUpdated(r, u)
    BY <1>2
  <2>2. TypeOK'
    BY <2>1 DEF PasswordUpdated, rows, lineage, IInv, TypeOK
  <2>3. /\ UNCHANGED <<rows, lineage, finished>>
        /\ \A q \in Requests \ {r} : pc'[q] = pc[q] /\ ruid'[q] = ruid[q] /\ rtok'[q] = rtok[q]
        /\ pc'[r] = "revokeUser" /\ ruid'[r] \in Users
    BY <2>1 DEF PasswordUpdated, IInv, TypeOK
  <2>4. QED BY <2>2, <2>3, ControlStep
<1>3. CASE \E t \in Tokens : FindByHash(r, t)
  <2>1. PICK t \in Tokens : FindByHash(r, t)
    BY <1>3
  <2>2. TypeOK'
    BY <2>1 DEF FindByHash, rows, lineage, IInv, TypeOK
  <2>3. /\ UNCHANGED <<rows, lineage, finished>>
        /\ \A q \in Requests \ {r} : pc'[q] = pc[q] /\ ruid'[q] = ruid[q] /\ rtok'[q] = rtok[q]
        /\ pc'[r] \in {"mark", "revokeFamily"} /\ rtok'[r] \in issued
    BY <2>1 DEF FindByHash, IInv, TypeOK, IssuedOnly
  <2>4. QED BY <2>2, <2>3, ControlStep
<1>4. QED BY <1>1, <1>2, <1>3 DEF Arrive

\* What Return does to the other requests and to this one.
LEMMA ReturnFrame ==
    ASSUME TypeOK, NEW r \in Requests, Return(r)
    PROVE  \A q \in Requests :
               \/ pc'[q] = pc[q] /\ ruid'[q] = ruid[q] /\ rtok'[q] = rtok[q]
               \/ pc'[q] = "idle"
BY DEF Return, TypeOK

LEMMA LoginInv ==
    ASSUME IInv, NEW r \in Requests, LoginStep(r)
    PROVE  IInv'
<1>1. CASE LoginIssue(r)
  <2>1. PICK n \in Tokens : Create(n, ruid[r], NoToken)
    BY <1>1 DEF LoginIssue
  <2>2. ruid[r] \in Users /\ Return(r) /\ UNCHANGED finished
    BY <1>1 DEF LoginIssue, IInv, Located
  <2>3. TypeOK'
    BY <2>1, <2>2, CreateType, ReturnType DEF IInv, TypeOK
  <2>4. QED BY <2>1, <2>2, <2>3, CreateStep
<1>2. CASE LoginWithoutRefresh(r)
  <2>1. Return(r) /\ UNCHANGED <<rows, lineage, finished>>
    BY <1>2 DEF LoginWithoutRefresh
  <2>2. TypeOK'
    BY <2>1, ReturnType DEF rows, lineage, IInv, TypeOK
  <2>3. QED BY <2>1, <2>2, ReturnFrame, DeletingStep DEF rows, IInv
<1>3. QED BY <1>1, <1>2 DEF LoginStep

LEMMA RefreshInv ==
    ASSUME IInv, NEW r \in Requests, RefreshStep(r)
    PROVE  IInv'
<1>1. CASE MarkUsed(r)
  <2>1. TypeOK'
    BY <1>1 DEF MarkUsed, Markable, lineage, IInv, TypeOK
  <2>2. QED BY <1>1, <2>1, MarkStep
<1>2. CASE MarkUsedNoRow(r)
  <2>1. TypeOK'
    BY <1>2 DEF MarkUsedNoRow, rows, lineage, IInv, TypeOK
  <2>2. /\ UNCHANGED <<rows, lineage, finished>>
        /\ \A q \in Requests \ {r} : pc'[q] = pc[q] /\ ruid'[q] = ruid[q] /\ rtok'[q] = rtok[q]
        /\ pc'[r] = "revokeFamily" /\ rtok'[r] \in issued
    BY <1>2 DEF MarkUsedNoRow, IInv, TypeOK, Located
  <2>3. QED BY <2>1, <2>2, ControlStep
<1>3. CASE MarkUsedFails(r)
  <2>1. Return(r) /\ used' \subseteq Tokens
        /\ UNCHANGED <<table, expired, owner, family, lineage, finished>>
    BY <1>3 DEF MarkUsedFails, Markable, IInv, TypeOK
  <2>2. TypeOK'
    BY <2>1, ReturnType DEF lineage, IInv, TypeOK
  <2>3. QED BY <1>3, <2>2, MarkFailsStep
<1>4. CASE RevokeFamily(r)
  <2>1. /\ Return(r) /\ table' \subseteq table
        /\ UNCHANGED <<used, expired, owner, family, lineage, finished>>
    BY <1>4 DEF RevokeFamily
  <2>2. TypeOK'
    BY <2>1, ReturnType DEF lineage, IInv, TypeOK
  <2>3. QED BY <2>1, <2>2, ReturnFrame, DeletingStep DEF IInv
<1>5. CASE RevokeFamilyFails(r) \/ RefreshIssueFails(r)
  <2>1. Return(r) /\ UNCHANGED <<rows, lineage, finished>>
    BY <1>5 DEF RevokeFamilyFails, RefreshIssueFails
  <2>2. TypeOK'
    BY <2>1, ReturnType DEF rows, lineage, IInv, TypeOK
  <2>3. QED BY <2>1, <2>2, ReturnFrame, DeletingStep DEF rows, IInv
<1>6. CASE RefreshIssue(r)
  <2>1. PICK n \in Tokens : Create(n, owner[rtok[r]], rtok[r])
    BY <1>6 DEF RefreshIssue
  <2>2. pc[r] = "create" /\ Return(r) /\ UNCHANGED finished
    BY <1>6 DEF RefreshIssue
  <2>3. rtok[r] \in Tokens \cup {NoToken} /\ owner[rtok[r]] \in Users
    BY <2>2 DEF IInv, Located, IssuedOnly, TypeOK
  <2>4. TypeOK'
    BY <2>1, <2>2, <2>3, CreateType, ReturnType DEF IInv, TypeOK
  <2>5. QED BY <2>1, <2>2, <2>3, <2>4, CreateStep
<1>7. QED BY <1>1, <1>2, <1>3, <1>4, <1>5, <1>6 DEF RefreshStep

LEMMA PasswordInv ==
    ASSUME IInv, NEW r \in Requests, PasswordStep(r)
    PROVE  IInv'
<1>1. CASE PasswordRevokes(r)
  <2>1. ruid[r] \in Users /\ RevokeUser(ruid[r]) /\ Return(r)
    BY <1>1 DEF PasswordRevokes, IInv, Located
  <2>2. TypeOK'
    BY <2>1, RevokeType, ReturnType DEF IInv, TypeOK
  <2>3. QED BY <2>1, <2>2, ReturnFrame, RevokeStep DEF IInv
<1>2. CASE PasswordRevokeFails(r)
  <2>1. Return(r) /\ UNCHANGED <<rows, lineage, finished>>
    BY <1>2 DEF PasswordRevokeFails
  <2>2. TypeOK'
    BY <2>1, ReturnType DEF rows, lineage, IInv, TypeOK
  <2>3. QED BY <2>1, <2>2, ReturnFrame, DeletingStep DEF rows, IInv
<1>3. QED BY <1>1, <1>2 DEF PasswordStep

\* A logout, the clock and the cleanup task.
LEMMA EnvironmentInv ==
    ASSUME IInv,
           \/ \E u \in Users : Logout(u)
           \/ \E t \in Tokens : Expire(t)
           \/ DeleteExpired
    PROVE  IInv'
<1>1. CASE \E u \in Users : Logout(u)
  <2>1. PICK u \in Users : Logout(u)
    BY <1>1
  <2>2. RevokeUser(u) /\ UNCHANGED <<pc, ruid, rtok>>
    BY <2>1 DEF Logout, locals
  <2>3. TypeOK'
    BY <2>2, RevokeType DEF IInv, TypeOK
  <2>4. QED BY <2>2, <2>3, RevokeStep
<1>2. CASE \/ \E t \in Tokens : Expire(t)
           \/ DeleteExpired
  <2>1. /\ table' \subseteq table /\ expired' \subseteq Tokens
        /\ UNCHANGED <<used, owner, family, pc, ruid, rtok, lineage, finished>>
    BY <1>2 DEF Expire, DeleteExpired, rows, locals, IInv, TypeOK
  <2>2. TypeOK'
    BY <2>1 DEF lineage, IInv, TypeOK
  <2>3. QED BY <2>1, <2>2, DeletingStep
<1>3. QED BY <1>1, <1>2

LEMMA NextInv == IInv /\ [Next]_vars => IInv'
<1>1. ASSUME IInv, UNCHANGED vars PROVE IInv'
  <2>1. UNCHANGED <<table, used, expired, owner, family, pc, ruid, rtok,
                    issued, parent, root, finished>>
    BY <1>1 DEF vars, rows, locals, lineage
  <2>2. TypeOK'
    BY <1>1, <2>1 DEF IInv, TypeOK
  <2>3. QED BY <1>1, <2>1, <2>2, DeletingStep DEF lineage
<1>2. ASSUME IInv, Next PROVE IInv'
  BY <1>2, ArriveInv, LoginInv, RefreshInv, PasswordInv, EnvironmentInv DEF Next
<1>3. QED BY <1>1, <1>2

LEMMA Invariance == Spec => []IInv
<1>1. QED BY InitInv, NextInv, PTL DEF Spec

(***************************************************************************)
(* The theorems                                                            *)
(***************************************************************************)

\* Every variable of the session store keeps its type.
THEOREM SessionTypeCorrect == Spec => []TypeOK
<1>1. IInv => TypeOK
  BY DEF IInv
<1>2. QED BY <1>1, Invariance, PTL

\* The conditional UPDATE of MarkUsed hands the right to insert a successor to
\* one request: a refresh token is exchanged for at most one new token.
THEOREM TokenRotatesOnce == Spec => []SingleSuccessor
<1>1. IInv => SingleSuccessor
  BY DEF IInv
<1>2. QED BY <1>1, Invariance, PTL

\* After logout or a password change nothing of a login that was not being
\* renewed at that moment comes back, whatever requests were under way.
THEOREM RevocationIsFinal == Spec => []RevocationFinal
<1>1. IInv => RevocationFinal
  BY DEF IInv
<1>2. QED BY <1>1, Invariance, PTL

\* Reuse detection deletes rows of the replayed token's login only.
THEOREM ReplayStaysInLogin == Spec => ReplayIsolated
<1>1. IInv /\ [Next]_vars =>
        [\A r \in Requests :
            RevokeFamily(r) => \A t \in table \ table' : root[t] = root[rtok[r]]]_vars
  <2>1. SUFFICES ASSUME IInv, NEW r \in Requests, RevokeFamily(r), NEW t \in table \ table'
                 PROVE  root[t] = root[rtok[r]]
    OBVIOUS
  <2>2. t \in issued /\ rtok[r] \in issued /\ family[t] = family[rtok[r]]
    BY <2>1 DEF RevokeFamily, FamilyRows, IInv, IssuedOnly, Located
  <2>3. t = rtok[r]
    BY <2>1, <2>2 DEF IInv, IssuedOnly
  <2>4. QED BY <2>3
<1>2. QED BY <1>1, Invariance, PTL DEF Spec, ReplayIsolated

(***************************************************************************)
(* Implementing TokenRotation                                              *)
(***************************************************************************)

\* Steps that issue nothing and mark nothing can at most drop live tokens.
LEMMA DropStep ==
    ASSUME table' \subseteq table, UNCHANGED <<used, issued, parent>>
    PROVE  Rotation!Drop
BY DEF Rotation!Drop

\* INSERT after a login is Issue, after a refresh it is Replace.
LEMMA InsertStep ==
    ASSUME IInv, NEW n \in Tokens, NEW u \in Users, NEW from \in Tokens \cup {NoToken},
           Create(n, u, from),
           from # NoToken => from \in used /\ \A s \in issued : parent[s] # from
    PROVE  Rotation!Next
<1>1. /\ n \notin issued /\ n \notin used /\ parent[n] = NoToken
      /\ issued' = issued \cup {n}
      /\ table' \ used' = (table \ used) \cup {n}
      /\ used' = used
      /\ parent' = [parent EXCEPT ![n] = from]
  BY DEF Create, IInv, IssuedOnly
<1>2. CASE from = NoToken
  <2>1. parent' = parent
    BY <1>1, <1>2 DEF IInv, TypeOK
  <2>2. Rotation!Issue(n)
    BY <1>1, <2>1 DEF Rotation!Issue
  <2>3. QED BY <2>2 DEF Rotation!Next
<1>3. CASE from # NoToken
  <2>1. Rotation!Replace(from, n)
    BY <1>1, <1>3 DEF Rotation!Replace
  <2>2. QED BY <1>3, <2>1 DEF Rotation!Next
<1>4. QED BY <1>2, <1>3

\* UPDATE ... used = TRUE is Spend, also when its result never arrives.
LEMMA SpendStep ==
    ASSUME NEW t \in Tokens, Markable(t), used' = used \cup {t},
           UNCHANGED <<table, issued, parent>>
    PROVE  Rotation!Next
<1>1. Rotation!Spend(t)
  BY DEF Markable, Rotation!Spend
<1>2. QED BY <1>1 DEF Rotation!Next

LEMMA RequestRotates ==
    ASSUME IInv, NEW r \in Requests,
           Arrive(r) \/ LoginStep(r) \/ RefreshStep(r) \/ PasswordStep(r)
    PROVE  Rotation!Next
<1>1. CASE LoginIssue(r)
  <2>1. PICK n \in Tokens : Create(n, ruid[r], NoToken)
    BY <1>1 DEF LoginIssue
  <2>2. ruid[r] \in Users
    BY <1>1 DEF LoginIssue, IInv, Located
  <2>3. QED BY <2>1, <2>2, InsertStep
<1>2. CASE RefreshIssue(r)
  <2>1. PICK n \in Tokens : Create(n, owner[rtok[r]], rtok[r])
    BY <1>2 DEF RefreshIssue
  <2>2. /\ rtok[r] \in issued /\ rtok[r] \in Tokens /\ owner[rtok[r]] \in Users
        /\ rtok[r] \in used /\ \A s \in issued : parent[s] # rtok[r]
    BY <1>2 DEF RefreshIssue, IInv, Located, IssuedOnly, SoleSpender, TypeOK
  <2>3. QED BY <2>1, <2>2, InsertStep
<1>3. CASE MarkUsed(r) \/ MarkUsedFails(r)
  <2>1. rtok[r] \in Tokens /\ UNCHANGED <<table, issued, parent>>
    BY <1>3 DEF MarkUsed, MarkUsedFails, lineage, IInv, Located, TypeOK
  <2>2. used' = used \/ (Markable(rtok[r]) /\ used' = used \cup {rtok[r]})
    BY <1>3 DEF MarkUsed, MarkUsedFails
  <2>3. CASE used' = used
    BY <2>1, <2>3, DropStep DEF Rotation!Next
  <2>4. CASE Markable(rtok[r]) /\ used' = used \cup {rtok[r]}
    BY <2>1, <2>4, SpendStep
  <2>5. QED BY <2>2, <2>3, <2>4
<1>4. CASE RevokeFamily(r) \/ PasswordRevokes(r)
  <2>1. table' \subseteq table /\ UNCHANGED <<used, issued, parent>>
    BY <1>4 DEF RevokeFamily, PasswordRevokes, RevokeUser, lineage
  <2>2. QED BY <2>1, DropStep DEF Rotation!Next
<1>5. CASE \/ Arrive(r) \/ LoginWithoutRefresh(r) \/ MarkUsedNoRow(r)
           \/ RevokeFamilyFails(r) \/ RefreshIssueFails(r) \/ PasswordRevokeFails(r)
  <2>1. UNCHANGED <<table, used, issued, parent>>
    BY <1>5 DEF Arrive, LoginVerify, PasswordUpdated, FindByHash, LoginWithoutRefresh,
                MarkUsedNoRow, RevokeFamilyFails, RefreshIssueFails,
                PasswordRevokeFails, rows, lineage
  <2>2. QED BY <2>1, DropStep DEF Rotation!Next
<1>6. QED BY <1>1, <1>2, <1>3, <1>4, <1>5 DEF LoginStep, RefreshStep, PasswordStep

LEMMA EnvironmentRotates ==
    ASSUME \/ \E u \in Users : Logout(u)
           \/ \E t \in Tokens : Expire(t)
           \/ DeleteExpired
    PROVE  Rotation!Next
<1>1. table' \subseteq table /\ UNCHANGED <<used, issued, parent>>
  BY DEF Logout, RevokeUser, Expire, DeleteExpired, rows, lineage
<1>2. QED BY <1>1, DropStep DEF Rotation!Next

\* The session store implements the rotating credential: tokens are spent once,
\* replaced once, and never live again.
THEOREM SessionsImplementRotation == Spec => ImplementsRotation
<1>1. Init => Rotation!Init
  BY DEF Init, Rotation!Init
<1>2. IInv /\ [Next]_vars => [Rotation!Next]_(Rotation!rotationVars)
  <2>1. ASSUME UNCHANGED vars PROVE UNCHANGED Rotation!rotationVars
    BY <2>1 DEF vars, rows, lineage, Rotation!rotationVars
  <2>2. ASSUME IInv, Next PROVE Rotation!Next
    BY <2>2, RequestRotates, EnvironmentRotates DEF Next
  <2>3. QED BY <2>1, <2>2
<1>3. QED BY <1>1, <1>2, Invariance, PTL DEF Spec, ImplementsRotation, Rotation!Spec

(***************************************************************************)
(* The inductive invariant of the administration                           *)
(***************************************************************************)

\* A request under way has a target; only one about to write is overtaken; one
\* that is free holds nothing.
Targets ==
    /\ \A r \in Operations : at[r] # "idle" => target[r] \in Users
    /\ \A r \in Operations : at[r] = "idle" => snap[r] = Admin!NotBanned
    /\ \A r \in late : at[r] = "write"

\* No writer has a super administrator as its target, unless it lifts a ban
\* or is his own: nobody becomes one while the server runs.
Supers ==
    /\ \A r \in Operations :
          at[r] = "write" /\ op[r] \in {"promote", "demote", "ban", "delete"}
              => role[target[r]] # Admin!RoleSuperAdmin
    /\ \A u \in Users : role[u] = Admin!RoleSuperAdmin => ~Admin!Active(ban[u])

\* What the handler read still holds of the row, unless it was overtaken.
Fresh ==
    \A r \in Operations : at[r] = "write" /\ r \notin late =>
        /\ op[r] \in {"ban", "delete"} => role[target[r]] < Admin!RoleAdmin
        /\ op[r] = "promote" => ~Admin!Active(ban[target[r]])

\* No copy of the row of u runs out before the row does, and no lifting of the
\* gate is under way.
Known(u) ==
    /\ u \in present /\ Admin!Active(ban[u])
    /\ ~Admin!Misleads(cached[u], u)
    /\ \A q \in Operations : target[q] = u =>
          ~(at[q] = "write" /\ op[q] = "auto") /\ ~Admin!Misleads(snap[q], u)

Standing == \A u \in stands : Known(u)

AdminInv == Admin!TypeOK /\ Targets /\ Supers /\ Fresh /\ Standing

LEMMA AdminInit == Admin!Init => AdminInv
BY HorizonAssumption
   DEF Admin!Init, AdminInv, Admin!TypeOK, Targets, Supers, Fresh, Standing, Admin!Bans,
       Admin!NotBanned, Admin!Never, Admin!Active, Admin!Ops, Admin!Lifting, Admin!Removing,
       Admin!RoleUser, Admin!RoleAdmin, Admin!RoleSuperAdmin

\* NotBanned never misleads, nor does what the row itself says.
LEMMA Harmless ==
    ASSUME AdminInv, NEW u \in Users
    PROVE  /\ Admin!NotBanned \in Admin!Bans /\ ban[u] \in Admin!Bans
           /\ ~Admin!Misleads(Admin!NotBanned, u)
           /\ ~Admin!Misleads(ban[u], u)
           /\ ~Admin!Misleads(NoCopy, u)
BY HorizonAssumption, NoCopyAssumption
   DEF AdminInv, Admin!TypeOK, Admin!Bans, Admin!NotBanned, Admin!Never, Admin!Misleads

(***************************************************************************)
(* A request arrives                                                       *)
(***************************************************************************)

LEMMA CheckInv ==
    ASSUME AdminInv, NEW r \in Operations, NEW o \in Users, NEW u \in Users,
           NEW o_op \in Admin!Ops \ {"auto", "gate", "leave"}, Admin!Check(r, o, u, o_op)
    PROVE  AdminInv'
<1> USE DEF Admin!Check, Admin!rows, Admin!RoleUser, Admin!RoleAdmin, Admin!RoleSuperAdmin,
        Admin!Ops, Admin!Lifting, Admin!Removing
<1>1. Admin!TypeOK'
  BY DEF AdminInv, Admin!TypeOK
<1>2. Targets'
  BY DEF AdminInv, Admin!TypeOK, Targets
<1>3. /\ o_op \in {"promote", "demote", "ban", "delete"} => role[u] # Admin!RoleSuperAdmin
      /\ o_op \in {"ban", "delete"} => role[u] < Admin!RoleAdmin
      /\ o_op = "promote" => ~Admin!Active(ban[u])
  <2>1. role[u] \in Nat /\ Admin!MayDo(o_op, u)
    BY DEF AdminInv, Admin!TypeOK
  <2>2. CASE o_op = "promote"
    BY <2>1, <2>2 DEF Admin!MayDo
  <2>3. CASE o_op = "demote"
    BY <2>1, <2>3 DEF Admin!MayDo
  <2>4. CASE o_op = "ban"
    BY <2>1, <2>4 DEF Admin!MayDo
  <2>5. CASE o_op = "delete"
    BY <2>1, <2>5 DEF Admin!MayDo
  <2>6. QED BY <2>2, <2>3, <2>4, <2>5
<1>4. Supers'
  BY <1>3 DEF AdminInv, Admin!TypeOK, Supers, Admin!Active
<1>5. Fresh'
  BY <1>3 DEF AdminInv, Admin!TypeOK, Fresh, Admin!Active
<1>6. Standing'
  <2>1. snap[r] = Admin!NotBanned
    BY DEF AdminInv, Targets
  <2>2. QED BY <2>1, Harmless DEF AdminInv, Admin!TypeOK, Standing, Known, Admin!Active, Admin!Misleads
<1>7. QED BY <1>1, <1>2, <1>4, <1>5, <1>6 DEF AdminInv

LEMMA LeaveInv ==
    ASSUME AdminInv, NEW r \in Operations, NEW u \in Users, Admin!Leave(r, u)
    PROVE  AdminInv'
<1> USE DEF Admin!Leave, Admin!rows, Admin!Ops, Admin!Removing
<1>1. Admin!TypeOK' /\ Targets'
  BY DEF AdminInv, Admin!TypeOK, Targets
<1>2. Supers' /\ Fresh'
  BY DEF AdminInv, Admin!TypeOK, Supers, Fresh, Admin!Active
<1>3. Standing'
  <2>1. snap[r] = Admin!NotBanned
    BY DEF AdminInv, Targets
  <2>2. QED BY <2>1, Harmless DEF AdminInv, Admin!TypeOK, Standing, Known, Admin!Active, Admin!Misleads
<1>4. QED BY <1>1, <1>2, <1>3 DEF AdminInv

\* A request comes to hold a ban that misleads nobody about what stands.
LEMMA HoldInv ==
    ASSUME AdminInv, NEW r \in Operations, NEW u \in Users, NEW b \in Admin!Bans,
           NEW step \in {"store", "decide", "login"}, at[r] = "idle",
           u \in stands => ~Admin!Misleads(b, u),
           Admin!Hold(r, u, b, step)
    PROVE  AdminInv'
<1> USE DEF Admin!Hold, Admin!rows
<1>1. Admin!TypeOK' /\ Targets'
  BY DEF AdminInv, Admin!TypeOK, Targets
<1>2. Supers' /\ Fresh'
  BY DEF AdminInv, Admin!TypeOK, Supers, Fresh, Admin!Active
<1>3. Standing'
  BY DEF AdminInv, Admin!TypeOK, Standing, Known, Admin!Active, Admin!Misleads
<1>4. QED BY <1>1, <1>2, <1>3 DEF AdminInv

LEMMA ReadInv ==
    ASSUME AdminInv, NEW r \in Operations, NEW u \in Users,
           \/ Admin!GateHit(r, u) \/ Admin!GateLoad(r, u) \/ Admin!GateJoin(r, u)
           \/ Admin!LoginLoad(r, u)
    PROVE  AdminInv'
<1>1. CASE Admin!GateHit(r, u)
  <2>1. cached[u] \in Admin!Bans /\ (u \in stands => ~Admin!Misleads(cached[u], u))
    BY <1>1 DEF Admin!GateHit, AdminInv, Admin!TypeOK, Standing, Known
  <2>2. QED BY <1>1, <2>1, HoldInv DEF Admin!GateHit
<1>2. CASE Admin!GateLoad(r, u)
  BY <1>2, Harmless, HoldInv DEF Admin!GateLoad
<1>3. CASE Admin!GateJoin(r, u)
  <2>1. PICK q \in Operations : Admin!Loading(q, u) /\ Admin!Hold(r, u, snap[q], "decide")
    BY <1>3 DEF Admin!GateJoin
  <2>2. snap[q] \in Admin!Bans /\ (u \in stands => ~Admin!Misleads(snap[q], u))
    BY <2>1 DEF Admin!Loading, AdminInv, Admin!TypeOK, Standing, Known
  <2>3. QED BY <1>3, <2>1, <2>2, HoldInv DEF Admin!GateJoin
<1>4. CASE Admin!LoginLoad(r, u)
  BY <1>4, Harmless, HoldInv DEF Admin!LoginLoad
<1>5. QED BY <1>1, <1>2, <1>3, <1>4

(***************************************************************************)
(* The gate and the login go on                                            *)
(***************************************************************************)

\* The row that request r holds is cached, or is not.
LEMMA StoreKeeps ==
    ASSUME AdminInv, NEW r \in Operations, at[r] # "idle",
           cached' \in {cached, [cached EXCEPT ![target[r]] = snap[r]]}
    PROVE  /\ cached' \in [Users -> Admin!Bans \cup {NoCopy}]
           /\ \A v \in stands : ~Admin!Misleads(cached'[v], v)
<1>1. target[r] \in Users /\ snap[r] \in Admin!Bans
  BY DEF AdminInv, Admin!TypeOK, Targets
<1>2. cached' \in [Users -> Admin!Bans \cup {NoCopy}]
  BY <1>1 DEF AdminInv, Admin!TypeOK
<1>3. ASSUME NEW v \in stands
      PROVE  ~Admin!Misleads(cached'[v], v)
  <2>1. v \in Users /\ Known(v)
    BY DEF AdminInv, Admin!TypeOK, Standing
  <2>2. cached'[v] = cached[v] \/ (v = target[r] /\ cached'[v] = snap[r])
    BY <1>1, <2>1 DEF AdminInv, Admin!TypeOK
  <2>3. QED BY <2>1, <2>2 DEF Known
<1>4. QED BY <1>2, <1>3

LEMMA GateInv ==
    ASSUME AdminInv, NEW r \in Operations,
           Admin!GateStore(r) \/ Admin!Decide(r) \/ Admin!LoginEnds(r)
    PROVE  AdminInv'
<1> USE DEF Admin!rows, Admin!Return
<1>1. CASE Admin!GateStore(r)
  <2> USE <1>1 DEF Admin!GateStore
  <2>1. Admin!TypeOK' /\ Targets'
    BY StoreKeeps DEF AdminInv, Admin!TypeOK, Targets
  <2>2. Supers' /\ Fresh'
    BY DEF AdminInv, Admin!TypeOK, Supers, Fresh, Admin!Active
  <2>3. Standing'
    BY StoreKeeps DEF AdminInv, Admin!TypeOK, Standing, Known, Admin!Active, Admin!Misleads
  <2>4. QED BY <2>1, <2>2, <2>3 DEF AdminInv
<1>2. CASE Admin!LoginEnds(r)
  <2> USE <1>2 DEF Admin!LoginEnds
  <2>1. target[r] \in Users
    BY DEF AdminInv, Targets
  <2>2. Admin!TypeOK' /\ Targets'
    BY <2>1, Harmless, StoreKeeps DEF AdminInv, Admin!TypeOK, Targets, Admin!Ops
  <2>3. Supers' /\ Fresh'
    BY DEF AdminInv, Admin!TypeOK, Targets, Supers, Fresh, Admin!Active
  <2>4. Standing'
    BY Harmless, StoreKeeps
       DEF AdminInv, Admin!TypeOK, Standing, Known, Admin!Active, Admin!Misleads
  <2>5. QED BY <2>2, <2>3, <2>4 DEF AdminInv
<1>3. CASE Admin!Decide(r)
  <2> USE <1>3 DEF Admin!Decide
  <2>1. target[r] \in Users /\ snap[r] \in Admin!Bans
    BY DEF AdminInv, Admin!TypeOK, Targets
  <2>2. Admin!TypeOK' /\ Targets'
    BY <2>1, Harmless DEF AdminInv, Admin!TypeOK, Targets, Admin!Ops, Admin!Lifting
  <2>3. Supers' /\ Fresh'
    BY DEF AdminInv, Admin!TypeOK, Targets, Supers, Fresh, Admin!Active
  \* What misleads nobody about a ban that is on has not lapsed.
  <2>4. Admin!Lapsed(snap[r]) => target[r] \notin stands
    <3> SUFFICES ASSUME Admin!Lapsed(snap[r]), target[r] \in stands
                 PROVE  FALSE
      OBVIOUS
    <3>1. Admin!Active(ban[target[r]]) /\ ~Admin!Misleads(snap[r], target[r])
      BY DEF AdminInv, Standing, Known
    <3>2. QED BY <2>1, <3>1, Harmless, HorizonAssumption
              DEF Admin!Lapsed, Admin!Active, Admin!Misleads, Admin!Bans, Admin!NotBanned,
                  Admin!Never, AdminInv, Admin!TypeOK
  <2>5. Standing'
    BY <2>1, <2>4, Harmless
       DEF AdminInv, Admin!TypeOK, Standing, Known, Admin!Active, Admin!Misleads
  <2>6. QED BY <2>2, <2>3, <2>5 DEF AdminInv
<1>4. QED BY <1>1, <1>2, <1>3

(***************************************************************************)
(* The write and what follows it                                           *)
(***************************************************************************)

\* What the statement of request r leaves of the rows and of the histories.
LEMMA ApplyKeeps ==
    ASSUME AdminInv, NEW r \in Operations, at[r] = "write", Admin!Apply(r)
    PROVE  /\ present' \subseteq Users
           /\ role' \in [Users -> Admin!RoleUser .. Admin!RoleSuperAdmin]
           /\ ban' \in [Users -> Admin!Bans]
           /\ late' = (late \cup {q \in Operations : at[q] = "write" /\ target[q] = target[r]}) \ {r}
           /\ stands' \subseteq stands
           /\ \A v \in Users \ {target[r]} : role'[v] = role[v] /\ ban'[v] = ban[v]
           /\ \A v \in Users : role'[v] = Admin!RoleSuperAdmin <=> role[v] = Admin!RoleSuperAdmin
           /\ \A v \in Users : role'[v] = Admin!RoleSuperAdmin => ~Admin!Active(ban'[v])
           /\ \A v \in stands' : v \in present' /\ ban'[v] = ban[v]
<1> DEFINE u == target[r]
<1> USE DEF Admin!RoleUser, Admin!RoleAdmin, Admin!RoleSuperAdmin
<1>1. u \in Users
  BY DEF AdminInv, Targets
<1>2. CASE Admin!UpdateRole(r)
  BY <1>1, <1>2
     DEF Admin!Apply, Admin!UpdateRole, AdminInv, Admin!TypeOK, Supers, Standing, Known, Admin!Active
<1>3. CASE Admin!Ban(r)
  <2> USE <1>3 DEF Admin!Ban
  <2>1. PICK b \in now + 1 .. Admin!Never : ban' = [ban EXCEPT ![u] = b]
    OBVIOUS
  <2>2. b \in Admin!Bans
    BY <2>1, HorizonAssumption
       DEF AdminInv, Admin!TypeOK, Admin!Bans, Admin!NotBanned, Admin!Never
  <2>3. role[u] # Admin!RoleSuperAdmin
    BY DEF AdminInv, Supers
  <2>4. QED BY <1>1, <2>1, <2>2, <2>3
            DEF Admin!Apply, AdminInv, Admin!TypeOK, Supers, Standing, Known, Admin!Active
<1>4. CASE Admin!Unban(r)
  <2> USE <1>4 DEF Admin!Unban
  <2>1. u \in stands => op[r] # "auto"
    BY DEF AdminInv, Standing, Known
  <2>2. ~Admin!Active(Admin!NotBanned)
    BY DEF Admin!Active, Admin!NotBanned, AdminInv, Admin!TypeOK
  <2>3. QED BY <1>1, <2>1, <2>2, Harmless
            DEF Admin!Apply, Admin!Lifting, AdminInv, Admin!TypeOK, Supers, Standing, Known,
                Admin!Active
<1>5. CASE Admin!Delete(r)
  BY <1>1, <1>5
     DEF Admin!Apply, Admin!Delete, AdminInv, Admin!TypeOK, Supers, Standing, Known, Admin!Active
<1>6. QED BY <1>2, <1>3, <1>4, <1>5 DEF Admin!Apply

LEMMA WriteInv ==
    ASSUME AdminInv, NEW r \in Operations, at[r] = "write", UNCHANGED <<now, cached>>,
           \/ Admin!Apply(r)
           \/ late' = late \ {r} /\ UNCHANGED <<Admin!rows, stands>>,
           \/ at' = [at EXCEPT ![r] = "invalidate"] /\ UNCHANGED <<op, target, snap>>
           \/ Admin!Return(r)
    PROVE  AdminInv'
<1> DEFINE u == target[r]
<1>1. /\ present' \subseteq Users
      /\ role' \in [Users -> Admin!RoleUser .. Admin!RoleSuperAdmin]
      /\ ban' \in [Users -> Admin!Bans]
      /\ late' \subseteq Operations \ {r} /\ late \ {r} \subseteq late'
      /\ \A q \in late' : at[q] = "write"
      /\ \A q \in Operations \ {r} : at[q] = "write" /\ q \notin late' =>
            role'[target[q]] = role[target[q]] /\ ban'[target[q]] = ban[target[q]]
      /\ stands' \subseteq stands
      /\ \A v \in Users : role'[v] = Admin!RoleSuperAdmin <=> role[v] = Admin!RoleSuperAdmin
      /\ \A v \in Users : role'[v] = Admin!RoleSuperAdmin => ~Admin!Active(ban'[v])
      /\ \A v \in stands' : v \in present' /\ ban'[v] = ban[v]
  <2>1. CASE Admin!Apply(r)
    BY <2>1, ApplyKeeps DEF AdminInv, Admin!TypeOK, Targets
  <2>2. CASE late' = late \ {r} /\ UNCHANGED <<Admin!rows, stands>>
    BY <2>2 DEF Admin!rows, AdminInv, Admin!TypeOK, Targets, Supers, Standing, Known
  <2>3. QED BY <2>1, <2>2
<1>2. /\ at' \in [Operations -> {"idle", "write", "invalidate", "store", "decide", "login"}]
      /\ op' \in [Operations -> Admin!Ops]
      /\ target' \in [Operations -> Users \cup {NoUser}]
      /\ snap' \in [Operations -> Admin!Bans]
      /\ at'[r] \in {"idle", "invalidate"}
      /\ at'[r] = "idle" => snap'[r] = Admin!NotBanned
      /\ at'[r] # "idle" => target'[r] = u /\ snap'[r] = snap[r]
      /\ \A q \in Operations \ {r} :
            at'[q] = at[q] /\ op'[q] = op[q] /\ target'[q] = target[q] /\ snap'[q] = snap[q]
  <2>1. Admin!NotBanned \in Admin!Bans
    BY HorizonAssumption DEF Admin!NotBanned, Admin!Bans, Admin!Never
  <2>2. QED BY <2>1 DEF Admin!Return, AdminInv, Admin!TypeOK, Admin!Ops
<1>3. Admin!TypeOK'
  BY <1>1, <1>2 DEF AdminInv, Admin!TypeOK
<1>4. Targets'
  BY <1>1, <1>2 DEF AdminInv, Targets
<1>5. Supers'
  BY <1>1, <1>2 DEF AdminInv, Targets, Supers, Admin!Active
<1>6. Fresh'
  BY <1>1, <1>2 DEF AdminInv, Fresh, Admin!Active
<1>7. ASSUME NEW v \in stands'
      PROVE  Known(v)'
  <2>1. v \in Users /\ v \in present' /\ ban'[v] = ban[v] /\ Known(v)
    BY <1>1 DEF AdminInv, Admin!TypeOK, Standing
  <2>2. \A q \in Operations : \/ snap'[q] = snap[q] /\ target'[q] = target[q]
                             \/ snap'[q] = Admin!NotBanned
    BY <1>2
  <2>3. \A q \in Operations : target'[q] = v => ~Admin!Misleads(snap'[q], v)
    BY <2>1, <2>2, Harmless DEF Known
  <2>4. \A q \in Operations : target'[q] = v => ~(at'[q] = "write" /\ op'[q] = "auto")
    BY <1>2, <2>1 DEF Known
  <2>5. QED BY <2>1, <2>3, <2>4 DEF Known, Admin!Active, Admin!Misleads
<1>8. QED BY <1>3, <1>4, <1>5, <1>6, <1>7 DEF AdminInv, Standing

LEMMA InvalidateInv ==
    ASSUME AdminInv, NEW r \in Operations, Admin!Invalidate(r)
    PROVE  AdminInv'
<1> USE DEF Admin!Invalidate, Admin!DropCopy, Admin!Return, Admin!rows
<1>1. target[r] \in Users
  BY DEF AdminInv, Targets
<1>2. Admin!TypeOK' /\ Targets'
  BY <1>1, Harmless DEF AdminInv, Admin!TypeOK, Targets, Admin!Ops
<1>3. Supers' /\ Fresh'
  BY DEF AdminInv, Admin!TypeOK, Targets, Supers, Fresh, Admin!Active
<1>4. ASSUME NEW v \in stands'
      PROVE  Known(v)'
  <2>1. v \in Users /\ (v \in stands \/ (v = target[r] /\ Admin!Unchallenged(v)))
    BY <1>1, <1>4 DEF AdminInv, Admin!TypeOK
  <2>2. /\ v \in present /\ Admin!Active(ban[v])
        /\ \A q \in Operations : target[q] = v =>
              ~(at[q] = "write" /\ op[q] = "auto") /\ ~Admin!Misleads(snap[q], v)
    BY <2>1 DEF AdminInv, Standing, Known, Admin!Unchallenged
  <2>3. ~Admin!Misleads(cached'[v], v)
    BY <1>1, <2>1, Harmless DEF AdminInv, Admin!TypeOK, Standing, Known
  <2>4. \A q \in Operations : target'[q] = v => ~Admin!Misleads(snap'[q], v)
    BY <1>1, <2>1, <2>2, Harmless DEF AdminInv, Admin!TypeOK
  <2>5. \A q \in Operations : target'[q] = v => ~(at'[q] = "write" /\ op'[q] = "auto")
    BY <1>1, <2>2 DEF AdminInv, Admin!TypeOK
  <2>6. QED BY <2>2, <2>3, <2>4, <2>5 DEF Known, Admin!Active, Admin!Misleads
<1>5. QED BY <1>2, <1>3, <1>4 DEF AdminInv, Standing

(***************************************************************************)
(* Time                                                                    *)
(***************************************************************************)

LEMMA TickInv ==
    ASSUME AdminInv, Admin!Tick
    PROVE  AdminInv'
<1> USE DEF Admin!Tick, Admin!rows, Admin!locals
<1>1. now \in Nat /\ now' = now + 1 /\ \A v \in Users : ban[v] \in Nat
  BY HorizonAssumption DEF AdminInv, Admin!TypeOK, Admin!Bans, Admin!NotBanned, Admin!Never
<1>2. Admin!TypeOK' /\ Targets'
  BY <1>1, HorizonAssumption DEF AdminInv, Admin!TypeOK, Targets
<1>3. Supers' /\ Fresh'
  BY <1>1 DEF AdminInv, Targets, Supers, Fresh, Admin!Active
<1>4. Standing'
  BY <1>1 DEF AdminInv, Admin!TypeOK, Standing, Known, Admin!Active, Admin!Misleads
<1>5. QED BY <1>2, <1>3, <1>4 DEF AdminInv

LEMMA EvictInv ==
    ASSUME AdminInv, NEW u \in Users, Admin!Evict(u)
    PROVE  AdminInv'
<1> USE DEF Admin!Evict, Admin!rows, Admin!locals
<1>1. Admin!TypeOK' /\ Targets'
  BY DEF AdminInv, Admin!TypeOK, Targets
<1>2. Supers' /\ Fresh'
  BY DEF AdminInv, Supers, Fresh, Admin!Active
<1>3. Standing'
  BY Harmless DEF AdminInv, Admin!TypeOK, Standing, Known, Admin!Active, Admin!Misleads
<1>4. QED BY <1>1, <1>2, <1>3 DEF AdminInv

LEMMA AdminNext == AdminInv /\ [Admin!Next]_Admin!vars => AdminInv'
<1> SUFFICES ASSUME AdminInv, [Admin!Next]_Admin!vars
             PROVE  AdminInv'
  OBVIOUS
<1>1. ASSUME NEW r \in Operations, Admin!Arrive(r)
      PROVE  AdminInv'
  BY <1>1, CheckInv, LeaveInv, ReadInv DEF Admin!Arrive
<1>2. ASSUME NEW r \in Operations, Admin!RequestStep(r)
      PROVE  AdminInv'
  <2>1. CASE Admin!Write(r) \/ Admin!WriteFails(r)
    BY <2>1, WriteInv DEF Admin!Write, Admin!WriteFails
  <2>2. QED BY <1>2, <2>1, GateInv, InvalidateInv DEF Admin!RequestStep
<1>3. CASE UNCHANGED Admin!vars
  <2> USE <1>3 DEF Admin!vars, Admin!rows, Admin!locals
  <2>1. Admin!TypeOK' /\ Targets' /\ Supers' /\ Fresh'
    BY DEF AdminInv, Admin!TypeOK, Targets, Supers, Fresh, Admin!Active
  <2>2. Standing'
    BY DEF AdminInv, Standing, Known, Admin!Active, Admin!Misleads
  <2>3. QED BY <2>1, <2>2 DEF AdminInv
<1>4. QED BY <1>1, <1>2, <1>3, TickInv, EvictInv DEF Admin!Next

LEMMA AdminInvariance == Admin!Spec => []AdminInv
BY AdminInit, AdminNext, PTL DEF Admin!Spec

(***************************************************************************)
(* What the administration guarantees                                      *)
(***************************************************************************)

\* A ban nothing of an earlier one was under way for when BanUser returned is
\* never lifted by the gate.
LEMMA BanIsNotLifted == Admin!Spec => []Admin!BanStands
<1>1. AdminInv => Admin!BanStands
  BY DEF AdminInv, Standing, Known, Admin!BanStands
<1>2. QED BY <1>1, AdminInvariance, PTL

\* Only the statement of a request changes rows, and no time passes over it.
LEMMA RowsRest ==
    ASSUME Admin!Next
    PROVE  \/ UNCHANGED Admin!rows
           \/ UNCHANGED now /\ \E r \in Operations : at[r] = "write" /\ Admin!Apply(r)
BY DEF Admin!Next, Admin!Arrive, Admin!RequestStep, Admin!Check, Admin!Leave, Admin!GateHit,
       Admin!GateLoad, Admin!GateJoin, Admin!GateStore, Admin!Decide, Admin!LoginLoad,
       Admin!LoginEnds, Admin!Hold, Admin!Write, Admin!WriteFails, Admin!Invalidate, Admin!Tick,
       Admin!Evict, Admin!rows

\* The clock only moves forward: what is banned later was banned before.
LEMMA TimePasses ==
    ASSUME AdminInv, Admin!Next, AdminInv', NEW v \in Users, Admin!Active(ban[v])'
    PROVE  Admin!Active(ban'[v])
<1>1. now' \in Nat /\ now \in Nat /\ ban'[v] \in Nat
  BY HorizonAssumption DEF AdminInv, Admin!TypeOK, Admin!Bans, Admin!NotBanned, Admin!Never
<1>2. now' = now \/ now' = now + 1
  BY DEF Admin!Next, Admin!Arrive, Admin!RequestStep, Admin!Check, Admin!Leave, Admin!GateHit,
       Admin!GateLoad, Admin!GateJoin, Admin!GateStore, Admin!Decide, Admin!LoginLoad,
       Admin!LoginEnds, Admin!Hold, Admin!Write, Admin!WriteFails, Admin!Invalidate, Admin!Tick,
       Admin!Evict
<1>3. QED BY <1>1, <1>2 DEF Admin!Active

\* Of two overlapping handlers each may write on what the other changed, but a
\* super administrator is out of every handler's reach but his own.
LEMMA SuperIsNeverDeposed == Admin!Spec => Admin!SuperStands
<1> DEFINE Kept == \A u \in present : role[u] = Admin!RoleSuperAdmin =>
                      \/ u \in present' /\ role'[u] = Admin!RoleSuperAdmin /\ ~Admin!Active(ban'[u])
                      \/ Admin!LeavesNow(u)
<1>1. ASSUME AdminInv, Admin!Next, AdminInv'
      PROVE  Kept
  <2> SUFFICES ASSUME NEW u \in present, role[u] = Admin!RoleSuperAdmin, ~Admin!LeavesNow(u)
               PROVE  u \in present' /\ role'[u] = Admin!RoleSuperAdmin /\ ~Admin!Active(ban'[u])
    OBVIOUS
  <2>1. u \in Users
    BY <1>1 DEF AdminInv, Admin!TypeOK
  <2>2. CASE \E r \in Operations : at[r] = "write" /\ Admin!Apply(r)
    <3> PICK r \in Operations : at[r] = "write" /\ Admin!Apply(r)
      BY <2>2
    <3>1. role'[u] = Admin!RoleSuperAdmin /\ ~Admin!Active(ban'[u])
      BY <1>1, <2>1, ApplyKeeps
    <3>2. target[r] = u => op[r] # "delete"
      BY <1>1 DEF AdminInv, Supers
    <3>3. u \in present'
      BY <3>2 DEF Admin!Apply, Admin!UpdateRole, Admin!Ban, Admin!Unban, Admin!Delete,
                  Admin!Removing, Admin!LeavesNow
    <3>4. QED BY <3>1, <3>3
  <2>3. CASE UNCHANGED Admin!rows
    BY <1>1, <2>1, <2>3 DEF AdminInv, Supers, Admin!rows
  <2>4. QED BY <1>1, <2>2, <2>3, RowsRest
<1>2. ASSUME UNCHANGED Admin!vars, AdminInv
      PROVE  Kept
  BY <1>2 DEF Admin!vars, Admin!rows, AdminInv, Admin!TypeOK, Supers
<1>3. AdminInv /\ AdminInv' /\ [Admin!Next]_Admin!vars => Kept
  BY <1>1, <1>2
<1>4. QED BY <1>3, AdminInvariance, PTL DEF Admin!Spec, Admin!SuperStands

\* An administrator is deleted or banned only by a request whose read of the
\* row another request overtook: the checks of the handlers are enough for
\* every other schedule.
LEMMA ChecksAreEnough == Admin!Spec => Admin!ChecksHold
<1> DEFINE Hit(u) == (u \notin present' /\ role[u] >= Admin!RoleAdmin /\ ~Admin!LeavesNow(u))
                        \/ (Admin!BannedAdmin(u)' /\ ~Admin!BannedAdmin(u))
<1> DEFINE Overtaken == \A u \in present : Hit(u) => \E r \in late : target[r] = u
<1>1. ASSUME AdminInv, Admin!Next, AdminInv'
      PROVE  Overtaken
  <2> SUFFICES ASSUME NEW u \in present, Hit(u)
               PROVE  \E r \in late : target[r] = u
    OBVIOUS
  <2> USE DEF Admin!RoleUser, Admin!RoleAdmin, Admin!RoleSuperAdmin
  <2>1. u \in Users
    BY <1>1 DEF AdminInv, Admin!TypeOK
  <2>2. CASE \E r \in Operations : at[r] = "write" /\ Admin!Apply(r)
    <3> PICK r \in Operations : at[r] = "write" /\ Admin!Apply(r)
      BY <2>2
    <3> USE DEF Admin!Apply, Admin!UpdateRole, Admin!Ban, Admin!Unban, Admin!Delete,
                Admin!Removing, Admin!Lifting
    <3>1. Admin!BannedAdmin(u)' => role'[u] >= Admin!RoleAdmin /\ Admin!Active(ban'[u])
      BY <1>1, <2>1, TimePasses DEF Admin!BannedAdmin
    <3>2. target[r] = u
      <4> SUFFICES ASSUME target[r] # u
                   PROVE  FALSE
        OBVIOUS
      <4>1. role'[u] = role[u] /\ ban'[u] = ban[u]
        BY <1>1, <2>1, ApplyKeeps
      <4>2. u \in present'
        OBVIOUS
      <4>3. QED BY <3>1, <4>1, <4>2 DEF Admin!BannedAdmin
    <3>3. CASE u \notin present' /\ role[u] >= Admin!RoleAdmin /\ ~Admin!LeavesNow(u)
      <4>1. op[r] = "delete"
        BY <3>2, <3>3 DEF Admin!LeavesNow
      <4>2. QED BY <1>1, <2>1, <3>2, <3>3, <4>1 DEF AdminInv, Admin!TypeOK, Fresh
    <3>4. CASE Admin!BannedAdmin(u)' /\ ~Admin!BannedAdmin(u)
      <4>1. now \in Nat /\ ~Admin!Active(Admin!NotBanned)
        BY <1>1 DEF AdminInv, Admin!TypeOK, Admin!Active, Admin!NotBanned
      <4>2. op[r] \in {"promote", "ban"}
        BY <1>1, <2>1, <3>1, <3>2, <3>4, <4>1 DEF Admin!BannedAdmin, AdminInv, Admin!TypeOK
      <4>3. op[r] = "ban" => role'[u] = role[u]
        OBVIOUS
      <4>4. op[r] = "promote" => ban'[u] = ban[u]
        OBVIOUS
      <4>5. QED BY <1>1, <2>1, <3>1, <3>2, <3>4, <4>2, <4>3, <4>4
                DEF Admin!BannedAdmin, AdminInv, Admin!TypeOK, Fresh
    <3>5. QED BY <3>3, <3>4
  <2>3. CASE UNCHANGED Admin!rows
    BY <1>1, <2>1, <2>3, TimePasses DEF Admin!BannedAdmin, Admin!rows
  <2>4. QED BY <1>1, <2>2, <2>3, RowsRest
<1>2. ASSUME UNCHANGED Admin!vars
      PROVE  Overtaken
  BY <1>2 DEF Admin!vars, Admin!rows, Admin!BannedAdmin, Admin!Active
<1>3. AdminInv /\ AdminInv' /\ [Admin!Next]_Admin!vars => Overtaken
  BY <1>1, <1>2
<1>4. QED BY <1>3, AdminInvariance, PTL DEF Admin!Spec, Admin!ChecksHold

(***************************************************************************)
(* Accounts runs as its parts say                                          *)
(***************************************************************************)

\* The roles run as UserAdmin says, or rest.
LEMMA RunsAdmin == AccountsSpec => Admin!Spec
<1>1. AccountsInit => Admin!Init
  BY DEF AccountsInit
<1>2. AccountsNext => [Admin!Next]_Admin!vars
  BY DEF AccountsNext, Admin!vars, Admin!rows, Admin!locals, roleVars
<1>3. UNCHANGED <<topic, tokenVars, roleVars, clientVars>> => UNCHANGED Admin!vars
  BY DEF roleVars, Admin!vars, Admin!rows, Admin!locals
<1>4. QED BY <1>1, <1>2, <1>3, PTL DEF AccountsSpec, Admin!Spec

\* The provider runs as OAuthProvider says, or rests.
LEMMA RunsProvider == AccountsSpec => ProviderProofs!Spec
<1>1. AccountsInit => ProviderProofs!Init
  BY DEF AccountsInit, Provider!Init, ProviderProofs!Init
<1>2. Provider!Next => ProviderProofs!Next
  BY DEF Provider!Next, Provider!Authorize, Provider!Redeem, Provider!Revoke,
       Provider!Disable, Provider!Remove, Provider!CreateCode, Provider!CreateCodeFails,
       Provider!UpsertGrant, Provider!TokenStep, Provider!RevokeStep, Provider!Enable,
       Provider!Leave, Provider!CodeAges, Provider!RevokeToken, Provider!PairAges,
       Provider!Presented, Provider!Return, Provider!Goto, Provider!GrantOf,
       Provider!Usable, Provider!Chain, Provider!Spendable, Provider!TakeOut,
       Provider!Spend, Provider!SpendFails, Provider!DropAccessRow, Provider!Retire,
       Provider!AddAccess, Provider!InsertAccess, Provider!InsertAccessFails,
       Provider!AddRefresh, Provider!InsertRefresh, Provider!InsertRefreshFails,
       Provider!Undo, Provider!Answer, Provider!StartRevoking, Provider!DropAccess,
       Provider!DropRefresh, Provider!DropGrant, Provider!SetClient, Provider!Creating,
       Provider!OwnedBy, Provider!Without, Provider!clients, Provider!tokens,
       Provider!locals, ProviderProofs!Next, ProviderProofs!Authorize,
       ProviderProofs!Redeem, ProviderProofs!Revoke, ProviderProofs!Disable,
       ProviderProofs!Remove, ProviderProofs!CreateCode, ProviderProofs!CreateCodeFails,
       ProviderProofs!UpsertGrant, ProviderProofs!TokenStep, ProviderProofs!RevokeStep,
       ProviderProofs!Enable, ProviderProofs!Leave, ProviderProofs!CodeAges,
       ProviderProofs!RevokeToken, ProviderProofs!PairAges, ProviderProofs!Presented,
       ProviderProofs!Return, ProviderProofs!Goto, ProviderProofs!GrantOf,
       ProviderProofs!Usable, ProviderProofs!Chain, ProviderProofs!Spendable,
       ProviderProofs!TakeOut, ProviderProofs!Spend, ProviderProofs!SpendFails,
       ProviderProofs!DropAccessRow, ProviderProofs!Retire, ProviderProofs!AddAccess,
       ProviderProofs!InsertAccess, ProviderProofs!InsertAccessFails,
       ProviderProofs!AddRefresh, ProviderProofs!InsertRefresh,
       ProviderProofs!InsertRefreshFails, ProviderProofs!Undo, ProviderProofs!Answer,
       ProviderProofs!StartRevoking, ProviderProofs!DropAccess, ProviderProofs!DropRefresh,
       ProviderProofs!DropGrant, ProviderProofs!SetClient, ProviderProofs!Creating,
       ProviderProofs!OwnedBy, ProviderProofs!Without, ProviderProofs!clients,
       ProviderProofs!tokens, ProviderProofs!locals
<1>3. AccountsNext => ProviderProofs!Next \/ UNCHANGED ProviderProofs!vars
  BY <1>2 DEF AccountsNext, ProviderProofs!vars, ProviderProofs!clients, ProviderProofs!tokens,
       ProviderProofs!locals, clientVars
<1>4. UNCHANGED <<topic, tokenVars, roleVars, clientVars>> => UNCHANGED ProviderProofs!vars
  BY DEF clientVars, ProviderProofs!vars, ProviderProofs!clients, ProviderProofs!tokens,
       ProviderProofs!locals
<1>5. QED BY <1>1, <1>3, <1>4, PTL DEF AccountsSpec, ProviderProofs!Spec

LEMMA CodesAreRandom == ProviderProofs!RandomTokens
BY OwnerAssumption, CodesAssumption
   DEF ProviderProofs!RandomTokens, ProviderProofs!Owners, ProviderProofs!Presented

(***************************************************************************)
(* Theorems                                                                *)
(***************************************************************************)

\* Rows, copies of them and the administration's requests keep their types.
THEOREM AdminTypeCorrect == AccountsSpec => []Admin!TypeOK
<1>1. AdminInv => Admin!TypeOK
  BY DEF AdminInv
<1>2. QED BY <1>1, RunsAdmin, AdminInvariance, PTL

\* A ban lasts until it runs out, is replaced or is lifted by UnbanUser, unless
\* the gate was lifting one or somebody held a row with an earlier ban that ends
\* sooner when BanUser returned; every copy of a row runs out by itself.
THEOREM BanLasts == AccountsSpec => []BanStands
BY RunsAdmin, BanIsNotLifted, PTL DEF BanStands

\* Overlapping handlers never demote or ban a super administrator, nor delete
\* one who did not ask for it.
THEOREM SuperIsSafe == AccountsSpec => SuperStands
BY RunsAdmin, SuperIsNeverDeposed, PTL DEF SuperStands

\* Only a request that was overtaken deletes or bans an administrator.
THEOREM OnlyOvertakenHarm == AccountsSpec => ChecksHold
BY RunsAdmin, ChecksAreEnough, PTL DEF ChecksHold

\* A client's login has one access token besides those of failed statements.
THEOREM OneAccessPerLogin == AccountsSpec => []OneAccess
<1>1. ProviderProofs!OneAccess => OneAccess
  BY DEF OneAccess, Provider!OneAccess, ProviderProofs!OneAccess
<1>2. QED BY <1>1, RunsProvider, CodesAreRandom, ProviderProofs!LoginHasOneAccess, PTL

\* The revocation of a client's tokens is final for a login no request was
\* creating a token of.
THEOREM ClientRevocationIsFinal == AccountsSpec => []ClientRevocationFinal
<1>1. ProviderProofs!RevocationFinal => ClientRevocationFinal
  BY DEF ClientRevocationFinal, Provider!RevocationFinal, Provider!Creating, Provider!Chain,
         ProviderProofs!RevocationFinal, ProviderProofs!Creating, ProviderProofs!Chain
<1>2. QED BY <1>1, RunsProvider, CodesAreRandom, ProviderProofs!ProviderRevocationIsFinal, PTL

\* Codes and refresh tokens of clients are spent once and replaced once.
THEOREM ClientTokensRotate == AccountsSpec => ClientRotation
<1>1. ProviderProofs!ImplementsRotation => ClientRotation
  BY PTL
  DEF ClientRotation, Provider!ImplementsRotation, Provider!Presented,
      Provider!Rotation!Spec, Provider!Rotation!Init, Provider!Rotation!Next,
      Provider!Rotation!rotationVars, Provider!Rotation!Issue, Provider!Rotation!Spend,
      Provider!Rotation!Replace, Provider!Rotation!Drop,
      ProviderProofs!ImplementsRotation, ProviderProofs!Presented,
      ProviderProofs!Rotation!Spec, ProviderProofs!Rotation!Init,
      ProviderProofs!Rotation!Next, ProviderProofs!Rotation!rotationVars,
      ProviderProofs!Rotation!Issue, ProviderProofs!Rotation!Spend,
      ProviderProofs!Rotation!Replace, ProviderProofs!Rotation!Drop
<1>2. QED BY <1>1, RunsProvider, CodesAreRandom, ProviderProofs!ProviderImplementsRotation, PTL
=============================================================================
