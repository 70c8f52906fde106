---------------------------- MODULE SessionTokens ----------------------------
(***************************************************************************)
(* The refresh tokens of internal/services/session.go and the table        *)
(* session_tokens of internal/models/session_token.go, driven by the       *)
(* handlers that issue, rotate and revoke them (login, refresh, logout,    *)
(* password change and reset) in internal/handlers/auth.                   *)
(*                                                                         *)
(* Every SQL statement is one step; a handler is the sequence of its       *)
(* statements, and any other handler, the cleanup task or the clock may    *)
(* run between two of them.  A statement may fail, and an UPDATE may       *)
(* commit although the handler is told that it failed.                     *)
(*                                                                         *)
(* Bans are left out.  A banned user's login issues no refresh token,      *)
(* which LoginWithoutRefresh covers.  The column "banned" of the table is  *)
(* written FALSE by both calls of generateRefreshToken (session.go:166,    *)
(* 232) and never updated, so no refresh reaches the branch that tests it. *)
(***************************************************************************)
EXTENDS FiniteSets

CONSTANTS
    Users,
    Requests,   \* handler invocations that may run at the same time
    Tokens,     \* refresh tokens the random generator can draw (bound)
    NoUser, NoToken

ASSUME NullAssumption == NoUser \notin Users /\ NoToken \notin Tokens

VARIABLES
    table,      \* tokens that have a row in session_tokens
    used,       \* rows whose column used is TRUE (kept when the row is deleted)
    expired,    \* tokens past expires_at
    owner,      \* column user_uid
    family,     \* column family_id
    pc, ruid, rtok, \* request: next step, user, token
    issued,     \* history: tokens that were inserted
    parent,     \* history: the token a refresh replaced by this one
    root,       \* history: the first token of the login a token descends from
    finished    \* history: logins that were revoked with no refresh under way

rows    == <<table, used, expired, owner, family>>
locals  == <<pc, ruid, rtok>>
lineage == <<issued, parent, root>>
vars == <<rows, locals, lineage, finished>>

TypeOK ==
    /\ table \subseteq Tokens
    /\ used \subseteq Tokens
    /\ expired \subseteq Tokens
    /\ owner \in [Tokens -> Users \cup {NoUser}]
    /\ family \in [Tokens -> Tokens \cup {NoToken}]
    /\ \A t \in table : owner[t] \in Users
    /\ pc \in [Requests -> {"idle", "login", "mark", "create", "revokeFamily",
                            "revokeUser"}]
    /\ ruid \in [Requests -> Users \cup {NoUser}]
    /\ rtok \in [Requests -> Tokens \cup {NoToken}]
    /\ issued \subseteq Tokens
    /\ parent \in [Tokens -> Tokens \cup {NoToken}]
    /\ root \in [Tokens -> Tokens \cup {NoToken}]
    /\ finished \subseteq Tokens

Init ==
    /\ table = {}
    /\ used = {}
    /\ expired = {}
    /\ owner = [t \in Tokens |-> NoUser]
    /\ family = [t \in Tokens |-> NoToken]
    /\ pc = [r \in Requests |-> "idle"]
    /\ ruid = [r \in Requests |-> NoUser]
    /\ rtok = [r \in Requests |-> NoToken]
    /\ issued = {}
    /\ parent = [t \in Tokens |-> NoToken]
    /\ root = [t \in Tokens |-> NoToken]
    /\ finished = {}

\* The handler returns and forgets its local variables.
Return(r) ==
    /\ pc' = [pc EXCEPT ![r] = "idle"]
    /\ ruid' = [ruid EXCEPT ![r] = NoUser]
    /\ rtok' = [rtok EXCEPT ![r] = NoToken]

(***************************************************************************)
(* The table                                                               *)
(***************************************************************************)

\* Mutant: all tokens carry the same family.
SharedFamily(n, from) == CHOOSE t \in Tokens : TRUE

\* Every token that is created starts a family of its own.
FamilyOf(n, from) == n

\* INSERT of a fresh token n for user u; from is the token it replaces.
Create(n, u, from) ==
    /\ n \notin issued
    /\ table' = table \cup {n}
    /\ owner' = [owner EXCEPT ![n] = u]
    /\ family' = [family EXCEPT ![n] = FamilyOf(n, from)]
    /\ issued' = issued \cup {n}
    /\ parent' = [parent EXCEPT ![n] = from]
    /\ root' = [root EXCEPT ![n] = IF from = NoToken THEN n ELSE root[from]]
    /\ UNCHANGED <<used, expired>>

\* Mutants: the UPDATE without "used = FALSE", and a MarkUsed that does not
\* notice that no row was affected because the row is gone.
MarkableAgain(t) == t \in table
MarkableWithoutRow(t) == t \notin used

\* The rows UPDATE ... WHERE id = $1 AND used = FALSE matches.
Markable(t) == t \in table \ used

\* The rows DELETE ... WHERE family_id = $1 and WHERE user_uid = $1 match.
FamilyRows(f) == {t \in table : family[t] = f}
UserRows(u) == {t \in table : owner[t] = u}

\* Logins of u that no request is in the middle of renewing.
Quiet(u) ==
    {root[t] : t \in {s \in issued : owner[s] = u}}
        \ {root[rtok[r]] : r \in {q \in Requests : pc[q] = "create"}}

RevokeUser(u) ==
    /\ table' = table \ UserRows(u)
    /\ finished' = finished \cup Quiet(u)
    /\ UNCHANGED <<used, expired, owner, family, lineage>>

(***************************************************************************)
(* Login                                                                   *)
(***************************************************************************)

\* The row of u is read and the password is right.
LoginVerify(r, u) ==
    /\ pc[r] = "idle"
    /\ pc' = [pc EXCEPT ![r] = "login"]
    /\ ruid' = [ruid EXCEPT ![r] = u]
    /\ UNCHANGED <<rows, rtok, lineage, finished>>

\* GenerateTokens.
LoginIssue(r) ==
    /\ pc[r] = "login"
    /\ \E n \in Tokens : Create(n, ruid[r], NoToken)
    /\ Return(r)
    /\ UNCHANGED finished

LoginWithoutRefresh(r) ==
    /\ pc[r] = "login"      \* the user is banned, or the INSERT fails
    /\ Return(r)
    /\ UNCHANGED <<rows, lineage, finished>>

(***************************************************************************)
(* Refresh: any token ever handed out may be presented, by several         *)
(* requests and again.  An unknown or expired one is refused at once.      *)
(***************************************************************************)

FindByHash(r, t) ==
    /\ pc[r] = "idle"
    /\ t \in table \ expired
    /\ pc' = [pc EXCEPT ![r] = IF t \in used THEN "revokeFamily" ELSE "mark"]
    /\ rtok' = [rtok EXCEPT ![r] = t]
    /\ UNCHANGED <<rows, ruid, lineage, finished>>

MarkUsed(r) ==
    /\ pc[r] = "mark"
    /\ Markable(rtok[r])
    /\ used' = used \cup {rtok[r]}
    /\ pc' = [pc EXCEPT ![r] = "create"]
    /\ UNCHANGED <<table, expired, owner, family, ruid, rtok,
                   lineage, finished>>

\* No row matched: another request spent the token, or its row is gone.
MarkUsedNoRow(r) ==
    /\ pc[r] = "mark"
    /\ ~Markable(rtok[r])
    /\ pc' = [pc EXCEPT ![r] = "revokeFamily"]
    /\ UNCHANGED <<rows, ruid, rtok, lineage, finished>>

\* The UPDATE reports an error; it may have been applied all the same.
MarkUsedFails(r) ==
    /\ pc[r] = "mark"
    /\ \/ used' = used
       \/ Markable(rtok[r]) /\ used' = used \cup {rtok[r]}
    /\ Return(r)
    /\ UNCHANGED <<table, expired, owner, family, lineage, finished>>

RevokeFamily(r) ==
    /\ pc[r] = "revokeFamily"
    /\ table' = table \ FamilyRows(family[rtok[r]])
    /\ Return(r)
    /\ UNCHANGED <<used, expired, owner, family, lineage, finished>>

\* The result of RevokeFamily is not looked at.
RevokeFamilyFails(r) ==
    /\ pc[r] = "revokeFamily"
    /\ Return(r)
    /\ UNCHANGED <<rows, lineage, finished>>

RefreshIssue(r) ==
    /\ pc[r] = "create"
    /\ \E n \in Tokens : Create(n, owner[rtok[r]], rtok[r])
    /\ Return(r)
    /\ UNCHANGED finished

\* The INSERT fails, or the process dies first: the token stays spent.
RefreshIssueFails(r) ==
    /\ pc[r] = "create"
    /\ Return(r)
    /\ UNCHANGED <<rows, lineage, finished>>

(***************************************************************************)
(* Revocation                                                              *)
(***************************************************************************)

\* ResetPassword and ChangePassword have stored the new password.
PasswordUpdated(r, u) ==
    /\ pc[r] = "idle"
    /\ pc' = [pc EXCEPT ![r] = "revokeUser"]
    /\ ruid' = [ruid EXCEPT ![r] = u]
    /\ UNCHANGED <<rows, rtok, lineage, finished>>

PasswordRevokes(r) ==
    /\ pc[r] = "revokeUser"
    /\ RevokeUser(ruid[r])
    /\ Return(r)

\* A failed revocation is logged, and the password change is reported done.
PasswordRevokeFails(r) ==
    /\ pc[r] = "revokeUser"
    /\ Return(r)
    /\ UNCHANGED <<rows, lineage, finished>>

Logout(u) ==
    /\ RevokeUser(u)
    /\ UNCHANGED locals

(***************************************************************************)
(* The rest of the system                                                  *)
(***************************************************************************)

Expire(t) ==
    /\ t \in table \ expired
    /\ expired' = expired \cup {t}
    /\ UNCHANGED <<table, used, owner, family, locals, lineage, finished>>

DeleteExpired ==
    /\ table \cap expired # {}
    /\ table' = table \ expired
    /\ UNCHANGED <<used, expired, owner, family, locals, lineage, finished>>

LoginStep(r) == LoginIssue(r) \/ LoginWithoutRefresh(r)

RefreshStep(r) ==
    \/ MarkUsed(r) \/ MarkUsedNoRow(r) \/ MarkUsedFails(r)
    \/ RevokeFamily(r) \/ RevokeFamilyFails(r)
    \/ RefreshIssue(r) \/ RefreshIssueFails(r)

PasswordStep(r) == PasswordRevokes(r) \/ PasswordRevokeFails(r)

Arrive(r) ==
    \/ \E u \in Users : LoginVerify(r, u) \/ PasswordUpdated(r, u)
    \/ \E t \in Tokens : FindByHash(r, t)

Next ==
    \/ \E r \in Requests : Arrive(r) \/ LoginStep(r) \/ RefreshStep(r) \/ PasswordStep(r)
    \/ \E u \in Users : Logout(u)
    \/ \E t \in Tokens : Expire(t)
    \/ DeleteExpired

Spec == Init /\ [][Next]_vars

(***************************************************************************)
(* Properties                                                              *)
(***************************************************************************)

\* However many requests present the same refresh token, and however their
\* statements interleave, it is exchanged for at most one successor.
SingleSuccessor ==
    \A a, b \in issued : parent[a] = parent[b] /\ parent[a] # NoToken => a = b

\* Logout, password change and reset are final for every login that is not in
\* the middle of a renewal at that moment: no row descending from it ever
\* appears again, even from requests that had already read its token.
RevocationFinal ==
    \A t \in table : root[t] \notin finished

\* Reuse detection hits nobody else: the rows it deletes descend from the login
\* of the replayed token.  The user's other devices keep their sessions, and
\* so do all other users.
ReplayIsolated ==
    [][\A r \in Requests :
          RevokeFamily(r) =>
              \A t \in table \ table' : root[t] = root[rtok[r]]]_vars

\* The table implements a rotating credential: every token is spent at most
\* once, has at most one successor, and never becomes live again.
Rotation == INSTANCE TokenRotation WITH live <- table \ used, spent <- used
ImplementsRotation == Rotation!Spec

\* The comment of RefreshTokens: when a used token is replayed, the whole
\* family is revoked, so that nothing descending from the same login remains.
ReplayRevokesFamily ==
    [][\A r \in Requests :
          RevokeFamily(r) => \A t \in table' : root[t] # root[rtok[r]]]_vars
=============================================================================
