---------------------------- MODULE OAuthProvider ----------------------------
(***************************************************************************)
(* The OAuth provider: internal/services/oauth.go and the tables of        *)
(* internal/models/oauth_token.go and oauth_client.go, called by the       *)
(* handlers of internal/handlers/oauth/provider.go, by the revocation of a *)
(* grant in user/account.go and by admin/oauth.go.                         *)
(*                                                                         *)
(* An authorization code is exchanged for a pair of an access and a        *)
(* refresh token, and a refresh token for the next pair.  Every SQL        *)
(* statement is a step of its own; it may fail, and it may fail after it   *)
(* was applied.  Two reads with no write between them are one step: the    *)
(* validation of the client and the look-up of the token, since what       *)
(* happens between them has the same outcome after both.                   *)
(*                                                                         *)
(* A pair stands for its two tokens, each with a row in a table of its     *)
(* own.  Codes are random, so whose they are is a constant.  Clients keep  *)
(* to the protocol (secret, redirect URI and PKCE verifier are right):     *)
(* other requests are refused before any write.                            *)
(***************************************************************************)
CONSTANTS Users, Clients, Codes, Pairs, Requests, Owner, NoToken

Owners == Users \X Clients
Presented == Codes \cup Pairs

VARIABLES
    here,       \* table users: the users that have a row
    client,     \* table oauth_clients: "on" and "off" are is_enabled
    authCode,   \* table oauth_auth_codes; a used row is as good as a deleted one
    access,     \* table oauth_access_tokens: the row of a pair, "left" when it
                \* was left behind by a statement that reported an error
    refresh,    \* table oauth_refresh_tokens: the row of a pair, "unsent" while
                \* no client has it, "stale" past its expires_at
    grant,      \* table oauth_grants: <<user, client>>
    origin,     \* the code a pair goes back to, NoToken while it is not created
    todo, tok, new, \* request: next step, token it redeems, pair it creates
    tgt, goal,      \* revoking request: owners it covers, what becomes of the client
    before,     \* history: the token a refresh token was issued for
    consumed,   \* history: pairs whose refresh token was consumed
    over        \* history: codes whose tokens were revoked while no request
                \* was creating one

clients == <<here, client>>
tokens  == <<authCode, access, refresh, origin, before, consumed>>
locals  == <<todo, tok, new, tgt, goal>>
vars    == <<clients, tokens, grant, locals, over>>

TypeOK ==
    /\ here \subseteq Users
    /\ client \in [Clients -> {"on", "off", "gone"}]
    /\ authCode \in [Codes -> {"new", "open", "expired", "used", "void"}]
    /\ access \in [Pairs -> {"none", "paired", "left"}]
    /\ refresh \in [Pairs -> {"none", "unsent", "fresh", "stale"}]
    /\ grant \subseteq Owners
    /\ origin \in [Pairs -> Codes \cup {NoToken}]
    /\ todo \in [Requests -> {"idle", "code", "grant", "spend", "retire", "access", "refresh",
                            "undo", "answer", "dropAccess", "dropRefresh", "dropGrant", "client"}]
    /\ tok \in [Requests -> Presented \cup {NoToken}]
    /\ new \in [Requests -> Pairs \cup {NoToken}]
    /\ tgt \in [Requests -> SUBSET Owners]
    /\ goal \in [Requests -> {"keep", "off", "gone"}]
    /\ before \in [Pairs -> Presented \cup {NoToken}]
    /\ consumed \subseteq Pairs
    /\ over \subseteq Codes

Init ==
    /\ here = Users
    /\ client = [c \in Clients |-> "on"]
    /\ authCode = [k \in Codes |-> "new"]
    /\ access = [p \in Pairs |-> "none"]
    /\ refresh = [p \in Pairs |-> "none"]
    /\ grant = {}
    /\ origin = [p \in Pairs |-> NoToken]
    /\ todo = [r \in Requests |-> "idle"]
    /\ tok = [r \in Requests |-> NoToken]
    /\ new = [r \in Requests |-> NoToken]
    /\ tgt = [r \in Requests |-> {}]
    /\ goal = [r \in Requests |-> "keep"]
    /\ before = [p \in Pairs |-> NoToken]
    /\ consumed = {}
    /\ over = {}

\* The code a token goes back to, and whose it is.
Chain(t) == IF t \in Codes THEN t ELSE origin[t]
OwnedBy(owners) == {p \in Pairs : origin[p] # NoToken /\ Owner[origin[p]] \in owners}

\* The table without the rows of the pairs in ps.
Without(table, ps) == [p \in Pairs |-> IF p \in ps THEN "none" ELSE table[p]]

Return(r) ==
    /\ todo' = [todo EXCEPT ![r] = "idle"]
    /\ tok' = [tok EXCEPT ![r] = NoToken]
    /\ new' = [new EXCEPT ![r] = NoToken]
    /\ tgt' = [tgt EXCEPT ![r] = {}]
    /\ goal' = [goal EXCEPT ![r] = "keep"]

Goto(r, step) ==
    /\ todo' = [todo EXCEPT ![r] = step]
    /\ UNCHANGED <<tok, new, tgt, goal>>

(***************************************************************************)
(* POST /oauth/authorize                                                   *)
(***************************************************************************)

\* The client is enabled, the user is signed in and approves.
Authorize(r, k) ==
    /\ todo[r] = "idle"
    /\ authCode[k] = "new"
    /\ \A q \in Requests : tok[q] # k
    /\ client[Owner[k][2]] = "on"
    /\ Owner[k][1] \in here
    /\ todo' = [todo EXCEPT ![r] = "code"]
    /\ tok' = [tok EXCEPT ![r] = k]
    /\ UNCHANGED <<clients, tokens, grant, new, tgt, goal, over>>

CreateCode(r) ==
    /\ todo[r] = "code"
    /\ Owner[tok[r]][1] \in here                \* REFERENCES users(uid)
    /\ authCode' = [authCode EXCEPT ![tok[r]] = "open"]
    /\ Goto(r, "grant")
    /\ UNCHANGED <<clients, access, refresh, origin, before, consumed, grant, over>>

\* A code whose INSERT fails is not shown to anyone.
CreateCodeFails(r) ==
    /\ todo[r] = "code"
    /\ Return(r)
    /\ UNCHANGED <<clients, tokens, grant, over>>

\* The row that says the owner of code k approved its client.
GrantOf(k) == Owner[k]

\* An error of the upsert is ignored; the code is sent either way.
UpsertGrant(r) ==
    /\ todo[r] = "grant"
    /\ \/ UNCHANGED grant
       \/ Owner[tok[r]][1] \in here /\ grant' = grant \cup {GrantOf(tok[r])}
    /\ Return(r)
    /\ UNCHANGED <<clients, tokens, over>>

(***************************************************************************)
(* POST /oauth/token                                                       *)
(***************************************************************************)

\* A token the client has, found by FindByCode or FindByTokenHash, and not expired.
Usable(t) ==
    IF t \in Codes
    THEN authCode[t] = "open" /\ \A q \in Requests : todo[q] = "grant" => tok[q] # t
    ELSE refresh[t] = "fresh"

\* ValidateClient, then the look-up.
Redeem(r, t) ==
    /\ todo[r] = "idle"
    /\ Usable(t)
    /\ client[Owner[Chain(t)][2]] = "on"
    /\ todo' = [todo EXCEPT ![r] = "spend"]
    /\ tok' = [tok EXCEPT ![r] = t]
    /\ UNCHANGED <<clients, tokens, grant, new, tgt, goal, over>>

\* Mutant: the number of rows an UPDATE or DELETE touched is not looked at.
SpendableUnchecked(t) == TRUE

\* The row that MarkUsed or Consume touches is still there.
Spendable(t) == IF t \in Codes THEN authCode[t] \in {"open", "expired"} ELSE refresh[t] # "none"

TakeOut(t) ==
    /\ Spendable(t)
    /\ IF t \in Codes
       THEN authCode' = [authCode EXCEPT ![t] = "used"] /\ UNCHANGED <<refresh, consumed>>
       ELSE /\ refresh' = Without(refresh, {t})
            /\ consumed' = consumed \cup {t}
            /\ UNCHANGED authCode

Spend(r) ==
    /\ todo[r] = "spend"
    /\ TakeOut(tok[r])
    /\ Goto(r, IF tok[r] \in Codes THEN "access" ELSE "retire")
    /\ UNCHANGED <<clients, access, origin, before, grant, over>>

\* No row was touched, or the statement reports an error.
SpendFails(r) ==
    /\ todo[r] = "spend"
    /\ TakeOut(tok[r]) \/ UNCHANGED <<authCode, refresh, consumed>>
    /\ Return(r)
    /\ UNCHANGED <<clients, access, origin, before, grant, over>>

\* The row of pair p is deleted, or an error is ignored and it stays.
DropAccessRow(p) ==
    \/ access' = Without(access, {p})
    \/ access[p] # "none" /\ access' = [access EXCEPT ![p] = "left"]

\* Mutant: the access token of the consumed refresh token is not looked for.
RetireNothing(r) ==
    /\ todo[r] = "retire"
    /\ Goto(r, "access")
    /\ UNCHANGED <<clients, tokens, grant, over>>

\* The access token paired with a refresh token that was consumed.
Retire(r) ==
    /\ todo[r] = "retire"
    /\ DropAccessRow(tok[r])
    /\ Goto(r, "access")
    /\ UNCHANGED <<clients, authCode, refresh, origin, before, consumed, grant, over>>

\* createTokenPair; the user_uid REFERENCES users(uid).
AddAccess(r, p, row) ==
    /\ origin[p] = NoToken
    /\ Owner[Chain(tok[r])][1] \in here
    /\ origin' = [origin EXCEPT ![p] = Chain(tok[r])]
    /\ access' = [access EXCEPT ![p] = row]

InsertAccess(r, p) ==
    /\ todo[r] = "access"
    /\ AddAccess(r, p, "paired")
    /\ new' = [new EXCEPT ![r] = p]
    /\ todo' = [todo EXCEPT ![r] = "refresh"]
    /\ UNCHANGED <<clients, authCode, refresh, before, consumed, grant, over, tok, tgt, goal>>

\* Refused, or applied with an error: then nobody knows the token.
InsertAccessFails(r) ==
    /\ todo[r] = "access"
    /\ \/ UNCHANGED <<origin, access>>
       \/ \E p \in Pairs : AddAccess(r, p, "left")
    /\ Return(r)
    /\ UNCHANGED <<clients, authCode, refresh, before, consumed, grant, over>>

\* Its access_token_id REFERENCES oauth_access_tokens(id).
AddRefresh(r) ==
    /\ access[new[r]] # "none"
    /\ refresh' = [refresh EXCEPT ![new[r]] = "unsent"]
    /\ before' = [before EXCEPT ![new[r]] = tok[r]]

InsertRefresh(r) ==
    /\ todo[r] = "refresh"
    /\ AddRefresh(r)
    /\ Goto(r, "answer")
    /\ UNCHANGED <<clients, authCode, access, origin, consumed, grant, over>>

InsertRefreshFails(r) ==
    /\ todo[r] = "refresh"
    /\ AddRefresh(r) \/ UNCHANGED <<refresh, before>>
    /\ Goto(r, "undo")
    /\ UNCHANGED <<clients, authCode, access, origin, consumed, grant, over>>

Undo(r) ==
    /\ todo[r] = "undo"
    /\ DropAccessRow(new[r])
    /\ Return(r)
    /\ UNCHANGED <<clients, authCode, refresh, origin, before, consumed, grant, over>>

\* The pair is sent, unless its user turns out to be banned: then it stays
\* in the tables and nobody has it.
Answer(r) ==
    /\ todo[r] = "answer"
    /\ \/ UNCHANGED refresh
       \/ refresh[new[r]] = "unsent" /\ refresh' = [refresh EXCEPT ![new[r]] = "fresh"]
    /\ Return(r)
    /\ UNCHANGED <<clients, authCode, access, origin, before, consumed, grant, over>>

(***************************************************************************)
(* Revocation                                                              *)
(***************************************************************************)

StartRevoking(r, owners, then) ==
    /\ todo[r] = "idle"
    /\ todo' = [todo EXCEPT ![r] = "dropAccess"]
    /\ tgt' = [tgt EXCEPT ![r] = owners]
    /\ goal' = [goal EXCEPT ![r] = then]
    /\ UNCHANGED <<clients, tokens, grant, tok, new, over>>

\* RevokeOAuthGrant: the client and a grant of the user exist.
Revoke(r, u, c) ==
    /\ client[c] # "gone"
    /\ <<u, c>> \in grant
    /\ StartRevoking(r, {<<u, c>>}, "keep")

\* ToggleClient and DeleteClient revoke first and change the client last.
Disable(r, c) == client[c] = "on" /\ StartRevoking(r, Users \X {c}, "off")
Remove(r, c) == client[c] # "gone" /\ StartRevoking(r, Users \X {c}, "gone")

\* Each of the three DELETEs may fail; that is logged and the next one runs.
DropAccess(r) ==
    /\ todo[r] = "dropAccess"
    /\ access' \in {access, Without(access, OwnedBy(tgt[r]))}
    /\ Goto(r, "dropRefresh")
    /\ UNCHANGED <<clients, authCode, refresh, origin, before, consumed, grant, over>>

\* Requests past the point where the rows of code k hold them up.
Creating(k) ==
    \E q \in Requests : todo[q] \in {"retire", "access", "refresh"} /\ Chain(tok[q]) = k

DropRefresh(r) ==
    /\ todo[r] = "dropRefresh"
    /\ \/ UNCHANGED <<refresh, over>>
       \/ /\ refresh' = Without(refresh, OwnedBy(tgt[r]))
          /\ over' = over \cup {k \in Codes : Owner[k] \in tgt[r] /\ authCode[k] = "used" /\ ~Creating(k)}
    /\ Goto(r, "dropGrant")
    /\ UNCHANGED <<clients, authCode, access, origin, before, consumed, grant>>

DropGrant(r) ==
    /\ todo[r] = "dropGrant"
    /\ grant' \in {grant, grant \ tgt[r]}
    /\ IF goal[r] = "keep" THEN Return(r) ELSE Goto(r, "client")
    /\ UNCHANGED <<clients, tokens, over>>

\* The UPDATE or DELETE of the client; it finds no row, or fails.
SetClient(r) ==
    /\ todo[r] = "client"
    /\ \E o \in tgt[r] :
          client' \in {client} \cup IF client[o[2]] = "gone" THEN {}
                                    ELSE {[client EXCEPT ![o[2]] = goal[r]]}
    /\ Return(r)
    /\ UNCHANGED <<here, tokens, grant, over>>

Enable(c) ==
    /\ client[c] = "off"
    /\ client' = [client EXCEPT ![c] = "on"]
    /\ UNCHANGED <<here, tokens, grant, locals, over>>

\* POST /oauth/revoke deletes the row of the token it is sent.
RevokeToken(p) ==
    /\ \/ access[p] # "none" /\ access' = Without(access, {p}) /\ UNCHANGED refresh
       \/ refresh[p] = "fresh" /\ refresh' = Without(refresh, {p}) /\ UNCHANGED access
    /\ UNCHANGED <<clients, authCode, origin, before, consumed, grant, locals, over>>

\* The user row goes, by DeleteAccount or DeleteUser, and ON DELETE CASCADE
\* takes all that references it; what RevokeUserTokens deletes is gone then.
Leave(u) ==
    LET owners == {u} \X Clients IN
    /\ u \in here
    /\ here' = here \ {u}
    /\ authCode' = [k \in Codes |-> IF Owner[k] \in owners /\ authCode[k] \in {"open", "expired"}
                                THEN "void" ELSE authCode[k]]
    /\ access' = Without(access, OwnedBy(owners))
    /\ refresh' = Without(refresh, OwnedBy(owners))
    /\ grant' = grant \ owners
    /\ UNCHANGED <<client, origin, before, consumed, locals, over>>

(***************************************************************************)
(* Time and clean-up                                                       *)
(***************************************************************************)

CodeAges(k) ==
    /\ \/ authCode[k] = "open" /\ authCode' = [authCode EXCEPT ![k] = "expired"]
       \/ authCode[k] = "expired" /\ authCode' = [authCode EXCEPT ![k] = "void"]
    /\ UNCHANGED <<clients, access, refresh, origin, before, consumed, grant, locals, over>>

\* Refresh tokens expire, and rows that did are deleted; of an access token
\* only its row matters here.
PairAges(p) ==
    /\ \/ access[p] # "none" /\ access' = Without(access, {p}) /\ UNCHANGED refresh
       \/ refresh[p] \in {"unsent", "fresh"} /\ refresh' = [refresh EXCEPT ![p] = "stale"] /\ UNCHANGED access
       \/ refresh[p] = "stale" /\ refresh' = Without(refresh, {p}) /\ UNCHANGED access
    /\ UNCHANGED <<clients, authCode, origin, before, consumed, grant, locals, over>>

TokenStep(r) ==
    \/ Spend(r) \/ SpendFails(r) \/ Retire(r)
    \/ \E p \in Pairs : InsertAccess(r, p)
    \/ InsertAccessFails(r) \/ InsertRefresh(r) \/ InsertRefreshFails(r) \/ Undo(r) \/ Answer(r)

RevokeStep(r) == DropAccess(r) \/ DropRefresh(r) \/ DropGrant(r) \/ SetClient(r)

Next ==
    \/ \E r \in Requests :
          \/ \E k \in Codes : Authorize(r, k)
          \/ \E t \in Presented : Redeem(r, t)
          \/ \E u \in Users, c \in Clients : Revoke(r, u, c)
          \/ \E c \in Clients : Disable(r, c) \/ Remove(r, c)
          \/ CreateCode(r) \/ CreateCodeFails(r) \/ UpsertGrant(r)
          \/ TokenStep(r) \/ RevokeStep(r)
    \/ \E c \in Clients : Enable(c)
    \/ \E u \in Users : Leave(u)
    \/ \E k \in Codes : CodeAges(k)
    \/ \E p \in Pairs : RevokeToken(p) \/ PairAges(p)

Spec == Init /\ [][Next]_vars

(***************************************************************************)
(* Properties                                                              *)
(***************************************************************************)

\* A revocation whose DELETE of the refresh tokens ran while no request was
\* between spending a token and storing its successor is final for the codes
\* exchanged before: also a request that had found the token by then gets no
\* new pair out of it.
RevocationFinal ==
    \A k \in over : ~Creating(k) /\ \A p \in Pairs : origin[p] = k => refresh[p] = "none"

\* However exchanges, refreshes and failures interleave, a code has at most
\* one access token that is not left over from a DELETE or an INSERT that
\* reported an error.
OneAccess ==
    \A p, q \in Pairs :
        access[p] = "paired" /\ access[q] = "paired" /\ origin[p] = origin[q] => p = q

\* Codes and refresh tokens are spent at most once, and each is replaced by
\* at most one refresh token.
Rotation == INSTANCE TokenRotation WITH
    Tokens <- Presented,
    issued <- {k \in Codes : authCode[k] # "new"} \cup {p \in Pairs : before[p] # NoToken},
    live   <- {k \in Codes : authCode[k] \in {"open", "expired"}} \cup {p \in Pairs : refresh[p] # "none"},
    spent  <- {k \in Codes : authCode[k] = "used"} \cup consumed,
    parent <- [t \in Presented |-> IF t \in Pairs THEN before[t] ELSE NoToken]

ImplementsRotation == Rotation!Spec
=============================================================================
