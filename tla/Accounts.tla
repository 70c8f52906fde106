------------------------------ MODULE Accounts ------------------------------
(***************************************************************************)
(* The accounts on the server: the refresh tokens of SessionTokens, the    *)
(* roles and bans of UserAdmin, and the tokens OAuthProvider hands out.    *)
(* A ban leaves all tokens alone, and what a refresh reads of it was       *)
(* written FALSE (SessionTokens).  The removal of a user's row takes the   *)
(* refresh tokens along (ON DELETE CASCADE), like the revocations that     *)
(* SessionTokens has; OAuthProvider has it itself.  So a behaviour is      *)
(* about one of the three, and the others rest.                            *)
(***************************************************************************)
EXTENDS SessionTokens, Naturals

CONSTANTS
    Operations,                         \* administrators' requests that may run at a time
    Horizon, NoCopy,                    \* the last instant, no copy of a row (UserAdmin)
    Holders, Clients, Codes, Pairs, Owner       \* OAuthProvider

ASSUME HorizonAssumption == Horizon \in Nat
ASSUME NoCopyAssumption == NoCopy \notin Nat
ASSUME OwnerAssumption == Owner \in [Codes -> Holders \X Clients]
ASSUME CodesAssumption == Codes \cap Pairs = {} /\ NoToken \notin Codes \cup Pairs

VARIABLES
    topic,          \* "tokens", "roles" or "clients"
    present, role, ban, now, cached, at, op, target, snap, late, stands,    \* UserAdmin
    here, client, authCode, access, refresh, grant, origin, todo, tok, new, tgt, goal, before,
    consumed, over                                                      \* OAuthProvider

Admin    == INSTANCE UserAdmin WITH Requests <- Operations
Provider == INSTANCE OAuthProvider WITH Users <- Holders

tokenVars  == <<table, used, expired, owner, family, pc, ruid, rtok, issued, parent, root, finished>>
roleVars   == <<present, role, ban, now, cached, at, op, target, snap, late, stands>>
clientVars == <<here, client, authCode, access, refresh, grant, origin, todo, tok, new, tgt, goal,
                before, consumed, over>>

AccountsInit ==
    /\ topic \in {"tokens", "roles", "clients"}
    /\ Init /\ Admin!Init /\ Provider!Init
    /\ topic # "roles" => \A u \in Users : role[u] = Admin!RoleUser

AccountsNext ==
    \/ topic = "tokens" /\ Next /\ UNCHANGED <<topic, roleVars, clientVars>>
    \/ topic = "roles" /\ Admin!Next /\ UNCHANGED <<topic, tokenVars, clientVars>>
    \/ topic = "clients" /\ Provider!Next /\ UNCHANGED <<topic, tokenVars, roleVars>>

AccountsSpec == AccountsInit /\ [][AccountsNext]_<<topic, tokenVars, roleVars, clientVars>>

(***************************************************************************)
(* Properties, besides those of SessionTokens                              *)
(***************************************************************************)

\* A super administrator is never demoted or banned, and deleted only by his
\* own request (SetUserRole, BanUser, DeleteUser, DeleteAccount).
SuperStands == Admin!SuperStands

\* An administrator is deleted or banned only by a request whose check another
\* request overtook (the reads and writes of SetUserRole, BanUser, DeleteUser).
ChecksHold == Admin!ChecksHold

\* A ban that no read of an earlier ban and no automatic lifting was under way
\* for lasts until it runs out, is replaced or is lifted by UnbanUser (the gate
\* of BanCheckMiddleware, BanUser, Login).
BanStands == Admin!BanStands

\* The automatic lifting only clears a ban that ran out, as the comment in
\* BanCheckMiddleware has it.
AutoLiftsLapsed == Admin!AutoLiftsLapsed

\* The revocation of a client's tokens is final for every login no request was
\* creating one of meanwhile (RevokeUserClientTokens, ToggleClient,
\* createTokenPair).
ClientRevocationFinal == Provider!RevocationFinal

\* However exchanges and refreshes interleave, a client's login has one access
\* token, besides those a failed statement left (RefreshAccessToken,
\* createTokenPair).
OneAccess == Provider!OneAccess

\* A client's codes and refresh tokens implement TokenRotation as well: spent
\* once, and replaced by one refresh token each.
ClientRotation == Provider!ImplementsRotation
=============================================================================
