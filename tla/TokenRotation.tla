---------------------------- MODULE TokenRotation ----------------------------
(***************************************************************************)
(* What a rotating credential promises, whatever table holds it: every     *)
(* token is issued once, spent at most once while it is live, replaced by  *)
(* at most one successor after it was spent, and never live again once it  *)
(* was spent, revoked, expired or deleted.                                 *)
(*                                                                         *)
(* SessionTokens implements it with the session_tokens table, and          *)
(* OAuthProvider with the codes and the refresh tokens of an application.  *)
(***************************************************************************)
CONSTANTS Tokens, NoToken

VARIABLES
    issued,   \* tokens handed out so far
    live,     \* tokens that can still be spent
    spent,    \* tokens that were spent
    parent    \* the spent token a token replaces, or NoToken

rotationVars == <<issued, live, spent, parent>>

Init ==
    /\ issued = {}
    /\ live = {}
    /\ spent = {}
    /\ parent = [t \in Tokens |-> NoToken]

\* A first token, obtained by proving who one is.
Issue(t) ==
    /\ t \notin issued
    /\ issued' = issued \cup {t}
    /\ live' = live \cup {t}
    /\ UNCHANGED <<spent, parent>>

Spend(t) ==
    /\ t \in live
    /\ live' = live \ {t}
    /\ spent' = spent \cup {t}
    /\ UNCHANGED <<issued, parent>>

\* The one successor of a spent token.
Replace(t, n) ==
    /\ t \in spent
    /\ \A s \in issued : parent[s] # t
    /\ n \notin issued
    /\ issued' = issued \cup {n}
    /\ live' = live \cup {n}
    /\ parent' = [parent EXCEPT ![n] = t]
    /\ UNCHANGED spent

\* Revocation, expiry or deletion of any number of tokens.
Drop ==
    /\ live' \subseteq live
    /\ UNCHANGED <<issued, spent, parent>>

Next ==
    \/ \E t \in Tokens : Issue(t) \/ Spend(t)
    \/ \E t, n \in Tokens : Replace(t, n)
    \/ Drop

Spec == Init /\ [][Next]_rotationVars
=============================================================================
