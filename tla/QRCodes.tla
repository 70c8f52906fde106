------------------------------- MODULE QRCodes -------------------------------
(***************************************************************************)
(* The server side of scan-to-login: the table qr_login_tokens             *)
(* (internal/models/qrlogin.go) and the handlers of the PC and of the      *)
(* phones that race on it (internal/handlers/qrlogin).                     *)
(*                                                                         *)
(* Every handler reads the row first and writes it later; a write is one   *)
(* SQL statement, and consuming a code is one transaction that locks the   *)
(* row.  Any number of phones may hold the same code: it is a picture.     *)
(* What a handler pushes to the PC afterwards is in QRPage.                *)
(***************************************************************************)
EXTENDS Naturals, FiniteSets

CONSTANTS
    Codes,      \* codes that can be generated (bound)
    Users,      \* logged-in phones, by user
    Sessions,   \* PC session tokens that can be signed (bound)
    Requests,   \* handlers that may run at the same time (bound)
    NoUser, NoCode, NoSession

ASSUME QRAssumption ==
    /\ NoUser \notin Users
    /\ NoCode \notin Codes
    /\ NoSession \notin Sessions

VARIABLES
    status,     \* column status; "unused" before the INSERT, "deleted" after the DELETE
    user,       \* column user_uid; of a deleted row, history
    hash,       \* column pc_session_token_hash; of a deleted row, history
    expired,    \* codes whose expire_time has passed
    issuer,     \* the UID claim of each signed session token, NoUser if unsigned
    pc,         \* per request: the statement it runs next
    code, uid, sess,    \* per request: its token, user and session token
    spent,      \* history: codes that ConsumeAndSetSession deleted
    cancelled,  \* history: codes that Cancel or MobileCancel deleted
    grants      \* history: per code, the logins handed out for it

table   == <<status, user, hash>>
reqVars == <<pc, code, uid, sess>>
history == <<spent, cancelled, grants>>
vars == <<table, expired, issuer, reqVars, history>>

Row(c) == status[c] \in {"pending", "scanned", "confirmed"}

TypeOK ==
    /\ status \in [Codes -> {"unused", "pending", "scanned", "confirmed", "deleted"}]
    /\ user \in [Codes -> Users \cup {NoUser}]
    /\ hash \in [Codes -> Sessions \cup {NoSession}]
    /\ expired \subseteq Codes
    /\ issuer \in [Sessions -> Users \cup {NoUser}]
    /\ pc \in [Requests -> {"idle", "scan", "confirm", "consume", "mint"}]
    /\ code \in [Requests -> Codes \cup {NoCode}]
    /\ uid \in [Requests -> Users \cup {NoUser}]
    /\ sess \in [Requests -> Sessions \cup {NoSession}]
    /\ spent \subseteq Codes /\ cancelled \subseteq Codes
    /\ grants \in [Codes -> Nat]
    /\ \A c \in Codes : status[c] = "confirmed" => user[c] \in Users /\ hash[c] \in Sessions

Init ==
    /\ status = [c \in Codes |-> "unused"]
    /\ user = [c \in Codes |-> NoUser]
    /\ hash = [c \in Codes |-> NoSession]
    /\ expired = {}
    /\ issuer = [s \in Sessions |-> NoUser]
    /\ pc = [r \in Requests |-> "idle"]
    /\ code = [r \in Requests |-> NoCode]
    /\ uid = [r \in Requests |-> NoUser]
    /\ sess = [r \in Requests |-> NoSession]
    /\ spent = {}
    /\ cancelled = {}
    /\ grants = [c \in Codes |-> 0]

Run(r, at, c, u, s) ==
    /\ pc' = [pc EXCEPT ![r] = at]
    /\ code' = [code EXCEPT ![r] = c]
    /\ uid' = [uid EXCEPT ![r] = u]
    /\ sess' = [sess EXCEPT ![r] = s]

Return(r) == Run(r, "idle", NoCode, NoUser, NoSession)

Delete(c) ==
    /\ status' = [status EXCEPT ![c] = "deleted"]
    /\ UNCHANGED <<user, hash>>

(***************************************************************************)
(* The PC shows a code and may take it back.                               *)
(***************************************************************************)

Generate(c) ==
    /\ status[c] = "unused"
    /\ status' = [status EXCEPT ![c] = "pending"]
    /\ UNCHANGED <<user, hash, expired, issuer, reqVars, history>>

\* DELETE whatever the status: Cancel on the PC, MobileCancel on a phone, and
\* Generate when the code cannot be encrypted.  Errors are ignored.
Cancel(c) ==
    /\ Row(c)
    /\ Delete(c)
    /\ cancelled' = cancelled \cup {c}
    /\ UNCHANGED <<expired, issuer, reqVars, spent, grants>>

Expire(c) ==
    /\ Row(c) /\ c \notin expired
    /\ expired' = expired \cup {c}
    /\ UNCHANGED <<table, issuer, reqVars, history>>

\* Scan and MobileConfirm delete the expired row they found.
DeleteExpired(c) ==
    /\ Row(c) /\ c \in expired
    /\ Delete(c)
    /\ UNCHANGED <<expired, issuer, reqVars, history>>

(***************************************************************************)
(* A phone scans a code, then confirms.                                    *)
(***************************************************************************)

ScanFind(r, c) ==
    /\ pc[r] = "idle"
    /\ Row(c) /\ c \notin expired
    /\ Run(r, "scan", c, NoUser, NoSession)
    /\ UNCHANGED <<table, expired, issuer, history>>

\* UPDATE ... SET status = 'scanned' WHERE status = 'pending'.
ScanUpdate(r) ==
    /\ pc[r] = "scan"
    /\ status' = IF status[code[r]] = "pending"
                 THEN [status EXCEPT ![code[r]] = "scanned"] ELSE status
    /\ Return(r)
    /\ UNCHANGED <<user, hash, expired, issuer, history>>

\* The row is read, and only then a session for the PC is signed: it exists
\* whether or not the confirmation succeeds.
ConfirmFind(r, c, u, s) ==
    /\ pc[r] = "idle"
    /\ Row(c) /\ c \notin expired
    /\ issuer[s] = NoUser
    /\ issuer' = [issuer EXCEPT ![s] = u]
    /\ Run(r, "confirm", c, u, s)
    /\ UNCHANGED <<table, expired, history>>

\* Mutant: the status is not compared, as in ConfirmLogin.
ConfirmAnyway(r) ==
    /\ pc[r] = "confirm"
    /\ IF Row(code[r])
       THEN /\ status' = [status EXCEPT ![code[r]] = "confirmed"]
            /\ user' = [user EXCEPT ![code[r]] = uid[r]]
            /\ hash' = [hash EXCEPT ![code[r]] = sess[r]]
       ELSE UNCHANGED table
    /\ Return(r)
    /\ UNCHANGED <<expired, issuer, history>>

\* UPDATE ... SET status = 'confirmed', user_uid, pc_session_token_hash
\* WHERE status = 'scanned'.  The expiry is not looked at again.
ConfirmUpdate(r) ==
    /\ pc[r] = "confirm"
    /\ IF status[code[r]] = "scanned"
       THEN /\ status' = [status EXCEPT ![code[r]] = "confirmed"]
            /\ user' = [user EXCEPT ![code[r]] = uid[r]]
            /\ hash' = [hash EXCEPT ![code[r]] = sess[r]]
       ELSE UNCHANGED table
    /\ Return(r)
    /\ UNCHANGED <<expired, issuer, history>>

(***************************************************************************)
(* The PC exchanges the session token it was pushed for cookies.           *)
(***************************************************************************)

\* SetSession accepts any pair of a code and a correctly signed session token.
SetSession(r, c, s) ==
    /\ pc[r] = "idle"
    /\ status[c] # "unused" /\ issuer[s] # NoUser
    /\ Run(r, "consume", c, NoUser, s)
    /\ UNCHANGED <<table, expired, issuer, history>>

\* Mutant: the status comes from a read before the lock.
ConsumableUnlocked(c, s) ==
    c \notin expired /\ hash[c] = s /\ user[c] # NoUser

\* Mutant: the session hashes are not compared.
ConsumableByAnySession(c, s) ==
    status[c] = "confirmed" /\ c \notin expired /\ user[c] # NoUser

Consumable(c, s) ==
    /\ status[c] = "confirmed" /\ c \notin expired
    /\ hash[c] = s
    /\ user[c] # NoUser

\* Mutant: the transaction commits without its DELETE.
ConsumeKeepingRow(r) ==
    /\ pc[r] = "consume" /\ Consumable(code[r], sess[r])
    /\ spent' = spent \cup {code[r]}
    /\ Run(r, "mint", code[r], user[code[r]], sess[r])
    /\ UNCHANGED <<table, expired, issuer, cancelled, grants>>

\* ConsumeAndSetSession: check and DELETE in one transaction.  SetSession goes
\* on for the row's user if that is the session's user; if not, or if the
\* commit's answer is lost, the code is spent for nothing.
Consume(r) ==
    /\ pc[r] = "consume" /\ Consumable(code[r], sess[r])
    /\ Delete(code[r])
    /\ spent' = spent \cup {code[r]}
    /\ \/ /\ issuer[sess[r]] = user[code[r]]
          /\ Run(r, "mint", code[r], user[code[r]], sess[r])
       \/ Return(r)
    /\ UNCHANGED <<expired, issuer, cancelled, grants>>

ConsumeExpired(r) ==
    /\ pc[r] = "consume" /\ Row(code[r]) /\ code[r] \in expired
    /\ Delete(code[r])
    /\ Return(r)
    /\ UNCHANGED <<expired, issuer, history>>

ConsumeRefused(r) ==
    /\ pc[r] = "consume" /\ ~Consumable(code[r], sess[r])
    /\ Return(r)
    /\ UNCHANGED <<table, expired, issuer, history>>

\* GenerateTokens for the PC, which receives both cookies.
Mint(r) ==
    /\ pc[r] = "mint"
    /\ grants' = [grants EXCEPT ![code[r]] = @ + 1]
    /\ Return(r)
    /\ UNCHANGED <<table, expired, issuer, spent, cancelled>>

\* Any statement may fail; the handler answers with an error and stops.
Fails(r) ==
    /\ pc[r] # "idle"
    /\ Return(r)
    /\ UNCHANGED <<table, expired, issuer, history>>

Step(r) ==
    \/ ScanUpdate(r) \/ ConfirmUpdate(r)
    \/ Consume(r) \/ ConsumeExpired(r) \/ ConsumeRefused(r) \/ Mint(r) \/ Fails(r)

Arrive(r) ==
    \E c \in Codes :
        \/ ScanFind(r, c)
        \/ \E s \in Sessions : SetSession(r, c, s) \/ \E u \in Users : ConfirmFind(r, c, u, s)

Next ==
    \/ \E c \in Codes : Generate(c) \/ Cancel(c) \/ Expire(c) \/ DeleteExpired(c)
    \/ \E r \in Requests : Step(r) \/ Arrive(r)

Spec == Init /\ [][Next]_vars

(***************************************************************************)
(* Properties                                                              *)
(***************************************************************************)

\* However many pages and phones race on a code, it logs a PC in at most once.
SingleGrant == \A c \in Codes : grants[c] <= 1

\* Cancelling and consuming exclude each other: a login is never granted for a
\* code that Cancel or MobileCancel removed, whatever was under way.
CancelExcludesLogin == cancelled \cap (spent \cup {c \in Codes : grants[c] > 0}) = {}

\* The PC is logged in as the user whose confirmation was accepted, and that
\* user signed the session token it showed: the comparison of the UIDs after
\* the code was consumed, which would waste the code, never fails.
SessionOfConfirmer ==
    /\ \A c \in Codes : hash[c] # NoSession => issuer[hash[c]] = user[c]
    /\ \A r \in Requests : pc[r] = "mint" =>
          /\ uid[r] = user[code[r]]
          /\ sess[r] = hash[code[r]]

\* The table and its handlers keep the promise of QRGrant: stages only
\* advance and the user who confirmed a code is never replaced.
Stage ==
    [c \in Codes |->
        IF status[c] # "deleted" THEN status[c]
        ELSE IF c \in spent THEN "spent" ELSE "dropped"]

Grant == INSTANCE QRGrant WITH stage <- Stage, by <- user
ImplementsGrant == Grant!Spec
=============================================================================
