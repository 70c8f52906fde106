------------------------------- MODULE QRGrant -------------------------------
(***************************************************************************)
(* What a scan-to-login code promises: it is shown once, scanned once,     *)
(* confirmed by one user, and then either spent once, for that user, or    *)
(* dropped.  QRCodes implements it with the qr_login_tokens table, and     *)
(* QRPage uses it for the server behind the PC's page.                     *)
(***************************************************************************)
CONSTANTS Codes, Users, NoUser

VARIABLES
    stage,  \* per code: where it stands
    by      \* per code: the user who confirmed it, or NoUser

grantVars == <<stage, by>>

Open == {"pending", "scanned", "confirmed"}
Stages == Open \cup {"unused", "spent", "dropped"}

Init ==
    /\ stage = [c \in Codes |-> "unused"]
    /\ by = [c \in Codes |-> NoUser]

Advance(c, from, to) ==
    /\ stage[c] = from
    /\ stage' = [stage EXCEPT ![c] = to]

Show(c) == Advance(c, "unused", "pending") /\ UNCHANGED by
Scan(c) == Advance(c, "pending", "scanned") /\ UNCHANGED by

Confirm(c, u) ==
    /\ Advance(c, "scanned", "confirmed")
    /\ by' = [by EXCEPT ![c] = u]

Spend(c) == Advance(c, "confirmed", "spent") /\ UNCHANGED by

\* Cancelled, or found expired.
Drop(c) ==
    /\ stage[c] \in Open
    /\ stage' = [stage EXCEPT ![c] = "dropped"]
    /\ UNCHANGED by

Next ==
    \E c \in Codes :
        \/ Show(c) \/ Scan(c) \/ Spend(c) \/ Drop(c)
        \/ \E u \in Users : Confirm(c, u)

Spec == Init /\ [][Next]_grantVars
=============================================================================
