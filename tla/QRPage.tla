-------------------------------- MODULE QRPage --------------------------------
(***************************************************************************)
(* The login page of scan-to-login (modules/account/assets/js/lib/qr.ts)   *)
(* with the WebSocket that pushes the status of its code                   *)
(* (internal/services/websocket.go) and the phones that scan it.  The      *)
(* server's codes are the abstract QRGrant, which QRCodes implements.      *)
(*                                                                         *)
(* The page awaits every fetch, and its sockets close asynchronously: what *)
(* it finds in its module state afterwards may be of another code.         *)
(*                                                                         *)
(* A confirmed code stands for the session token that was signed for it.   *)
(***************************************************************************)
EXTENDS Naturals, Sequences

CONSTANTS
    Codes, Users, NoUser, NoCode,
    Calls,      \* fetches of the page under way at once (bound)
    Patient,    \* whether the user waits for the page to settle before clicking
    Faults      \* whether the network or the server may fail

ASSUME PageAssumption ==
    /\ NoCode \notin Codes
    /\ NoUser \notin Users
    /\ Patient \in BOOLEAN /\ Faults \in BOOLEAN

VARIABLES
    stage, by,  \* the server's codes, as in QRGrant
    push,       \* statuses that handlers wrote and have not yet pushed
    sock,       \* per code: its WebSocket
    inbox,      \* per code: messages on their way to the page
    call,       \* the page's fetches
    modal,      \* whether the dialog is open
    shown,      \* the code in the picture of the dialog
    seen,       \* codes a phone's camera may have caught
    declined,   \* codes whose phone has pressed its cancel button
    current,    \* state.currentToken
    status,     \* state.currentStatus
    ws,         \* state.ws, by its code
    resets,     \* timers that will call resetModalState
    landed      \* the code whose login took the page to the dashboard

Grant == INSTANCE QRGrant

codes   == <<stage, by>>
wires   == <<push, sock, inbox>>
dialog  == <<modal, shown, resets>>
phones  == <<seen, declined>>
module  == <<current, status, ws>>
vars    == <<codes, wires, call, dialog, phones, module, landed>>

Call == [op: {"create", "cancel", "session"},
         code: Codes \cup {NoCode}, arg: Codes \cup {NoCode},
         at: {"sent", "ok", "failed"}]
NoCall == [op |-> "none", code |-> NoCode, arg |-> NoCode, at |-> "idle"]

TypeOK ==
    /\ stage \in [Codes -> Grant!Stages] /\ by \in [Codes -> Users \cup {NoUser}]
    /\ push \subseteq Codes \X {"scanned", "confirmed", "cancelled"}
    /\ sock \in [Codes -> {"none", "opening", "checked", "open", "closing", "closed"}]
    /\ \A c \in Codes : Len(inbox[c]) > 0 => sock[c] = "open"
    /\ call \in [Calls -> Call \cup {NoCall}]
    /\ \A k \in Calls : call[k].op \in {"create", "cancel"} => call[k].code \in Codes
    /\ modal \in BOOLEAN /\ resets \in Nat
    /\ seen \subseteq Codes /\ declined \subseteq seen
    /\ {shown, current, ws, landed} \subseteq Codes \cup {NoCode}
    /\ status \in {"pending", "scanned", "confirmed", "cancelled"}

Init ==
    /\ Grant!Init
    /\ push = {}
    /\ sock = [c \in Codes |-> "none"]
    /\ inbox = [c \in Codes |-> <<>>]
    /\ call = [k \in Calls |-> NoCall]
    /\ modal = FALSE
    /\ shown = NoCode
    /\ seen = {}
    /\ declined = {}
    /\ current = NoCode
    /\ status = "pending"
    /\ ws = NoCode
    /\ resets = 0
    /\ landed = NoCode

OnPage == landed = NoCode

Free(k) == call[k] = NoCall
Sent(op, c, a) == [op |-> op, code |-> c, arg |-> a, at |-> "sent"]

\* Nothing the page started is still going on.
Settled ==
    /\ \A k \in Calls : Free(k)
    /\ resets = 0
    /\ \A c \in Codes : sock[c] # "closing"

\* Mutant: only a code that nobody has scanned is taken back.
CloseKeepingScanned(k) ==
    /\ modal' = FALSE
    /\ sock' = IF ws = NoCode THEN sock ELSE [sock EXCEPT ![ws] = "closing"]
    /\ inbox' = IF ws = NoCode THEN inbox ELSE [inbox EXCEPT ![ws] = <<>>]
    /\ ws' = NoCode
    /\ call' = [call EXCEPT ![k] = IF status = "pending" /\ current # NoCode
                                   THEN Sent("cancel", current, NoCode) ELSE NoCall]
    /\ resets' = resets + 1
    /\ UNCHANGED <<shown, push>>

\* The cleanup of the dialog: drop the socket, take the code back unless it
\* was confirmed, and reset the status a little later.  k is a free fetch.
CloseDialog(k) ==
    /\ modal' = FALSE
    /\ sock' = IF ws = NoCode THEN sock ELSE [sock EXCEPT ![ws] = "closing"]
    /\ inbox' = IF ws = NoCode THEN inbox ELSE [inbox EXCEPT ![ws] = <<>>]
    /\ ws' = NoCode
    /\ call' = [call EXCEPT ![k] = IF status # "confirmed" /\ current # NoCode
                                   THEN Sent("cancel", current, NoCode) ELSE NoCall]
    /\ resets' = resets + 1
    /\ UNCHANGED <<shown, push>>

\* controller.close() cleans up once per opening.  It ends the fetch k.
Dismiss(k) ==
    \/ modal /\ CloseDialog(k)
    \/ /\ ~modal
       /\ call' = [call EXCEPT ![k] = NoCall]
       /\ UNCHANGED <<wires, dialog, ws>>

(***************************************************************************)
(* The user and the page                                                   *)
(***************************************************************************)

\* Mutant: the picture of the previous code stays while the next is fetched.
OpenOnOldPicture(k, c) ==
    /\ OnPage /\ ~modal /\ Free(k)
    /\ Patient => Settled
    /\ stage[c] = "unused" /\ \A l \in Calls : call[l].op = "create" => call[l].code # c
    /\ modal' = TRUE
    /\ call' = [call EXCEPT ![k] = Sent("create", c, NoCode)]
    /\ UNCHANGED <<codes, wires, phones, shown, resets, module, landed>>

\* showQrLoginModal, up to the await.  c is the code the server will draw.
Open(k, c) ==
    /\ OnPage /\ ~modal /\ Free(k)
    /\ Patient => Settled
    /\ stage[c] = "unused" /\ \A l \in Calls : call[l].op = "create" => call[l].code # c
    /\ modal' = TRUE
    /\ shown' = NoCode
    /\ call' = [call EXCEPT ![k] = Sent("create", c, NoCode)]
    /\ UNCHANGED <<codes, wires, phones, resets, module, landed>>

\* Drawing a code does not fail: its length is fixed.
generateQRCode(c) == shown' = c

\* The rest of showQrLoginModal: connect, then draw the picture.
Created(k) ==
    /\ OnPage /\ call[k].op = "create" /\ call[k].at = "ok"
    /\ LET c == call[k].code IN
       /\ current' = c
       /\ ws' = c
       /\ sock' = [sock EXCEPT ![c] = "opening"]
       /\ generateQRCode(c)
       /\ seen' = IF modal THEN seen \cup {c} ELSE seen
    /\ call' = [call EXCEPT ![k] = NoCall]
    /\ UNCHANGED <<codes, push, inbox, declined, modal, resets, status, landed>>

NotCreated(k) ==
    /\ OnPage /\ call[k].op = "create" /\ call[k].at = "failed"
    /\ Dismiss(k)
    /\ UNCHANGED <<codes, phones, current, status, landed>>

Close(k) ==
    /\ OnPage /\ modal /\ Free(k)
    /\ Patient => \A l \in Calls : Free(l)
    /\ CloseDialog(k)
    /\ UNCHANGED <<codes, phones, current, status, landed>>

\* cancelCurrentToken, after the await, whatever the answer.
Cancelled(k) ==
    /\ OnPage /\ call[k].op = "cancel" /\ call[k].at # "sent"
    /\ current' = NoCode
    /\ call' = [call EXCEPT ![k] = NoCall]
    /\ UNCHANGED <<codes, wires, dialog, phones, status, ws, landed>>

\* Mutant: the dialog stays open when the session could not be set.
SessionSetOrStay(k) ==
    /\ OnPage /\ call[k].op = "session" /\ call[k].at # "sent"
    /\ IF call[k].at = "ok" THEN Dismiss(k)
       ELSE call' = [call EXCEPT ![k] = NoCall] /\ UNCHANGED <<wires, dialog, ws>>
    /\ landed' = IF call[k].at = "ok" THEN call[k].arg ELSE NoCode
    /\ UNCHANGED <<codes, phones, current, status>>

\* Mutant: the page leaves without looking at the answer.
SessionSetAnyway(k) ==
    /\ OnPage /\ call[k].op = "session" /\ call[k].at # "sent"
    /\ Dismiss(k)
    /\ landed' = call[k].arg
    /\ UNCHANGED <<codes, phones, current, status>>

\* setSessionAndRedirect, after the await.
SessionSet(k) ==
    /\ OnPage /\ call[k].op = "session" /\ call[k].at # "sent"
    /\ Dismiss(k)
    /\ landed' = IF call[k].at = "ok" THEN call[k].arg ELSE NoCode
    /\ UNCHANGED <<codes, phones, current, status>>

Reset ==
    /\ OnPage /\ resets > 0
    /\ resets' = resets - 1
    /\ status' = "pending"
    /\ UNCHANGED <<codes, wires, call, modal, shown, phones, current, ws, landed>>

\* setScannedState and setCancelledState each leave one status only.
SetScanned == status' = IF status = "pending" THEN "scanned" ELSE status
SetCancelled == status' = IF status = "scanned" THEN "cancelled" ELSE status

\* onmessage: the message is taken for the code the page shows.
Deliver(c) ==
    /\ OnPage /\ inbox[c] # <<>>
    /\ inbox' = [inbox EXCEPT ![c] = Tail(@)]
    /\ \/ Head(inbox[c]) = "scanned" /\ SetScanned /\ UNCHANGED call
       \/ Head(inbox[c]) = "cancelled" /\ SetCancelled /\ UNCHANGED call
       \/ /\ Head(inbox[c]) = "confirmed"
          /\ status' = "confirmed"
          /\ \E k \in Calls :
                Free(k) /\ call' = [call EXCEPT ![k] = Sent("session", current, c)]
    /\ UNCHANGED <<codes, push, sock, dialog, phones, current, ws, landed>>

\* onclose of any socket forgets the one the page has.
Closed(c) ==
    /\ OnPage /\ sock[c] = "closing"
    /\ sock' = [sock EXCEPT ![c] = "closed"]
    /\ ws' = NoCode
    /\ UNCHANGED <<codes, push, inbox, call, dialog, phones, current, status, landed>>

(***************************************************************************)
(* The server                                                              *)
(***************************************************************************)

Answer(k, at) == call' = [call EXCEPT ![k].at = at]

ServeCreate(k) ==
    /\ call[k].op = "create" /\ call[k].at = "sent"
    /\ \/ Grant!Show(call[k].code) /\ Answer(k, "ok")
       \/ Faults /\ Answer(k, "failed") /\ UNCHANGED codes
    /\ UNCHANGED <<wires, dialog, phones, module, landed>>

\* Cancel always answers with success.
ServeCancel(k) ==
    /\ call[k].op = "cancel" /\ call[k].at = "sent"
    /\ IF stage[call[k].code] \in Grant!Open THEN Grant!Drop(call[k].code) ELSE UNCHANGED codes
    /\ Answer(k, "ok")
    /\ UNCHANGED <<wires, dialog, phones, module, landed>>

\* SetSession consumes the code only with the session signed for it.
ServeSession(k) ==
    /\ call[k].op = "session" /\ call[k].at = "sent"
    /\ IF call[k].code = call[k].arg /\ stage[call[k].arg] = "confirmed"
       THEN /\ Grant!Spend(call[k].arg)
            /\ \E at \in {"ok"} \cup (IF Faults THEN {"failed"} ELSE {}) : Answer(k, at)
       ELSE UNCHANGED codes /\ Answer(k, "failed")
    /\ UNCHANGED <<wires, dialog, phones, module, landed>>

\* HandleQRLogin checks the row, then upgrades the connection and registers it.
Check(c) ==
    /\ sock[c] = "opening"
    /\ sock' = [sock EXCEPT ![c] = IF stage[c] \in {"pending", "scanned"}
                                   THEN "checked" ELSE "closing"]
    /\ UNCHANGED <<codes, push, inbox, call, dialog, phones, module, landed>>

Register(c) ==
    /\ sock[c] = "checked"
    /\ sock' = [sock EXCEPT ![c] = "open"]
    /\ UNCHANGED <<codes, push, inbox, call, dialog, phones, module, landed>>

\* Full, expired, shut down, or cut off.
Cut(c) ==
    /\ Faults
    /\ sock[c] \in {"opening", "checked", "open"}
    /\ sock' = [sock EXCEPT ![c] = "closing"]
    /\ inbox' = [inbox EXCEPT ![c] = <<>>]
    /\ UNCHANGED <<codes, push, call, dialog, phones, module, landed>>

\* NotifyStatusChange: a status nobody is registered for is dropped.
Notify(c, s) ==
    /\ <<c, s>> \in push
    /\ push' = push \ {<<c, s>>}
    /\ inbox' = IF sock[c] = "open" THEN [inbox EXCEPT ![c] = Append(@, s)] ELSE inbox
    /\ UNCHANGED <<codes, sock, call, dialog, phones, module, landed>>

(***************************************************************************)
(* Phones                                                                  *)
(***************************************************************************)

PhoneScan(c) ==
    /\ c \in seen
    /\ Grant!Scan(c)
    /\ push' = push \cup {<<c, "scanned">>}
    /\ UNCHANGED <<sock, inbox, call, dialog, phones, module, landed>>

PhoneConfirm(c, u) ==
    /\ Grant!Confirm(c, u)
    /\ push' = push \cup {<<c, "confirmed">>}
    /\ UNCHANGED <<sock, inbox, call, dialog, phones, module, landed>>

\* MobileCancel notifies whether or not there was a row to delete.  The phone
\* whose scan succeeded offers it, and once.
PhoneCancel(c) ==
    /\ c \in seen \ declined /\ stage[c] \in {"scanned", "confirmed", "spent", "dropped"}
    /\ IF stage[c] \in Grant!Open THEN Grant!Drop(c) ELSE UNCHANGED codes
    /\ declined' = declined \cup {c}
    /\ push' = push \cup {<<c, "cancelled">>}
    /\ UNCHANGED <<sock, inbox, call, dialog, seen, module, landed>>

\* The code expires, and counts as dropped from then on.
Lapse(c) ==
    /\ Grant!Drop(c)
    /\ UNCHANGED <<wires, call, dialog, phones, module, landed>>

PageStep ==
    \/ \E k \in Calls : Created(k) \/ NotCreated(k) \/ Cancelled(k) \/ SessionSet(k)
    \/ \E c \in Codes : Deliver(c) \/ Closed(c)
    \/ Reset

ServerStep ==
    \/ \E k \in Calls : ServeCreate(k) \/ ServeCancel(k) \/ ServeSession(k)
    \/ \E c \in Codes :
          \/ Check(c) \/ Register(c)
          \/ \E s \in {"scanned", "confirmed", "cancelled"} : Notify(c, s)

UserStep ==
    \/ \E k \in Calls : Close(k) \/ \E c \in Codes : Open(k, c)
    \/ \E c \in Codes :
          \/ PhoneScan(c) \/ PhoneCancel(c) \/ Lapse(c) \/ Cut(c)
          \/ \E u \in Users : PhoneConfirm(c, u)

Next == PageStep \/ ServerStep \/ UserStep

Spec == Init /\ [][Next]_vars

\* The page's event loop and the server's handlers run on; users, the
\* network's faults and the clock may do nothing.
FairSpec == Spec /\ WF_vars(PageStep) /\ WF_vars(ServerStep)

(***************************************************************************)
(* Properties                                                              *)
(***************************************************************************)

\* The dashboard is reached only with the login of the code whose confirmation
\* the page was pushed, however many codes its stale state mixes up.
LandsOnConfirmed == landed # NoCode => stage[landed] = "spent" /\ by[landed] # NoUser

\* The comment of currentToken: it is the code to delete when the dialog is
\* closed, hence the code of the picture, as long as there is one.
ShownIsCurrent == modal /\ shown # NoCode => current = shown

\* Closing the dialog leaves nothing behind: once the page has settled, no
\* socket is open and no code that a phone could still scan is forgotten.
ClosedIsClean ==
    OnPage /\ ~modal /\ Settled =>
        /\ ws = NoCode /\ \A c \in Codes : sock[c] \in {"none", "closed"}
        /\ \A c \in Codes : stage[c] \notin {"pending", "scanned"}

\* A confirmation that reached the page is brought to an end: the page leaves,
\* or it closes the dialog and says so.
ConfirmedSettles == modal /\ status = "confirmed" ~> ~modal \/ ~OnPage
=============================================================================
