------------------------------ MODULE QRPageProofs -----------------------------
(***************************************************************************)
(* What QRPage guarantees for every number of codes, fetches and users.    *)
(*                                                                         *)
(* Impatient users included, the dashboard is reached only with the login  *)
(* of the code whose confirmation the page was pushed (LInv).  With a user *)
(* who waits for the page to settle, the picture is of the code the page   *)
(* would delete, and a closed dialog leaves nothing behind (DInv).         *)
(* The types hold with any user (TInv): a code is connected at most once.  *)
(***************************************************************************)
EXTENDS QRPage, TLAPS

\* The part of the state that a login depends on.
Shape ==
    /\ stage \in [Codes -> Grant!Stages]
    /\ by \in [Codes -> Users \cup {NoUser}]
    /\ call \in [Calls -> Call \cup {NoCall}]
    /\ \A k \in Calls : /\ call[k].op \in {"create", "cancel"} => call[k].code \in Codes
                        /\ call[k].op = "session" => call[k].arg \in Codes
    /\ current \in Codes \cup {NoCode}
    /\ landed \in Codes \cup {NoCode}

\* A spent code was confirmed by somebody.
Confirmed(c) == stage[c] \in {"confirmed", "spent"} => by[c] \in Users

\* A session that was granted belongs to the code it was asked with.
Granted(k) ==
    call[k].op = "session" /\ call[k].at = "ok" =>
        call[k].arg \in Codes /\ stage[call[k].arg] = "spent"

LInv ==
    /\ Shape
    /\ \A c \in Codes : Confirmed(c)
    /\ \A k \in Calls : Granted(k)
    /\ landed # NoCode => stage[landed] = "spent"

LEMMA InitInv == Init => LInv
BY PageAssumption DEF Init, Grant!Init, Grant!Stages, Grant!Open, LInv, Shape, Confirmed, Granted,
   NoCall

(***************************************************************************)
(* Fetches                                                                 *)
(***************************************************************************)

\* What a step may do to one fetch and keep the invariant, codes unchanged.
LEMMA FetchStep ==
    ASSUME LInv, NEW k \in Calls, NEW f \in Call \cup {NoCall},
           call' = [call EXCEPT ![k] = f],
           f.op \in {"create", "cancel"} => f.code \in Codes,
           f.op = "session" => f.arg \in Codes,
           ~(f.op = "session" /\ f.at = "ok"),
           UNCHANGED <<stage, by>>,
           current' \in Codes \cup {NoCode},
           landed' = landed
    PROVE  LInv'
<1>1. \A l \in Calls : call'[l] = IF l = k THEN f ELSE call[l]
  BY DEF LInv, Shape
<1>2. Shape'
  BY <1>1 DEF LInv, Shape
<1>3. \A l \in Calls : Granted(l)'
  BY <1>1 DEF LInv, Granted
<1>4. \A c \in Codes : Confirmed(c)'
  BY DEF LInv, Confirmed
<1>5. QED BY <1>2, <1>3, <1>4 DEF LInv

\* The page sends a fetch of each kind, or ends one.
LEMMA Fetches ==
    /\ NoCall \in Call \cup {NoCall} /\ NoCall.op = "none"
    /\ \A op \in {"create", "cancel", "session"}, c, a \in Codes \cup {NoCode} :
          /\ Sent(op, c, a) \in Call
          /\ Sent(op, c, a).op = op /\ Sent(op, c, a).code = c
          /\ Sent(op, c, a).arg = a /\ Sent(op, c, a).at = "sent"
BY DEF NoCall, Sent, Call

\* Closing the dialog ends a fetch and may send the one that takes the code back.
LEMMA DialogStep ==
    ASSUME LInv, NEW k \in Calls, CloseDialog(k) \/ Dismiss(k),
           UNCHANGED <<stage, by, current, landed>>
    PROVE  LInv'
<1> DEFINE f == IF status # "confirmed" /\ current # NoCode
                THEN Sent("cancel", current, NoCode) ELSE NoCall
<1>1. current \in Codes \cup {NoCode}
  BY DEF LInv, Shape
<1>2. \/ call' = [call EXCEPT ![k] = NoCall]
      \/ current \in Codes /\ call' = [call EXCEPT ![k] = Sent("cancel", current, NoCode)]
  BY <1>1 DEF CloseDialog, Dismiss
<1>3. PICK c \in Codes \cup {NoCode} : c = current
  BY <1>1
<1>4. CASE call' = [call EXCEPT ![k] = NoCall]
  BY <1>1, <1>4, Fetches, FetchStep
<1>5. CASE c \in Codes /\ call' = [call EXCEPT ![k] = Sent("cancel", c, NoCode)]
  <2>1. /\ Sent("cancel", c, NoCode) \in Call
        /\ Sent("cancel", c, NoCode).op = "cancel" /\ Sent("cancel", c, NoCode).code = c
    BY Fetches
  <2>2. QED BY <1>1, <1>5, <2>1, FetchStep
<1>6. QED BY <1>2, <1>3, <1>4, <1>5

(***************************************************************************)
(* The steps                                                               *)
(***************************************************************************)

LEMMA ModuleKept ==
    ASSUME LInv, UNCHANGED <<stage, by, call, landed>>, current' \in Codes \cup {NoCode}
    PROVE  LInv'
BY DEF LInv, Shape, Confirmed, Granted

LEMMA PageSteps == ASSUME LInv, PageStep PROVE LInv'
<1> USE DEF codes, module
<1>1. ASSUME NEW k \in Calls, Created(k) \/ Cancelled(k)
      PROVE  LInv'
  <2>1. call' = [call EXCEPT ![k] = NoCall] /\ UNCHANGED <<stage, by, landed>>
    BY <1>1 DEF Created, Cancelled
  <2>2. current' \in Codes \cup {NoCode}
    BY <1>1 DEF Created, Cancelled, LInv, Shape
  <2>3. QED BY <2>1, <2>2, Fetches, FetchStep
<1>2. ASSUME NEW k \in Calls, NotCreated(k)
      PROVE  LInv'
  BY <1>2, DialogStep DEF NotCreated
<1>3. ASSUME NEW k \in Calls, SessionSet(k)
      PROVE  LInv'
  <2>1. CASE call[k].at # "ok"
    <3>1. landed' = landed
      BY <1>3, <2>1 DEF SessionSet, OnPage
    <3>2. QED BY <1>3, <3>1, DialogStep DEF SessionSet
  <2>2. CASE call[k].at = "ok"
    <3>1. call[k].arg \in Codes /\ stage[call[k].arg] = "spent"
      BY <1>3, <2>2 DEF SessionSet, LInv, Granted
    <3>2. LInv!1' /\ LInv!2' /\ LInv!3'
      <4>1. PICK f \in Call \cup {NoCall} :
               /\ call' = [call EXCEPT ![k] = f]
               /\ f.op \in {"create", "cancel"} => f.code \in Codes
               /\ f.op # "session"
        <5>1. PICK c \in Codes \cup {NoCode} : c = current
          BY DEF LInv, Shape
        <5>2. \/ call' = [call EXCEPT ![k] = NoCall]
              \/ c \in Codes /\ call' = [call EXCEPT ![k] = Sent("cancel", c, NoCode)]
          BY <1>3, <5>1 DEF SessionSet, Dismiss, CloseDialog
        <5>3. QED BY <5>2, Fetches
      <4>2. UNCHANGED <<stage, by, current>> /\ landed' \in Codes
        BY <1>3, <2>2, <3>1 DEF SessionSet
      <4>3. \A l \in Calls : call'[l] = IF l = k THEN f ELSE call[l]
        BY <4>1 DEF LInv, Shape
      <4>4. Shape'
        BY <4>1, <4>2, <4>3 DEF LInv, Shape
      <4>5. QED BY <4>1, <4>2, <4>3, <4>4 DEF LInv, Confirmed, Granted
    <3>3. stage'[landed'] = "spent"
      BY <1>3, <2>2, <3>1 DEF SessionSet
    <3>4. QED BY <3>2, <3>3 DEF LInv
  <2>3. QED BY <2>1, <2>2
<1>4. ASSUME NEW c \in Codes, Deliver(c)
      PROVE  LInv'
  <2>1. UNCHANGED <<stage, by, current, landed>>
    BY <1>4 DEF Deliver
  <2>2. CASE UNCHANGED call
    BY <2>1, <2>2, ModuleKept DEF LInv, Shape
  <2>3. ASSUME NEW k \in Calls, call' = [call EXCEPT ![k] = Sent("session", current, c)]
        PROVE  LInv'
    <3>1. PICK d \in Codes \cup {NoCode} : d = current
      BY DEF LInv, Shape
    <3>2. /\ Sent("session", d, c) \in Call /\ Sent("session", d, c).op = "session"
          /\ Sent("session", d, c).arg = c /\ Sent("session", d, c).at = "sent"
      BY Fetches
    <3>3. current' \in Codes \cup {NoCode}
      BY <2>1 DEF LInv, Shape
    <3>4. QED BY <2>1, <2>3, <3>1, <3>2, <3>3, FetchStep
  <2>4. QED BY <1>4, <2>2, <2>3 DEF Deliver
<1>5. ASSUME NEW c \in Codes, Closed(c)
      PROVE  LInv'
  BY <1>5, ModuleKept DEF Closed, LInv, Shape
<1>6. CASE Reset
  BY <1>6, ModuleKept DEF Reset, LInv, Shape
<1>7. QED BY <1>1, <1>2, <1>3, <1>4, <1>5, <1>6 DEF PageStep

\* What no step of the server's codes may undo.
CodesKept ==
    /\ stage' \in [Codes -> Grant!Stages] /\ by' \in [Codes -> Users \cup {NoUser}]
    /\ \A c \in Codes : Confirmed(c)'
    /\ \A c \in Codes : stage[c] = "spent" => stage'[c] = "spent"

\* A step of one code that leaves the spent ones alone, and confirms for a user.
LEMMA CodeStep ==
    ASSUME LInv, NEW c \in Codes, NEW to \in Grant!Stages, NEW u \in Users \cup {NoUser},
           stage[c] # "spent", stage' = [stage EXCEPT ![c] = to],
           by' = [by EXCEPT ![c] = u],
           to \in {"confirmed", "spent"} => u \in Users
    PROVE  CodesKept
<1>1. \A d \in Codes : stage'[d] = (IF d = c THEN to ELSE stage[d]) /\ by'[d] = (IF d = c THEN u ELSE by[d])
  BY DEF LInv, Shape
<1>2. stage' \in [Codes -> Grant!Stages] /\ by' \in [Codes -> Users \cup {NoUser}]
  BY DEF LInv, Shape
<1>3. \A d \in Codes : Confirmed(d)'
  BY <1>1 DEF LInv, Confirmed
<1>4. \A d \in Codes : stage[d] = "spent" => stage'[d] = "spent"
  BY <1>1
<1>5. QED BY <1>2, <1>3, <1>4 DEF CodesKept

LEMMA GrantSteps ==
    ASSUME LInv, NEW c \in Codes,
           \/ Grant!Show(c) \/ Grant!Scan(c) \/ Grant!Spend(c) \/ Grant!Drop(c)
           \/ \E u \in Users : Grant!Confirm(c, u)
    PROVE  CodesKept
<1> USE DEF Grant!Advance, Grant!Stages, Grant!Open
<1>1. by[c] \in Users \cup {NoUser} /\ by = [by EXCEPT ![c] = by[c]]
  BY DEF LInv, Shape
<1>2. CASE Grant!Show(c)
  BY <1>1, <1>2, CodeStep DEF Grant!Show
<1>3. CASE Grant!Scan(c)
  BY <1>1, <1>3, CodeStep DEF Grant!Scan
<1>4. CASE Grant!Spend(c)
  <2>1. by[c] \in Users
    BY <1>4 DEF Grant!Spend, LInv, Confirmed
  <2>2. QED BY <1>1, <1>4, <2>1, CodeStep DEF Grant!Spend
<1>5. CASE Grant!Drop(c)
  BY <1>1, <1>5, CodeStep DEF Grant!Drop
<1>6. ASSUME NEW u \in Users, Grant!Confirm(c, u)
      PROVE  CodesKept
  BY <1>6, CodeStep DEF Grant!Confirm
<1>7. QED BY <1>2, <1>3, <1>4, <1>5, <1>6

LEMMA NoGrantStep == ASSUME LInv, UNCHANGED codes PROVE CodesKept
BY DEF LInv, Shape, Confirmed, CodesKept, codes

\* The phones and the clock: only the codes change.
LEMMA CodesOnly ==
    ASSUME LInv, CodesKept, UNCHANGED <<call, current, landed>>
    PROVE  LInv'
BY DEF LInv, Shape, CodesKept, Granted

\* The server answers a fetch; it grants a session with the code it spent.
LEMMA Served ==
    ASSUME LInv, CodesKept, NEW k \in Calls, NEW at \in {"ok", "failed"},
           call[k].op # "none", Answer(k, at), UNCHANGED <<current, landed>>,
           call[k].op = "session" /\ at = "ok" =>
               call[k].arg \in Codes /\ stage'[call[k].arg] = "spent"
    PROVE  LInv'
<1>1. call[k] \in Call
  BY DEF LInv, Shape, NoCall
<1>2. PICK f \in Call : /\ f.op = call[k].op /\ f.code = call[k].code
                        /\ f.arg = call[k].arg /\ f.at = at
                        /\ call' = [call EXCEPT ![k] = f]
  <2>1. [call[k] EXCEPT !.at = at] \in Call
    BY <1>1 DEF Call
  <2>2. QED BY <1>1, <2>1 DEF Answer, Call
<1>3. \A l \in Calls : call'[l] = IF l = k THEN f ELSE call[l]
  BY <1>2 DEF LInv, Shape
<1>4. Shape'
  BY <1>2, <1>3 DEF LInv, Shape, CodesKept
<1>5. \A l \in Calls : Granted(l)'
  BY <1>2, <1>3 DEF LInv, CodesKept, Granted
<1>6. QED BY <1>4, <1>5 DEF LInv, Shape, CodesKept

LEMMA ServerSteps == ASSUME LInv, ServerStep PROVE LInv'
<1> USE DEF module
<1>1. ASSUME NEW k \in Calls, ServeCreate(k)
      PROVE  LInv'
  <2>1. call[k].op = "create" /\ call[k].code \in Codes
    BY <1>1 DEF ServeCreate, LInv, Shape
  <2>2. CodesKept
    BY <1>1, <2>1, GrantSteps, NoGrantStep DEF ServeCreate
  <2>3. \E at \in {"ok", "failed"} : Answer(k, at)
    BY <1>1 DEF ServeCreate
  <2>4. QED BY <1>1, <2>1, <2>2, <2>3, Served DEF ServeCreate
<1>2. ASSUME NEW k \in Calls, ServeCancel(k)
      PROVE  LInv'
  <2>1. call[k].op = "cancel" /\ call[k].code \in Codes
    BY <1>2 DEF ServeCancel, LInv, Shape
  <2>2. CodesKept
    BY <1>2, <2>1, GrantSteps, NoGrantStep DEF ServeCancel
  <2>3. QED BY <1>2, <2>1, <2>2, Served DEF ServeCancel
<1>3. ASSUME NEW k \in Calls, ServeSession(k)
      PROVE  LInv'
  <2>1. call[k].op = "session" /\ call[k].arg \in Codes
    BY <1>3 DEF ServeSession, LInv, Shape
  <2>2. CASE call[k].code = call[k].arg /\ stage[call[k].arg] = "confirmed"
    <3>1. Grant!Spend(call[k].arg)
      BY <1>3, <2>2 DEF ServeSession
    <3>2. CodesKept
      BY <2>1, <3>1, GrantSteps
    <3>3. stage'[call[k].arg] = "spent"
      BY <2>1, <3>1 DEF Grant!Spend, Grant!Advance, LInv, Shape
    <3>4. \E at \in {"ok", "failed"} : Answer(k, at)
      BY <1>3, <2>2 DEF ServeSession
    <3>5. QED BY <1>3, <2>1, <2>2, <3>2, <3>3, <3>4, Served DEF ServeSession
  <2>3. CASE UNCHANGED codes /\ Answer(k, "failed")
    BY <1>3, <2>1, <2>3, NoGrantStep, Served DEF ServeSession
  <2>4. QED BY <1>3, <2>1, <2>2, <2>3 DEF ServeSession
<1>4. ASSUME NEW c \in Codes,
             \/ Check(c) \/ Register(c)
             \/ \E s \in {"scanned", "confirmed", "cancelled"} : Notify(c, s)
      PROVE  LInv'
  BY <1>4, ModuleKept DEF Check, Register, Notify, codes, LInv, Shape
<1>5. QED BY <1>1, <1>2, <1>3, <1>4 DEF ServerStep

LEMMA UserSteps == ASSUME LInv, UserStep PROVE LInv'
<1> USE DEF module
<1>1. ASSUME NEW k \in Calls, Close(k)
      PROVE  LInv'
  BY <1>1, DialogStep DEF Close, codes
<1>2. ASSUME NEW k \in Calls, NEW c \in Codes, Open(k, c)
      PROVE  LInv'
  <2>1. call' = [call EXCEPT ![k] = Sent("create", c, NoCode)] /\ UNCHANGED <<stage, by, landed>>
    BY <1>2 DEF Open, codes
  <2>2. current' \in Codes \cup {NoCode}
    BY <1>2 DEF Open, LInv, Shape
  <2>3. /\ Sent("create", c, NoCode) \in Call /\ Sent("create", c, NoCode).op = "create"
        /\ Sent("create", c, NoCode).code = c
    BY Fetches
  <2>4. QED BY <2>1, <2>2, <2>3, FetchStep
<1>3. ASSUME NEW c \in Codes,
             \/ PhoneScan(c) \/ PhoneCancel(c) \/ Lapse(c)
             \/ \E u \in Users : PhoneConfirm(c, u)
      PROVE  LInv'
  <2>1. CodesKept
    BY <1>3, GrantSteps, NoGrantStep DEF PhoneScan, PhoneCancel, Lapse, PhoneConfirm
  <2>2. UNCHANGED <<call, current, landed>>
    BY <1>3 DEF PhoneScan, PhoneCancel, Lapse, PhoneConfirm
  <2>3. QED BY <2>1, <2>2, CodesOnly
<1>4. ASSUME NEW c \in Codes, Cut(c)
      PROVE  LInv'
  BY <1>4, ModuleKept DEF Cut, codes, LInv, Shape
<1>5. QED BY <1>1, <1>2, <1>3, <1>4 DEF UserStep

LEMMA NextInv == LInv /\ [Next]_vars => LInv'
<1>1. ASSUME LInv, UNCHANGED vars PROVE LInv'
  BY <1>1, ModuleKept DEF vars, codes, module, LInv, Shape
<1>2. QED BY <1>1, PageSteps, ServerSteps, UserSteps DEF Next

(***************************************************************************)
(* The theorem                                                             *)
(***************************************************************************)

\* LandsOnConfirmed, for any number of codes and fetches: however late the
\* answers of setSessionAndRedirect and cancelCurrentToken come, and whatever
\* state.currentToken holds by then, the page leaves only on a code that
\* SetSession consumed and that a user confirmed.
THEOREM PageLandsOnConfirmed == Spec => []LandsOnConfirmed
<1>1. Init => LInv
  BY InitInv
<1>2. LInv /\ [Next]_vars => LInv'
  BY NextInv
<1>3. LInv => LandsOnConfirmed
  BY PageAssumption DEF LInv, Shape, Confirmed, LandsOnConfirmed
<1>4. QED BY <1>1, <1>2, <1>3, PTL DEF Spec

(***************************************************************************)
(* Types, with any user                                                    *)
(***************************************************************************)

Statuses == {"pending", "scanned", "confirmed", "cancelled"}
Messages == {"scanned", "confirmed", "cancelled"}
Alive == {"opening", "checked", "open"}

WireTypes ==
    /\ push \subseteq Codes \X Messages
    /\ sock \in [Codes -> Alive \cup {"none", "closing", "closed"}]
    /\ inbox \in [Codes -> Seq(Messages)]
    /\ \A c \in Codes : inbox[c] # <<>> => sock[c] = "open"

PageTypes ==
    /\ modal \in BOOLEAN /\ resets \in Nat /\ status \in Statuses
    /\ seen \subseteq Codes /\ declined \subseteq seen
    /\ shown \in Codes \cup {NoCode} /\ ws \in Codes \cup {NoCode}

\* A code gets its socket once, from the one fetch that asked for it: no message
\* can be waiting for a socket that is only being opened.
OneConnection ==
    /\ \A c \in Codes : sock[c] # "none" => stage[c] # "unused"
    /\ ws # NoCode => sock[ws] # "none"
    /\ \A k \in Calls : call[k].op = "create" =>
          /\ sock[call[k].code] = "none"
          /\ call[k].at = "ok" => stage[call[k].code] # "unused"
          /\ \A l \in Calls : call[l].op = "create" /\ call[l].code = call[k].code => l = k

TInv == LInv /\ WireTypes /\ PageTypes /\ OneConnection

\* A step that neither asks for a code nor connects.
LEMMA ConnectionStays ==
    ASSUME TInv, LInv', ws' = ws \/ ws' = NoCode,
           \A c \in Codes : /\ sock'[c] = "none" <=> sock[c] = "none"
                            /\ stage'[c] = "unused" => stage[c] = "unused",
           \A k \in Calls : call'[k].op = "create" =>
               /\ call[k].op = "create" /\ call'[k].code = call[k].code
               /\ call'[k].at = "ok" => call[k].at = "ok" \/ stage'[call[k].code] # "unused"
    PROVE  OneConnection'
<1>1. \A k \in Calls : call[k].op = "create" => call[k].code \in Codes
  BY DEF TInv, LInv, Shape
<1>2. \A c \in Codes : sock'[c] # "none" => stage'[c] # "unused"
  BY DEF TInv, OneConnection
<1>3. ws' # NoCode => sock'[ws'] # "none"
  BY DEF TInv, OneConnection, PageTypes
<1>4. ASSUME NEW k \in Calls, call'[k].op = "create"
      PROVE  /\ sock'[call'[k].code] = "none"
             /\ call'[k].at = "ok" => stage'[call'[k].code] # "unused"
  BY <1>1, <1>4 DEF TInv, OneConnection
<1>5. ASSUME NEW k \in Calls, NEW l \in Calls, call'[k].op = "create", call'[l].op = "create",
             call'[l].code = call'[k].code
      PROVE  l = k
  BY <1>5 DEF TInv, OneConnection
<1>6. QED BY <1>2, <1>3, <1>4, <1>5 DEF OneConnection

\* The dialog closes, or a fetch ends without it.
LEMMA DialogTyped ==
    ASSUME TInv, LInv', NEW k \in Calls, CloseDialog(k) \/ Dismiss(k),
           UNCHANGED <<codes, phones, status>>
    PROVE  TInv'
<1> USE DEF codes, phones
<1>1. /\ \A l \in Calls : call'[l].op = "create" => call[l] = call'[l]
      /\ UNCHANGED <<stage, by, shown, push>>
  BY DEF CloseDialog, Dismiss, wires, dialog, TInv, LInv, Shape, NoCall, Sent
<1>2. \/ UNCHANGED <<sock, inbox, modal, resets, ws>>
      \/ /\ UNCHANGED <<sock, inbox>>
         /\ modal' = FALSE /\ ws' = NoCode /\ resets' = resets + 1
      \/ /\ ws \in Codes /\ sock' = [sock EXCEPT ![ws] = "closing"]
         /\ inbox' = [inbox EXCEPT ![ws] = <<>>]
         /\ modal' = FALSE /\ ws' = NoCode /\ resets' = resets + 1
  BY DEF CloseDialog, Dismiss, wires, dialog, TInv, PageTypes
<1>3. ws \in Codes => sock[ws] # "none"
  BY PageAssumption DEF TInv, OneConnection
<1>4. WireTypes'
  <2>1. CASE UNCHANGED <<sock, inbox>>
    BY <1>1, <2>1 DEF TInv, WireTypes
  <2>2. CASE /\ ws \in Codes /\ sock' = [sock EXCEPT ![ws] = "closing"]
             /\ inbox' = [inbox EXCEPT ![ws] = <<>>]
    <3>1. \A c \in Codes : /\ sock'[c] = IF c = ws THEN "closing" ELSE sock[c]
                           /\ inbox'[c] = IF c = ws THEN <<>> ELSE inbox[c]
      BY <2>2 DEF TInv, WireTypes
    <3>2. <<>> \in Seq(Messages)
      OBVIOUS
    <3>3. QED BY <1>1, <2>2, <3>1, <3>2 DEF TInv, WireTypes
  <2>3. QED BY <1>2, <2>1, <2>2
<1>5. PageTypes'
  <2>1. \/ UNCHANGED <<modal, resets, ws>>
        \/ modal' = FALSE /\ ws' = NoCode /\ resets' = resets + 1
    BY <1>2
  <2>2. ws' \in Codes \cup {NoCode} /\ resets' \in Nat
    BY <2>1 DEF TInv, PageTypes
  <2>3. modal' \in BOOLEAN
    BY <2>1, Zenon DEF TInv, PageTypes
  <2>4. QED BY <1>1, <2>2, <2>3 DEF TInv, PageTypes
<1>6. /\ \A c \in Codes : sock'[c] = "none" <=> sock[c] = "none"
      /\ ws' = ws \/ ws' = NoCode
  BY <1>2, <1>3 DEF TInv, WireTypes
<1>7. OneConnection'
  BY <1>1, <1>6, ConnectionStays
<1>8. QED BY <1>4, <1>5, <1>7 DEF TInv

\* A code's picture is asked for, and is connected.
LEMMA OpenTyped == ASSUME TInv, LInv', NEW k \in Calls, NEW c \in Codes, Open(k, c) PROVE TInv'
<1> USE DEF codes, wires, phones, module
<1>1. /\ \A l \in Calls \ {k} : call'[l] = call[l]
      /\ call'[k].op = "create" /\ call'[k].code = c /\ call'[k].at = "sent"
  BY DEF Open, Sent, TInv, LInv, Shape
<1>2. /\ UNCHANGED <<stage, sock, ws, push, inbox, resets, status, seen, declined>>
      /\ modal' = TRUE /\ shown' = NoCode /\ stage[c] = "unused"
      /\ \A l \in Calls : call[l].op = "create" => call[l].code # c
  BY DEF Open
<1>3. WireTypes' /\ PageTypes'
  BY <1>2 DEF TInv, WireTypes, PageTypes
<1>4. sock[c] = "none"
  BY <1>2 DEF TInv, OneConnection
<1>5. OneConnection'
  BY <1>1, <1>2, <1>4 DEF TInv, OneConnection
<1>6. QED BY <1>3, <1>5 DEF TInv

LEMMA CreatedTyped == ASSUME TInv, LInv', NEW k \in Calls, Created(k) PROVE TInv'
<1> DEFINE c == call[k].code
<1>1. /\ c \in Codes /\ stage[c] # "unused" /\ sock[c] = "none" /\ inbox[c] = <<>>
      /\ \A l \in Calls \ {k} : call[l].op = "create" => call[l].code # c
  BY DEF Created, TInv, LInv, Shape, OneConnection, WireTypes
<1>2. /\ UNCHANGED <<stage, push, inbox, declined, modal, resets, status>>
      /\ ws' = c /\ shown' = c /\ sock' = [sock EXCEPT ![c] = "opening"]
      /\ seen' = seen \cup {c} \/ seen' = seen
  BY DEF Created, generateQRCode, codes
<1>3. \A l \in Calls : call'[l].op = "create" => l # k /\ call'[l] = call[l]
  BY DEF Created, NoCall, TInv, LInv, Shape
<1> HIDE DEF c
<1>4. WireTypes' /\ PageTypes'
  BY <1>1, <1>2 DEF TInv, WireTypes, PageTypes, Alive
<1>5. \A d \in Codes : sock'[d] = IF d = c THEN "opening" ELSE sock[d]
  BY <1>2 DEF TInv, WireTypes
<1>6. \A l \in Calls : call[l].op = "create" => call[l].code \in Codes
  BY DEF TInv, LInv, Shape
<1>7. OneConnection'
  BY <1>1, <1>2, <1>3, <1>5, <1>6 DEF TInv, OneConnection, c
<1>8. QED BY <1>4, <1>7 DEF TInv

LEMMA PageTyped == ASSUME TInv, LInv', PageStep PROVE TInv'
<1> USE DEF codes, wires, dialog, phones, module
<1>1. ASSUME NEW k \in Calls, NotCreated(k) \/ SessionSet(k) PROVE TInv'
  BY <1>1, DialogTyped DEF NotCreated, SessionSet
<1>2. ASSUME NEW k \in Calls, Cancelled(k) PROVE TInv'
  <2>1. \A l \in Calls : call'[l].op = "create" => call'[l] = call[l]
    BY <1>2 DEF Cancelled, NoCall, TInv, LInv, Shape
  <2>2. UNCHANGED <<stage, push, sock, inbox, modal, shown, resets, seen, declined, status, ws>>
    BY <1>2 DEF Cancelled
  <2>3. OneConnection'
    BY <2>1, <2>2, ConnectionStays
  <2>4. QED BY <2>2, <2>3 DEF TInv, WireTypes, PageTypes
<1>3. ASSUME NEW c \in Codes, Deliver(c) PROVE TInv'
  <2>1. \A l \in Calls : call'[l].op = "create" => call'[l] = call[l]
    BY <1>3 DEF Deliver, Sent, TInv, LInv, Shape
  <2>2. /\ UNCHANGED <<stage, push, sock, modal, shown, resets, seen, declined, ws>>
        /\ inbox[c] # <<>> /\ inbox' = [inbox EXCEPT ![c] = Tail(@)]
        /\ status' \in Statuses
    BY <1>3 DEF Deliver, SetScanned, SetCancelled, TInv, PageTypes, Statuses
  <2>3. OneConnection'
    BY <2>1, <2>2, ConnectionStays
  <2>4. Tail(inbox[c]) \in Seq(Messages)
    BY <2>2 DEF TInv, WireTypes
  <2>5. QED BY <2>2, <2>3, <2>4 DEF TInv, WireTypes, PageTypes
<1>4. ASSUME NEW c \in Codes, Closed(c) PROVE TInv'
  <2>1. /\ UNCHANGED <<stage, call, push, inbox, modal, shown, resets, seen, declined, status>>
        /\ sock[c] = "closing" /\ sock' = [sock EXCEPT ![c] = "closed"] /\ ws' = NoCode
    BY <1>4 DEF Closed
  <2>2. OneConnection'
    BY <2>1, ConnectionStays DEF TInv, WireTypes
  <2>3. QED BY <2>1, <2>2 DEF TInv, WireTypes, PageTypes
<1>5. CASE Reset
  <2>1. UNCHANGED <<stage, call, push, sock, inbox, modal, shown, seen, declined, ws>>
    BY <1>5 DEF Reset
  <2>2. OneConnection'
    BY <2>1, ConnectionStays
  <2>3. QED BY <1>5, <2>1, <2>2 DEF TInv, WireTypes, PageTypes, Reset, Statuses
<1>6. QED BY <1>1, <1>2, <1>3, <1>4, <1>5, CreatedTyped DEF PageStep

\* What the server answers, and what becomes of a code.
LEMMA CodeTyped ==
    ASSUME TInv, LInv', NEW P, P \subseteq Codes \X Messages, push' = push \cup P,
           UNCHANGED <<sock, inbox, dialog, seen, module>>, declined' \subseteq seen,
           \A c \in Codes : stage'[c] = "unused" => stage[c] = "unused",
           \A k \in Calls : call'[k].op = "create" =>
               /\ call[k].op = "create" /\ call'[k].code = call[k].code
               /\ call'[k].at = "ok" => call[k].at = "ok" \/ stage'[call[k].code] # "unused"
    PROVE  TInv'
<1> USE DEF dialog, module
<1>1. OneConnection'
  BY ConnectionStays
<1>2. QED BY <1>1 DEF TInv, WireTypes, PageTypes

LEMMA ServerTyped == ASSUME TInv, LInv', ServerStep PROVE TInv'
<1> USE DEF codes, wires, phones
<1>1. ASSUME NEW k \in Calls, ServeCreate(k) \/ ServeCancel(k) \/ ServeSession(k) PROVE TInv'
  <2>1. \E at \in {"ok", "failed"} : Answer(k, at)
    BY <1>1 DEF ServeCreate, ServeCancel, ServeSession
  <2>2. /\ \A l \in Calls \ {k} : call'[l] = call[l]
        /\ call'[k].op = call[k].op /\ call'[k].code = call[k].code
    BY <1>1, <2>1 DEF Answer, ServeCreate, ServeCancel, ServeSession, TInv, LInv, Shape, Call,
                      NoCall
  <2>3. UNCHANGED <<push, sock, inbox, dialog, seen, declined, module>>
    BY <1>1 DEF ServeCreate, ServeCancel, ServeSession
  <2>4. \A c \in Codes : stage'[c] = "unused" => stage[c] = "unused"
    BY <1>1 DEF ServeCreate, ServeCancel, ServeSession, Grant!Show, Grant!Drop, Grant!Spend,
                Grant!Advance, TInv, LInv, Shape
  <2>5. call[k].op = "create" /\ call'[k].at = "ok" => stage'[call[k].code] # "unused"
    BY <1>1 DEF ServeCreate, ServeCancel, ServeSession, Answer, Grant!Show, Grant!Advance, TInv,
                LInv,
                Shape, Call, NoCall
  <2>6. declined' \subseteq seen /\ push' = push \cup {}
    BY <2>3 DEF TInv, PageTypes
  <2>7. QED BY <2>2, <2>3, <2>4, <2>5, <2>6, CodeTyped
<1>2. ASSUME NEW c \in Codes, Check(c) \/ Register(c) PROVE TInv'
  <2>1. /\ UNCHANGED <<stage, call, push, inbox, dialog, seen, declined, module>>
        /\ sock[c] \in {"opening", "checked"}
        /\ \E at \in {"checked", "open", "closing"} : sock' = [sock EXCEPT ![c] = at]
    BY <1>2 DEF Check, Register
  <2>2. OneConnection'
    BY <2>1, ConnectionStays DEF TInv, WireTypes, module
  <2>3. QED BY <2>1, <2>2 DEF TInv, WireTypes, PageTypes, Alive, dialog, module
<1>3. ASSUME NEW c \in Codes, NEW s \in Messages, Notify(c, s) PROVE TInv'
  <2>1. /\ UNCHANGED <<stage, call, sock, dialog, seen, declined, module>> /\ push' \subseteq push
        /\ \/ inbox' = inbox
           \/ sock[c] = "open" /\ inbox' = [inbox EXCEPT ![c] = Append(@, s)]
    BY <1>3 DEF Notify
  <2>2. OneConnection'
    BY <2>1, ConnectionStays DEF module
  <2>3. Append(inbox[c], s) \in Seq(Messages)
    BY DEF TInv, WireTypes
  <2>4. WireTypes'
    BY <2>1, <2>3 DEF TInv, WireTypes
  <2>5. PageTypes'
    BY <2>1 DEF TInv, PageTypes, dialog, module
  <2>6. QED BY <2>2, <2>4, <2>5 DEF TInv
<1>4. QED BY <1>1, <1>2, <1>3 DEF ServerStep, Messages

LEMMA UserTyped == ASSUME TInv, LInv', UserStep PROVE TInv'
<1> USE DEF codes, wires, phones
<1>1. ASSUME NEW k \in Calls, Close(k) PROVE TInv'
  BY <1>1, DialogTyped DEF Close
<1>2. ASSUME NEW c \in Codes,
             \/ PhoneScan(c) \/ PhoneCancel(c) \/ Lapse(c)
             \/ \E u \in Users : PhoneConfirm(c, u)
      PROVE  TInv'
  <2>1. /\ UNCHANGED <<sock, inbox, call, dialog, seen, module>> /\ declined' \subseteq seen
        /\ push' = push \/ \E s \in Messages : push' = push \cup {<<c, s>>}
    BY <1>2 DEF PhoneScan, PhoneCancel, Lapse, PhoneConfirm, Messages, TInv, PageTypes
  <2>2. \A d \in Codes : stage'[d] = "unused" => stage[d] = "unused"
    BY <1>2 DEF PhoneScan, PhoneCancel, Lapse, PhoneConfirm, Grant!Scan, Grant!Drop, Grant!Confirm,
                Grant!Advance, TInv, LInv, Shape
  <2>3. PICK P \in SUBSET (Codes \X Messages) : push' = push \cup P
    <3>1. CASE push' = push
      <4>1. push' = push \cup {}
        BY <3>1
      <4>2. QED BY <4>1
    <3>2. ASSUME NEW s \in Messages, push' = push \cup {<<c, s>>}
          PROVE  \E P \in SUBSET (Codes \X Messages) : push' = push \cup P
      <4>1. {<<c, s>>} \in SUBSET (Codes \X Messages)
        OBVIOUS
      <4>2. QED BY <3>2, <4>1
    <3>3. QED BY <2>1, <3>1, <3>2
  <2>4. QED BY <2>1, <2>2, <2>3, CodeTyped
<1>3. ASSUME NEW c \in Codes, Cut(c) PROVE TInv'
  <2>1. /\ UNCHANGED <<stage, call, push, dialog, seen, declined, module>>
        /\ sock[c] \in {"opening", "checked", "open"} /\ sock' = [sock EXCEPT ![c] = "closing"]
        /\ inbox' = [inbox EXCEPT ![c] = <<>>]
    BY <1>3 DEF Cut
  <2>2. OneConnection'
    BY <2>1, ConnectionStays DEF TInv, WireTypes, module
  <2>3. QED BY <2>1, <2>2 DEF TInv, WireTypes, PageTypes, dialog, module
<1>4. QED BY <1>1, <1>2, <1>3, OpenTyped DEF UserStep

LEMMA InitTInv == Init => TInv
<1> SUFFICES ASSUME Init PROVE TInv
  OBVIOUS
<1>1. <<>> \in Seq(Messages)
  OBVIOUS
<1>2. WireTypes
  BY <1>1 DEF Init, WireTypes
<1>3. PageTypes
  BY DEF Init, PageTypes, Statuses
<1>4. OneConnection
  BY DEF Init, OneConnection, NoCall
<1>5. QED BY <1>2, <1>3, <1>4, InitInv DEF TInv

LEMMA NextTInv == TInv /\ [Next]_vars => TInv'
<1>1. ASSUME TInv, UNCHANGED vars PROVE TInv'
  BY <1>1, NextInv DEF vars, codes, wires, dialog, phones, module, TInv, WireTypes, PageTypes,
                       OneConnection
<1>2. ASSUME TInv, Next PROVE TInv'
  <2>1. LInv'
    BY <1>2, NextInv DEF TInv
  <2>2. QED BY <1>2, <2>1, PageTyped, ServerTyped, UserTyped DEF Next
<1>3. QED BY <1>1, <1>2

\* The page's module state, its sockets and its fetches keep their types, with
\* impatient users and faults too, and a message waits only for an open socket:
\* a code that was drawn is connected once.
THEOREM PageTypeCorrect == Spec => []TypeOK
<1>1. TInv => TypeOK
  BY DEF TInv, LInv, Shape, WireTypes, PageTypes, TypeOK, Messages, Statuses, Alive
<1>2. QED BY <1>1, InitTInv, NextTInv, PTL DEF Spec

(***************************************************************************)
(* A patient user: one dialog at a time                                    *)
(***************************************************************************)

DialogTypes ==
    /\ sock \in [Codes -> Alive \cup {"none", "closing", "closed"}]
    /\ inbox \in [Codes -> Seq(Messages)]
    /\ modal \in BOOLEAN /\ resets \in Nat
    /\ shown \in Codes \cup {NoCode} /\ ws \in Codes \cup {NoCode}
    /\ status \in Statuses
    /\ push \subseteq Codes \X Messages

\* The fetch that asks for a code is the only one, and precedes the picture.
AsksAlone ==
    \A k \in Calls : call[k].op = "create" =>
        /\ modal /\ shown = NoCode
        /\ \A l \in Calls : l = k \/ Free(l)

\* Nothing of an earlier dialog reaches an open one; a picture is of the code
\* the page holds.
OpenIsFresh ==
    modal =>
        /\ resets = 0
        /\ \A k \in Calls : call[k].op # "cancel"
        /\ shown = NoCode => ws = NoCode /\ status = "pending"
        /\ shown # NoCode => current = shown

\* A status that outlives its dialog is about to be reset.
ClosedIsQuiet == ~modal => ws = NoCode /\ (status = "pending" \/ resets > 0)

\* A socket that lives is the one the page holds, and it is of the picture.
OneSocket ==
    /\ ws # NoCode => ws = shown
    /\ \A c \in Codes : /\ sock[c] \in Alive => ws = c
                        /\ sock[c] = "closing" /\ modal => shown = c
                        /\ inbox[c] # <<>> => sock[c] = "open"

\* What is said of a confirmation is true.
ConfirmationsTrue ==
    \A c \in Codes :
        \/ <<c, "confirmed">> \in push
        \/ \E i \in 1 .. Len(inbox[c]) : inbox[c][i] = "confirmed"
        \/ modal /\ shown = c /\ status = "confirmed"
        => stage[c] \in {"confirmed", "spent", "dropped"}

\* A code that can still be scanned has its picture in the dialog, or is on
\* its way into it, or on its way to be taken back.
Accounted(c) ==
    \/ modal /\ shown = c
    \/ \E k \in Calls : call[k].op = "create" /\ call[k].at = "ok" /\ call[k].code = c
    \/ \E k \in Calls : call[k].op = "cancel" /\ call[k].at = "sent" /\ call[k].code = c

CodesAccounted == \A c \in Codes : stage[c] \in {"pending", "scanned"} => Accounted(c)

DInv ==
    /\ LInv
    /\ DialogTypes
    /\ AsksAlone
    /\ OpenIsFresh
    /\ ClosedIsQuiet
    /\ OneSocket
    /\ ConfirmationsTrue
    /\ CodesAccounted

LEMMA OpenStep == ASSUME DInv, LInv', Patient, NEW k \in Calls, NEW c \in Codes, Open(k, c) PROVE DInv'
<1> USE PageAssumption DEF DInv, LInv, Shape, codes, wires, dialog, phones, module, Open
<1>a. \A l \in Calls : call'[l] = IF l = k THEN Sent("create", c, NoCode) ELSE call[l]
  OBVIOUS
<1>b. /\ Sent("create", c, NoCode).op = "create" /\ Sent("create", c, NoCode).code = c
      /\ Sent("create", c, NoCode).at = "sent"
  BY Fetches
<1>c. /\ ~modal /\ modal' = TRUE /\ shown' = NoCode /\ resets = 0 /\ ws = NoCode /\ status = "pending"
      /\ \A l \in Calls : call[l].op = "none"
      /\ \A d \in Codes : sock[d] \in {"none", "closed"}
  BY DEF Settled, Free, NoCall, ClosedIsQuiet, DialogTypes, OneSocket, Alive
<1>1. DialogTypes'
  BY DEF DialogTypes, Statuses, Messages, Alive
<1>2. AsksAlone'
  BY <1>a, <1>b, <1>c DEF AsksAlone, Free, NoCall, Settled
<1>3. OpenIsFresh'
  BY <1>a, <1>b, <1>c DEF OpenIsFresh
<1>4. ClosedIsQuiet'
  BY DEF ClosedIsQuiet, DialogTypes, Messages, Statuses, Alive
<1>5. OneSocket'
  BY <1>c DEF OneSocket, Alive, DialogTypes
<1>6. ConfirmationsTrue'
  BY DEF ConfirmationsTrue, DialogTypes, Messages, Statuses, Alive
<1>7. CodesAccounted'
  <2>1. \A d \in Codes : stage[d] \notin {"pending", "scanned"}
    BY <1>c DEF CodesAccounted, Accounted
  <2>2. QED BY <2>1 DEF CodesAccounted
<1>8. QED BY <1>1, <1>2, <1>3, <1>4, <1>5, <1>6, <1>7

LEMMA CreatedStep == ASSUME DInv, LInv', NEW k \in Calls, Created(k) PROVE DInv'
<1> USE PageAssumption DEF DInv, LInv, Shape, codes, wires, dialog, phones, module, Created,
        generateQRCode
<1>a. \A l \in Calls : call'[l] = IF l = k THEN NoCall ELSE call[l]
  OBVIOUS
<1>b. PICK d \in Codes : d = call[k].code
  OBVIOUS
<1>c. /\ modal /\ modal' = TRUE /\ shown = NoCode /\ shown' = d /\ current' = d /\ ws' = d /\ ws = NoCode
      /\ status = "pending" /\ status' = status /\ call[k].op = "create"
      /\ \A l \in Calls : l = k \/ call[l].op = "none"
      /\ sock' = [sock EXCEPT ![d] = "opening"] /\ inbox' = inbox
      /\ \A e \in Codes : sock[e] \in {"none", "closed"}
  <2>1. modal /\ shown = NoCode /\ \A l \in Calls : l = k \/ call[l].op = "none"
    BY DEF AsksAlone, Free, NoCall
  <2>2. ws = NoCode /\ status = "pending"
    BY <2>1 DEF OpenIsFresh
  <2>3. \A e \in Codes : sock[e] \in {"none", "closed"}
    BY <2>1, <2>2 DEF DialogTypes, OneSocket, Alive
  <2>4. QED BY <1>b, <2>1, <2>2, <2>3
<1>1. DialogTypes'
  BY DEF DialogTypes, Statuses, Messages, Alive
<1>2. AsksAlone'
  BY DEF AsksAlone, Free, NoCall, DialogTypes, Messages, Statuses, Alive
<1>3. OpenIsFresh'
  BY DEF OpenIsFresh, Free, NoCall, DialogTypes, Messages, Statuses, Alive
<1>4. ClosedIsQuiet'
  BY <1>c DEF ClosedIsQuiet
<1>5. OneSocket'
  BY <1>b, <1>c DEF OneSocket, Alive, DialogTypes
<1>6. ConfirmationsTrue'
  BY <1>c DEF ConfirmationsTrue
<1>7. CodesAccounted'
  <2>1. \A e \in Codes : stage[e] \in {"pending", "scanned"} => e = d
    BY <1>b, <1>c DEF CodesAccounted, Accounted
  <2>2. QED BY <1>c, <2>1 DEF CodesAccounted, Accounted
<1>8. QED BY <1>1, <1>2, <1>3, <1>4, <1>5, <1>6, <1>7

LEMMA DeliverStep == ASSUME DInv, LInv', NEW c \in Codes, Deliver(c) PROVE DInv'
<1> USE PageAssumption DEF DInv, LInv, Shape, codes, wires, dialog, phones, module, Deliver,
        SetScanned, SetCancelled
<1>a. \/ call' = call
      \/ \E k \in Calls : Free(k) /\ call' = [call EXCEPT ![k] = Sent("session", current, c)]
  OBVIOUS
<1>b. PICK a \in Codes \cup {NoCode} : a = current
  OBVIOUS
<1>c. \A l \in Calls : \/ call'[l] = call[l]
                      \/ (call[l].op = "none" /\ call'[l].op = "session")
  <2>1. Sent("session", a, c).op = "session"
    BY Fetches
  <2>2. ASSUME NEW k \in Calls, Free(k), call' = [call EXCEPT ![k] = Sent("session", a, c)]
        PROVE  \A l \in Calls : \/ call'[l] = call[l]
                                \/ (call[l].op = "none" /\ call'[l].op = "session")
    BY <2>1, <2>2 DEF Free, NoCall
  <2>3. CASE call' = call
    BY <2>3
  <2>4. CASE \E k \in Calls : Free(k) /\ call' = [call EXCEPT ![k] = Sent("session", current, c)]
    <3>1. PICK k \in Calls : Free(k) /\ call' = [call EXCEPT ![k] = Sent("session", current, c)]
      BY <2>4
    <3>2. QED BY <1>b, <2>2, <3>1
  <2>5. QED BY <1>a, <2>3, <2>4
<1>d. /\ sock[c] = "open" /\ ws = c /\ shown = c /\ modal /\ shown' = shown /\ modal' = modal /\ resets' = resets
      /\ ws' = ws /\ current' = current
  BY DEF OneSocket, Alive, ClosedIsQuiet, DialogTypes
<1>e. /\ Len(inbox[c]) > 0 /\ Head(inbox[c]) = inbox[c][1] /\ inbox[c] \in Seq(Messages)
      /\ inbox' = [inbox EXCEPT ![c] = Tail(inbox[c])]
  BY DEF DialogTypes
<1>1. DialogTypes'
  BY DEF DialogTypes, Statuses, Messages, Alive
<1>2. AsksAlone'
  <2>1. \A l \in Calls : call[l].op # "create"
    BY <1>d DEF AsksAlone
  <2>2. QED BY <1>c, <2>1 DEF AsksAlone
<1>3. OpenIsFresh'
  BY <1>c, <1>d DEF OpenIsFresh
<1>4. ClosedIsQuiet'
  BY <1>d DEF ClosedIsQuiet
<1>5. OneSocket'
  BY DEF OneSocket, Alive, DialogTypes, Messages, Statuses, Alive
<1>6. ConfirmationsTrue'
  <2>1. ASSUME NEW d \in Codes, NEW i \in 1 .. Len(inbox'[d]), inbox'[d][i] = "confirmed"
        PROVE  \E j \in 1 .. Len(inbox[d]) : inbox[d][j] = "confirmed"
    <3>1. CASE d # c
      BY <1>e, <2>1, <3>1 DEF DialogTypes
    <3>2. CASE d = c
      <4>1. inbox'[c] = Tail(inbox[c])
        BY <1>e DEF DialogTypes
      <4>2. i + 1 \in 1 .. Len(inbox[c]) /\ Tail(inbox[c])[i] = inbox[c][i + 1]
        <5>1. Len(Tail(inbox[c])) = Len(inbox[c]) - 1 /\ Len(inbox[c]) \in Nat
          BY <1>e
        <5>2. i \in 1 .. (Len(inbox[c]) - 1)
          BY <2>1, <3>2, <4>1, <5>1
        <5>3. QED BY <1>e, <5>1, <5>2
      <4>3. QED BY <2>1, <3>2, <4>1, <4>2
    <3>3. QED BY <3>1, <3>2
  <2>2. ASSUME status' = "confirmed", status # "confirmed"
        PROVE  \E j \in 1 .. Len(inbox[c]) : inbox[c][j] = "confirmed"
    <3>1. Head(inbox[c]) = "confirmed"
      BY <2>2 DEF SetScanned, SetCancelled
    <3>2. 1 \in 1 .. Len(inbox[c])
      BY <1>e
    <3>3. QED BY <1>e, <3>1, <3>2
  <2>3. UNCHANGED <<push, stage>>
    OBVIOUS
  <2>4. QED BY <1>d, <2>1, <2>2, <2>3 DEF ConfirmationsTrue
<1>7. CodesAccounted'
  <2>1. \A d \in Codes : Accounted(d) => Accounted(d)'
    <3>1. \A l \in Calls : call[l].op \in {"create", "cancel"} => call'[l] = call[l]
      BY <1>c
    <3>2. QED BY <1>d, <3>1 DEF Accounted
  <2>2. stage' = stage
    OBVIOUS
  <2>3. QED BY <2>1, <2>2 DEF CodesAccounted
<1>8. QED BY <1>1, <1>2, <1>3, <1>4, <1>5, <1>6, <1>7

LEMMA ClosedStep == ASSUME DInv, LInv', NEW c \in Codes, Closed(c) PROVE DInv'
<1> USE PageAssumption DEF DInv, LInv, Shape, codes, wires, dialog, phones, module, Closed
<1>1. DialogTypes'
  BY DEF DialogTypes, Statuses, Messages, Alive
<1>2. AsksAlone'
  BY DEF AsksAlone, Free, NoCall, DialogTypes, Messages, Statuses, Alive
<1>3. OpenIsFresh'
  BY DEF OpenIsFresh, Free, NoCall, DialogTypes, Messages, Statuses, Alive
<1>4. ClosedIsQuiet'
  BY DEF ClosedIsQuiet, DialogTypes, Messages, Statuses, Alive
<1>5. OneSocket'
  <2>1. \A d \in Codes : sock'[d] = IF d = c THEN "closed" ELSE sock[d]
    BY DEF DialogTypes
  <2>2. CASE modal
    BY <2>1, <2>2 DEF OneSocket, Alive
  <2>3. CASE ~modal
    BY <2>1, <2>3 DEF OneSocket, Alive, ClosedIsQuiet
  <2>4. QED BY <2>2, <2>3 DEF DialogTypes
<1>6. ConfirmationsTrue'
  BY DEF ConfirmationsTrue, DialogTypes, Messages, Statuses, Alive
<1>7. CodesAccounted'
  BY DEF CodesAccounted, Accounted, Free, NoCall, DialogTypes, Messages, Statuses, Alive
<1>8. QED BY <1>1, <1>2, <1>3, <1>4, <1>5, <1>6, <1>7

LEMMA ResetStep == ASSUME DInv, LInv', Reset PROVE DInv'
<1> USE PageAssumption DEF DInv, LInv, Shape, codes, wires, dialog, phones, module, Reset
<1>1. DialogTypes'
  BY DEF DialogTypes, Statuses, Messages, Alive
<1>2. AsksAlone'
  BY DEF AsksAlone, Free, NoCall, DialogTypes, Messages, Statuses, Alive
<1>3. OpenIsFresh'
  BY DEF OpenIsFresh, Free, NoCall, DialogTypes, Messages, Statuses, Alive
<1>4. ClosedIsQuiet'
  BY DEF ClosedIsQuiet, DialogTypes, Messages, Statuses, Alive
<1>5. OneSocket'
  BY DEF OneSocket, Alive, DialogTypes, Messages, Statuses, Alive
<1>6. ConfirmationsTrue'
  BY DEF ConfirmationsTrue, DialogTypes, Messages, Statuses, Alive
<1>7. CodesAccounted'
  BY DEF CodesAccounted, Accounted, Free, NoCall, DialogTypes, Messages, Statuses, Alive
<1>8. QED BY <1>1, <1>2, <1>3, <1>4, <1>5, <1>6, <1>7

LEMMA CheckStep == ASSUME DInv, LInv', NEW c \in Codes, Check(c) PROVE DInv'
<1> USE PageAssumption DEF DInv, LInv, Shape, codes, wires, dialog, phones, module, Check
<1>1. DialogTypes'
  BY DEF DialogTypes, Statuses, Messages, Alive
<1>2. AsksAlone'
  BY DEF AsksAlone, Free, NoCall, DialogTypes, Messages, Statuses, Alive
<1>3. OpenIsFresh'
  BY DEF OpenIsFresh, Free, NoCall, DialogTypes, Messages, Statuses, Alive
<1>4. ClosedIsQuiet'
  BY DEF ClosedIsQuiet, DialogTypes, Messages, Statuses, Alive
<1>5. OneSocket'
  BY DEF OneSocket, Alive, DialogTypes, Messages, Statuses, Alive
<1>6. ConfirmationsTrue'
  BY DEF ConfirmationsTrue, DialogTypes, Messages, Statuses, Alive
<1>7. CodesAccounted'
  BY DEF CodesAccounted, Accounted, Free, NoCall, DialogTypes, Messages, Statuses, Alive
<1>8. QED BY <1>1, <1>2, <1>3, <1>4, <1>5, <1>6, <1>7

LEMMA RegisterStep == ASSUME DInv, LInv', NEW c \in Codes, Register(c) PROVE DInv'
<1> USE PageAssumption DEF DInv, LInv, Shape, codes, wires, dialog, phones, module, Register
<1>1. DialogTypes'
  BY DEF DialogTypes, Statuses, Messages, Alive
<1>2. AsksAlone'
  BY DEF AsksAlone, Free, NoCall, DialogTypes, Messages, Statuses, Alive
<1>3. OpenIsFresh'
  BY DEF OpenIsFresh, Free, NoCall, DialogTypes, Messages, Statuses, Alive
<1>4. ClosedIsQuiet'
  BY DEF ClosedIsQuiet, DialogTypes, Messages, Statuses, Alive
<1>5. OneSocket'
  BY DEF OneSocket, Alive, DialogTypes, Messages, Statuses, Alive
<1>6. ConfirmationsTrue'
  BY DEF ConfirmationsTrue, DialogTypes, Messages, Statuses, Alive
<1>7. CodesAccounted'
  BY DEF CodesAccounted, Accounted, Free, NoCall, DialogTypes, Messages, Statuses, Alive
<1>8. QED BY <1>1, <1>2, <1>3, <1>4, <1>5, <1>6, <1>7

LEMMA CutStep == ASSUME DInv, LInv', NEW c \in Codes, Cut(c) PROVE DInv'
<1> USE PageAssumption DEF DInv, LInv, Shape, codes, wires, dialog, phones, module, Cut
<1>1. DialogTypes'
  BY DEF DialogTypes, Statuses, Messages, Alive
<1>2. AsksAlone'
  BY DEF AsksAlone, Free, NoCall, DialogTypes, Messages, Statuses, Alive
<1>3. OpenIsFresh'
  BY DEF OpenIsFresh, Free, NoCall, DialogTypes, Messages, Statuses, Alive
<1>4. ClosedIsQuiet'
  BY DEF ClosedIsQuiet, DialogTypes, Messages, Statuses, Alive
<1>5. OneSocket'
  BY DEF OneSocket, Alive, DialogTypes, Messages, Statuses, Alive
<1>6. ConfirmationsTrue'
  BY DEF ConfirmationsTrue, DialogTypes, Messages, Statuses, Alive
<1>7. CodesAccounted'
  BY DEF CodesAccounted, Accounted, Free, NoCall, DialogTypes, Messages, Statuses, Alive
<1>8. QED BY <1>1, <1>2, <1>3, <1>4, <1>5, <1>6, <1>7

LEMMA NotifyStep == ASSUME DInv, LInv', NEW c \in Codes, NEW s \in Messages, Notify(c, s) PROVE DInv'
<1> USE PageAssumption DEF DInv, LInv, Shape, codes, wires, dialog, phones, module, Notify
<1>1. DialogTypes'
  BY DEF DialogTypes, Statuses, Messages, Alive
<1>2. AsksAlone'
  BY DEF AsksAlone, Free, NoCall, DialogTypes, Messages, Statuses, Alive
<1>3. OpenIsFresh'
  BY DEF OpenIsFresh, Free, NoCall, DialogTypes, Messages, Statuses, Alive
<1>4. ClosedIsQuiet'
  BY DEF ClosedIsQuiet, DialogTypes, Messages, Statuses, Alive
<1>5. OneSocket'
  BY DEF OneSocket, Alive, DialogTypes, Messages, Statuses, Alive
<1>6. ConfirmationsTrue'
  BY DEF ConfirmationsTrue, DialogTypes, Messages, Statuses, Alive
<1>7. CodesAccounted'
  BY DEF CodesAccounted, Accounted, Free, NoCall, DialogTypes, Messages, Statuses, Alive
<1>8. QED BY <1>1, <1>2, <1>3, <1>4, <1>5, <1>6, <1>7

LEMMA PhoneScanStep == ASSUME DInv, LInv', NEW c \in Codes, PhoneScan(c) PROVE DInv'
<1> USE PageAssumption DEF DInv, LInv, Shape, codes, wires, dialog, phones, module, PhoneScan,
        Grant!Scan, Grant!Advance
<1>1. DialogTypes'
  BY DEF DialogTypes, Statuses, Messages, Alive
<1>2. AsksAlone'
  BY DEF AsksAlone, Free, NoCall, DialogTypes, Messages, Statuses, Alive
<1>3. OpenIsFresh'
  BY DEF OpenIsFresh, Free, NoCall, DialogTypes, Messages, Statuses, Alive
<1>4. ClosedIsQuiet'
  BY DEF ClosedIsQuiet, DialogTypes, Messages, Statuses, Alive
<1>5. OneSocket'
  BY DEF OneSocket, Alive, DialogTypes, Messages, Statuses, Alive
<1>6. ConfirmationsTrue'
  BY DEF ConfirmationsTrue, DialogTypes, Messages, Statuses, Alive
<1>7. CodesAccounted'
  <2>1. \A d \in Codes : Accounted(d)' <=> Accounted(d)
    BY DEF Accounted
  <2>2. \A d \in Codes : stage'[d] \in {"pending", "scanned"} => stage[d] \in {"pending", "scanned"}
    OBVIOUS
  <2>3. QED BY <2>1, <2>2 DEF CodesAccounted
<1>8. QED BY <1>1, <1>2, <1>3, <1>4, <1>5, <1>6, <1>7

LEMMA PhoneConfirmStep == ASSUME DInv, LInv', NEW c \in Codes, NEW u \in Users, PhoneConfirm(c, u) PROVE DInv'
<1> USE PageAssumption DEF DInv, LInv, Shape, codes, wires, dialog, phones, module, PhoneConfirm,
        Grant!Confirm, Grant!Advance
<1>1. DialogTypes'
  BY DEF DialogTypes, Statuses, Messages, Alive
<1>2. AsksAlone'
  BY DEF AsksAlone, Free, NoCall, DialogTypes, Messages, Statuses, Alive
<1>3. OpenIsFresh'
  BY DEF OpenIsFresh, Free, NoCall, DialogTypes, Messages, Statuses, Alive
<1>4. ClosedIsQuiet'
  BY DEF ClosedIsQuiet, DialogTypes, Messages, Statuses, Alive
<1>5. OneSocket'
  BY DEF OneSocket, Alive, DialogTypes, Messages, Statuses, Alive
<1>6. ConfirmationsTrue'
  BY DEF ConfirmationsTrue, DialogTypes, Messages, Statuses, Alive
<1>7. CodesAccounted'
  BY DEF CodesAccounted, Accounted, Free, NoCall, DialogTypes, Messages, Statuses, Alive
<1>8. QED BY <1>1, <1>2, <1>3, <1>4, <1>5, <1>6, <1>7

LEMMA PhoneCancelStep == ASSUME DInv, LInv', NEW c \in Codes, PhoneCancel(c) PROVE DInv'
<1> USE PageAssumption DEF DInv, LInv, Shape, codes, wires, dialog, phones, module, PhoneCancel,
        Grant!Drop, Grant!Open
<1>1. DialogTypes'
  BY DEF DialogTypes, Statuses, Messages, Alive
<1>2. AsksAlone'
  BY DEF AsksAlone, Free, NoCall, DialogTypes, Messages, Statuses, Alive
<1>3. OpenIsFresh'
  BY DEF OpenIsFresh, Free, NoCall, DialogTypes, Messages, Statuses, Alive
<1>4. ClosedIsQuiet'
  BY DEF ClosedIsQuiet, DialogTypes, Messages, Statuses, Alive
<1>5. OneSocket'
  BY DEF OneSocket, Alive, DialogTypes, Messages, Statuses, Alive
<1>6. ConfirmationsTrue'
  BY DEF ConfirmationsTrue, DialogTypes, Messages, Statuses, Alive
<1>7. CodesAccounted'
  <2>1. \A d \in Codes : Accounted(d)' <=> Accounted(d)
    BY DEF Accounted
  <2>2. \A d \in Codes : stage'[d] \in {"pending", "scanned"} => stage[d] \in {"pending", "scanned"}
    OBVIOUS
  <2>3. QED BY <2>1, <2>2 DEF CodesAccounted
<1>8. QED BY <1>1, <1>2, <1>3, <1>4, <1>5, <1>6, <1>7

LEMMA LapseStep == ASSUME DInv, LInv', NEW c \in Codes, Lapse(c) PROVE DInv'
<1> USE PageAssumption DEF DInv, LInv, Shape, codes, wires, dialog, phones, module, Lapse,
        Grant!Drop, Grant!Open
<1>1. DialogTypes'
  BY DEF DialogTypes, Statuses, Messages, Alive
<1>2. AsksAlone'
  BY DEF AsksAlone, Free, NoCall, DialogTypes, Messages, Statuses, Alive
<1>3. OpenIsFresh'
  BY DEF OpenIsFresh, Free, NoCall, DialogTypes, Messages, Statuses, Alive
<1>4. ClosedIsQuiet'
  BY DEF ClosedIsQuiet, DialogTypes, Messages, Statuses, Alive
<1>5. OneSocket'
  BY DEF OneSocket, Alive, DialogTypes, Messages, Statuses, Alive
<1>6. ConfirmationsTrue'
  BY DEF ConfirmationsTrue, DialogTypes, Messages, Statuses, Alive
<1>7. CodesAccounted'
  BY DEF CodesAccounted, Accounted, Free, NoCall, DialogTypes, Messages, Statuses, Alive
<1>8. QED BY <1>1, <1>2, <1>3, <1>4, <1>5, <1>6, <1>7

\* Closing the dialog takes back the code of its picture, unless it was
\* confirmed, and then nobody can scan it any more.
LEMMA EndDialog ==
    ASSUME DInv, LInv', NEW k \in Calls, modal, CloseDialog(k), UNCHANGED <<stage, current, status>>,
           \A l \in Calls : call[l].op = "create" => l = k /\ call[l].at # "ok"
    PROVE  DInv'
<1> USE PageAssumption DEF DInv, CloseDialog
<1>1. PICK a \in Codes \cup {NoCode} : a = current
  BY DEF LInv, Shape
<1>2. PICK f : /\ \A l \in Calls : call'[l] = IF l = k THEN f ELSE call[l]
               /\ f.op \in {"none", "cancel"}
               /\ status # "confirmed" /\ a # NoCode =>
                      f.op = "cancel" /\ f.at = "sent" /\ f.code = a
  <2>1. /\ NoCall.op = "none" /\ Sent("cancel", a, NoCode).op = "cancel"
        /\ Sent("cancel", a, NoCode).at = "sent" /\ Sent("cancel", a, NoCode).code = a
    BY Fetches
  <2> DEFINE g == IF status # "confirmed" /\ a # NoCode THEN Sent("cancel", a, NoCode) ELSE NoCall
  <2>2. \A l \in Calls : call'[l] = IF l = k THEN g ELSE call[l]
    BY <1>1 DEF LInv, Shape
  <2>3. QED BY <2>1, <2>2
<1>3. /\ modal' = FALSE /\ ws' = NoCode /\ resets' = resets + 1 /\ shown' = shown /\ push' = push
      /\ stage' = stage /\ status' = status
  OBVIOUS
<1>4. \A c \in Codes : /\ sock'[c] = IF c = ws THEN "closing" ELSE sock[c]
                       /\ inbox'[c] = IF c = ws THEN <<>> ELSE inbox[c]
  BY DEF DialogTypes
<1>5. DialogTypes'
  <2>1. sock' \in [Codes -> Alive \cup {"none", "closing", "closed"}] /\ inbox' \in [Codes -> Seq(Messages)]
    BY DEF DialogTypes
  <2>2. resets' \in Nat
    BY <1>3 DEF DialogTypes
  <2>3. modal' \in BOOLEAN
    BY <1>3
  <2>4. QED BY <1>3, <2>1, <2>2, <2>3 DEF DialogTypes
<1>6. AsksAlone'
  BY <1>2 DEF AsksAlone
<1>7. OpenIsFresh' /\ ClosedIsQuiet'
  BY <1>3 DEF OpenIsFresh, ClosedIsQuiet, DialogTypes
<1>8. OneSocket'
  BY <1>3, <1>4 DEF OneSocket, Alive, DialogTypes
<1>9. ConfirmationsTrue'
  BY <1>3, <1>4 DEF ConfirmationsTrue
<1>10. CodesAccounted'
  <2>1. ASSUME NEW c \in Codes, stage[c] \in {"pending", "scanned"} PROVE Accounted(c)'
    <3>1. shown = c /\ current = c
      BY <1>2, <2>1 DEF CodesAccounted, Accounted, OpenIsFresh
    <3>2. status # "confirmed"
      BY <2>1, <3>1 DEF ConfirmationsTrue
    <3>3. /\ call'[k].op = "cancel" /\ call'[k].at = "sent" /\ call'[k].code = c
      BY <1>1, <1>2, <3>1, <3>2
    <3>4. QED BY <3>3 DEF Accounted
  <2>2. QED BY <1>3, <2>1 DEF CodesAccounted
<1>11. QED BY <1>5, <1>6, <1>7, <1>8, <1>9, <1>10

\* A fetch that is no longer about a code ends while no dialog is open.
LEMMA FetchEnds ==
    ASSUME DInv, LInv', NEW k \in Calls, call' = [call EXCEPT ![k] = NoCall],
           call[k].op # "create", call[k].op = "cancel" => call[k].at # "sent",
           ~modal, UNCHANGED <<wires, dialog, ws, stage, status>>
    PROVE  DInv'
<1> USE PageAssumption DEF DInv, wires, dialog
<1>1. \A l \in Calls : call'[l] = IF l = k THEN NoCall ELSE call[l]
  BY DEF LInv, Shape
<1>2. NoCall.op = "none"
  BY DEF NoCall
<1>3. DialogTypes'
  BY DEF DialogTypes
<1>4. AsksAlone' /\ OpenIsFresh'
  BY <1>1, <1>2 DEF AsksAlone, OpenIsFresh, Free
<1>5. ClosedIsQuiet' /\ OneSocket' /\ ConfirmationsTrue'
  BY DEF ClosedIsQuiet, OneSocket, ConfirmationsTrue
<1>6. \A c \in Codes : Accounted(c) => Accounted(c)'
  <2>1. \A l \in Calls : l # k => call'[l] = call[l]
    BY <1>1
  <2>2. QED BY <2>1 DEF Accounted
<1>7. CodesAccounted'
  BY <1>6 DEF CodesAccounted
<1>8. QED BY <1>3, <1>4, <1>5, <1>7

LEMMA NotCreatedStep == ASSUME DInv, LInv', NEW k \in Calls, NotCreated(k) PROVE DInv'
<1>1. modal /\ \A l \in Calls : l = k \/ call[l].op = "none"
  BY DEF NotCreated, DInv, AsksAlone, Free, NoCall
<1>2. CloseDialog(k) /\ UNCHANGED <<stage, current, status>> /\ call[k].at = "failed"
  BY <1>1 DEF NotCreated, Dismiss, codes
<1>3. QED BY <1>1, <1>2, EndDialog

LEMMA CloseStep == ASSUME DInv, LInv', Patient, NEW k \in Calls, Close(k) PROVE DInv'
<1>1. \A l \in Calls : call[l].op = "none"
  BY DEF Close, Free, NoCall
<1>2. modal /\ CloseDialog(k) /\ UNCHANGED <<stage, current, status>>
  BY DEF Close, codes
<1>3. QED BY <1>1, <1>2, EndDialog

LEMMA SessionSetStep == ASSUME DInv, LInv', NEW k \in Calls, SessionSet(k) PROVE DInv'
<1>1. call[k].op = "session" /\ UNCHANGED <<stage, current, status>>
  BY DEF SessionSet, codes
<1>2. CASE modal
  <2>1. \A l \in Calls : call[l].op # "create"
    BY <1>1 DEF DInv, AsksAlone, Free, NoCall
  <2>2. CloseDialog(k)
    BY <1>2 DEF SessionSet, Dismiss
  <2>3. QED BY <1>1, <1>2, <2>1, <2>2, EndDialog
<1>3. CASE ~modal
  <2>1. call' = [call EXCEPT ![k] = NoCall] /\ UNCHANGED <<wires, dialog, ws>>
    BY <1>3 DEF SessionSet, Dismiss
  <2>2. QED BY <1>1, <1>3, <2>1, FetchEnds
<1>4. QED BY <1>2, <1>3 DEF DInv, DialogTypes

\* The server's answers: a code is on its way into the dialog once it is drawn,
\* and cannot be scanned once it was taken back.
LEMMA AnswerStep ==
    ASSUME DInv, LInv', NEW k \in Calls, call[k].op # "none",
           NEW at \in {"ok", "failed"}, Answer(k, at),
           UNCHANGED <<wires, dialog, module>>,
           \A c \in Codes : /\ stage'[c] \in {"pending", "scanned"} /\ stage'[c] # stage[c] =>
                                   call[k].op = "create" /\ call[k].code = c /\ at = "ok"
                            /\ stage[c] \in {"confirmed", "spent", "dropped"} =>
                                   stage'[c] \in {"confirmed", "spent", "dropped"},
           call[k].op = "create" => call[k].at = "sent",
           call[k].op = "cancel" => stage'[call[k].code] \notin {"pending", "scanned"}
    PROVE  DInv'
<1> USE PageAssumption DEF DInv, wires, dialog, module
<1>1. PICK f : /\ f.op = call[k].op /\ f.code = call[k].code /\ f.at = at
               /\ \A l \in Calls : call'[l] = IF l = k THEN f ELSE call[l]
  <2>1. call[k] \in Call
    BY DEF LInv, Shape, NoCall
  <2> DEFINE g == [call[k] EXCEPT !.at = at]
  <2>2. g.op = call[k].op /\ g.code = call[k].code /\ g.at = at
    BY <2>1 DEF Call
  <2>3. \A l \in Calls : call'[l] = IF l = k THEN g ELSE call[l]
    BY DEF Answer, LInv, Shape
  <2>4. QED BY <2>2, <2>3
<1>2. DialogTypes'
  BY DEF DialogTypes
<1>3. AsksAlone' /\ OpenIsFresh'
  <2>1. \A l \in Calls : /\ call'[l].op = call[l].op
                         /\ Free(l) => call'[l] = call[l]
    BY <1>1 DEF Free, NoCall
  <2>2. QED BY <2>1 DEF AsksAlone, OpenIsFresh, Free
<1>4. ClosedIsQuiet' /\ OneSocket'
  BY DEF ClosedIsQuiet, OneSocket
<1>5. ConfirmationsTrue'
  BY DEF ConfirmationsTrue
<1>6. ASSUME NEW c \in Codes, stage'[c] \in {"pending", "scanned"} PROVE Accounted(c)'
  <2>1. CASE stage'[c] # stage[c]
    <3>1. call'[k].op = "create" /\ call'[k].at = "ok" /\ call'[k].code = c
      BY <1>1, <1>6, <2>1
    <3>2. QED BY <3>1 DEF Accounted
  <2>2. CASE stage'[c] = stage[c]
    <3>1. Accounted(c)
      BY <1>6, <2>2 DEF CodesAccounted
    <3>2. ~(call[k].op = "create" /\ call[k].at = "ok")
      OBVIOUS
    <3>3. ~(call[k].op = "cancel" /\ call[k].code = c)
      BY <1>6
    <3>4. \A l \in Calls : l # k => call'[l] = call[l]
      BY <1>1
    <3>5. QED BY <3>1, <3>2, <3>3, <3>4 DEF Accounted
  <2>3. QED BY <2>1, <2>2
<1>7. CodesAccounted'
  BY <1>6 DEF CodesAccounted
<1>8. QED BY <1>2, <1>3, <1>4, <1>5, <1>7

LEMMA ServeSteps ==
    ASSUME DInv, LInv', NEW k \in Calls, ServeCreate(k) \/ ServeCancel(k) \/ ServeSession(k)
    PROVE  DInv'
<1>1. /\ stage \in [Codes -> Grant!Stages]
      /\ call[k].op \in {"create", "cancel"} => call[k].code \in Codes
      /\ call[k].op = "session" => call[k].arg \in Codes
  BY DEF DInv, LInv, Shape
<1>2. CASE ServeCreate(k)
  <2>1. PICK at \in {"ok", "failed"} :
           /\ Answer(k, at)
           /\ \/ at = "ok" /\ Grant!Show(call[k].code)
              \/ UNCHANGED codes
    BY <1>2 DEF ServeCreate
  <2>2. /\ call[k].op = "create" /\ call[k].at = "sent" /\ call[k].code \in Codes
        /\ UNCHANGED <<wires, dialog, module>>
    BY <1>1, <1>2 DEF ServeCreate
  <2>3. \A c \in Codes : /\ stage'[c] \in {"pending", "scanned"} /\ stage'[c] # stage[c] =>
                                call[k].code = c /\ at = "ok"
                         /\ stage[c] \in {"confirmed", "spent", "dropped"} =>
                                stage'[c] \in {"confirmed", "spent", "dropped"}
    BY <1>1, <2>1, <2>2 DEF Grant!Show, Grant!Advance, codes
  <2>4. QED BY <2>1, <2>2, <2>3, AnswerStep
<1>3. CASE ServeCancel(k)
  <2>1. /\ call[k].op = "cancel" /\ call[k].code \in Codes /\ Answer(k, "ok")
        /\ UNCHANGED <<wires, dialog, module>>
    BY <1>1, <1>3 DEF ServeCancel
  <2>2. /\ stage'[call[k].code] \notin {"pending", "scanned"}
        /\ \A c \in Codes : stage'[c] = stage[c] \/ stage'[c] = "dropped"
    BY <1>1, <1>3, <2>1 DEF ServeCancel, Grant!Drop, Grant!Open, codes
  <2>3. QED BY <2>1, <2>2, AnswerStep
<1>4. CASE ServeSession(k)
  <2>1. PICK at \in {"ok", "failed"} : Answer(k, at)
    BY <1>4 DEF ServeSession
  <2>2. /\ call[k].op = "session" /\ UNCHANGED <<wires, dialog, module>>
    BY <1>4 DEF ServeSession
  <2>3. \A c \in Codes : stage'[c] = stage[c] \/ stage'[c] = "spent"
    BY <1>1, <1>4, <2>2 DEF ServeSession, Grant!Spend, Grant!Advance, codes
  <2>4. QED BY <2>1, <2>2, <2>3, AnswerStep
<1>5. QED BY <1>2, <1>3, <1>4

LEMMA CancelledStep == ASSUME DInv, LInv', NEW k \in Calls, Cancelled(k) PROVE DInv'
<1>1. /\ call[k].op = "cancel" /\ call[k].at # "sent" /\ call' = [call EXCEPT ![k] = NoCall]
      /\ UNCHANGED <<wires, dialog, ws, stage, status>> /\ current' = NoCode
  BY DEF Cancelled, codes
<1>2. ~modal
  BY <1>1 DEF DInv, OpenIsFresh, DialogTypes
<1>3. QED BY <1>1, <1>2, FetchEnds

(***************************************************************************)
(* All steps                                                               *)
(***************************************************************************)

LEMMA InitDInv == Init => DInv
<1> SUFFICES ASSUME Init PROVE DInv
  OBVIOUS
<1> USE DEF Init, Grant!Init
<1>1. /\ \A c \in Codes : stage[c] = "unused" /\ sock[c] = "none" /\ inbox[c] = <<>>
      /\ \A k \in Calls : call[k].op = "none"
  BY DEF NoCall
<1>2. DialogTypes
  <2>1. /\ sock \in [Codes -> Alive \cup {"none", "closing", "closed"}]
        /\ inbox \in [Codes -> Seq(Messages)]
    OBVIOUS
  <2>2. modal \in BOOLEAN
    OBVIOUS
  <2>3. /\ resets \in Nat /\ shown \in Codes \cup {NoCode} /\ ws \in Codes \cup {NoCode}
        /\ status \in Statuses /\ push \subseteq Codes \X Messages
    BY DEF Statuses
  <2>4. QED BY <2>1, <2>2, <2>3 DEF DialogTypes
<1>3. ConfirmationsTrue
  BY <1>1 DEF ConfirmationsTrue
<1>4. AsksAlone /\ OpenIsFresh /\ ClosedIsQuiet /\ OneSocket /\ CodesAccounted
  BY <1>1 DEF AsksAlone, OpenIsFresh, ClosedIsQuiet, OneSocket, Alive, CodesAccounted
<1>5. QED BY <1>2, <1>3, <1>4, InitInv DEF DInv

LEMMA NextDInv == ASSUME Patient, DInv, [Next]_vars PROVE DInv'
<1>1. LInv'
  BY NextInv DEF DInv
<1>2. CASE PageStep
  BY <1>1, <1>2, CreatedStep, NotCreatedStep, CancelledStep, SessionSetStep, DeliverStep,
     ClosedStep,
     ResetStep DEF PageStep
<1>3. CASE ServerStep
  BY <1>1, <1>3, ServeSteps, CheckStep, RegisterStep, NotifyStep DEF ServerStep, Messages
<1>4. CASE UserStep
  BY <1>1, <1>4, OpenStep, CloseStep, PhoneScanStep, PhoneCancelStep, PhoneConfirmStep, LapseStep,
     CutStep
     DEF UserStep
<1>5. CASE UNCHANGED vars
  BY <1>1, <1>5 DEF vars, codes, wires, dialog, phones, module, DInv, DialogTypes, AsksAlone,
     OpenIsFresh,
     ClosedIsQuiet, OneSocket, ConfirmationsTrue, CodesAccounted, Accounted, Free
<1>6. QED BY <1>2, <1>3, <1>4, <1>5 DEF Next

\* With a user who lets the page settle before the next click, the code that
\* is deleted when the dialog is closed is the code of its picture, however late
\* the answers, the pushes and the close events of earlier dialogs come.
THEOREM PictureIsOfCurrent == Patient => (Spec => []ShownIsCurrent)
<1>1. SUFFICES ASSUME Patient PROVE Spec => []ShownIsCurrent
  OBVIOUS
<1>2. DInv /\ [Next]_vars => DInv'
  BY <1>1, NextDInv
<1>3. DInv => ShownIsCurrent
  BY DEF DInv, OpenIsFresh, ShownIsCurrent
<1>4. QED BY <1>2, <1>3, InitDInv, PTL DEF Spec

\* With that user, a page that has settled without a dialog has left no socket
\* behind and no code that a phone could still scan.
THEOREM ClosingLeavesNothing == Patient => (Spec => []ClosedIsClean)
<1>1. SUFFICES ASSUME Patient PROVE Spec => []ClosedIsClean
  OBVIOUS
<1>2. DInv /\ [Next]_vars => DInv'
  BY <1>1, NextDInv
<1>3. ASSUME DInv, ~modal, Settled
      PROVE  /\ ws = NoCode /\ \A c \in Codes : sock[c] \in {"none", "closed"}
             /\ \A c \in Codes : stage[c] \notin {"pending", "scanned"}
  <2>1. ws = NoCode
    BY <1>3 DEF DInv, ClosedIsQuiet
  <2>2. \A c \in Codes : sock[c] \in {"none", "closed"}
    BY <1>3, <2>1, PageAssumption DEF DInv, DialogTypes, OneSocket, Alive, Settled
  <2>3. \A k \in Calls : call[k].op = "none"
    BY <1>3 DEF Settled, Free, NoCall
  <2>4. \A c \in Codes : stage[c] \notin {"pending", "scanned"}
    BY <1>3, <2>3 DEF DInv, CodesAccounted, Accounted
  <2>5. QED BY <2>1, <2>2, <2>4
<1>4. DInv => ClosedIsClean
  BY <1>3 DEF ClosedIsClean
<1>5. QED BY <1>2, <1>4, InitDInv, PTL DEF Spec
=============================================================================
