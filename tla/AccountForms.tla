---------------------------- MODULE AccountForms ----------------------------
(***************************************************************************)
(* The account's forms and the helpers they share (modules/account/        *)
(* assets/js): the pages login, register and forgot, the dashboard's       *)
(* dialogs for a new password, a new name and the deletion of the account, *)
(* and the pages link and oauth that ask one question.  The helpers are    *)
(* lib/captcha.ts, lib/utils/countdown.ts and the controller of            *)
(* lib/ui/feedback.ts.                                                     *)
(*                                                                         *)
(* A behaviour stays on one form.  What is typed is one of a few valid     *)
(* entries or anything invalid; the rules of validators.ts decide which is *)
(* which.  The send button is the one that asks for a captcha: it sends a  *)
(* code on register, forgot and deletion, and the form itself on login and *)
(* in the dialogs for a password and a name.                               *)
(***************************************************************************)
EXTENDS Naturals, FiniteSets

CONSTANTS
    Openings,       \* openings of a dialog (bound); a page is opened once
    Entries, Invalid,   \* what is typed: addresses, credentials, a new name
    Requests        \* requests and reloads the user causes in all (bound)

VARIABLES
    section,
    life,           \* per opening of a dialog: its controller
    calls,          \* the requests under way
    siteKey, turnstile,     \* a captcha is configured; its SDK has loaded
    typed,
    sendOn, submitOn,       \* the two buttons
    pending,        \* pendingEmail, pendingLogin
    initing,        \* openings whose initCaptcha waits for the SDK
    widget, solved, \* the captcha on the page: whose callbacks, and its token
    orphan, overdue,    \* history: an opening closed while it waited for the
                        \* SDK; a token expired while its request was under way
    countdown, cookie,      \* the timer on the send button, and the cookie behind it
    codeSent,       \* per opening of the deletion dialog
    step, currentEmail,     \* of the page forgot
    accounts,       \* the registered addresses, on the page forgot
    coded, unseen,  \* history: addresses a code was created for to reset their
                    \* password; registered ones whose look-up failed
    phase,          \* of the page: loading, ready, leaving, left; dead: an error, no handlers
    requests

buttons == <<sendOn, submitOn>>
captcha == <<initing, widget, solved, orphan, overdue>>
timer   == <<countdown, cookie>>
reset   == <<step, currentEmail>>
server  == <<accounts, coded, unseen>>
world   == <<section, siteKey, server>>
vars    == <<world, life, calls, turnstile, typed, buttons, pending, captcha, timer, codeSent,
             reset, phase, requests>>

FormPages == {"login", "register", "forgot", "link", "oauth"}
Dialogs   == {"password", "username", "deletion"}
Coded     == {"register", "forgot", "deletion"}     \* their captcha sends a code
Page      == "page"
Nobody    == "nobody"
Valid     == typed # Invalid

\* A page before it has loaded, or the dashboard that has; sec is the section.
Starts(sec) ==
    /\ siteKey \in (IF sec \in Dialogs THEN BOOLEAN ELSE {FALSE}) /\ turnstile = FALSE
    /\ typed = Invalid /\ pending = Invalid
    /\ sendOn = (sec = "login") /\ submitOn = (sec \notin Dialogs)
    /\ initing = {} /\ widget = Nobody /\ solved = FALSE /\ orphan = FALSE /\ overdue = FALSE
    /\ countdown = FALSE /\ cookie = FALSE /\ codeSent = [o \in Openings |-> FALSE]
    /\ step = "email" /\ currentEmail = Invalid
    /\ accounts \in (IF sec = "forgot" THEN SUBSET Entries ELSE {{}}) /\ coded = {} /\ unseen = {}
    /\ phase = (IF sec \in FormPages THEN "loading" ELSE "ready") /\ requests = Requests

Init ==
    /\ section \in FormPages \cup Dialogs
    /\ life = [o \in Openings |-> "new"]
    /\ calls = {}
    /\ Starts(section)

\* What the user sees of an opening; a page counts as one that never closes.
Open(o)  == o \in Openings /\ life[o] = "open"
Shown(o) == o = Page \/ Open(o)
On(sec, o) == section = sec /\ Shown(o) /\ (o = Page <=> sec \in FormPages)

Fetch(op, o, entry) == [op |-> op, of |-> o, entry |-> entry, at |-> "sent"]
Runs == phase \in {"ready", "leaving"}      \* the handlers are attached
Asks == Runs /\ requests > 0 /\ requests' = requests - 1
Here == Runs /\ UNCHANGED <<world, requests>>

(***************************************************************************)
(* lib/captcha.ts and lib/utils/countdown.ts                               *)
(***************************************************************************)

\* clearCaptcha: the widget and its token are gone.  An initCaptcha that
\* still waits for the SDK is not told.
ClearCaptcha == widget' = Nobody /\ solved' = FALSE /\ UNCHANGED <<initing, orphan, overdue>>

\* initCaptcha: rendered at once when the SDK is there.
InitCaptcha(o) ==
    /\ IF turnstile
       THEN widget' = o /\ solved' = FALSE /\ UNCHANGED initing
       ELSE initing' = initing \cup {o} /\ UNCHANGED <<widget, solved>>
    /\ UNCHANGED <<orphan, overdue>>

\* The SDK is there: those who wait render one after the other in the same
\* container, where each removes the widget before it.
SdkLoads ==
    /\ ~turnstile /\ siteKey /\ Here
    /\ turnstile' = TRUE
    /\ IF initing = {} THEN UNCHANGED <<widget, solved>>
       ELSE widget' \in initing /\ solved' = FALSE
    /\ initing' = {}
    /\ UNCHANGED <<life, calls, typed, buttons, pending, orphan, overdue, timer, codeSent, reset, phase>>

\* With a captcha the request waits for its token.
Send(op, o, entry) ==
    IF siteKey THEN InitCaptcha(o) /\ UNCHANGED calls
    ELSE calls' = calls \cup {Fetch(op, o, entry)} /\ UNCHANGED captcha

\* A cookie outlives the page and its timer, and lapses when the timer would.
SetCookie    == cookie' = TRUE
GetCookie    == cookie
DeleteCookie == cookie' = FALSE

StartCountdown == countdown' = TRUE /\ SetCookie
ClearCountdown == countdown' = FALSE /\ DeleteCookie
IsCountingDown == countdown \/ GetCookie

(***************************************************************************)
(* The pages load                                                          *)
(***************************************************************************)

\* loadCaptchaConfig may fail, and then no captcha is asked for.
Ready == phase' = "ready" /\ siteKey' \in BOOLEAN

\* Register knows whether the user is logged in already; then, as forgot, it
\* needs the list of e-mail providers.
LoginLoads ==
    /\ section = "login"
    /\ Ready
    /\ UNCHANGED countdown

\* resumeCountdown, at the end of register's loading.
ResumeCountdown == countdown' = (GetCookie /\ phase' = "ready")

RegisterLoads ==
    /\ section = "register"
    /\ Ready \/ (phase' \in {"left", "dead"} /\ UNCHANGED siteKey)
    /\ ResumeCountdown

ForgotLoads ==
    /\ section = "forgot"
    /\ Ready \/ (phase' = "dead" /\ UNCHANGED siteKey)
    /\ UNCHANGED countdown

\* Nothing to link: two seconds later the page login comes.
LinkLoads ==
    /\ section = "link"
    /\ phase' \in {"ready", "left"}
    /\ UNCHANGED <<siteKey, countdown>>

\* An error in the address or of the authorisation request; or the policies
\* were declined, which logs out.
OAuthLoads ==
    /\ section = "oauth"
    /\ phase' \in {"ready", "dead", "left"}
    /\ UNCHANGED <<siteKey, countdown>>

Load ==
    /\ phase = "loading"
    /\ LoginLoads \/ RegisterLoads \/ ForgotLoads \/ LinkLoads \/ OAuthLoads
    /\ UNCHANGED <<section, server, life, calls, turnstile, typed, buttons, pending, captcha, cookie,
                   codeSent, reset, requests>>

(***************************************************************************)
(* Typing                                                                  *)
(***************************************************************************)

\* updateSendCodeButtonState of the page register.
RegisterButton(entry) == IF IsCountingDown THEN sendOn ELSE entry # Invalid

\* Its namesake of the page forgot.
ForgotButton(entry) == entry # Invalid

\* updateConfirmState of the dialogs for a new password and a new name.
PasswordButton(entry) == entry # Invalid

NameButton(entry) == entry # Invalid

\* updateConfirmState of the deletion.
DeletionButton(entry) == entry # Invalid /\ \E o \in Openings : Open(o) /\ codeSent[o]

Type(entry) ==
    /\ Here /\ section \notin {"link", "oauth"}
    /\ section \in Dialogs => \E o \in Openings : Open(o)
    /\ typed' = entry
    /\ sendOn' = CASE section = "register" -> RegisterButton(entry)
                   [] section = "forgot"   -> ForgotButton(entry)
                   [] section = "password" -> PasswordButton(entry)
                   [] section = "username" -> NameButton(entry)
                   [] OTHER -> sendOn
    /\ submitOn' = IF section = "deletion" THEN DeletionButton(entry) ELSE submitOn
    /\ UNCHANGED <<life, calls, turnstile, pending, captcha, timer, codeSent, reset, phase>>

\* The language switcher of a page looks at its send button again.
SwitchLanguage ==
    /\ Here /\ section \in {"register", "forgot"}
    /\ sendOn' = IF section = "register" THEN RegisterButton(typed) ELSE ForgotButton(typed)
    /\ UNCHANGED <<life, calls, turnstile, typed, submitOn, pending, captcha, timer, codeSent, reset, phase>>

\* The countdown ends: onComplete of register; the button of the deletion
\* stays off.
CountdownEnds ==
    /\ countdown /\ Here
    /\ ClearCountdown
    /\ pending' = IF section = "register" THEN Invalid ELSE pending
    /\ sendOn' = IF section = "register" THEN Valid ELSE sendOn
    /\ UNCHANGED <<life, calls, turnstile, typed, submitOn, captcha, codeSent, reset, phase>>

\* A cookie that nothing took up again.
CookieExpires ==
    /\ cookie /\ ~countdown /\ UNCHANGED <<world, requests>>
    /\ cookie' = FALSE
    /\ UNCHANGED <<life, calls, turnstile, typed, buttons, pending, captcha, countdown, codeSent,
                   reset, phase>>

(***************************************************************************)
(* The send button                                                         *)
(***************************************************************************)

\* handleLogin.
LoginClick ==
    /\ On("login", Page) /\ Valid
    /\ pending' = typed
    /\ Send("submit", Page, typed)

\* onSendCodeClick of register.
RegisterClick ==
    /\ On("register", Page) /\ ~IsCountingDown /\ Valid
    /\ pending' = typed
    /\ Send("code", Page, typed)

\* handleEmailSubmit of forgot.
ForgotClick ==
    /\ On("forgot", Page) /\ step = "email" /\ Valid
    /\ UNCHANGED pending
    /\ Send("code", Page, typed)

\* The confirm buttons of the dialogs for a password and a name.
PasswordClick(o) ==
    /\ On("password", o) /\ Valid
    /\ UNCHANGED pending
    /\ Send("submit", o, typed)

NameClick(o) ==
    /\ On("username", o) /\ Valid
    /\ UNCHANGED pending
    /\ Send("submit", o, typed)

\* handleSendCodeClick of the deletion.
DeletionClick(o) ==
    /\ On("deletion", o)
    /\ UNCHANGED pending
    /\ Send("code", o, Invalid)

Click ==
    /\ Asks /\ sendOn
    /\ \/ LoginClick \/ RegisterClick \/ ForgotClick
       \/ \E o \in Openings : PasswordClick(o) \/ NameClick(o) \/ DeletionClick(o)
    /\ sendOn' = FALSE
    /\ UNCHANGED <<world, life, turnstile, typed, submitOn, timer, codeSent, reset, phase>>

\* What a request carries when the captcha sends it: login and register keep
\* what was typed at the click, the others read their inputs now.
Carried ==
    CASE section \in {"login", "register"} -> pending
      [] section = "deletion" -> Invalid
      [] OTHER -> typed

\* The user solves the captcha and its callback sends.  A dialog that closed
\* does nothing with it, nor does login when its credentials were dropped.
Solve ==
    /\ widget # Nobody /\ ~solved /\ Here
    /\ solved' = TRUE
    /\ calls' = IF Shown(widget) /\ (section = "login" => pending # Invalid)
                THEN calls \cup {Fetch(IF section \in Coded THEN "code" ELSE "submit", widget, Carried)}
                ELSE calls
    /\ UNCHANGED <<life, turnstile, typed, buttons, pending, initing, widget, orphan, overdue, timer,
                   codeSent, reset, phase>>

\* What error-callback, expired-callback and an SDK that never comes do to
\* the form.
LoginRestored == pending' = Invalid /\ sendOn' = TRUE

RegisterRestored == pending' = Invalid /\ sendOn' = RegisterButton(typed)

FormRestored == UNCHANGED pending /\ sendOn' = TRUE

Restored(o) ==
    /\ IF ~Shown(o) THEN UNCHANGED <<sendOn, pending, widget, solved>>
       ELSE /\ widget' = Nobody /\ solved' = FALSE
            /\ CASE section = "login"    -> LoginRestored
                 [] section = "register" -> RegisterRestored
                 [] OTHER                -> FormRestored
    /\ UNCHANGED <<life, calls, turnstile, typed, submitOn, timer, codeSent, reset, phase>>

CaptchaFails ==
    /\ widget # Nobody /\ Here
    /\ Restored(widget)
    /\ overdue' = (overdue \/ \E c \in calls : c.of = widget /\ c.op = "code")
    /\ UNCHANGED <<initing, orphan>>

SdkFails(o) ==
    /\ o \in initing /\ Here
    /\ Restored(o)
    /\ initing' = initing \ {o}
    /\ UNCHANGED <<orphan, overdue>>

(***************************************************************************)
(* Answers to a code that was asked for                                    *)
(***************************************************************************)

\* Mutant: the captcha stays on the page.
RegisterSentOverCaptcha(c) ==
    /\ section = "register"
    /\ IF c.at = "ok" THEN StartCountdown /\ sendOn' = FALSE /\ UNCHANGED pending
       ELSE pending' = Invalid /\ sendOn' = RegisterButton(typed) /\ UNCHANGED timer
    /\ UNCHANGED <<captcha, codeSent, reset>>

\* handleSendCode of register after its await.
RegisterSent(c) ==
    /\ section = "register"
    /\ IF c.at = "ok" THEN StartCountdown /\ sendOn' = FALSE /\ UNCHANGED pending
       ELSE pending' = Invalid /\ sendOn' = RegisterButton(typed) /\ UNCHANGED timer
    /\ ClearCaptcha
    /\ UNCHANGED <<codeSent, reset>>

\* Mutant: the page takes the address that is in the input by now.
ForgotSentToTyped(c) ==
    /\ section = "forgot"
    /\ IF c.at = "ok" THEN currentEmail' = typed /\ step' = "reset" ELSE UNCHANGED reset
    /\ sendOn' = TRUE
    /\ ClearCaptcha
    /\ UNCHANGED <<pending, timer, codeSent>>

\* sendResetCode.
ForgotSent(c) ==
    /\ section = "forgot"
    /\ IF c.at = "ok" THEN currentEmail' = c.entry /\ step' = "reset" ELSE UNCHANGED reset
    /\ sendOn' = TRUE
    /\ ClearCaptcha
    /\ UNCHANGED <<pending, timer, codeSent>>

\* Mutant: the answer is used whatever became of the dialog.
DeletionSentBlindly(c) ==
    /\ section = "deletion"
    /\ IF c.at = "ok" THEN StartCountdown /\ sendOn' = FALSE /\ codeSent' = [codeSent EXCEPT ![c.of] = TRUE]
       ELSE sendOn' = TRUE /\ UNCHANGED <<timer, codeSent>>
    /\ ClearCaptcha
    /\ UNCHANGED <<pending, reset>>

\* handleSendCode of the deletion.
DeletionSent(c) ==
    /\ section = "deletion"
    /\ IF ~Open(c.of) THEN UNCHANGED <<sendOn, timer, codeSent, captcha>>
       ELSE /\ IF c.at = "ok"
               THEN StartCountdown /\ sendOn' = FALSE /\ codeSent' = [codeSent EXCEPT ![c.of] = TRUE]
               ELSE sendOn' = TRUE /\ UNCHANGED <<timer, codeSent>>
            /\ ClearCaptcha
    /\ UNCHANGED <<pending, reset>>

CodeSent(c) ==
    /\ c.op = "code" /\ c.at # "sent" /\ Here
    /\ calls' = calls \ {c}
    /\ RegisterSent(c) \/ ForgotSent(c) \/ DeletionSent(c)
    /\ UNCHANGED <<life, turnstile, typed, submitOn, phase>>

(***************************************************************************)
(* The form itself                                                         *)
(***************************************************************************)

\* handleRegister, handleResetSubmit, the deletion's confirm, the confirm
\* button of link and the two buttons of oauth.
RegisterSubmit == On("register", Page) /\ calls' = calls \cup {Fetch("submit", Page, typed)}

ForgotSubmit ==
    /\ On("forgot", Page) /\ step = "reset"
    /\ calls' = calls \cup {Fetch("submit", Page, currentEmail)}

DeletionConfirm(o) == On("deletion", o) /\ Valid /\ calls' = calls \cup {Fetch("submit", o, typed)}

LinkConfirm == On("link", Page) /\ calls' = calls \cup {Fetch("submit", Page, Invalid)}

SubmitDecision == On("oauth", Page) /\ calls' = calls \cup {Fetch("submit", Page, Invalid)}

Submit ==
    /\ Asks /\ submitOn
    /\ \/ RegisterSubmit \/ ForgotSubmit \/ LinkConfirm \/ SubmitDecision
       \/ \E o \in Openings : DeletionConfirm(o)
    /\ submitOn' = FALSE
    /\ UNCHANGED <<world, life, turnstile, typed, sendOn, pending, captcha, timer, codeSent, reset, phase>>

\* The cancel button of link goes to the page login.
LinkCancel ==
    /\ section = "link" /\ Here
    /\ phase' = "leaving"
    /\ UNCHANGED <<life, calls, turnstile, typed, buttons, pending, captcha, timer, codeSent, reset>>

\* What close does to a dialog, onCleanup included.
Closes(o) ==
    /\ life' = [life EXCEPT ![o] = "closed"]
    /\ widget' = Nobody /\ solved' = FALSE
    /\ orphan' = (orphan \/ o \in initing)
    /\ IF section = "deletion" THEN ClearCountdown ELSE UNCHANGED timer
    /\ UNCHANGED <<initing, overdue>>

Leaves(c) == phase' = IF c.at = "ok" THEN "leaving" ELSE phase

\* performLogin after its await; the policies come in between (Consents).
LoginDone(c) ==
    /\ section = "login"
    /\ ClearCaptcha /\ LoginRestored
    /\ UNCHANGED <<life, submitOn, timer>>

\* handleRegister gives its button back whatever the answer.
RegisterDone(c) ==
    /\ section = "register"
    /\ submitOn' = TRUE
    /\ UNCHANGED <<life, captcha, timer, sendOn, pending>>

\* handleResetSubmit, the confirm button of link and the deletion's: after a
\* failure, which need not be shown any more.
Restores(c) ==
    /\ submitOn' = (c.at = "failed")
    /\ UNCHANGED <<life, captcha, timer, sendOn, pending>>

ForgotDone(c)   == section = "forgot" /\ Restores(c)
LinkDone(c)     == section = "link" /\ Restores(c)
DeletionDone(c) == section = "deletion" /\ Restores(c)

\* submitDecision never gives its buttons back.
DecisionDone(c) ==
    /\ section = "oauth"
    /\ UNCHANGED <<life, captcha, timer, buttons, pending>>

\* doChangePassword: an answer that comes after the dialog closed is dropped,
\* a success with it.
PasswordDone(c) ==
    /\ section = "password"
    /\ IF ~Open(c.of) THEN UNCHANGED <<life, captcha, timer, sendOn>>
       ELSE /\ IF c.at = "ok" THEN Closes(c.of) ELSE ClearCaptcha /\ UNCHANGED <<life, timer>>
            /\ sendOn' = TRUE
    /\ UNCHANGED <<submitOn, pending>>

\* doChangeUsername.
NameDone(c) ==
    /\ section = "username"
    /\ IF ~Open(c.of) THEN UNCHANGED <<life, captcha, timer, sendOn>>
       ELSE /\ IF c.at = "ok" THEN Closes(c.of) ELSE ClearCaptcha /\ UNCHANGED <<life, timer>>
            /\ sendOn' = TRUE
    /\ UNCHANGED <<submitOn, pending>>

\* Only a new name keeps the page.
Submitted(c) ==
    /\ c.op = "submit" /\ c.at # "sent" /\ Here
    /\ calls' = calls \ {c}
    /\ \/ LoginDone(c) \/ RegisterDone(c) \/ ForgotDone(c) \/ LinkDone(c) \/ DecisionDone(c)
       \/ PasswordDone(c) \/ NameDone(c) \/ DeletionDone(c)
    /\ IF section = "username" \/ (section = "password" /\ ~Open(c.of))
       THEN UNCHANGED phase ELSE Leaves(c)
    /\ UNCHANGED <<turnstile, typed, codeSent, reset>>

\* The browser goes where the page sent it.
Leave ==
    /\ phase = "leaving"
    /\ phase' = "left"
    /\ UNCHANGED <<world, life, calls, turnstile, typed, buttons, pending, captcha, timer, codeSent,
                   reset, requests>>

(***************************************************************************)
(* Dialogs and reloads                                                     *)
(***************************************************************************)

\* showChangePasswordModal and showChangeUsernameModal.
OpenForm(o) ==
    /\ section \in {"password", "username"}
    /\ sendOn' = FALSE
    /\ UNCHANGED <<timer, codeSent>>

\* showDeleteAccountModal takes a countdown up again that a reload left.
OpenDeletion(o) ==
    /\ section = "deletion"
    /\ sendOn' = ~GetCookie /\ countdown' = GetCookie
    /\ codeSent' = [codeSent EXCEPT ![o] = GetCookie]
    /\ UNCHANGED cookie

\* Each opening of a dialog has a controller of its own.
createModalController(o) == life[o] = "new" /\ life' = [life EXCEPT ![o] = "open"]

OpenDialog(o) ==
    /\ Here /\ \A p \in Openings : ~Open(p)
    /\ createModalController(o)
    /\ widget' = Nobody /\ solved' = FALSE
    /\ typed' = Invalid /\ submitOn' = FALSE
    /\ OpenForm(o) \/ OpenDeletion(o)
    /\ UNCHANGED <<calls, turnstile, pending, initing, orphan, overdue, reset, phase>>

Close(o) ==
    /\ Here /\ section \in Dialogs /\ Open(o)
    /\ Closes(o)
    /\ UNCHANGED <<calls, turnstile, typed, buttons, pending, codeSent, reset, phase>>

\* The user reloads the page: only the cookie is left.
Reload ==
    /\ phase # "left" /\ requests > 0 /\ requests' = requests - 1
    /\ turnstile' = FALSE /\ typed' = Invalid /\ pending' = Invalid
    /\ sendOn' = (section = "login") /\ submitOn' = (section \notin Dialogs)
    /\ initing' = {} /\ widget' = Nobody /\ solved' = FALSE
    /\ step' = "email" /\ currentEmail' = Invalid
    /\ life' = [o \in Openings |-> IF Open(o) THEN "closed" ELSE life[o]]
    /\ calls' = {}
    /\ countdown' = FALSE
    /\ phase' = IF section \in FormPages THEN "loading" ELSE "ready"
    /\ UNCHANGED <<world, orphan, overdue, cookie, codeSent>>

(***************************************************************************)
(* The server's handlers, seen from the pages                              *)
(***************************************************************************)

\* The page learns of a success, or that it failed; the answer may be lost.
Respond(c, at) == calls' = (calls \ {c}) \cup {[c EXCEPT !.at = at]}
Reply(c) == \E at \in {"ok", "failed"} : Respond(c, at)

\* Nobody is found under the address, or the look-up itself failed: which of
\* the two, the handler does not ask.
NotFound(entry) == unseen' = unseen \cup ({entry} \cap accounts) /\ UNCHANGED <<accounts, coded>>

\* A code for the address, which goes out by mail later.
CreateToken(entry) == coded' = coded \cup {entry} /\ UNCHANGED <<accounts, unseen>>

\* Registered or not, the page hears the same.
SendResetCode(c) ==
    /\ section = "forgot" /\ c.op = "code"
    /\ \/ Respond(c, "failed") /\ UNCHANGED server
       \/ Reply(c) /\ NotFound(c.entry)
       \/ Reply(c) /\ c.entry \in accounts /\ CreateToken(c.entry)

\* Only a registered address has a password to reset.
ResetPassword(c) ==
    /\ section = "forgot" /\ c.op = "submit"
    /\ Respond(c, "failed") \/ (c.entry \in accounts /\ Respond(c, "ok"))
    /\ UNCHANGED server

SendCode(c)       == section = "register" /\ c.op = "code"   /\ Reply(c) /\ UNCHANGED server
Register(c)       == section = "register" /\ c.op = "submit" /\ Reply(c) /\ UNCHANGED server
Login(c)          == section = "login"    /\ Reply(c) /\ UNCHANGED server
ConfirmLink(c)    == section = "link"     /\ Reply(c) /\ UNCHANGED server
AuthorizePost(c)  == section = "oauth"    /\ Reply(c) /\ UNCHANGED server
ChangePassword(c) == section = "password" /\ Reply(c) /\ UNCHANGED server
UpdateUsername(c) == section = "username" /\ Reply(c) /\ UNCHANGED server
SendDeleteCode(c) == section = "deletion" /\ c.op = "code"   /\ Reply(c) /\ UNCHANGED server
DeleteAccount(c)  == section = "deletion" /\ c.op = "submit" /\ Reply(c) /\ UNCHANGED server

\* A handler runs, or its request is lost.
Serve(c) ==
    /\ c.at = "sent"
    /\ \/ SendResetCode(c) \/ ResetPassword(c) \/ SendCode(c) \/ Register(c) \/ Login(c)
       \/ ConfirmLink(c) \/ AuthorizePost(c) \/ ChangePassword(c) \/ UpdateUsername(c)
       \/ SendDeleteCode(c) \/ DeleteAccount(c)
    /\ UNCHANGED <<section, siteKey, life, turnstile, typed, buttons, pending, captcha, timer,
                   codeSent, reset, phase, requests>>

Next ==
    \/ \E entry \in Entries \cup {Invalid} : Type(entry)
    \/ Click
    \/ Submit
    \/ \E o \in Openings : OpenDialog(o) \/ Close(o)
    \/ SdkLoads
    \/ \E o \in initing : SdkFails(o)
    \/ Solve
    \/ CaptchaFails
    \/ SwitchLanguage
    \/ CountdownEnds
    \/ CookieExpires
    \/ \E c \in calls : CodeSent(c) \/ Submitted(c) \/ Serve(c)
    \/ LinkCancel
    \/ Load
    \/ Leave
    \/ Reload

Spec == Init /\ [][Next]_vars

(***************************************************************************)
(* Properties                                                              *)
(***************************************************************************)

\* While the button counts down no code can be asked for, whatever is typed,
\* answered late or reloaded.  (A token that expires with its request under
\* way lets the deletion dialog send twice at once; that case is left aside.)
CountdownHolds ==
    /\ section = "register" /\ countdown => ~sendOn
    /\ section = "deletion" /\ countdown /\ ~overdue => ~sendOn

\* A captcha the user is asked to solve has something to do once it is
\* solved: an address, credentials, or a dialog that is open.  (The widget of
\* an opening that closed while it waited for the SDK is left aside.)
CaptchaServes ==
    widget # Nobody /\ ~solved =>
        CASE section \in {"login", "register"} -> pending # Invalid
          [] section \in Dialogs -> orphan \/ Shown(widget)
          [] OTHER -> TRUE

\* The address whose password the page forgot resets, or is resetting, is one
\* that a code was created for if anybody registered with it.  (The page cannot
\* tell an address nobody registered, nor one whose look-up failed.)
Resetting == (IF step = "reset" THEN {currentEmail} ELSE {}) \cup
             {c.entry : c \in {d \in calls : d.op = "submit"}}

ResetsCoded ==
    section = "forgot" => Resetting \cap accounts \subseteq coded \cup unseen
=============================================================================
