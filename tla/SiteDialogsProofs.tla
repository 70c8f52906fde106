------------------------- MODULE SiteDialogsProofs --------------------------
(***************************************************************************)
(* What the forms, the dialogs of the dashboard and the administration     *)
(* page of SitePages guarantee for every number of openings, entries,      *)
(* pictures, items and requests.  As in SitePagesProofs, each part is      *)
(* about one page: its inductive invariant, the lemmas that its steps      *)
(* preserve it, and the theorems it is needed for.                         *)
(***************************************************************************)
EXTENDS SitePages, Sequences, TLAPS

pages == <<section, dialogs, formPart, dashPart, homePart, mailPart, adminPart, dataPart,
           agreePart, codePart, policyPart>>

(***************************************************************************)
(* A behaviour stays on one page                                           *)
(***************************************************************************)

LEMMA SectionStays == [Next]_pages => section' = section
<1> SUFFICES ASSUME [Next]_pages PROVE section' = section
  OBVIOUS
<1>1. CASE Form!Next
  <2> USE <1>1 DEF Form!Here, Form!world
  <2>1. CASE \/ Form!Click \/ Form!Submit \/ Form!SdkLoads \/ Form!Solve \/ Form!CaptchaFails
             \/ Form!SwitchLanguage \/ Form!CountdownEnds \/ Form!CookieExpires \/ Form!LinkCancel
             \/ Form!Load \/ Form!Leave \/ Form!Reload
             \/ \E entry \in Entries \cup {Invalid} : Form!Type(entry)
    BY <2>1 DEF Form!Click, Form!Submit, Form!SdkLoads, Form!Solve, Form!CaptchaFails,
                Form!SwitchLanguage, Form!CountdownEnds, Form!CookieExpires, Form!LinkCancel,
                Form!Load, Form!Leave, Form!Reload, Form!Type
  <2>2. CASE \/ \E o \in Openings : Form!OpenDialog(o) \/ Form!Close(o)
             \/ \E o \in initing : Form!SdkFails(o)
             \/ \E c \in calls : Form!CodeSent(c) \/ Form!Submitted(c) \/ Form!Serve(c)
    BY <2>2, SMTT(30)
       DEF Form!OpenDialog, Form!Close, Form!SdkFails, Form!CodeSent, Form!Submitted, Form!Serve
  <2>3. QED BY <2>1, <2>2 DEF Form!Next
<1>2. CASE Dash!Next
  BY <1>2, ZenonT(40)
     DEF Dash!Next, Dash!ScanStep, Dash!AvatarStep, Dash!ListStep, Dash!OpenScan,
         Dash!CameraGranted, Dash!CameraRefused, Dash!ReadFrame, Dash!TimerFires, Dash!Scanned,
         Dash!Confirmed, Dash!Cancelled, Dash!Confirm, Dash!Cancel, Dash!OpenAvatar, Dash!Focus,
         Dash!SaveAvatar, Dash!RemoveAvatar, Dash!LoadNewAvatar, Dash!UseProvider, Dash!Loaded,
         Dash!LoadFailed, Dash!AvatarSaved, Dash!OpenList, Dash!OpenLogs, Dash!OpenGrants,
         Dash!LoadMore, Dash!Revoke, Dash!LogsLoaded, Dash!GrantsLoaded, Dash!Revoked, Dash!Close,
         Dash!Serve, Dash!Lose, Dash!Lapse
<1>3. CASE Data!Next
  BY <1>3
     DEF Data!Next, Data!spent, Data!Visit, Data!RequestExport, Data!TimeIsUp, Data!CloseExport,
         Data!Upload, Data!ClosePreview, Data!ConfirmImport, Data!Download, Data!ShowExportAuth,
         Data!Downloaded, Data!Previewed, Data!Imported, Data!GenerateOTAC, Data!DownloadExport,
         Data!RevokeOTAC, Data!StoreFile, Data!ExecuteImport, Data!Refuse, Data!Expire
<1>4. CASE Agree!Next
  BY <1>4
     DEF Agree!Next, Agree!GateStep, Agree!CookieStep, Agree!CheckPolicyConsent, Agree!ToggleBox,
         Agree!Accept, Agree!Decline, Agree!LogIn, Agree!RecordConsent, Agree!LogFails,
         Agree!Accepted, Agree!LogConsent, Agree!TakeEffect, Agree!OpenPage, Agree!ClosePage,
         Agree!InitializeLanguage, Agree!InitLanguageSwitcher, Agree!CreateBanner,
         Agree!AcceptCookies, Agree!RejectCookies, Agree!ShowNotices, Agree!DismissNotices,
         Agree!SwitchLanguage, Agree!CookieExpires, Agree!PageStep, Agree!clearOptionalCookies,
         Agree!WriteLanguage
<1>5. QED BY <1>1, <1>2, <1>3, <1>4 DEF Next, pages

(***************************************************************************)
(* AccountForms: who waits for whom                                        *)
(***************************************************************************)

FormCall(c) ==
    /\ c = [op |-> c.op, of |-> c.of, entry |-> c.entry, at |-> c.at]
    /\ c.op \in {"code", "submit"} /\ c.at \in {"sent", "ok", "failed"}
    /\ c.of \in (IF section \in Form!Dialogs THEN Openings ELSE {Form!Page})

FormTypes ==
    /\ life \in [Openings -> {"new", "open", "closed"}]
    /\ \A c \in calls : FormCall(c)
    /\ \A o \in initing \cup ({widget} \ {Form!Nobody}) :
          o \in (IF section \in Form!Dialogs THEN Openings ELSE {Form!Page})
    /\ phase \in {"loading", "ready", "dead", "leaving", "left"}
    /\ {siteKey, turnstile, sendOn, solved, orphan, overdue, countdown, cookie} \subseteq BOOLEAN

\* Nothing goes on while a page loads, and only one that has a captcha waits
\* for its SDK.
SdkAwaited ==
    /\ phase = "loading" => calls = {} /\ initing = {} /\ widget = Form!Nobody
    /\ initing # {} => siteKey /\ ~turnstile
    /\ widget # Form!Nobody => turnstile

\* A captcha of login or register has something to send, and it sends nothing
\* before the SDK is there.
CaptchaPends ==
    section \in {"login", "register"} =>
        /\ initing # {} \/ (widget # Form!Nobody /\ ~solved) => pending # Invalid
        /\ siteKey /\ ~turnstile => \A c \in calls : section = "register" /\ c.op = "submit"

\* While register counts down, it neither shows a captcha nor awaits one.
RegisterCounts ==
    section = "register" =>
        /\ phase = "loading" => ~sendOn
        /\ countdown => ~sendOn /\ initing = {} /\ widget = Form!Nobody

\* A captcha belongs to the dialog that is open, or waited too long.
DialogWaits ==
    section \in Form!Dialogs =>
        /\ \A o \in initing : orphan \/ Form!Open(o)
        /\ widget # Form!Nobody => orphan \/ Form!Open(widget)

\* What is under way for a code that the opening o asked for.
Coding(o) == {c \in calls : c.op = "code" /\ c.of = o}

\* One dialog of the deletion is open at a time, and alone counts down; one
\* that was not opened yet is unknown.
DeletionsOpen ==
    section = "deletion" =>
        /\ \A o, p \in Openings : Form!Open(o) /\ Form!Open(p) => o = p
        /\ countdown => \E o \in Openings : Form!Open(o)

DeletionsUnborn ==
    section = "deletion" =>
        \A o \in Openings : life[o] = "new" =>
            o \notin initing /\ widget # o /\ \A c \in calls : c.of # o

\* It asks for one code at a time, and for none while it counts down.
DeletionCounts ==
    section = "deletion" /\ ~overdue =>
        \A o \in Openings : Form!Open(o) =>
            /\ sendOn \/ countdown => o \notin initing /\ widget # o /\ Coding(o) = {}
            /\ o \in initing \/ (widget = o /\ ~solved) => Coding(o) = {}
            /\ \A c, d \in Coding(o) : c = d
            /\ sendOn => ~countdown

\* On forgot, a registered address that a success or a request to reset names
\* got a code, or its look-up failed.
Served(entry) == entry \in accounts => entry \in coded \cup unseen

CodesMade ==
    section = "forgot" =>
        /\ step = "reset" => Served(currentEmail)
        /\ \A c \in calls : c.op = "submit" \/ c.at = "ok" => Served(c.entry)

FormInv ==
    /\ section \in Forms =>
          /\ FormTypes /\ SdkAwaited /\ CaptchaPends /\ RegisterCounts /\ DialogWaits
          /\ DeletionsOpen /\ DeletionsUnborn /\ DeletionCounts /\ CodesMade

\* Typing and the send button it puts on and off.
LEMMA FormType ==
    ASSUME FormInv, section \in Forms, NEW entry, Form!Type(entry)
    PROVE  FormInv'
<1> USE DEF Forms, Form!FormPages, Form!Dialogs, Form!Here, Form!Runs, Form!world, Form!server,
            Form!captcha, Form!timer, Form!reset, Form!buttons, Form!Page, Form!Nobody, FormInv,
            Form!Type, Form!RegisterButton, Form!ForgotButton, Form!PasswordButton, Form!NameButton,
            Form!DeletionButton, Form!IsCountingDown, Form!GetCookie
<1>0. UNCHANGED section
  OBVIOUS
<1>1. FormTypes'
  BY <1>0 DEF FormTypes, FormCall
<1>2. SdkAwaited' /\ CaptchaPends' /\ RegisterCounts'
  BY <1>0 DEF FormTypes, FormCall, SdkAwaited, CaptchaPends, RegisterCounts
<1>3. DialogWaits' /\ DeletionsOpen' /\ DeletionsUnborn'
  BY <1>0, SentinelsAssumption DEF FormTypes, FormCall, SdkAwaited, DialogWaits, DeletionsOpen,
         DeletionsUnborn, Form!Open
<1>4. DeletionCounts'
  BY <1>0, SentinelsAssumption DEF FormTypes, FormCall, SdkAwaited, DeletionsOpen,
         DeletionsUnborn, DeletionCounts, Coding, Form!Open
<1>5. CodesMade'
  BY <1>0 DEF FormTypes, FormCall, CodesMade, Served
<1>6. QED BY <1>0, <1>1, <1>2, <1>3, <1>4, <1>5

\* The send button asks for a captcha, or sends at once.
LEMMA FormClick ==
    ASSUME FormInv, section \in Forms, Form!Click
    PROVE  FormInv'
<1> USE DEF Forms, Form!FormPages, Form!Dialogs, Form!Here, Form!Runs, Form!world, Form!server,
            Form!captcha, Form!timer, Form!reset, Form!buttons, Form!Page, Form!Nobody, FormInv,
            Form!Click, Form!Asks, Form!LoginClick, Form!RegisterClick, Form!ForgotClick,
            Form!PasswordClick, Form!NameClick, Form!DeletionClick, Form!Send, Form!InitCaptcha,
            Form!On, Form!Shown, Form!Open, Form!Fetch, Form!Valid, Form!IsCountingDown,
            Form!GetCookie
<1>0. UNCHANGED section
  OBVIOUS
<1>1. FormTypes'
  <2> DEFINE Of == IF section \in Form!Dialogs THEN Openings ELSE {Form!Page}
  <2>1. \E op \in {"code", "submit"}, o \in Of : \E entry : Form!Send(op, o, entry)
    OBVIOUS
  <2>2. PICK op \in {"code", "submit"}, o \in Of : \E entry : Form!Send(op, o, entry)
    BY <2>1
  <2>3. \/ calls' = calls
        \/ \E entry : calls' = calls \cup {[op |-> op, of |-> o, entry |-> entry, at |-> "sent"]}
    BY <2>2
  <2>4. \A c \in calls' : FormCall(c)'
    BY <1>0, <2>3 DEF FormTypes, FormCall
  <2>5. initing' \subseteq initing \cup {o} /\ widget' \in {widget, o}
    BY <2>2
  <2>6. UNCHANGED <<life, phase, siteKey, turnstile, orphan, overdue, countdown, cookie>>
        /\ sendOn' = FALSE /\ solved' \in {solved, FALSE}
    BY <2>2
  <2>7. QED BY <1>0, <2>4, <2>5, <2>6 DEF FormTypes
<1>2. SdkAwaited' /\ CaptchaPends' /\ RegisterCounts'
  BY <1>0 DEF FormTypes, FormCall, SdkAwaited, CaptchaPends, RegisterCounts
<1>3. DialogWaits' /\ DeletionsOpen' /\ DeletionsUnborn'
  BY <1>0, SentinelsAssumption DEF FormTypes, FormCall, SdkAwaited, DialogWaits, DeletionsOpen,
         DeletionsUnborn, Form!Open
<1>4. DeletionCounts'
  BY <1>0, SentinelsAssumption DEF FormTypes, FormCall, SdkAwaited, DeletionsOpen,
         DeletionsUnborn, DeletionCounts, Coding, Form!Open
<1>5. CodesMade'
  BY <1>0 DEF FormTypes, FormCall, CodesMade, Served
<1>6. QED BY <1>0, <1>1, <1>2, <1>3, <1>4, <1>5

\* The submit buttons.
LEMMA FormSubmit ==
    ASSUME FormInv, section \in Forms, Form!Submit
    PROVE  FormInv'
<1> USE DEF Forms, Form!FormPages, Form!Dialogs, Form!Here, Form!Runs, Form!world, Form!server,
            Form!captcha, Form!timer, Form!reset, Form!buttons, Form!Page, Form!Nobody, FormInv,
            Form!Submit, Form!Asks, Form!RegisterSubmit, Form!ForgotSubmit, Form!DeletionConfirm,
            Form!LinkConfirm, Form!SubmitDecision, Form!On, Form!Shown, Form!Open, Form!Fetch
<1>0. UNCHANGED section
  OBVIOUS
<1>1. FormTypes'
  BY <1>0 DEF FormTypes, FormCall
<1>2. SdkAwaited' /\ CaptchaPends' /\ RegisterCounts'
  BY <1>0 DEF FormTypes, FormCall, SdkAwaited, CaptchaPends, RegisterCounts
<1>3. DialogWaits' /\ DeletionsOpen' /\ DeletionsUnborn'
  BY <1>0, SentinelsAssumption DEF FormTypes, FormCall, SdkAwaited, DialogWaits, DeletionsOpen,
         DeletionsUnborn, Form!Open
<1>4. DeletionCounts'
  BY <1>0, SentinelsAssumption DEF FormTypes, FormCall, SdkAwaited, DeletionsOpen,
         DeletionsUnborn, DeletionCounts, Coding, Form!Open
<1>5. CodesMade'
  BY <1>0 DEF FormTypes, FormCall, CodesMade, Served
<1>6. QED BY <1>0, <1>1, <1>2, <1>3, <1>4, <1>5

\* A dialog opens.
LEMMA FormOpens ==
    ASSUME FormInv, section \in Forms, NEW o \in Openings, Form!OpenDialog(o)
    PROVE  FormInv'
<1> USE DEF Forms, Form!FormPages, Form!Dialogs, Form!Here, Form!Runs, Form!world, Form!server,
            Form!captcha, Form!timer, Form!reset, Form!buttons, Form!Page, Form!Nobody, FormInv,
            Form!OpenDialog, Form!createModalController, Form!OpenForm, Form!OpenDeletion,
            Form!GetCookie
<1>0. UNCHANGED section
  OBVIOUS
<1>1. FormTypes'
  BY <1>0 DEF FormTypes, FormCall
<1>2. SdkAwaited' /\ CaptchaPends' /\ RegisterCounts'
  BY <1>0 DEF FormTypes, FormCall, SdkAwaited, CaptchaPends, RegisterCounts
<1>3. DialogWaits' /\ DeletionsOpen' /\ DeletionsUnborn'
  BY <1>0, SentinelsAssumption DEF FormTypes, FormCall, SdkAwaited, DialogWaits, DeletionsOpen,
         DeletionsUnborn, Form!Open
<1>4. DeletionCounts'
  BY <1>0, SentinelsAssumption DEF FormTypes, FormCall, SdkAwaited, DeletionsOpen,
         DeletionsUnborn, DeletionCounts, Coding, Form!Open
<1>5. CodesMade'
  BY <1>0 DEF FormTypes, FormCall, CodesMade, Served
<1>6. QED BY <1>0, <1>1, <1>2, <1>3, <1>4, <1>5

\* The user closes a dialog.
LEMMA FormCloses ==
    ASSUME FormInv, section \in Forms, NEW o \in Openings, Form!Close(o)
    PROVE  FormInv'
<1> USE DEF Forms, Form!FormPages, Form!Dialogs, Form!Here, Form!Runs, Form!world, Form!server,
            Form!captcha, Form!timer, Form!reset, Form!buttons, Form!Page, Form!Nobody, FormInv,
            Form!Close, Form!Closes, Form!ClearCountdown, Form!DeleteCookie
<1>0. UNCHANGED section
  OBVIOUS
<1>1. FormTypes'
  BY <1>0 DEF FormTypes, FormCall
<1>2. SdkAwaited' /\ CaptchaPends' /\ RegisterCounts'
  BY <1>0 DEF FormTypes, FormCall, SdkAwaited, CaptchaPends, RegisterCounts
<1>3. DialogWaits' /\ DeletionsOpen' /\ DeletionsUnborn'
  BY <1>0, SentinelsAssumption DEF FormTypes, FormCall, SdkAwaited, DialogWaits, DeletionsOpen,
         DeletionsUnborn, Form!Open
<1>4. DeletionCounts'
  BY <1>0, SentinelsAssumption DEF FormTypes, FormCall, SdkAwaited, DeletionsOpen,
         DeletionsUnborn, DeletionCounts, Coding, Form!Open
<1>5. CodesMade'
  BY <1>0 DEF FormTypes, FormCall, CodesMade, Served
<1>6. QED BY <1>0, <1>1, <1>2, <1>3, <1>4, <1>5

\* The SDK of the captcha comes, or fails to.
LEMMA FormSdkLoads ==
    ASSUME FormInv, section \in Forms, Form!SdkLoads
    PROVE  FormInv'
<1> USE DEF Forms, Form!FormPages, Form!Dialogs, Form!Here, Form!Runs, Form!world, Form!server,
            Form!captcha, Form!timer, Form!reset, Form!buttons, Form!Page, Form!Nobody, FormInv,
            Form!SdkLoads
<1>0. UNCHANGED section
  OBVIOUS
<1>1. FormTypes'
  BY <1>0 DEF FormTypes, FormCall
<1>2. SdkAwaited' /\ CaptchaPends' /\ RegisterCounts'
  BY <1>0 DEF FormTypes, FormCall, SdkAwaited, CaptchaPends, RegisterCounts
<1>3. DialogWaits' /\ DeletionsOpen' /\ DeletionsUnborn'
  BY <1>0, SentinelsAssumption DEF FormTypes, FormCall, SdkAwaited, DialogWaits, DeletionsOpen,
         DeletionsUnborn, Form!Open
<1>4. DeletionCounts'
  BY <1>0, SentinelsAssumption DEF FormTypes, FormCall, SdkAwaited, DeletionsOpen,
         DeletionsUnborn, DeletionCounts, Coding, Form!Open
<1>5. CodesMade'
  BY <1>0 DEF FormTypes, FormCall, CodesMade, Served
<1>6. QED BY <1>0, <1>1, <1>2, <1>3, <1>4, <1>5

LEMMA FormSdkFails ==
    ASSUME FormInv, section \in Forms, NEW o \in initing, Form!SdkFails(o)
    PROVE  FormInv'
<1> USE DEF Forms, Form!FormPages, Form!Dialogs, Form!Here, Form!Runs, Form!world, Form!server,
            Form!captcha, Form!timer, Form!reset, Form!buttons, Form!Page, Form!Nobody, FormInv,
            Form!SdkFails, Form!Restored, Form!LoginRestored, Form!RegisterRestored,
            Form!FormRestored, Form!RegisterButton, Form!IsCountingDown, Form!Shown
<1>0. UNCHANGED section
  OBVIOUS
<1>1. FormTypes'
  BY <1>0 DEF FormTypes, FormCall
<1>2. SdkAwaited' /\ CaptchaPends' /\ RegisterCounts'
  BY <1>0 DEF FormTypes, FormCall, SdkAwaited, CaptchaPends, RegisterCounts
<1>3. DialogWaits' /\ DeletionsOpen' /\ DeletionsUnborn'
  BY <1>0, SentinelsAssumption DEF FormTypes, FormCall, SdkAwaited, DialogWaits, DeletionsOpen,
         DeletionsUnborn, Form!Open
<1>4. DeletionCounts'
  BY <1>0, SentinelsAssumption DEF FormTypes, FormCall, SdkAwaited, DeletionsOpen,
         DeletionsUnborn, DeletionCounts, Coding, Form!Open
<1>5. CodesMade'
  BY <1>0 DEF FormTypes, FormCall, CodesMade, Served
<1>6. QED BY <1>0, <1>1, <1>2, <1>3, <1>4, <1>5

\* The captcha is solved, or fails or expires.
LEMMA FormSolve ==
    ASSUME FormInv, section \in Forms, Form!Solve
    PROVE  FormInv'
<1> USE DEF Forms, Form!FormPages, Form!Dialogs, Form!Here, Form!Runs, Form!world, Form!server,
            Form!captcha, Form!timer, Form!reset, Form!buttons, Form!Page, Form!Nobody, FormInv,
            Form!Solve, Form!Shown, Form!Fetch, Form!Coded
<1>0. UNCHANGED section
  OBVIOUS
<1>1. FormTypes'
  BY <1>0 DEF FormTypes, FormCall
<1>2. SdkAwaited' /\ CaptchaPends' /\ RegisterCounts'
  BY <1>0 DEF FormTypes, FormCall, SdkAwaited, CaptchaPends, RegisterCounts
<1>3. DialogWaits' /\ DeletionsOpen' /\ DeletionsUnborn'
  BY <1>0, SentinelsAssumption DEF FormTypes, FormCall, SdkAwaited, DialogWaits, DeletionsOpen,
         DeletionsUnborn, Form!Open
<1>4. DeletionCounts'
  BY <1>0, SentinelsAssumption DEF FormTypes, FormCall, SdkAwaited, DeletionsOpen,
         DeletionsUnborn, DeletionCounts, Coding, Form!Open
<1>5. CodesMade'
  BY <1>0 DEF FormTypes, FormCall, CodesMade, Served
<1>6. QED BY <1>0, <1>1, <1>2, <1>3, <1>4, <1>5

LEMMA FormCaptchaFails ==
    ASSUME FormInv, section \in Forms, Form!CaptchaFails
    PROVE  FormInv'
<1> USE DEF Forms, Form!FormPages, Form!Dialogs, Form!Here, Form!Runs, Form!world, Form!server,
            Form!captcha, Form!timer, Form!reset, Form!buttons, Form!Page, Form!Nobody, FormInv,
            Form!CaptchaFails, Form!Restored, Form!LoginRestored, Form!RegisterRestored,
            Form!FormRestored, Form!RegisterButton, Form!IsCountingDown, Form!Shown
<1>0. UNCHANGED section
  OBVIOUS
<1>1. FormTypes'
  BY <1>0 DEF FormTypes, FormCall
<1>2. SdkAwaited' /\ CaptchaPends' /\ RegisterCounts'
  BY <1>0 DEF FormTypes, FormCall, SdkAwaited, CaptchaPends, RegisterCounts
<1>3. DialogWaits' /\ DeletionsOpen' /\ DeletionsUnborn'
  BY <1>0, SentinelsAssumption DEF FormTypes, FormCall, SdkAwaited, DialogWaits, DeletionsOpen,
         DeletionsUnborn, Form!Open
<1>4. DeletionCounts'
  BY <1>0, SentinelsAssumption DEF FormTypes, FormCall, SdkAwaited, DeletionsOpen,
         DeletionsUnborn, DeletionCounts, Coding, Form!Open
<1>5. CodesMade'
  BY <1>0 DEF FormTypes, FormCall, CodesMade, Served
<1>6. QED BY <1>0, <1>1, <1>2, <1>3, <1>4, <1>5

\* The language switcher, the end of the countdown, and steps that leave the page.
LEMMA FormSwitches ==
    ASSUME FormInv, section \in Forms, Form!SwitchLanguage \/ Form!CountdownEnds
    PROVE  FormInv'
<1> USE DEF Forms, Form!FormPages, Form!Dialogs, Form!Here, Form!Runs, Form!world, Form!server,
            Form!captcha, Form!timer, Form!reset, Form!buttons, Form!Page, Form!Nobody, FormInv,
            Form!SwitchLanguage, Form!CountdownEnds, Form!Valid, Form!RegisterButton,
            Form!ForgotButton, Form!IsCountingDown, Form!ClearCountdown, Form!DeleteCookie,
            Form!GetCookie
<1>0. UNCHANGED section
  OBVIOUS
<1>1. FormTypes'
  BY <1>0 DEF FormTypes, FormCall
<1>2. SdkAwaited' /\ CaptchaPends' /\ RegisterCounts'
  BY <1>0 DEF FormTypes, FormCall, SdkAwaited, CaptchaPends, RegisterCounts
<1>3. DialogWaits' /\ DeletionsOpen' /\ DeletionsUnborn'
  BY <1>0, SentinelsAssumption DEF FormTypes, FormCall, SdkAwaited, DialogWaits, DeletionsOpen,
         DeletionsUnborn, Form!Open
<1>4. DeletionCounts'
  BY <1>0, SentinelsAssumption DEF FormTypes, FormCall, SdkAwaited, DeletionsOpen,
         DeletionsUnborn, DeletionCounts, Coding, Form!Open
<1>5. CodesMade'
  BY <1>0 DEF FormTypes, FormCall, CodesMade, Served
<1>6. QED BY <1>0, <1>1, <1>2, <1>3, <1>4, <1>5

LEMMA FormRests ==
    ASSUME FormInv, section \in Forms, Form!LinkCancel \/ Form!Leave \/ Form!CookieExpires
    PROVE  FormInv'
<1> USE DEF Forms, Form!FormPages, Form!Dialogs, Form!Here, Form!Runs, Form!world, Form!server,
            Form!captcha, Form!timer, Form!reset, Form!buttons, Form!Page, Form!Nobody, FormInv,
            Form!LinkCancel, Form!Leave, Form!CookieExpires
<1>0. UNCHANGED section
  OBVIOUS
<1>1. FormTypes'
  BY <1>0 DEF FormTypes, FormCall
<1>2. SdkAwaited' /\ CaptchaPends' /\ RegisterCounts'
  BY <1>0 DEF FormTypes, FormCall, SdkAwaited, CaptchaPends, RegisterCounts
<1>3. DialogWaits' /\ DeletionsOpen' /\ DeletionsUnborn'
  BY <1>0, SentinelsAssumption DEF FormTypes, FormCall, SdkAwaited, DialogWaits, DeletionsOpen,
         DeletionsUnborn, Form!Open
<1>4. DeletionCounts'
  BY <1>0, SentinelsAssumption DEF FormTypes, FormCall, SdkAwaited, DeletionsOpen,
         DeletionsUnborn, DeletionCounts, Coding, Form!Open
<1>5. CodesMade'
  BY <1>0 DEF FormTypes, FormCall, CodesMade, Served
<1>6. QED BY <1>0, <1>1, <1>2, <1>3, <1>4, <1>5

\* The answer to a request for a code.
LEMMA FormCodeSent ==
    ASSUME FormInv, section \in Forms, NEW c \in calls, Form!CodeSent(c)
    PROVE  FormInv'
<1> USE DEF Forms, Form!FormPages, Form!Dialogs, Form!Here, Form!Runs, Form!world, Form!server,
            Form!captcha, Form!timer, Form!reset, Form!buttons, Form!Page, Form!Nobody, FormInv,
            Form!CodeSent, Form!RegisterSent, Form!ForgotSent, Form!DeletionSent,
            Form!StartCountdown, Form!SetCookie, Form!ClearCaptcha, Form!RegisterButton,
            Form!IsCountingDown
<1>0. UNCHANGED section
  OBVIOUS
<1>1. FormTypes'
  BY <1>0 DEF FormTypes, FormCall
<1>2. SdkAwaited' /\ CaptchaPends' /\ RegisterCounts'
  BY <1>0 DEF FormTypes, FormCall, SdkAwaited, CaptchaPends, RegisterCounts
<1>3. DialogWaits' /\ DeletionsOpen' /\ DeletionsUnborn'
  BY <1>0, SentinelsAssumption DEF FormTypes, FormCall, SdkAwaited, DialogWaits, DeletionsOpen,
         DeletionsUnborn, Form!Open
<1>4. DeletionCounts'
  BY <1>0, SentinelsAssumption DEF FormTypes, FormCall, SdkAwaited, DeletionsOpen,
         DeletionsUnborn, DeletionCounts, Coding, Form!Open
<1>5. CodesMade'
  BY <1>0 DEF FormTypes, FormCall, CodesMade, Served
<1>6. QED BY <1>0, <1>1, <1>2, <1>3, <1>4, <1>5

\* The answer to a form.
LEMMA FormSubmitted ==
    ASSUME FormInv, section \in Forms, NEW c \in calls, Form!Submitted(c)
    PROVE  FormInv'
<1> USE DEF Forms, Form!FormPages, Form!Dialogs, Form!Here, Form!Runs, Form!world, Form!server,
            Form!captcha, Form!timer, Form!reset, Form!buttons, Form!Page, Form!Nobody, FormInv,
            Form!Submitted, Form!LoginDone, Form!RegisterDone, Form!ForgotDone, Form!LinkDone,
            Form!DecisionDone, Form!PasswordDone, Form!NameDone, Form!DeletionDone, Form!Restores,
            Form!Leaves, Form!Closes, Form!ClearCaptcha, Form!LoginRestored, Form!ClearCountdown,
            Form!DeleteCookie
<1>0. UNCHANGED section
  OBVIOUS
<1>1. FormTypes'
  BY <1>0 DEF FormTypes, FormCall
<1>2. SdkAwaited' /\ CaptchaPends' /\ RegisterCounts'
  BY <1>0 DEF FormTypes, FormCall, SdkAwaited, CaptchaPends, RegisterCounts
<1>3. DialogWaits' /\ DeletionsOpen' /\ DeletionsUnborn'
  BY <1>0, SentinelsAssumption DEF FormTypes, FormCall, SdkAwaited, DialogWaits, DeletionsOpen,
         DeletionsUnborn, Form!Open
<1>4. DeletionCounts'
  BY <1>0, SentinelsAssumption DEF FormTypes, FormCall, SdkAwaited, DeletionsOpen,
         DeletionsUnborn, DeletionCounts, Coding, Form!Open
<1>5. CodesMade'
  BY <1>0 DEF FormTypes, FormCall, CodesMade, Served
<1>6. QED BY <1>0, <1>1, <1>2, <1>3, <1>4, <1>5

\* The server.
LEMMA FormServed ==
    ASSUME FormInv, section \in Forms, NEW c \in calls, Form!Serve(c)
    PROVE  FormInv'
<1>1. PICK at \in {"ok", "failed"} :
         /\ calls' = (calls \ {c}) \cup {[c EXCEPT !.at = at]}
         /\ accounts' = accounts /\ coded \subseteq coded' /\ unseen \subseteq unseen'
         /\ section = "forgot" /\ c.op = "code" /\ at = "ok" => Served(c.entry)'
  <2> USE DEF Form!Respond, Form!Reply, Form!server, Served
  <2>1. CASE Form!SendResetCode(c)
    BY <2>1 DEF Form!SendResetCode, Form!NotFound, Form!CreateToken
  <2>2. CASE Form!ResetPassword(c)
    BY <2>2 DEF Form!ResetPassword
  <2>3. CASE \/ Form!SendCode(c) \/ Form!Register(c) \/ Form!Login(c) \/ Form!ConfirmLink(c)
             \/ Form!AuthorizePost(c) \/ Form!ChangePassword(c) \/ Form!UpdateUsername(c)
             \/ Form!SendDeleteCode(c) \/ Form!DeleteAccount(c)
    BY <2>3 DEF Form!SendCode, Form!Register, Form!Login, Form!ConfirmLink, Form!AuthorizePost,
                Form!ChangePassword, Form!UpdateUsername, Form!SendDeleteCode, Form!DeleteAccount
  <2>4. QED BY <2>1, <2>2, <2>3 DEF Form!Serve
<1>2. /\ UNCHANGED <<section, siteKey, life, turnstile, typed, sendOn, submitOn, pending, initing,
                     widget, solved, orphan, overdue, countdown, cookie, codeSent, step,
                     currentEmail, phase>>
      /\ c.at = "sent"
  BY DEF Form!Serve, Form!buttons, Form!captcha, Form!timer, Form!reset
<1> USE DEF FormInv, Form!Dialogs, Form!Page, Form!Nobody
<1>3. FormCall(c)
  BY DEF FormTypes
<1> DEFINE answered == [c EXCEPT !.at = at]
<1>4. /\ answered = [op |-> c.op, of |-> c.of, entry |-> c.entry, at |-> at]
      /\ answered.op = c.op /\ answered.of = c.of /\ answered.entry = c.entry /\ answered.at = at
  BY <1>3 DEF FormCall
<1>5. calls' = (calls \ {c}) \cup {answered}
  BY <1>1
<1> HIDE DEF answered
<1>6. FormTypes'
  BY <1>2, <1>3, <1>4, <1>5 DEF FormTypes, FormCall
<1>7. SdkAwaited' /\ CaptchaPends' /\ RegisterCounts'
  BY <1>2, <1>4, <1>5 DEF SdkAwaited, CaptchaPends, RegisterCounts
<1>8. DialogWaits' /\ DeletionsOpen' /\ DeletionsUnborn'
  BY <1>2, <1>4, <1>5 DEF DialogWaits, DeletionsOpen, DeletionsUnborn, Form!Open
<1>9. DeletionCounts'
  <2>1. \A o \in Openings : Coding(o)' = IF c \in Coding(o) THEN (Coding(o) \ {c}) \cup {answered}
                                        ELSE Coding(o)
    BY <1>4, <1>5 DEF Coding
  <2>2. \A o \in Openings :
           /\ Coding(o) = {} => Coding(o)' = {}
           /\ (\A d, e \in Coding(o) : d = e) => \A d, e \in Coding(o)' : d = e
    BY <2>1
  <2>3. QED BY <1>2, <2>2 DEF DeletionCounts, Form!Open
<1>10. CodesMade'
  <2>1. \A entry : Served(entry) => Served(entry)'
    BY <1>1 DEF Served
  <2>2. ASSUME section = "forgot"
        PROVE  \A d \in calls' : d.op = "submit" \/ d.at = "ok" => Served(d.entry)'
    <3>1. \A d \in calls : d.op = "submit" \/ d.at = "ok" => Served(d.entry)'
      BY <2>1, <2>2 DEF CodesMade
    <3>2. answered.op = "submit" \/ answered.at = "ok" => Served(answered.entry)'
      <4>1. CASE c.op = "submit"
        BY <1>4, <3>1, <4>1
      <4>2. CASE c.op = "code"
        BY <1>1, <1>4, <2>2, <4>2
      <4>3. QED BY <1>3, <4>1, <4>2 DEF FormCall
    <3>3. QED BY <1>5, <3>1, <3>2 DEF Served
  <2>3. step = "reset" /\ section = "forgot" => Served(currentEmail)'
    BY <1>1, <1>2 DEF CodesMade, Served
  <2>4. QED BY <1>2, <2>2, <2>3 DEF CodesMade
<1>11. QED BY <1>2, <1>6, <1>7, <1>8, <1>9, <1>10

\* A page loads, and is loaded again.
LEMMA FormLoads ==
    ASSUME FormInv, section \in Forms, Form!Load
    PROVE  FormInv'
<1> USE DEF Forms, Form!FormPages, Form!Dialogs, Form!Here, Form!Runs, Form!world, Form!server,
            Form!captcha, Form!timer, Form!reset, Form!buttons, Form!Page, Form!Nobody, FormInv,
            Form!Load, Form!LoginLoads, Form!RegisterLoads, Form!ForgotLoads, Form!LinkLoads,
            Form!OAuthLoads, Form!Ready, Form!ResumeCountdown, Form!GetCookie
<1>0. UNCHANGED section
  OBVIOUS
<1>1. FormTypes'
  BY <1>0 DEF FormTypes, FormCall
<1>2. SdkAwaited' /\ CaptchaPends' /\ RegisterCounts'
  BY <1>0 DEF FormTypes, FormCall, SdkAwaited, CaptchaPends, RegisterCounts
<1>3. DialogWaits' /\ DeletionsOpen' /\ DeletionsUnborn'
  BY <1>0, SentinelsAssumption DEF FormTypes, FormCall, SdkAwaited, DialogWaits, DeletionsOpen,
         DeletionsUnborn, Form!Open
<1>4. DeletionCounts'
  BY <1>0, SentinelsAssumption DEF FormTypes, FormCall, SdkAwaited, DeletionsOpen,
         DeletionsUnborn, DeletionCounts, Coding, Form!Open
<1>5. CodesMade'
  BY <1>0 DEF FormTypes, FormCall, CodesMade, Served
<1>6. QED BY <1>0, <1>1, <1>2, <1>3, <1>4, <1>5

LEMMA FormReloads ==
    ASSUME FormInv, section \in Forms, Form!Reload
    PROVE  FormInv'
<1> USE DEF Forms, Form!FormPages, Form!Dialogs, Form!Here, Form!Runs, Form!world, Form!server,
            Form!captcha, Form!timer, Form!reset, Form!buttons, Form!Page, Form!Nobody, FormInv,
            Form!Reload
<1>0. UNCHANGED section
  OBVIOUS
<1>1. FormTypes'
  BY <1>0 DEF FormTypes, FormCall
<1>2. SdkAwaited' /\ CaptchaPends' /\ RegisterCounts'
  BY <1>0 DEF FormTypes, FormCall, SdkAwaited, CaptchaPends, RegisterCounts
<1>3. DialogWaits' /\ DeletionsOpen' /\ DeletionsUnborn'
  BY <1>0, SentinelsAssumption DEF FormTypes, FormCall, SdkAwaited, DialogWaits, DeletionsOpen,
         DeletionsUnborn, Form!Open
<1>4. DeletionCounts'
  BY <1>0, SentinelsAssumption DEF FormTypes, FormCall, SdkAwaited, DeletionsOpen,
         DeletionsUnborn, DeletionCounts, Coding, Form!Open
<1>5. CodesMade'
  BY <1>0 DEF FormTypes, FormCall, CodesMade, Served
<1>6. QED BY <1>0, <1>1, <1>2, <1>3, <1>4, <1>5

\* A form's invariant is kept by its own steps.
LEMMA FormStep == FormInv /\ section \in Forms /\ Form!Next => FormInv'
BY FormType, FormClick, FormSubmit, FormOpens, FormCloses, FormSdkLoads, FormSdkFails, FormSolve,
   FormCaptchaFails, FormSwitches, FormRests, FormCodeSent, FormSubmitted, FormServed, FormLoads,
   FormReloads DEF Form!Next

LEMMA FormInit == Init => FormInv
BY SentinelsAssumption
   DEF Init, Form!Starts, Form!FormPages, Form!Dialogs, Form!Nobody, Form!Page, Form!Open, Forms,
       FormInv, FormTypes, FormCall, SdkAwaited, CaptchaPends, RegisterCounts, DialogWaits,
       DeletionsOpen, DeletionsUnborn, DeletionCounts, Coding, CodesMade

\* The forms keep their invariant.
LEMMA FormInvariance == Spec => []FormInv
<1>1. FormInv /\ UNCHANGED <<section, dialogs, formPart>> => FormInv'
  BY DEF dialogs, formPart, FormInv, FormTypes, FormCall, SdkAwaited, CaptchaPends, RegisterCounts,
         DialogWaits, DeletionsOpen, DeletionsUnborn, DeletionCounts, Coding, CodesMade,
         Served, Form!Open
<1>2. FormInv /\ section \in Dialogs /\ UNCHANGED <<section, formPart>> => FormInv'
  BY DEF formPart, FormInv, Dialogs, Forms, Form!FormPages, Form!Dialogs
<1>3. FormInv /\ [Next]_pages => FormInv'
  BY <1>1, <1>2, FormStep, SectionStays DEF Next, pages
<1>4. QED BY <1>3, FormInit, PTL DEF Spec, pages

\* While register or the deletion dialog counts down the button that asks for
\* a code is off, whatever is typed, answered late, reloaded or reopened
\* (updateSendCodeButtonState, handleSendCode, resumeCountdown).
THEOREM CountdownIsHeld == Spec => []CountdownHolds
<1>1. FormInv => CountdownHolds
  BY DEF FormInv, RegisterCounts, DeletionsOpen, DeletionCounts, CountdownHolds,
         Form!CountdownHolds, Forms, Form!FormPages, Form!Dialogs
<1>2. QED BY <1>1, FormInvariance, PTL

\* A captcha that is shown has something to send once it is solved, however
\* late its SDK comes and whichever dialogs were closed before
\* (initCaptcha, onSendCodeClick, handleLogin).
THEOREM CaptchasServe == Spec => []CaptchaServes
<1>1. ASSUME FormInv, widget # Form!Nobody, ~solved
      PROVE  /\ section \in {"login", "register"} => pending # Invalid
             /\ section \in Form!Dialogs => orphan \/ Form!Shown(widget)
  BY <1>1 DEF FormInv, CaptchaPends, DialogWaits, Forms, Form!FormPages, Form!Dialogs, Form!Shown,
              FormTypes, Form!Open
<1>2. FormInv => CaptchaServes
  BY <1>1, Zenon DEF CaptchaServes, Form!CaptchaServes
<1>3. QED BY <1>2, FormInvariance, PTL

\* The page forgot resets no password of a registered address that no code was
\* made for and that the server found, whatever was typed while the code was
\* under way (SendResetCode, sendResetCode, handleResetSubmit).
THEOREM ResetsAreCoded == Spec => []ResetsCoded
<1>1. ASSUME FormInv, section = "forgot"
      PROVE  Form!Resetting \cap accounts \subseteq coded \cup unseen
  <2>1. /\ step = "reset" => Served(currentEmail)
        /\ \A c \in calls : c.op = "submit" => Served(c.entry)
    BY <1>1 DEF FormInv, CodesMade, Forms, Form!FormPages
  <2>2. QED BY <2>1 DEF Form!Resetting, Served
<1>2. FormInv => ResetsCoded
  BY <1>1, Zenon DEF ResetsCoded, Form!ResetsCoded
<1>3. QED BY <1>2, FormInvariance, PTL

(***************************************************************************)
(* Dashboard: whose dialog is open                                         *)
(***************************************************************************)

DashCall(c) ==
    /\ c = [op |-> c.op, of |-> c.of, arg |-> c.arg, at |-> c.at]
    /\ c.of \in Openings /\ (c.op = "logs" => c.arg \in Nat)

DashTypes ==
    /\ life \in [Openings -> {"new", "open", "closed"}]
    /\ camera \in [Openings -> {"none", "asked", "on", "off"}]
    /\ target \in [Openings -> Codes \cup {NoCode, Junk}]
    /\ \A t \in timers : t.of \in Openings
    /\ bound \subseteq Openings
    /\ \A c \in calls : DashCall(c)
    /\ ask = [shown |-> ask.shown, info |-> ask.info, on |-> ask.on] /\ late \in BOOLEAN

\* Of the dialogs of one section one is open at a time, and a camera is on
\* only in that one.
OneDialog ==
    /\ \A o, p \in Openings : Dash!Open(o) /\ Dash!Open(p) => o = p
    /\ \A o \in Openings : camera[o] = "on" => Dash!Open(o)

\* Unless a scan was answered late, the confirm dialog is shown exactly while
\* one controller waits for its buttons, the one whose PC it shows, and no
\* scanner is open behind it.
OneConfirms ==
    ~late =>
        /\ \A o, p \in bound : o = p
        /\ bound # {} => ask.shown /\ ~Dash!Shown
        /\ ask.shown => bound # {} /\ \A o \in bound : target[o] = ask.info

AvatarTypes ==
    /\ validatedUrl \in [Openings -> Dash!Validated]
    /\ \A i \in images : i.by \in Openings /\ i.url \in Dash!Validated

\* The pages of the log that the opening o waits for.
Awaited(o) == {c \in calls : c.op = "logs" /\ c.of = o}

LogTypes ==
    /\ currentPage \in [Openings -> Nat]
    /\ failed \in [Openings -> SUBSET Nat]
    /\ log.rows \in Seq(Nat)

\* An opening of the log waits for one page at a time, the current one, which
\* comes after all that are listed; every page up to it was listed, failed or
\* is awaited.
LogAwaits ==
    section = "logs" => \A o \in Openings :
        /\ life[o] = "new" => currentPage[o] = 1 /\ Awaited(o) = {}
        /\ Dash!Open(o) =>
              /\ log.on => Awaited(o) = {}
              /\ \A c, d \in Awaited(o) : c = d
              /\ \A c \in Awaited(o) : c.arg = currentPage[o]
              /\ \A n \in 1 .. Len(log.rows) :
                    /\ log.rows[n] <= currentPage[o]
                    /\ \A c \in Awaited(o) : log.rows[n] < c.arg
                    /\ \A m \in 1 .. Len(log.rows) : m < n => log.rows[m] < log.rows[n]
              /\ \A p \in 1 .. currentPage[o] : p <= Pages =>
                    \/ \E n \in 1 .. Len(log.rows) : log.rows[n] = p
                    \/ p \in failed[o]
                    \/ \E c \in Awaited(o) : c.arg = p

DashInv ==
    /\ section \in Dialogs =>
          /\ DashTypes /\ OneDialog /\ OneConfirms /\ AvatarTypes /\ Dash!SavesPreview
          /\ LogTypes /\ LogAwaits
    /\ section \notin Dialogs => Dash!Rest

\* What touches neither the log nor what it awaits.
LEMMA LogGoesOn ==
    ASSUME LogAwaits, DashTypes, UNCHANGED <<section, log, currentPage, failed>>,
           section = "logs" => \A o \in Openings :
              Awaited(o)' = Awaited(o) /\ (life'[o] = life[o] \/ life'[o] = "closed")
    PROVE  LogAwaits'
BY DEF LogAwaits, Dash!Open

\* What the server writes into a fetch of the applications.
LEMMA ServedGrants ==
    ASSUME NEW c, c = [op |-> c.op, of |-> c.of, arg |-> c.arg, at |-> c.at],
           NEW rest, NEW answered
    PROVE  [c EXCEPT !.at = answered, !.arg = rest]
              = [op |-> c.op, of |-> c.of, arg |-> rest, at |-> answered]
<1> DEFINE d == [c EXCEPT !.at = answered]
<1>1. [c EXCEPT !.at = answered, !.arg = rest] = [d EXCEPT !.arg = rest]
  BY Zenon
<1>2. d = [op |-> c.op, of |-> c.of, arg |-> c.arg, at |-> answered]
  OBVIOUS
<1> HIDE DEF d
<1>3. [d EXCEPT !.arg = rest] = [op |-> c.op, of |-> c.of, arg |-> rest, at |-> answered]
  BY <1>2
<1>4. QED BY <1>1, <1>3, Zenon

\* The scanner opens, and its camera comes or is refused.
LEMMA DashScans ==
    ASSUME DashInv, section \in Dialogs, NEW o \in Openings,
           Dash!OpenScan(o) \/ Dash!CameraGranted(o) \/ Dash!CameraRefused(o)
    PROVE  DashInv'
<1> USE DEF DashInv, Dash!scanner, Dash!avatar, Dash!lists, Dash!OpenScan, Dash!ClickScan,
            Dash!CanOpen, Dash!CameraGranted, Dash!CameraRefused
<1>0. UNCHANGED section
  OBVIOUS
<1>1. DashTypes'
  <2>1. life' \in [Openings -> {"new", "open", "closed"}]
    BY DEF DashTypes, DashCall
  <2>2. camera' \in [Openings -> {"none", "asked", "on", "off"}]
    BY DEF DashTypes, DashCall
  <2>3. \A d \in calls' : DashCall(d)
    BY DEF DashTypes, DashCall, AvatarTypes, LogTypes
  <2>4. /\ target' \in [Openings -> Codes \cup {NoCode, Junk}] /\ bound' \subseteq Openings
        /\ \A u \in timers' : u.of \in Openings
        /\ ask' = [shown |-> ask'.shown, info |-> ask'.info, on |-> ask'.on]
    BY DEF DashTypes, DashCall
  <2>5. late' \in BOOLEAN
    BY Zenon DEF DashTypes
  <2>6. QED BY <2>1, <2>2, <2>3, <2>4, <2>5 DEF DashTypes
<1>2. OneDialog' /\ OneConfirms'
  BY <1>0, SentinelsAssumption DEF DashTypes, DashCall, OneDialog, OneConfirms, Dash!Open,
         Dash!Shown
<1>3. AvatarTypes' /\ Dash!SavesPreview'
  BY <1>0, SentinelsAssumption DEF DashTypes, OneDialog, AvatarTypes, Dash!SavesPreview,
         Dash!Open, Dash!Shown, Dash!Validated
<1>4. LogTypes'
  BY <1>0, SentinelsAssumption DEF DashTypes, DashCall, LogTypes
<1>5. LogAwaits'
  <2>1. /\ UNCHANGED <<log, currentPage, failed>>
        /\ section = "logs" => \A p \in Openings :
              Awaited(p)' = Awaited(p) /\ (life'[p] = life[p] \/ life'[p] = "closed")
    BY DEF Awaited, Dash!Open, DashTypes, DashCall, OneConfirms
  <2>2. QED BY <1>0, <2>1, LogGoesOn
<1>6. QED BY <1>0, <1>1, <1>2, <1>3, <1>4, <1>5

\* A frame is read, and a timeout fires.
LEMMA DashReads ==
    ASSUME DashInv, section \in Dialogs, NEW o \in Openings, NEW text \in Codes \cup {Junk},
           Dash!ReadFrame(o, text)
    PROVE  DashInv'
<1> USE DEF DashInv, Dash!scanner, Dash!avatar, Dash!lists, Dash!ReadFrame, Dash!Fetch
<1>0. UNCHANGED section
  OBVIOUS
<1>1. DashTypes'
  BY <1>0, SentinelsAssumption DEF DashTypes, DashCall, AvatarTypes, OneConfirms, LogTypes
<1>2. OneDialog' /\ OneConfirms'
  BY <1>0, SentinelsAssumption DEF DashTypes, DashCall, OneDialog, OneConfirms, Dash!Open,
         Dash!Shown
<1>3. AvatarTypes' /\ Dash!SavesPreview'
  BY <1>0, SentinelsAssumption DEF DashTypes, OneDialog, AvatarTypes, Dash!SavesPreview,
         Dash!Open, Dash!Shown, Dash!Validated
<1>4. LogTypes'
  BY <1>0, SentinelsAssumption DEF DashTypes, DashCall, LogTypes
<1>5. LogAwaits'
  <2>1. /\ UNCHANGED <<log, currentPage, failed>>
        /\ section = "logs" => \A p \in Openings :
              Awaited(p)' = Awaited(p) /\ (life'[p] = life[p] \/ life'[p] = "closed")
    BY DEF Awaited, Dash!Open, DashTypes, DashCall, OneConfirms
  <2>2. QED BY <1>0, <2>1, LogGoesOn
<1>6. QED BY <1>0, <1>1, <1>2, <1>3, <1>4, <1>5

LEMMA DashFires ==
    ASSUME DashInv, section \in Dialogs, NEW t \in timers, Dash!TimerFires(t)
    PROVE  DashInv'
<1> USE DEF DashInv, Dash!scanner, Dash!avatar, Dash!lists, Dash!TimerFires
<1>0. UNCHANGED section
  OBVIOUS
<1>1. DashTypes'
  <2>1. life' \in [Openings -> {"new", "open", "closed"}]
    BY DEF DashTypes, DashCall
  <2>2. camera' \in [Openings -> {"none", "asked", "on", "off"}]
    BY DEF DashTypes, DashCall
  <2>3. \A d \in calls' : DashCall(d)
    BY DEF DashTypes, DashCall, AvatarTypes, LogTypes
  <2>4. /\ target' \in [Openings -> Codes \cup {NoCode, Junk}] /\ bound' \subseteq Openings
        /\ \A u \in timers' : u.of \in Openings
        /\ ask' = [shown |-> ask'.shown, info |-> ask'.info, on |-> ask'.on]
    BY DEF DashTypes, DashCall
  <2>5. late' \in BOOLEAN
    BY Zenon DEF DashTypes
  <2>6. QED BY <2>1, <2>2, <2>3, <2>4, <2>5 DEF DashTypes
<1>2. OneDialog' /\ OneConfirms'
  BY <1>0, SentinelsAssumption DEF DashTypes, DashCall, OneDialog, OneConfirms, Dash!Open,
         Dash!Shown
<1>3. AvatarTypes' /\ Dash!SavesPreview'
  BY <1>0, SentinelsAssumption DEF DashTypes, OneDialog, AvatarTypes, Dash!SavesPreview,
         Dash!Open, Dash!Shown, Dash!Validated
<1>4. LogTypes'
  BY <1>0, SentinelsAssumption DEF DashTypes, DashCall, LogTypes
<1>5. LogAwaits'
  <2>1. /\ UNCHANGED <<log, currentPage, failed>>
        /\ section = "logs" => \A p \in Openings :
              Awaited(p)' = Awaited(p) /\ (life'[p] = life[p] \/ life'[p] = "closed")
    BY DEF Awaited, Dash!Open, DashTypes, DashCall, OneConfirms
  <2>2. QED BY <1>0, <2>1, LogGoesOn
<1>6. QED BY <1>0, <1>1, <1>2, <1>3, <1>4, <1>5

\* The answer to a scan, and the buttons of the confirm dialog.
LEMMA DashScanned ==
    ASSUME DashInv, section \in Dialogs, NEW c \in calls, Dash!Scanned(c)
    PROVE  DashInv'
<1> USE DEF DashInv, Dash!scanner, Dash!avatar, Dash!lists, Dash!Scanned, Dash!Closes
<1>0. UNCHANGED section
  OBVIOUS
<1>1. DashTypes'
  <2>1. life' \in [Openings -> {"new", "open", "closed"}]
    BY DEF DashTypes, DashCall
  <2>2. camera' \in [Openings -> {"none", "asked", "on", "off"}]
    BY DEF DashTypes, DashCall
  <2>3. \A d \in calls' : DashCall(d)
    BY DEF DashTypes, DashCall, AvatarTypes, LogTypes
  <2>4. /\ target' \in [Openings -> Codes \cup {NoCode, Junk}] /\ bound' \subseteq Openings
        /\ \A u \in timers' : u.of \in Openings
        /\ ask' = [shown |-> ask'.shown, info |-> ask'.info, on |-> ask'.on]
    BY DEF DashTypes, DashCall
  <2>5. late' \in BOOLEAN
    BY Zenon DEF DashTypes
  <2>6. QED BY <2>1, <2>2, <2>3, <2>4, <2>5 DEF DashTypes
<1>2. OneDialog' /\ OneConfirms'
  <2>1. OneDialog'
    BY <1>0 DEF DashTypes, DashCall, OneDialog, Dash!Open
  <2>2. CASE c.at = "ok" /\ Dash!Open(c.of)
    <3>1. ASSUME ~late PROVE bound = {}
      BY <2>2, <3>1 DEF OneConfirms, Dash!Shown, DashTypes, DashCall
    <3>2. /\ bound' = bound \cup {c.of} /\ target' = target
          /\ ask' = [shown |-> TRUE, info |-> target[c.of], on |-> TRUE]
          /\ life' = [life EXCEPT ![c.of] = "closed"] /\ late' = (late \/ ~Dash!Open(c.of))
      BY <2>2
    <3>a. ask'.shown = TRUE /\ ask'.info = target[c.of] /\ (~late' => ~late)
      BY <3>2, Zenon
    <3>3. ~Dash!Shown'
      BY <2>1, <2>2, <3>2 DEF OneDialog, Dash!Shown, Dash!Open, DashTypes, DashCall
    <3>4. QED BY <2>1, <3>1, <3>2, <3>3, <3>a DEF OneConfirms
  <2>3. CASE c.at = "ok" /\ ~Dash!Open(c.of)
    BY <2>1, <2>3 DEF OneConfirms
  <2>4. CASE c.at # "ok"
    BY <2>1, <2>4 DEF OneConfirms, Dash!Shown, Dash!Open
  <2>5. QED BY <2>2, <2>3, <2>4
<1>3. AvatarTypes' /\ Dash!SavesPreview'
  BY <1>0, SentinelsAssumption DEF DashTypes, OneDialog, AvatarTypes, Dash!SavesPreview,
         Dash!Open, Dash!Shown, Dash!Validated
<1>4. LogTypes'
  BY <1>0, SentinelsAssumption DEF DashTypes, DashCall, LogTypes
<1>5. LogAwaits'
  <2>1. /\ UNCHANGED <<log, currentPage, failed>>
        /\ section = "logs" => \A p \in Openings :
              Awaited(p)' = Awaited(p) /\ (life'[p] = life[p] \/ life'[p] = "closed")
    BY DEF Awaited, Dash!Open, DashTypes, DashCall, OneConfirms
  <2>2. QED BY <1>0, <2>1, LogGoesOn
<1>6. QED BY <1>0, <1>1, <1>2, <1>3, <1>4, <1>5

LEMMA DashConfirms ==
    ASSUME DashInv, section \in Dialogs, Dash!Confirm \/ Dash!Cancel
    PROVE  DashInv'
<1> USE DEF DashInv, Dash!scanner, Dash!avatar, Dash!lists, Dash!Confirm, Dash!Cancel, Dash!Fetch,
            Dash!Try
<1>0. UNCHANGED section
  OBVIOUS
<1>1. DashTypes'
  BY <1>0, SentinelsAssumption DEF DashTypes, DashCall, AvatarTypes, OneConfirms, LogTypes
<1>2. OneDialog' /\ OneConfirms'
  BY <1>0, SentinelsAssumption DEF DashTypes, DashCall, OneDialog, OneConfirms, Dash!Open,
         Dash!Shown
<1>3. AvatarTypes' /\ Dash!SavesPreview'
  BY <1>0, SentinelsAssumption DEF DashTypes, OneDialog, AvatarTypes, Dash!SavesPreview,
         Dash!Open, Dash!Shown, Dash!Validated
<1>4. LogTypes'
  BY <1>0, SentinelsAssumption DEF DashTypes, DashCall, LogTypes
<1>5. LogAwaits'
  <2>1. /\ UNCHANGED <<log, currentPage, failed>>
        /\ section = "logs" => \A p \in Openings :
              Awaited(p)' = Awaited(p) /\ (life'[p] = life[p] \/ life'[p] = "closed")
    BY DEF Awaited, Dash!Open, DashTypes, DashCall, OneConfirms
  <2>2. QED BY <1>0, <2>1, LogGoesOn
<1>6. QED BY <1>0, <1>1, <1>2, <1>3, <1>4, <1>5

LEMMA DashConfirmed ==
    ASSUME DashInv, section \in Dialogs, NEW c \in calls, Dash!Confirmed(c) \/ Dash!Cancelled(c)
    PROVE  DashInv'
<1> USE DEF DashInv, Dash!scanner, Dash!avatar, Dash!lists, Dash!Confirmed, Dash!Cancelled
<1>0. UNCHANGED section
  OBVIOUS
<1>1. DashTypes'
  BY <1>0, SentinelsAssumption DEF DashTypes, DashCall, AvatarTypes, OneConfirms, LogTypes
<1>2. OneDialog' /\ OneConfirms'
  BY <1>0, SentinelsAssumption DEF DashTypes, DashCall, OneDialog, OneConfirms, Dash!Open,
         Dash!Shown
<1>3. AvatarTypes' /\ Dash!SavesPreview'
  BY <1>0, SentinelsAssumption DEF DashTypes, OneDialog, AvatarTypes, Dash!SavesPreview,
         Dash!Open, Dash!Shown, Dash!Validated
<1>4. LogTypes'
  BY <1>0, SentinelsAssumption DEF DashTypes, DashCall, LogTypes
<1>5. LogAwaits'
  <2>1. /\ UNCHANGED <<log, currentPage, failed>>
        /\ section = "logs" => \A p \in Openings :
              Awaited(p)' = Awaited(p) /\ (life'[p] = life[p] \/ life'[p] = "closed")
    BY DEF Awaited, Dash!Open, DashTypes, DashCall, OneConfirms
  <2>2. QED BY <1>0, <2>1, LogGoesOn
<1>6. QED BY <1>0, <1>1, <1>2, <1>3, <1>4, <1>5

\* The avatar dialog.
LEMMA DashPictures ==
    ASSUME DashInv, section \in Dialogs, NEW o \in Openings,
           Dash!OpenAvatar(o) \/ Dash!Focus(o) \/ Dash!SaveAvatar(o) \/ Dash!RemoveAvatar(o)
    PROVE  DashInv'
<1> USE DEF DashInv, Dash!scanner, Dash!avatar, Dash!lists, Dash!OpenAvatar, Dash!Focus,
            Dash!SaveAvatar, Dash!RemoveAvatar, Dash!CanOpen, Dash!NoImage, Dash!Fetch, Dash!Try
<1>0. UNCHANGED section
  OBVIOUS
<1>1. DashTypes'
  <2>1. life' \in [Openings -> {"new", "open", "closed"}]
    BY DEF DashTypes, DashCall
  <2>2. camera' \in [Openings -> {"none", "asked", "on", "off"}]
    BY DEF DashTypes, DashCall
  <2>3. \A d \in calls' : DashCall(d)
    BY DEF DashTypes, DashCall, AvatarTypes, LogTypes
  <2>4. /\ target' \in [Openings -> Codes \cup {NoCode, Junk}] /\ bound' \subseteq Openings
        /\ \A u \in timers' : u.of \in Openings
        /\ ask' = [shown |-> ask'.shown, info |-> ask'.info, on |-> ask'.on]
    BY DEF DashTypes, DashCall
  <2>5. late' \in BOOLEAN
    BY Zenon DEF DashTypes
  <2>6. QED BY <2>1, <2>2, <2>3, <2>4, <2>5 DEF DashTypes
<1>2. OneDialog' /\ OneConfirms'
  BY <1>0, SentinelsAssumption DEF DashTypes, DashCall, OneDialog, OneConfirms, Dash!Open,
         Dash!Shown
<1>3. AvatarTypes' /\ Dash!SavesPreview'
  BY <1>0, SentinelsAssumption DEF DashTypes, OneDialog, AvatarTypes, Dash!SavesPreview,
         Dash!Open, Dash!Shown, Dash!Validated
<1>4. LogTypes'
  BY <1>0, SentinelsAssumption DEF DashTypes, DashCall, LogTypes
<1>5. LogAwaits'
  <2>1. /\ UNCHANGED <<log, currentPage, failed>>
        /\ section = "logs" => \A p \in Openings :
              Awaited(p)' = Awaited(p) /\ (life'[p] = life[p] \/ life'[p] = "closed")
    BY DEF Awaited, Dash!Open, DashTypes, DashCall, OneConfirms
  <2>2. QED BY <1>0, <2>1, LogGoesOn
<1>6. QED BY <1>0, <1>1, <1>2, <1>3, <1>4, <1>5

LEMMA DashChooses ==
    ASSUME DashInv, section \in Dialogs, NEW o \in Openings, NEW url \in Dash!Validated,
           Dash!LoadNewAvatar(o, url) \/ Dash!UseProvider(o, url)
    PROVE  DashInv'
<1> USE DEF DashInv, Dash!scanner, Dash!avatar, Dash!lists, Dash!LoadNewAvatar, Dash!UseProvider,
            Dash!NoImage, Dash!Try
<1>0. UNCHANGED section
  OBVIOUS
<1>1. DashTypes'
  BY <1>0, SentinelsAssumption DEF DashTypes, DashCall, AvatarTypes, OneConfirms, LogTypes
<1>2. OneDialog' /\ OneConfirms'
  BY <1>0, SentinelsAssumption DEF DashTypes, DashCall, OneDialog, OneConfirms, Dash!Open,
         Dash!Shown
<1>3. AvatarTypes' /\ Dash!SavesPreview'
  BY <1>0, SentinelsAssumption DEF DashTypes, OneDialog, AvatarTypes, Dash!SavesPreview,
         Dash!Open, Dash!Shown, Dash!Validated
<1>4. LogTypes'
  BY <1>0, SentinelsAssumption DEF DashTypes, DashCall, LogTypes
<1>5. LogAwaits'
  <2>1. /\ UNCHANGED <<log, currentPage, failed>>
        /\ section = "logs" => \A p \in Openings :
              Awaited(p)' = Awaited(p) /\ (life'[p] = life[p] \/ life'[p] = "closed")
    BY DEF Awaited, Dash!Open, DashTypes, DashCall, OneConfirms
  <2>2. QED BY <1>0, <2>1, LogGoesOn
<1>6. QED BY <1>0, <1>1, <1>2, <1>3, <1>4, <1>5

LEMMA DashLoaded ==
    ASSUME DashInv, section \in Dialogs, NEW i \in images, Dash!Loaded(i) \/ Dash!LoadFailed(i)
    PROVE  DashInv'
<1> USE DEF DashInv, Dash!scanner, Dash!avatar, Dash!lists, Dash!Loaded, Dash!LoadFailed
<1>0. UNCHANGED section
  OBVIOUS
<1>1. DashTypes'
  BY <1>0, SentinelsAssumption DEF DashTypes, DashCall, AvatarTypes, OneConfirms, LogTypes
<1>2. OneDialog' /\ OneConfirms'
  BY <1>0, SentinelsAssumption DEF DashTypes, DashCall, OneDialog, OneConfirms, Dash!Open,
         Dash!Shown
<1>3. AvatarTypes' /\ Dash!SavesPreview'
  BY <1>0, SentinelsAssumption DEF DashTypes, OneDialog, AvatarTypes, Dash!SavesPreview,
         Dash!Open, Dash!Shown, Dash!Validated
<1>4. LogTypes'
  BY <1>0, SentinelsAssumption DEF DashTypes, DashCall, LogTypes
<1>5. LogAwaits'
  <2>1. /\ UNCHANGED <<log, currentPage, failed>>
        /\ section = "logs" => \A p \in Openings :
              Awaited(p)' = Awaited(p) /\ (life'[p] = life[p] \/ life'[p] = "closed")
    BY DEF Awaited, Dash!Open, DashTypes, DashCall, OneConfirms
  <2>2. QED BY <1>0, <2>1, LogGoesOn
<1>6. QED BY <1>0, <1>1, <1>2, <1>3, <1>4, <1>5

LEMMA DashSaved ==
    ASSUME DashInv, section \in Dialogs, NEW c \in calls, Dash!AvatarSaved(c)
    PROVE  DashInv'
<1> USE DEF DashInv, Dash!scanner, Dash!avatar, Dash!lists, Dash!AvatarSaved, Dash!Closes
<1>0. UNCHANGED section
  OBVIOUS
<1>1. DashTypes'
  <2>1. life' \in [Openings -> {"new", "open", "closed"}]
    BY DEF DashTypes, DashCall
  <2>2. camera' \in [Openings -> {"none", "asked", "on", "off"}]
    BY DEF DashTypes, DashCall
  <2>3. \A d \in calls' : DashCall(d)
    BY DEF DashTypes, DashCall, AvatarTypes, LogTypes
  <2>4. /\ target' \in [Openings -> Codes \cup {NoCode, Junk}] /\ bound' \subseteq Openings
        /\ \A u \in timers' : u.of \in Openings
        /\ ask' = [shown |-> ask'.shown, info |-> ask'.info, on |-> ask'.on]
    BY DEF DashTypes, DashCall
  <2>5. late' \in BOOLEAN
    BY Zenon DEF DashTypes
  <2>6. QED BY <2>1, <2>2, <2>3, <2>4, <2>5 DEF DashTypes
<1>2. OneDialog' /\ OneConfirms'
  BY <1>0, SentinelsAssumption DEF DashTypes, DashCall, OneDialog, OneConfirms, Dash!Open,
         Dash!Shown
<1>3. AvatarTypes' /\ Dash!SavesPreview'
  BY <1>0, SentinelsAssumption DEF DashTypes, OneDialog, AvatarTypes, Dash!SavesPreview,
         Dash!Open, Dash!Shown, Dash!Validated
<1>4. LogTypes'
  BY <1>0, SentinelsAssumption DEF DashTypes, DashCall, LogTypes
<1>5. LogAwaits'
  <2>1. /\ UNCHANGED <<log, currentPage, failed>>
        /\ section = "logs" => \A p \in Openings :
              Awaited(p)' = Awaited(p) /\ (life'[p] = life[p] \/ life'[p] = "closed")
    BY DEF Awaited, Dash!Open, DashTypes, DashCall, OneConfirms
  <2>2. QED BY <1>0, <2>1, LogGoesOn
<1>6. QED BY <1>0, <1>1, <1>2, <1>3, <1>4, <1>5

\* The lists of the log and of the applications.
LEMMA DashLists ==
    ASSUME DashInv, section \in Dialogs, NEW o \in Openings, Dash!OpenLogs(o) \/ Dash!OpenGrants(o)
    PROVE  DashInv'
<1> USE DEF DashInv, Dash!scanner, Dash!avatar, Dash!lists, Dash!OpenLogs, Dash!OpenGrants,
            Dash!CanOpen, Dash!Fetch
<1>0. UNCHANGED section
  OBVIOUS
<1>1. DashTypes'
  <2>1. life' \in [Openings -> {"new", "open", "closed"}]
    BY DEF DashTypes, DashCall
  <2>2. camera' \in [Openings -> {"none", "asked", "on", "off"}]
    BY DEF DashTypes, DashCall
  <2>3. \A d \in calls' : DashCall(d)
    BY DEF DashTypes, DashCall, AvatarTypes, LogTypes
  <2>4. /\ target' \in [Openings -> Codes \cup {NoCode, Junk}] /\ bound' \subseteq Openings
        /\ \A u \in timers' : u.of \in Openings
        /\ ask' = [shown |-> ask'.shown, info |-> ask'.info, on |-> ask'.on]
    BY DEF DashTypes, DashCall
  <2>5. late' \in BOOLEAN
    BY Zenon DEF DashTypes
  <2>6. QED BY <2>1, <2>2, <2>3, <2>4, <2>5 DEF DashTypes
<1>2. OneDialog' /\ OneConfirms'
  BY <1>0, SentinelsAssumption DEF DashTypes, DashCall, OneDialog, OneConfirms, Dash!Open,
         Dash!Shown
<1>3. AvatarTypes' /\ Dash!SavesPreview'
  BY <1>0, SentinelsAssumption DEF DashTypes, OneDialog, AvatarTypes, Dash!SavesPreview,
         Dash!Open, Dash!Shown, Dash!Validated
<1>4. LogTypes'
  <2>1. <<>> \in Seq(Nat)
    OBVIOUS
  <2>2. log' = log \/ log' = [rows |-> <<>>, more |-> FALSE, on |-> FALSE]
    OBVIOUS
  <2>3. log'.rows = log.rows \/ log'.rows = <<>>
    BY <2>2
  <2>4. log'.rows \in Seq(Nat) /\ UNCHANGED <<currentPage, failed>>
    BY <2>1, <2>3 DEF LogTypes
  <2>5. QED BY <2>4 DEF LogTypes
<1>5. LogAwaits'
  <2>1. SUFFICES ASSUME section = "logs" PROVE LogAwaits'
    BY <1>0 DEF LogAwaits
  <2>2. /\ life[o] = "new" /\ ~Dash!Shown /\ life' = [life EXCEPT ![o] = "open"]
        /\ log' = [rows |-> <<>>, more |-> FALSE, on |-> FALSE]
        /\ calls' = calls \cup {Dash!Fetch("logs", o, 1)} /\ UNCHANGED <<currentPage, failed>>
    BY <2>1
  <2>3. Awaited(o)' = {Dash!Fetch("logs", o, 1)} /\ currentPage[o] = 1
    BY <2>1, <2>2 DEF LogAwaits, Awaited
  <2>4. \A p \in Openings \ {o} : Awaited(p)' = Awaited(p) /\ life'[p] = life[p] /\ life[p] # "open"
    BY <2>2 DEF Awaited, DashTypes, Dash!Shown, Dash!Open
  <2>5. log'.on = FALSE /\ Len(log'.rows) = 0 /\ life'[o] = "open"
    BY <2>2 DEF DashTypes
  <2>6. \A p \in 1 .. currentPage'[o] : p = 1
    BY <2>2, <2>3
  <2>7. \A n \in 1 .. Len(log'.rows) : FALSE
    BY <2>5
  <2>8. \A d \in Awaited(o)' : d = Dash!Fetch("logs", o, 1) /\ d.arg = 1
    BY <2>3
  <2>9. Dash!Fetch("logs", o, 1) \in Awaited(o)' /\ currentPage'[o] = 1
    BY <2>2, <2>3
  <2> HIDE DEF Dash!Fetch
  <2>10. /\ life'[o] # "new"
         /\ log'.on => Awaited(o)' = {}
         /\ \A c, d \in Awaited(o)' : c = d
         /\ \A c \in Awaited(o)' : c.arg = currentPage'[o]
         /\ \A p \in 1 .. currentPage'[o] : \E c \in Awaited(o)' : c.arg = p
    BY <2>5, <2>6, <2>8, <2>9
  <2>11. QED BY <1>0, <2>1, <2>2, <2>4, <2>7, <2>10 DEF LogAwaits, Dash!Open
<1>6. QED BY <1>0, <1>1, <1>2, <1>3, <1>4, <1>5

LEMMA DashMore ==
    ASSUME DashInv, section \in Dialogs, NEW o \in Openings, Dash!LoadMore(o)
    PROVE  DashInv'
<1> USE DEF DashInv, Dash!scanner, Dash!avatar, Dash!lists, Dash!LoadMore, Dash!Fetch, Dash!Try
<1>0. UNCHANGED section
  OBVIOUS
<1>1. DashTypes'
  BY <1>0, SentinelsAssumption DEF DashTypes, DashCall, AvatarTypes, OneConfirms, LogTypes
<1>2. OneDialog' /\ OneConfirms'
  BY <1>0, SentinelsAssumption DEF DashTypes, DashCall, OneDialog, OneConfirms, Dash!Open,
         Dash!Shown
<1>3. AvatarTypes' /\ Dash!SavesPreview'
  BY <1>0, SentinelsAssumption DEF DashTypes, OneDialog, AvatarTypes, Dash!SavesPreview,
         Dash!Open, Dash!Shown, Dash!Validated
<1>4. LogTypes'
  BY <1>0, SentinelsAssumption DEF DashTypes, DashCall, LogTypes
<1>5. LogAwaits'
  <2> DEFINE new == Dash!Fetch("logs", o, currentPage[o] + 1)
  <2>1. /\ section = "logs" /\ Dash!Open(o) /\ log.on /\ UNCHANGED <<life, failed>>
        /\ log'.rows = log.rows /\ log'.on = FALSE
        /\ calls' = calls \cup {new} /\ currentPage' = [currentPage EXCEPT ![o] = @ + 1]
    BY DEF DashTypes
  <2>2. currentPage[o] \in Nat /\ currentPage'[o] = currentPage[o] + 1
    BY <2>1 DEF LogTypes
  <2>3. Awaited(o) = {} /\ Awaited(o)' = {new} /\ new.arg = currentPage[o] + 1
    BY <2>1 DEF LogAwaits, Awaited
  <2>4. \A p \in Openings \ {o} :
           /\ Awaited(p)' = Awaited(p) /\ life[p] # "open" /\ currentPage'[p] = currentPage[p]
    BY <2>1 DEF Awaited, OneDialog, Dash!Open, LogTypes
  <2> HIDE DEF new
  <2>5. \A n \in 1 .. Len(log.rows) :
           /\ log.rows[n] \in Nat /\ log.rows[n] <= currentPage[o]
           /\ \A m \in 1 .. Len(log.rows) : m < n => log.rows[m] < log.rows[n]
    BY <2>1 DEF LogAwaits, LogTypes
  <2>6. \A p \in 1 .. currentPage'[o] : p \in 1 .. currentPage[o] \/ p = currentPage[o] + 1
    BY <2>2
  <2>7. \A p \in 1 .. currentPage'[o] : p <= Pages =>
           \/ \E n \in 1 .. Len(log.rows) : log.rows[n] = p
           \/ p \in failed[o]
           \/ \E d \in Awaited(o)' : d.arg = p
    BY <2>1, <2>3, <2>6 DEF LogAwaits
  <2>8. \A n \in 1 .. Len(log.rows) :
           log.rows[n] <= currentPage'[o] /\ \A d \in Awaited(o)' : log.rows[n] < d.arg
    BY <2>2, <2>3, <2>5
  <2>9. QED BY <1>0, <2>1, <2>2, <2>3, <2>4, <2>5, <2>7, <2>8 DEF LogAwaits, Dash!Open
<1>6. QED BY <1>0, <1>1, <1>2, <1>3, <1>4, <1>5

LEMMA DashListed ==
    ASSUME DashInv, section \in Dialogs, NEW c \in calls, Dash!LogsLoaded(c)
    PROVE  DashInv'
<1> USE DEF DashInv, Dash!scanner, Dash!avatar, Dash!lists, Dash!LogsLoaded
<1>0. UNCHANGED section
  OBVIOUS
<1>1. DashTypes'
  BY <1>0, SentinelsAssumption DEF DashTypes, DashCall, AvatarTypes, OneConfirms, LogTypes
<1>2. OneDialog' /\ OneConfirms'
  BY <1>0, SentinelsAssumption DEF DashTypes, DashCall, OneDialog, OneConfirms, Dash!Open,
         Dash!Shown
<1>3. AvatarTypes' /\ Dash!SavesPreview'
  BY <1>0, SentinelsAssumption DEF DashTypes, OneDialog, AvatarTypes, Dash!SavesPreview,
         Dash!Open, Dash!Shown, Dash!Validated
<1>4. LogTypes'
  BY <1>0, SentinelsAssumption DEF DashTypes, DashCall, LogTypes
<1>5. LogAwaits'
  <2>1. SUFFICES ASSUME section = "logs" PROVE LogAwaits'
    BY <1>0 DEF LogAwaits
  <2>2. /\ DashCall(c) /\ c.of \in Openings /\ c.arg \in Nat /\ c \in Awaited(c.of)
        /\ UNCHANGED <<life, currentPage>> /\ calls' = calls \ {c}
    BY DEF DashTypes, DashCall, Awaited
  <2>3. \A o \in Openings \ {c.of} : Awaited(o)' = Awaited(o) /\ failed'[o] = failed[o]
    BY <2>2 DEF Awaited, LogTypes
  <2>4. \A o \in Openings : Awaited(o)' \subseteq Awaited(o)
    BY <2>2 DEF Awaited
  <2>5. CASE ~Dash!Open(c.of)
    <3>1. log' = log
      BY <2>5
    <3>2. QED BY <1>0, <2>1, <2>2, <2>3, <2>4, <2>5, <3>1 DEF LogAwaits, Dash!Open
  <2>6. CASE Dash!Open(c.of)
    <3>1. Awaited(c.of) = {c} /\ c.arg = currentPage[c.of]
      BY <2>1, <2>2, <2>6 DEF LogAwaits
    <3>2. Awaited(c.of)' = {}
      BY <2>2, <3>1 DEF Awaited
    <3>3. \A o \in Openings \ {c.of} : ~Dash!Open(o)
      BY <2>2, <2>6 DEF OneDialog
    <3>4. /\ failed[c.of] \subseteq failed'[c.of]
          /\ c.at # "ok" => c.arg \in failed'[c.of]
      BY <2>2 DEF LogTypes
    <3>5. log'.rows = IF c.at = "ok" /\ c.arg <= Pages THEN Append(log.rows, c.arg) ELSE log.rows
      BY <2>6
    <3>6. \A n \in 1 .. Len(log.rows) :
             /\ log.rows[n] \in Nat /\ log.rows[n] < c.arg
             /\ \A m \in 1 .. Len(log.rows) : m < n => log.rows[m] < log.rows[n]
      BY <2>1, <2>2, <2>6, <3>1 DEF LogAwaits, LogTypes
    <3>7. \A p \in 1 .. currentPage[c.of] : p <= Pages =>
             \/ \E n \in 1 .. Len(log.rows) : log.rows[n] = p
             \/ p \in failed[c.of]
             \/ p = c.arg
      BY <2>1, <2>2, <2>6, <3>1 DEF LogAwaits
    <3>8. CASE c.at = "ok" /\ c.arg <= Pages
      <4>1. log'.rows = Append(log.rows, c.arg)
        BY <3>5, <3>8
      <4>2. /\ Len(log'.rows) = Len(log.rows) + 1 /\ log'.rows[Len(log.rows) + 1] = c.arg
            /\ \A n \in 1 .. Len(log.rows) : log'.rows[n] = log.rows[n]
        BY <2>2, <4>1 DEF LogTypes
      <4>3. Len(log.rows) \in Nat
        BY DEF LogTypes
      <4>4. \A n \in 1 .. Len(log'.rows) :
               /\ log'.rows[n] <= currentPage[c.of]
               /\ \A m \in 1 .. Len(log'.rows) : m < n => log'.rows[m] < log'.rows[n]
        BY <2>2, <3>1, <3>6, <4>2, <4>3
      <4>5. \A p \in 1 .. currentPage[c.of] : p <= Pages =>
               (\E n \in 1 .. Len(log'.rows) : log'.rows[n] = p) \/ p \in failed'[c.of]
        BY <3>4, <3>7, <4>2, <4>3
      <4>6. QED BY <1>0, <2>1, <2>2, <2>4, <3>2, <3>3, <4>4, <4>5 DEF LogAwaits, Dash!Open
    <3>9. CASE ~(c.at = "ok" /\ c.arg <= Pages)
      <4>1. log'.rows = log.rows
        BY <3>5, <3>9
      <4>2. \A p \in 1 .. currentPage[c.of] : p <= Pages =>
               (\E n \in 1 .. Len(log.rows) : log.rows[n] = p) \/ p \in failed'[c.of]
        BY <3>4, <3>7, <3>9
      <4>3. \A n \in 1 .. Len(log.rows) : log.rows[n] <= currentPage[c.of]
        BY <2>1, <2>2, <2>6 DEF LogAwaits
      <4>4. QED BY <1>0, <2>1, <2>2, <2>4, <3>2, <3>3, <3>6, <4>1, <4>2, <4>3
                DEF LogAwaits, Dash!Open
    <3>10. QED BY <3>8, <3>9
  <2>7. QED BY <2>5, <2>6
<1>6. QED BY <1>0, <1>1, <1>2, <1>3, <1>4, <1>5

LEMMA DashGrants ==
    ASSUME DashInv, section \in Dialogs, \/ \E o \in Openings, a \in Apps : Dash!Revoke(o, a)
           \/ \E c \in calls : Dash!GrantsLoaded(c) \/ Dash!Revoked(c)
    PROVE  DashInv'
<1>1. UNCHANGED <<section, life, Dash!scanner, Dash!avatar, log, currentPage, failed>>
  BY DEF Dash!Revoke, Dash!GrantsLoaded, Dash!Revoked, Dash!scanner, Dash!avatar
<1>2. /\ \A d \in calls' : d \in calls \/ (DashCall(d) /\ d.op # "logs")
      /\ \A d \in calls : d \in calls' \/ d.op # "logs"
  <2>1. CASE \E o \in Openings, a \in Apps : Dash!Revoke(o, a)
    <3>1. PICK o \in Openings, a \in Apps : Dash!Revoke(o, a)
      BY <2>1
    <3>2. DashCall(Dash!Fetch("revoke", o, a)) /\ Dash!Fetch("revoke", o, a).op # "logs"
      BY DEF DashCall, Dash!Fetch
    <3>3. calls' = calls \cup {Dash!Fetch("revoke", o, a)}
      BY <3>1 DEF Dash!Revoke
    <3>4. QED BY <3>2, <3>3
  <2>2. CASE \E c \in calls : Dash!GrantsLoaded(c) \/ Dash!Revoked(c)
    BY <2>2 DEF Dash!GrantsLoaded, Dash!Revoked
  <2>3. QED BY <2>1, <2>2
<1>3. UNCHANGED <<camera, target, timers, bound, ask, late, validatedUrl, preview, images>>
  BY <1>1 DEF Dash!scanner, Dash!avatar
<1>4. DashTypes'
  BY <1>1, <1>2, <1>3 DEF DashInv, DashTypes, DashCall
<1>5. OneDialog' /\ OneConfirms'
  BY <1>1, <1>3 DEF DashInv, OneDialog, OneConfirms, Dash!Open, Dash!Shown
<1>6. AvatarTypes' /\ Dash!SavesPreview'
  BY <1>1, <1>3 DEF DashInv, AvatarTypes, Dash!SavesPreview, Dash!Open
<1>7. LogTypes'
  BY <1>1 DEF DashInv, LogTypes
<1>8. LogAwaits'
  <2>1. \A p \in Openings : Awaited(p)' = Awaited(p)
    BY <1>2 DEF Awaited
  <2>2. QED BY <1>1, <2>1, LogGoesOn DEF DashInv
<1>9. QED BY <1>1, <1>4, <1>5, <1>6, <1>7, <1>8 DEF DashInv

\* The close button, and the server.
LEMMA DashCloses ==
    ASSUME DashInv, section \in Dialogs, NEW o \in Openings, Dash!Close(o)
    PROVE  DashInv'
<1> USE DEF DashInv, Dash!scanner, Dash!avatar, Dash!lists, Dash!Close, Dash!Closes
<1>0. UNCHANGED section
  OBVIOUS
<1>1. DashTypes'
  <2>1. life' \in [Openings -> {"new", "open", "closed"}]
    BY DEF DashTypes, DashCall
  <2>2. camera' \in [Openings -> {"none", "asked", "on", "off"}]
    BY DEF DashTypes, DashCall
  <2>3. \A d \in calls' : DashCall(d)
    BY DEF DashTypes, DashCall, AvatarTypes, LogTypes
  <2>4. /\ target' \in [Openings -> Codes \cup {NoCode, Junk}] /\ bound' \subseteq Openings
        /\ \A u \in timers' : u.of \in Openings
        /\ ask' = [shown |-> ask'.shown, info |-> ask'.info, on |-> ask'.on]
    BY DEF DashTypes, DashCall
  <2>5. late' \in BOOLEAN
    BY Zenon DEF DashTypes
  <2>6. QED BY <2>1, <2>2, <2>3, <2>4, <2>5 DEF DashTypes
<1>2. OneDialog' /\ OneConfirms'
  BY <1>0, SentinelsAssumption DEF DashTypes, DashCall, OneDialog, OneConfirms, Dash!Open,
         Dash!Shown
<1>3. AvatarTypes' /\ Dash!SavesPreview'
  BY <1>0, SentinelsAssumption DEF DashTypes, OneDialog, AvatarTypes, Dash!SavesPreview,
         Dash!Open, Dash!Shown, Dash!Validated
<1>4. LogTypes'
  BY <1>0, SentinelsAssumption DEF DashTypes, DashCall, LogTypes
<1>5. LogAwaits'
  <2>1. /\ UNCHANGED <<log, currentPage, failed>>
        /\ section = "logs" => \A p \in Openings :
              Awaited(p)' = Awaited(p) /\ (life'[p] = life[p] \/ life'[p] = "closed")
    BY DEF Awaited, Dash!Open, DashTypes, DashCall, OneConfirms
  <2>2. QED BY <1>0, <2>1, LogGoesOn
<1>6. QED BY <1>0, <1>1, <1>2, <1>3, <1>4, <1>5

LEMMA DashServes ==
    ASSUME DashInv, section \in Dialogs, NEW c \in calls, Dash!Serve(c) \/ Dash!Lose(c)
    PROVE  DashInv'
<1> USE DEF DashInv, Dash!scanner, Dash!avatar, Dash!lists
<1>0. UNCHANGED section
  BY DEF Dash!Serve, Dash!Lose
<1>a. PICK d : /\ calls' = (calls \ {c}) \cup {d}
               /\ d = [op |-> c.op, of |-> c.of, arg |-> d.arg, at |-> d.at]
               /\ d.arg = c.arg \/ c.op = "grants"
               /\ UNCHANGED <<life, camera, target, timers, isScanning, ask, bound, late,
                              Dash!avatar, log, currentPage, failed>>
  <2>1. /\ UNCHANGED <<life, camera, target, timers, isScanning, ask, bound, late, Dash!avatar,
                       log, currentPage, failed>>
        /\ \/ \E at : calls' = (calls \ {c}) \cup {[c EXCEPT !.at = at]}
           \/ \E at : /\ c.op = "grants"
                     /\ calls' = (calls \ {c}) \cup {[c EXCEPT !.at = at, !.arg = granted]}
    <3> USE DEF Dash!Answer, Dash!Reply, Dash!StatusMoves
    <3>1. CASE Dash!Lose(c)
      BY <3>1, Zenon DEF Dash!Lose
    <3>2. CASE Dash!Serve(c)
      <4>1. UNCHANGED <<life, camera, target, timers, isScanning, ask, bound, late, Dash!avatar,
                        log, currentPage, failed>>
        BY <3>2 DEF Dash!Serve
      <4>2. Dash!Scan(c) \/ Dash!MobileConfirm(c) => \E at : Dash!Answer(c, at)
        BY Zenon DEF Dash!Scan, Dash!MobileConfirm
      <4>3. Dash!MobileCancel(c) \/ Dash!UpdateAvatar(c) \/ Dash!GetLogs(c)
              => \E at : Dash!Answer(c, at)
        BY Zenon DEF Dash!MobileCancel, Dash!UpdateAvatar, Dash!GetLogs
      <4>4. Dash!RevokeOAuthGrant(c) => \E at : Dash!Answer(c, at)
        BY Zenon DEF Dash!RevokeOAuthGrant
      <4>5. Dash!GetOAuthGrants(c) =>
              \E at : /\ c.op = "grants"
                      /\ calls' = (calls \ {c}) \cup {[c EXCEPT !.at = at, !.arg = granted]}
        BY Zenon DEF Dash!GetOAuthGrants
      <4>6. QED BY <3>2, <4>1, <4>2, <4>3, <4>4, <4>5, Zenon DEF Dash!Serve
    <3>3. QED BY <3>1, <3>2
  <2>2. c = [op |-> c.op, of |-> c.of, arg |-> c.arg, at |-> c.at]
    BY DEF DashTypes, DashCall
  <2>3. CASE \E at : calls' = (calls \ {c}) \cup {[c EXCEPT !.at = at]}
    <3>1. PICK at : calls' = (calls \ {c}) \cup {[c EXCEPT !.at = at]}
      BY <2>3
    <3>2. [c EXCEPT !.at = at] = [op |-> c.op, of |-> c.of, arg |-> c.arg, at |-> at]
      BY <2>2
    <3>3. QED BY <2>1, <3>1, <3>2
  <2>4. CASE \E at : /\ c.op = "grants"
                    /\ calls' = (calls \ {c}) \cup {[c EXCEPT !.at = at, !.arg = granted]}
    <3>1. PICK at : calls' = (calls \ {c}) \cup {[c EXCEPT !.at = at, !.arg = granted]}
      BY <2>4
    <3>2. [c EXCEPT !.at = at, !.arg = granted]
             = [op |-> c.op, of |-> c.of, arg |-> granted, at |-> at]
      BY <2>2, ServedGrants, Zenon
    <3>3. QED BY <2>1, <2>4, <3>1, <3>2
  <2>5. QED BY <2>1, <2>3, <2>4
<1>1. DashTypes'
  <2>1. DashCall(d)
    BY <1>a DEF DashTypes, DashCall
  <2>2. QED BY <1>a, <2>1 DEF DashTypes
<1>2. OneDialog' /\ OneConfirms'
  BY <1>0, <1>a, SentinelsAssumption DEF DashTypes, DashCall, OneDialog, OneConfirms, Dash!Open,
         Dash!Shown
<1>3. AvatarTypes' /\ Dash!SavesPreview'
  BY <1>0, <1>a, SentinelsAssumption DEF DashTypes, OneDialog, AvatarTypes, Dash!SavesPreview,
         Dash!Open, Dash!Shown, Dash!Validated
<1>4. LogTypes'
  BY <1>0, <1>a, SentinelsAssumption DEF DashTypes, DashCall, LogTypes
<1>5. LogAwaits'
  <2>1. ASSUME NEW o \in Openings
        PROVE  Awaited(o)' = Awaited(o) \/
               (c \in Awaited(o) /\ d.op = "logs" /\ d.of = o /\ d.arg = c.arg
                /\ Awaited(o)' = (Awaited(o) \ {c}) \cup {d})
    BY <1>a DEF Awaited
  <2>2. UNCHANGED <<life, log, currentPage, failed>>
    BY <1>a
  <2>3. QED BY <1>0, <2>1, <2>2 DEF LogAwaits, Dash!Open
<1>6. QED BY <1>0, <1>1, <1>2, <1>3, <1>4, <1>5

LEMMA DashLapses ==
    ASSUME DashInv, section \in Dialogs, NEW code \in Codes, Dash!Lapse(code)
    PROVE  DashInv'
<1> USE DEF DashInv, Dash!scanner, Dash!avatar, Dash!lists, Dash!Lapse
<1>0. UNCHANGED section
  OBVIOUS
<1>1. DashTypes'
  BY <1>0, SentinelsAssumption DEF DashTypes, DashCall, AvatarTypes, OneConfirms, LogTypes
<1>2. OneDialog' /\ OneConfirms'
  BY <1>0, SentinelsAssumption DEF DashTypes, DashCall, OneDialog, OneConfirms, Dash!Open,
         Dash!Shown
<1>3. AvatarTypes' /\ Dash!SavesPreview'
  BY <1>0, SentinelsAssumption DEF DashTypes, OneDialog, AvatarTypes, Dash!SavesPreview,
         Dash!Open, Dash!Shown, Dash!Validated
<1>4. LogTypes'
  BY <1>0, SentinelsAssumption DEF DashTypes, DashCall, LogTypes
<1>5. LogAwaits'
  <2>1. /\ UNCHANGED <<log, currentPage, failed>>
        /\ section = "logs" => \A p \in Openings :
              Awaited(p)' = Awaited(p) /\ (life'[p] = life[p] \/ life'[p] = "closed")
    BY DEF Awaited, Dash!Open, DashTypes, DashCall, OneConfirms
  <2>2. QED BY <1>0, <2>1, LogGoesOn
<1>6. QED BY <1>0, <1>1, <1>2, <1>3, <1>4, <1>5

\* The dialogs' invariant is kept by their own steps.
LEMMA DashStep == DashInv /\ section \in Dialogs /\ Dash!Next => DashInv'
<1> SUFFICES ASSUME DashInv, section \in Dialogs, Dash!Next PROVE DashInv'
  OBVIOUS
<1>1. CASE Dash!ScanStep
  BY <1>1, DashScans, DashReads, DashFires, DashScanned, DashConfirms, DashConfirmed
     DEF Dash!ScanStep
<1>2. CASE Dash!AvatarStep
  BY <1>2, DashPictures, DashChooses, DashLoaded, DashSaved DEF Dash!AvatarStep, Dash!Validated
<1>3. CASE Dash!ListStep
  BY <1>3, DashLists, DashMore, DashListed, DashGrants DEF Dash!ListStep, Dash!OpenList
<1>4. CASE \/ \E o \in Openings : Dash!Close(o)
           \/ \E c \in calls : Dash!Serve(c) \/ Dash!Lose(c)
           \/ \E code \in Codes : Dash!Lapse(code)
  BY <1>4, DashCloses, DashServes, DashLapses
<1>5. QED BY <1>1, <1>2, <1>3, <1>4 DEF Dash!Next

LEMMA DashInit == Init => DashInv
<1> SUFFICES ASSUME Init PROVE DashInv
  OBVIOUS
<1>1. /\ life = [o \in Openings |-> "new"] /\ calls = {} /\ Dash!Rest
  BY DEF Init
<1> USE DEF Dash!Rest
<1>2. DashTypes /\ OneDialog /\ OneConfirms
  BY <1>1 DEF DashTypes, DashCall, OneDialog, OneConfirms, Dash!Open, Dash!Shown
<1>3. AvatarTypes /\ Dash!SavesPreview
  BY <1>1 DEF AvatarTypes, Dash!SavesPreview, Dash!Validated, Dash!Open
<1>4. LogTypes /\ LogAwaits
  BY <1>1 DEF LogTypes, LogAwaits, Awaited, Dash!Open
<1>5. QED BY <1>1, <1>2, <1>3, <1>4 DEF DashInv

\* The dialogs of the dashboard keep their invariant.
LEMMA DashInvariance == Spec => []DashInv
<1>1. DashInv /\ UNCHANGED <<section, dialogs, dashPart>> => DashInv'
  <2> SUFFICES ASSUME DashInv, UNCHANGED <<section, dialogs, dashPart>> PROVE DashInv'
    OBVIOUS
  <2> USE DEF dialogs, dashPart
  <2>1. CASE section \in Dialogs
    <3>1. DashTypes' /\ OneDialog' /\ OneConfirms'
      BY <2>1 DEF DashInv, DashTypes, DashCall, OneDialog, OneConfirms, Dash!Open, Dash!Shown
    <3>2. AvatarTypes' /\ Dash!SavesPreview'
      BY <2>1 DEF DashInv, AvatarTypes, Dash!SavesPreview, Dash!Validated, Dash!Open
    <3>3. LogTypes' /\ \A o \in Openings : Awaited(o)' = Awaited(o)
      BY <2>1 DEF DashInv, LogTypes, Awaited
    <3>4. LogAwaits'
      BY <2>1, <3>3, LogGoesOn DEF DashInv
    <3>5. QED BY <2>1, <3>1, <3>2, <3>3, <3>4 DEF DashInv
  <2>2. CASE section \notin Dialogs
    BY <2>2 DEF DashInv, Dash!Rest
  <2>3. QED BY <2>1, <2>2
<1>2. DashInv /\ section \in Forms /\ UNCHANGED <<section, dashPart>> => DashInv'
  BY DEF dashPart, DashInv, Dash!Rest, Dialogs, Forms, Form!FormPages, Form!Dialogs
<1>3. DashInv /\ [Next]_pages => DashInv'
  BY <1>1, <1>2, DashStep, SectionStays DEF Next, pages
<1>4. QED BY <1>3, DashInit, PTL DEF Spec, pages

\* A camera that runs belongs to the scanner the user sees: closing the dialog
\* ends it, while getUserMedia is pending too (showQrScanModal).
THEOREM CamerasEnd == Spec => []CameraReleased
<1>1. DashInv => CameraReleased
  BY DEF DashInv, DashTypes, OneDialog, CameraReleased, Dash!CameraReleased, Dash!Rest
<1>2. QED BY <1>1, DashInvariance, PTL

\* What the avatar dialog would save is the picture it shows, when that picture
\* was chosen in this opening (loadNewAvatar, handleSave).
THEOREM AvatarsAgree == Spec => []SavesPreview
<1>1. DashInv => SavesPreview
  BY DEF DashInv, SavesPreview, Dash!SavesPreview, Dialogs
<1>2. QED BY <1>1, DashInvariance, PTL

\* The log lists the pages asked for in this opening, each once and in order,
\* and those missing failed or are on their way (loadLogs, handleLoadMore).
THEOREM LogsInOrder == Spec => []LogInOrder
<1>1. ASSUME DashInv, NEW o \in Openings, section = "logs", Dash!Open(o)
      PROVE  /\ \A m, n \in 1 .. Len(log.rows) : m < n => log.rows[m] < log.rows[n]
             /\ \A p \in 1 .. currentPage[o] : p <= Pages =>
                   \/ \E n \in 1 .. Len(log.rows) : log.rows[n] = p
                   \/ p \in failed[o]
                   \/ \E c \in Awaited(o) : c.arg = p
  BY <1>1 DEF DashInv, LogAwaits, Dialogs
<1>2. DashInv => LogInOrder
  BY <1>1 DEF LogInOrder, Dash!LogInOrder, Dash!ToSet, Awaited
<1>3. QED BY <1>2, DashInvariance, PTL

(***************************************************************************)
(* AdminPage: what a button does, and where a deleted item may still be    *)
(***************************************************************************)

Flags == {"banned", "admin", "on"}

AdminCall(c) ==
    /\ c = [op |-> c.op, item |-> c.item, at |-> c.at, copy |-> c.copy, row |-> c.row]
    /\ c.copy \in [Items -> (SUBSET Flags) \cup {Admin!Gone}]
    /\ c.at \in {"idle", "sent", "answered", "failed"}
    /\ c.at = "idle" => c.op = "none"
    /\ c.at = "answered" /\ c.op \in {"row", "saved", "cached", "fresh"} =>
          c.item \in Items /\ c.copy[c.item] # Admin!Gone
    /\ c.op = "delete" => c.copy = Admin!NoCopy

RowTypes ==
    /\ server \in [Items -> (SUBSET Flags) \cup {Admin!Unborn, Admin!Gone}]
    /\ cache \in [Items -> (SUBSET Flags) \cup {Admin!Gone}]

CallTypes ==
    /\ call = [k \in Calls |-> call[k]]
    /\ \A k \in Calls : AdminCall(call[k])

\* No more than one handler is attached to the confirm dialog's button, and
\* while the dialog is open that of the action it names.
OneArmed ==
    /\ confirm = [open |-> confirm.open, names |-> confirm.names]
    /\ armed = <<>> \/ armed = <<current>>
    /\ confirm.open => armed = <<confirm.names>>

\* The page still has to hear that i was deleted.
Unheard(i) == \E k \in Calls : call[k].op = "delete" /\ call[k].item = i /\ call[k].at = "answered"

\* The rows of i that the table still has are on their way out.
RowsGo(i) == Admin!Rows(i) \subseteq fading

\* Unless the deletion of an item crossed another answer about it, or the item
\* had two rows, no answer under way has the item any more, and neither has the
\* page once it has heard.
GoneAway ==
    \A i \in Items : server[i] = Admin!Gone /\ i \notin crossed =>
        /\ \A k \in Calls : call[k].copy[i] = Admin!Gone
        /\ Unheard(i) \/ (RowsGo(i) /\ cache[i] = Admin!Gone)

AdminInv == RowTypes /\ CallTypes /\ OneArmed /\ GoneAway

LEMMA NoCopyTyped == Admin!NoCopy \in [Items -> (SUBSET Flags) \cup {Admin!Gone}]
BY DEF Admin!NoCopy

LEMMA IdleCall == AdminCall(Admin!NoCall) /\ Admin!NoCall.copy = Admin!NoCopy
BY NoCopyTyped DEF AdminCall, Admin!NoCall

LEMMA SentCall ==
    ASSUME NEW op, NEW item
    PROVE  AdminCall(Admin!Sent(op, item)) /\ Admin!Sent(op, item).copy = Admin!NoCopy
<1> DEFINE c == Admin!Sent(op, item)
<1>1. /\ c.op = op /\ c.item = item /\ c.at = "sent" /\ c.copy = Admin!NoCopy
      /\ c = [op |-> c.op, item |-> c.item, at |-> c.at, copy |-> c.copy, row |-> c.row]
  BY DEF Admin!Sent
<1> HIDE DEF c
<1>2. AdminCall(c) /\ c.copy = Admin!NoCopy
  BY <1>1, NoCopyTyped DEF AdminCall
<1>3. QED BY <1>2 DEF c

\* A call that holds the row its button stands in.
RowCall(op, item, r) == [Admin!Sent(op, item) EXCEPT !.row = r]

LEMMA RowCallSent ==
    ASSUME NEW op, NEW item, NEW r
    PROVE  AdminCall(RowCall(op, item, r)) /\ RowCall(op, item, r).copy = Admin!NoCopy
<1> DEFINE d == RowCall(op, item, r)
<1>1. /\ d.op = op /\ d.item = item /\ d.at = "sent" /\ d.copy = Admin!NoCopy
      /\ d = [op |-> d.op, item |-> d.item, at |-> d.at, copy |-> d.copy, row |-> d.row]
  BY DEF RowCall, Admin!Sent
<1> HIDE DEF d
<1>2. AdminCall(d) /\ d.copy = Admin!NoCopy
  BY <1>1, NoCopyTyped DEF AdminCall
<1>3. QED BY <1>2 DEF d

\* The same calls, some of whose rows are out of the document.
Alike(d) ==
    /\ d = [k \in Calls |-> d[k]]
    /\ \A k \in Calls :
          /\ AdminCall(d[k])
          /\ d[k].op = call[k].op /\ d[k].item = call[k].item
          /\ d[k].at = call[k].at /\ d[k].copy = call[k].copy

LEMMA DetachedAlike ==
    ASSUME CallTypes
    PROVE  Alike(call) /\ \A rs : Alike(Admin!Detached(rs))
<1>1. Alike(call)
  BY DEF Alike, CallTypes
<1>2. ASSUME NEW rs PROVE Alike(Admin!Detached(rs))
  <2> DEFINE d == Admin!Detached(rs)
  <2>1. d = [k \in Calls |-> d[k]]
    BY DEF Admin!Detached
  <2>2. ASSUME NEW k \in Calls
        PROVE  d[k] = call[k] \/ d[k] = [call[k] EXCEPT !.row = Admin!NoRow]
    BY DEF Admin!Detached
  <2> HIDE DEF d
  <2>3. ASSUME NEW k \in Calls
        PROVE  /\ AdminCall(d[k])
               /\ d[k].op = call[k].op /\ d[k].item = call[k].item
               /\ d[k].at = call[k].at /\ d[k].copy = call[k].copy
    <3>1. AdminCall(call[k])
      BY DEF CallTypes
    <3>2. CASE d[k] = call[k]
      BY <3>1, <3>2
    <3>3. CASE d[k] = [call[k] EXCEPT !.row = Admin!NoRow]
      BY <3>1, <3>3 DEF AdminCall
    <3>4. QED BY <2>2, <3>2, <3>3
  <2>4. QED BY <2>1, <2>3 DEF Alike, d
<1>3. QED BY <1>1, <1>2

\* A call that was not the answer to a deletion is replaced by one that has no
\* copy, or ends; what the page has of deleted items does not grow.
LEMMA CallReplaced ==
    ASSUME CallTypes, GoneAway, NEW k \in Calls, NEW c, AdminCall(c), c.copy = Admin!NoCopy,
           ~(call[k].op = "delete" /\ call[k].at = "answered"),
           NEW d, Alike(d), call' = [d EXCEPT ![k] = c], UNCHANGED <<server, crossed>>,
           \A i \in Items : server[i] = Admin!Gone /\ i \notin crossed =>
              /\ RowsGo(i) => RowsGo(i)'
              /\ cache[i] = Admin!Gone => cache'[i] = Admin!Gone
    PROVE  CallTypes' /\ GoneAway'
<1>1. /\ call' = [l \in Calls |-> call'[l]] /\ call'[k] = c
      /\ \A l \in Calls \ {k} : call'[l] = d[l]
  BY DEF Alike
<1>2. CallTypes'
  BY <1>1 DEF CallTypes, Alike
<1>3. \A i \in Items : Unheard(i) => Unheard(i)'
  BY <1>1 DEF Unheard, Alike
<1>4. \A i \in Items : c.copy[i] = Admin!Gone
  BY DEF Admin!NoCopy
<1>5. \A i \in Items : (\A l \in Calls : call[l].copy[i] = Admin!Gone)
                          => (\A l \in Calls : call'[l].copy[i] = Admin!Gone)
  BY <1>1, <1>4 DEF Alike
<1>6. GoneAway'
  BY <1>3, <1>5 DEF GoneAway
<1>7. QED BY <1>2, <1>6

\* The same when no call is replaced.
LEMMA CallsAlike ==
    ASSUME CallTypes, GoneAway, Alike(call'), UNCHANGED <<server, crossed>>,
           \A i \in Items : server[i] = Admin!Gone /\ i \notin crossed =>
              /\ RowsGo(i) => RowsGo(i)'
              /\ cache[i] = Admin!Gone => cache'[i] = Admin!Gone
    PROVE  CallTypes' /\ GoneAway'
<1>1. CallTypes'
  BY DEF CallTypes, Alike
<1>2. \A i \in Items : Unheard(i) => Unheard(i)'
  BY DEF Unheard, Alike
<1>3. GoneAway'
  BY <1>2 DEF GoneAway, Alike
<1>4. QED BY <1>1, <1>3

\* The server answers a call.
LEMMA CallAnswered ==
    ASSUME CallTypes, NEW k \in Calls, NEW at, NEW copy, Admin!Answer(k, at, copy)
    PROVE  /\ call' = [l \in Calls |-> call'[l]]
           /\ \A l \in Calls \ {k} : call'[l] = call[l]
           /\ call'[k] = [op |-> call[k].op, item |-> call[k].item, at |-> at, copy |-> copy,
                          row |-> call[k].row]
<1> DEFINE c == call[k]
<1> DEFINE f == [call EXCEPT ![k] = [c EXCEPT !.at = at]]
<1>1. call' = [[call EXCEPT ![k].at = at] EXCEPT ![k].copy = copy]
  BY Zenon DEF Admin!Answer
<1>2. [call EXCEPT ![k].at = at] = f
  BY DEF CallTypes
<1>3. call' = [f EXCEPT ![k].copy = copy]
  BY <1>1, <1>2, Zenon
<1>4. c = [op |-> c.op, item |-> c.item, at |-> c.at, copy |-> c.copy, row |-> c.row]
  BY DEF CallTypes, AdminCall
<1>5. [c EXCEPT !.at = at] = [op |-> c.op, item |-> c.item, at |-> at, copy |-> c.copy, row |-> c.row]
  BY <1>4
<1>6. /\ f = [l \in Calls |-> f[l]] /\ \A l \in Calls \ {k} : f[l] = call[l]
      /\ f[k] = [op |-> c.op, item |-> c.item, at |-> at, copy |-> c.copy, row |-> c.row]
  BY <1>5 DEF CallTypes
<1> HIDE DEF f, c
<1>7. /\ call' = [l \in Calls |-> call'[l]] /\ \A l \in Calls \ {k} : call'[l] = f[l]
      /\ call'[k] = [f[k] EXCEPT !.copy = copy]
  BY <1>3, <1>6
<1>8. QED BY <1>6, <1>7 DEF c

\* One handler is taken off and none is left.
LEMMA TakenOff ==
    ASSUME NEW a
    PROVE  Admin!RemoveFirst(<<>>, a) = <<>> /\ Admin!RemoveFirst(<<a>>, a) = <<>>
          /\ Append(<<>>, a) = <<a>>
<1>1. Admin!RemoveFirst(<<>>, a) = <<>>
  BY DEF Admin!RemoveFirst
<1>2. {i \in 1 .. Len(<<a>>) : <<a>>[i] = a} = {1}
  OBVIOUS
<1>3. Admin!SelectInSeq(<<a>>, LAMBDA v : v = a) = 1
  <2>1. Admin!Min({1}) = 1
    BY DEF Admin!Min
  <2>2. QED BY <1>2, <2>1 DEF Admin!SelectInSeq
<1>4. SubSeq(<<a>>, 1, 0) = <<>> /\ SubSeq(<<a>>, 2, 1) = <<>>
  OBVIOUS
<1>5. Admin!RemoveFirst(<<a>>, a) = Admin!RemoveAt(<<a>>, 1)
  BY <1>3 DEF Admin!RemoveFirst
<1>6. Append(<<>>, a) = <<a>>
  OBVIOUS
<1>7. QED BY <1>1, <1>4, <1>5, <1>6 DEF Admin!RemoveAt

LEMMA SetsFlags ==
    ASSUME NEW op \in Admin!Writes, op \notin {"create", "delete"}
    PROVE Admin!Sets[op] \subseteq Flags
<1>1. op \in {"ban", "unban", "promote", "demote", "enable", "disable",
              "regenerate", "save", "saveOn", "saveOff"}
  BY DEF Admin!Writes, Admin!UserWrites, Admin!ClientWrites, Admin!EntryWrites
<1>2. QED BY <1>1 DEF Admin!Sets, Flags

\* The lists.
LEMMA AdminLoads ==
    ASSUME AdminInv, NEW k \in Calls,
           Admin!initUsersPage(k) \/ Admin!initOAuthPage(k) \/ Admin!initWhitelistPage(k)
           \/ Admin!LoadLogs(k)
    PROVE  AdminInv'
<1> USE DEF AdminInv, Admin!world, Admin!quiet, Admin!table, Admin!dialogs, Admin!initUsersPage,
            Admin!initOAuthPage, Admin!initWhitelistPage, Admin!LoadLogs, Admin!Load,
            Admin!CanSend, Admin!Free, Admin!Detached
<1>1. RowTypes'
  BY DEF RowTypes, CallTypes, AdminCall, Flags
<1>2. OneArmed'
  BY DEF OneArmed
<1>3. CallTypes' /\ GoneAway'
  <2>1. /\ call[k].op # "delete"
        /\ call' = [Admin!Detached(rows) EXCEPT ![k] = Admin!Sent("list", NoItem)]
        /\ UNCHANGED <<server, crossed, cache>> /\ \A i \in Items : RowsGo(i)'
    BY DEF Admin!NoCall, RowsGo, Admin!Rows
  <2> HIDE DEF Admin!initUsersPage, Admin!initOAuthPage, Admin!initWhitelistPage, Admin!LoadLogs,
               Admin!Detached
  <2>2. QED BY <2>1, SentCall, DetachedAlike, CallReplaced
<1>4. QED BY <1>1, <1>2, <1>3

LEMMA AdminListed ==
    ASSUME AdminInv, NEW k \in Calls,
           Admin!ListUsers(k) \/ Admin!ListClients(k) \/ Admin!ListEntries(k) \/ Admin!ListLogs(k)
    PROVE  AdminInv'
<1> USE DEF AdminInv, Admin!world, Admin!quiet, Admin!table, Admin!dialogs, Admin!ListUsers,
            Admin!ListClients, Admin!ListEntries, Admin!ListLogs, Admin!Listed, Admin!Cached,
            Admin!Detached
<1>1. RowTypes'
  BY DEF RowTypes, CallTypes, AdminCall, Flags
<1>2. OneArmed'
  BY DEF OneArmed
<1>3. CallTypes' /\ GoneAway'
  <2>1. /\ call[k].op = "list" /\ call' = [Admin!Detached(rows) EXCEPT ![k] = Admin!NoCall]
        /\ UNCHANGED <<server, crossed>> /\ fading' = {}
        /\ rows' = {<<i, "listed">> : i \in {j \in Items : call[k].copy[j] # Admin!Gone}}
        /\ \A i \in Items : cache'[i] \in {call[k].copy[i], cache[i]}
    BY DEF RowTypes
  <2>2. \A i \in Items : server[i] = Admin!Gone /\ i \notin crossed => call[k].copy[i] = Admin!Gone
    BY DEF GoneAway
  <2>3. \A i \in Items : call[k].copy[i] = Admin!Gone => RowsGo(i)'
    BY <2>1 DEF RowsGo, Admin!Rows, Admin!Both
  <2> HIDE DEF Admin!ListUsers, Admin!ListClients, Admin!ListEntries, Admin!ListLogs, Admin!Detached
  <2>4. QED BY <2>1, <2>2, <2>3, IdleCall, DetachedAlike, CallReplaced
<1>4. QED BY <1>1, <1>2, <1>3

\* The rows.
LEMMA AdminRows ==
    ASSUME AdminInv, NEW k \in Calls,
           Admin!UpdateUserRow(k) \/ Admin!UpdateClientRow(k) \/ Admin!UpdateWhitelistRow(k)
    PROVE  AdminInv'
<1> USE DEF AdminInv, Admin!world, Admin!quiet, Admin!table, Admin!dialogs, Admin!UpdateUserRow,
            Admin!UpdateClientRow, Admin!UpdateWhitelistRow, Admin!RowFetched, Admin!Detached
<1>1. RowTypes'
  BY DEF RowTypes, CallTypes, AdminCall, Flags
<1>2. OneArmed'
  BY DEF OneArmed
<1>3. CallTypes' /\ GoneAway'
  <2> DEFINE i == call[k].item
  <2>1. /\ UNCHANGED <<server, crossed, rows>> /\ ~(call[k].op = "delete" /\ call[k].at = "answered")
        /\ call[k].op \in {"row", "saved"} /\ call[k].at # "sent"
    OBVIOUS
  <2>2. CASE call[k].at = "failed"
    <3>1. call' = [call EXCEPT ![k] = Admin!NoCall] /\ UNCHANGED <<cache, fading>>
      BY <2>2
    <3>2. \A j \in Items : RowsGo(j) => RowsGo(j)'
      BY <2>1, <3>1 DEF RowsGo, Admin!Rows
    <3>3. QED BY <2>1, <3>1, <3>2, IdleCall, DetachedAlike, CallReplaced
  <2>3. CASE call[k].at # "failed"
    <3>1. AdminCall(call[k]) /\ call[k].at = "answered"
      BY <2>1, <2>3 DEF CallTypes, AdminCall
    <3>2. i \in Items /\ call[k].copy[i] # Admin!Gone
      BY <2>1, <3>1 DEF AdminCall
    <3>3. ~(server[i] = Admin!Gone /\ i \notin crossed)
      BY <3>2 DEF GoneAway
    <3>4. /\ cache' = [cache EXCEPT ![i] = call[k].copy[i]] /\ fading' = fading \ {Admin!Held(k)}
          /\ call' = [Admin!Detached({Admin!Held(k)}) EXCEPT ![k] = Admin!NoCall]
      BY <2>3
    <3>a. \A j \in Items \ {i} : RowsGo(j) => RowsGo(j)'
      BY <2>1, <3>4 DEF RowsGo, Admin!Rows, Admin!Both, Admin!Held
    <3>5. \A j \in Items : server[j] = Admin!Gone /\ j \notin crossed =>
             /\ RowsGo(j) => RowsGo(j)'
             /\ cache[j] = Admin!Gone => cache'[j] = Admin!Gone
      BY <2>1, <3>3, <3>4, <3>a DEF RowTypes
    <3> HIDE DEF Admin!UpdateUserRow, Admin!UpdateClientRow, Admin!UpdateWhitelistRow,
                 Admin!Detached, i
    <3>6. QED BY <2>1, <3>4, <3>5, IdleCall, DetachedAlike, CallReplaced
  <2>4. QED BY <2>2, <2>3
<1>4. QED BY <1>1, <1>2, <1>3

LEMMA AdminFaded == ASSUME AdminInv, NEW r \in fading, Admin!Faded(r) PROVE AdminInv'
<1> USE DEF AdminInv, Admin!world, Admin!quiet, Admin!table, Admin!dialogs, Admin!Faded,
            Admin!Detached
<1>1. RowTypes'
  BY DEF RowTypes, CallTypes, AdminCall, Flags
<1>2. OneArmed'
  BY DEF OneArmed
<1>3. CallTypes' /\ GoneAway'
  <2>1. /\ call' = Admin!Detached({r}) /\ UNCHANGED <<server, crossed, cache>>
        /\ rows' = rows \ {r} /\ fading' = fading \ {r}
    OBVIOUS
  <2>2. \A i \in Items : RowsGo(i) => RowsGo(i)'
    BY <2>1 DEF RowsGo, Admin!Rows
  <2> HIDE DEF Admin!Faded, Admin!Detached
  <2>3. QED BY <2>1, <2>2, DetachedAlike, CallsAlike
<1>4. QED BY <1>1, <1>2, <1>3

\* The dialog of an item.
LEMMA AdminDetails ==
    ASSUME AdminInv, NEW k \in Calls, NEW i \in Items,
           Admin!ShowUserDetail(k, i) \/ Admin!ShowClientDetail(k, i) \/ Admin!ShowWhitelistDetail(k, i)
    PROVE  AdminInv'
<1> USE DEF AdminInv, Admin!world, Admin!quiet, Admin!table, Admin!dialogs, Admin!ShowUserDetail,
            Admin!ShowClientDetail, Admin!ShowWhitelistDetail, Admin!ShowDetail, Admin!CanSend,
            Admin!Free
<1>a. PICK c : AdminCall(c) /\ c.copy = Admin!NoCopy /\ call' = [call EXCEPT ![k] = c]
  BY SentCall
<1>b. /\ ~(call[k].op = "delete" /\ call[k].at = "answered") /\ Alike(call)
      /\ UNCHANGED <<server, crossed, rows, fading, cache>>
  BY DetachedAlike DEF Admin!NoCall
<1>c. \A j \in Items : RowsGo(j) => RowsGo(j)'
  BY <1>b DEF RowsGo, Admin!Rows
<1>1. RowTypes'
  BY <1>a, <1>b DEF RowTypes
<1>2. OneArmed'
  BY DEF OneArmed
<1>3. CallTypes' /\ GoneAway'
  BY <1>a, <1>b, <1>c, CallReplaced
<1>4. QED BY <1>1, <1>2, <1>3

LEMMA AdminDetailed == ASSUME AdminInv, NEW k \in Calls, Admin!Detailed(k) PROVE AdminInv'
<1> USE DEF AdminInv, Admin!world, Admin!quiet, Admin!table, Admin!dialogs, Admin!Detailed
<1>1. RowTypes'
  <2>1. /\ UNCHANGED <<server, rows, fading, crossed>>
        /\ cache' = cache \/ cache' = [cache EXCEPT ![call[k].item] = call[k].copy[call[k].item]]
    OBVIOUS
  <2>2. call[k].copy \in [Items -> (SUBSET Flags) \cup {Admin!Gone}]
    BY DEF CallTypes, AdminCall
  <2>3. QED BY <2>1, <2>2 DEF RowTypes
<1>2. OneArmed'
  BY DEF OneArmed
<1>3. CallTypes' /\ GoneAway'
  <2> DEFINE i == call[k].item
  <2>1. /\ UNCHANGED <<server, crossed, rows, fading>>
        /\ ~(call[k].op = "delete" /\ call[k].at = "answered")
        /\ call' = [call EXCEPT ![k] = Admin!NoCall]
        /\ cache' = cache \/ cache' = [cache EXCEPT ![i] = call[k].copy[i]]
    OBVIOUS
  <2>2. \A j \in Items : server[j] = Admin!Gone /\ j \notin crossed => call[k].copy[j] = Admin!Gone
    BY DEF GoneAway
  <2>3. \A j \in Items : server[j] = Admin!Gone /\ j \notin crossed =>
           (cache[j] = Admin!Gone => cache'[j] = Admin!Gone)
    BY <2>1, <2>2 DEF RowTypes
  <2>4. \A j \in Items : RowsGo(j) => RowsGo(j)'
    BY <2>1 DEF RowsGo, Admin!Rows
  <2> HIDE DEF Admin!Detailed
  <2>5. QED BY <2>1, <2>3, <2>4, IdleCall, DetachedAlike, CallReplaced
<1>4. QED BY <1>1, <1>2, <1>3

\* The confirm dialog.
LEMMA AdminAsks == ASSUME AdminInv, NEW op \in Admin!Writes, Admin!ShowConfirm(op) PROVE AdminInv'
<1> USE DEF AdminInv, Admin!world, Admin!quiet, Admin!table, Admin!dialogs, Admin!ShowConfirm,
            Admin!Offers
<1>1. RowTypes'
  BY DEF RowTypes, CallTypes, AdminCall, Flags
<1>2. OneArmed'
  <2>1. Admin!RemoveFirst(armed, current) = <<>>
    BY TakenOff DEF OneArmed
  <2>2. PICK a : confirm' = [open |-> TRUE, names |-> a] /\ armed' = Append(<<>>, a) /\ current' = a
    BY <2>1
  <2>3. armed' = <<a>>
    BY <2>2, TakenOff
  <2>4. confirm'.open = TRUE /\ confirm'.names = a
    BY <2>2
  <2>5. confirm' = [open |-> confirm'.open, names |-> confirm'.names]
    BY <2>2, <2>4
  <2>6. QED BY <2>2, <2>3, <2>4, <2>5 DEF OneArmed
<1>3. CallTypes' /\ GoneAway'
  BY DEF RowTypes, CallTypes, AdminCall, GoneAway, Unheard, RowsGo, Admin!Rows
<1>4. QED BY <1>1, <1>2, <1>3

LEMMA AdminConfirms == ASSUME AdminInv, NEW k \in Calls, Admin!Confirm(k) PROVE AdminInv'
<1> USE DEF AdminInv, Admin!world, Admin!quiet, Admin!table, Admin!dialogs, Admin!Confirm,
            Admin!CanSend, Admin!Free
<1>a. PICK c : AdminCall(c) /\ c.copy = Admin!NoCopy /\ call' = [call EXCEPT ![k] = c]
  BY SentCall
<1>b. /\ ~(call[k].op = "delete" /\ call[k].at = "answered") /\ Alike(call)
      /\ UNCHANGED <<server, crossed, rows, fading, cache>>
  BY DetachedAlike DEF Admin!NoCall
<1>c. \A i \in Items : RowsGo(i) => RowsGo(i)'
  BY <1>b DEF RowsGo, Admin!Rows
<1>1. RowTypes'
  BY <1>a, <1>b DEF RowTypes
<1>2. OneArmed'
  BY DEF OneArmed
<1>3. CallTypes' /\ GoneAway'
  BY <1>a, <1>b, <1>c, CallReplaced
<1>4. QED BY <1>1, <1>2, <1>3

\* The other dialogs.
LEMMA AdminHides ==
    ASSUME AdminInv, \/ Admin!HideConfirm \/ Admin!HideDetail \/ Admin!HideForm \/ Admin!CloseFormModal
           \/ Admin!ShowBan \/ Admin!ChooseReason \/ Admin!HideBan \/ Admin!HideSecret
           \/ \E i \in Items \cup {NoItem} : Admin!ShowClientForm(i) \/ Admin!OpenFormModal(i)
    PROVE  AdminInv'
<1> USE DEF AdminInv, Admin!world, Admin!quiet, Admin!table, Admin!dialogs, Admin!HideConfirm,
            Admin!HideDetail, Admin!HideForm, Admin!CloseFormModal, Admin!ShowBan,
            Admin!ChooseReason, Admin!HideBan, Admin!HideSecret, Admin!ShowClientForm,
            Admin!OpenFormModal, Admin!ShowForm, Admin!Offers
<1>1. RowTypes'
  BY DEF RowTypes, CallTypes, AdminCall, Flags
<1>2. OneArmed'
  BY DEF OneArmed
<1>3. CallTypes' /\ GoneAway'
  <2>1. UNCHANGED <<server, crossed, rows, fading, cache, call>>
    OBVIOUS
  <2>2. QED BY <2>1 DEF CallTypes, GoneAway, Unheard, RowsGo, Admin!Rows
<1>4. QED BY <1>1, <1>2, <1>3

LEMMA AdminSubmits ==
    ASSUME AdminInv, NEW k \in Calls,
           Admin!ConfirmBan(k) \/ Admin!SubmitClient(k) \/ Admin!SubmitEntry(k)
    PROVE  AdminInv'
<1> USE DEF AdminInv, Admin!world, Admin!quiet, Admin!table, Admin!dialogs, Admin!ConfirmBan,
            Admin!SubmitClient, Admin!SubmitEntry, Admin!Submit, Admin!CanSend, Admin!Free
<1>a. PICK c : AdminCall(c) /\ c.copy = Admin!NoCopy /\ call' = [call EXCEPT ![k] = c]
  BY SentCall
<1>b. /\ ~(call[k].op = "delete" /\ call[k].at = "answered") /\ Alike(call)
      /\ UNCHANGED <<server, crossed, rows, fading, cache>>
  BY DetachedAlike DEF Admin!NoCall
<1>c. \A i \in Items : RowsGo(i) => RowsGo(i)'
  BY <1>b DEF RowsGo, Admin!Rows
<1>1. RowTypes'
  BY <1>a, <1>b DEF RowTypes
<1>2. OneArmed'
  BY DEF OneArmed
<1>3. CallTypes' /\ GoneAway'
  BY <1>a, <1>b, <1>c, CallReplaced
<1>4. QED BY <1>1, <1>2, <1>3

\* The answers to writes.
LEMMA AdminChanged ==
    ASSUME AdminInv, NEW k \in Calls,
           \/ Admin!UserChanged(k) \/ Admin!ClientChanged(k) \/ Admin!EntryChanged(k)
           \/ Admin!Banned(k) \/ Admin!ClientSaved(k) \/ Admin!EntrySaved(k)
    PROVE  AdminInv'
<1> USE DEF AdminInv, Admin!world, Admin!quiet, Admin!table, Admin!dialogs, Admin!UserChanged,
            Admin!ClientChanged, Admin!EntryChanged, Admin!Changed, Admin!Banned,
            Admin!ClientSaved, Admin!EntrySaved, Admin!Ok
<1>a. PICK c : AdminCall(c) /\ c.copy = Admin!NoCopy /\ call' = [call EXCEPT ![k] = c]
  <2>1. PICK i, op : call' = Admin!RowFetch(k, i, op)
    BY Zenon
  <2>2. CASE Admin!HasRow(i)
    <3> DEFINE c == RowCall(op, i, Admin!TopRow(i))
    <3>1. call' = [call EXCEPT ![k] = c]
      BY <2>1, <2>2 DEF Admin!RowFetch, RowCall
    <3>2. AdminCall(c) /\ c.copy = Admin!NoCopy
      BY RowCallSent
    <3> HIDE DEF c
    <3>3. QED BY <3>1, <3>2
  <2>3. CASE ~Admin!HasRow(i)
    <3>1. call' = [call EXCEPT ![k] = Admin!NoCall]
      BY <2>1, <2>3 DEF Admin!RowFetch
    <3>2. QED BY <3>1, IdleCall
  <2>4. QED BY <2>2, <2>3
<1>b. /\ ~(call[k].op = "delete" /\ call[k].at = "answered") /\ Alike(call)
      /\ UNCHANGED <<server, crossed, rows, fading, cache>>
  BY DetachedAlike DEF Admin!Saves
<1>c. \A i \in Items : RowsGo(i) => RowsGo(i)'
  BY <1>b DEF RowsGo, Admin!Rows
<1>1. RowTypes'
  BY <1>a, <1>b DEF RowTypes
<1>2. OneArmed'
  BY DEF OneArmed
<1>3. CallTypes' /\ GoneAway'
  BY <1>a, <1>b, <1>c, CallReplaced
<1>4. QED BY <1>1, <1>2, <1>3

LEMMA AdminAnswered ==
    ASSUME AdminInv, NEW k \in Calls, Admin!Regenerated(k) \/ Admin!Refused(k)
    PROVE AdminInv'
<1> USE DEF AdminInv, Admin!world, Admin!quiet, Admin!table, Admin!dialogs, Admin!Regenerated,
            Admin!Refused, Admin!Ok, Admin!Done, Admin!ShowSecret, Admin!Writes, Admin!UserWrites,
            Admin!ClientWrites, Admin!EntryWrites, Admin!Saves
<1>a. PICK c : AdminCall(c) /\ c.copy = Admin!NoCopy /\ call' = [call EXCEPT ![k] = c]
  BY IdleCall
<1>b. /\ ~(call[k].op = "delete" /\ call[k].at = "answered") /\ Alike(call)
      /\ UNCHANGED <<server, crossed, rows, fading, cache>>
  BY DetachedAlike
<1>c. \A i \in Items : RowsGo(i) => RowsGo(i)'
  BY <1>b DEF RowsGo, Admin!Rows
<1>1. RowTypes'
  BY <1>a, <1>b DEF RowTypes
<1>2. OneArmed'
  BY DEF OneArmed
<1>3. CallTypes' /\ GoneAway'
  BY <1>a, <1>b, <1>c, CallReplaced
<1>4. QED BY <1>1, <1>2, <1>3

LEMMA AdminDeleted ==
    ASSUME AdminInv, NEW k \in Calls,
           Admin!RemoveUserRow(k) \/ Admin!RemoveClientRow(k) \/ Admin!RemoveWhitelistRow(k)
    PROVE  AdminInv'
<1> USE DEF AdminInv, Admin!world, Admin!quiet, Admin!table, Admin!dialogs, Admin!RemoveUserRow,
            Admin!RemoveClientRow, Admin!RemoveWhitelistRow, Admin!Deleted, Admin!RemoveRow,
            Admin!Ok, Admin!Done
<1>1. RowTypes'
  BY DEF RowTypes, CallTypes, AdminCall, Flags
<1>2. OneArmed'
  BY DEF OneArmed
<1>3. CallTypes' /\ GoneAway'
  <2>i. PICK i : i = call[k].item
    OBVIOUS
  <2>1. /\ UNCHANGED <<server, rows>> /\ call' = [call EXCEPT ![k] = Admin!NoCall]
        /\ cache' = [cache EXCEPT ![i] = Admin!Gone]
        /\ fading \subseteq fading' /\ crossed \subseteq crossed'
    BY <2>i
  <2>a. i \in crossed' \/ RowsGo(i)'
    <3>1. /\ fading' = fading \cup (IF Admin!HasRow(i) THEN {<<i, Admin!TopRow(i)>>} ELSE {})
          /\ crossed' = crossed \cup (IF Admin!Both(i) \subseteq rows THEN {i} ELSE {})
      BY <2>i
    <3>2. QED BY <2>1, <3>1 DEF RowsGo, Admin!Rows, Admin!HasRow, Admin!TopRow, Admin!Both
  <2>b. \A j \in Items : RowsGo(j) => RowsGo(j)'
    BY <2>1 DEF RowsGo, Admin!Rows
  <2>2. /\ call' = [l \in Calls |-> call'[l]] /\ call'[k] = Admin!NoCall
        /\ \A l \in Calls \ {k} : call'[l] = call[l]
    BY <2>1 DEF CallTypes
  <2>3. CallTypes'
    BY <2>2, IdleCall DEF CallTypes
  <2>4. \A j \in Items \ {i} : Unheard(j) => Unheard(j)'
    BY <2>i, <2>2 DEF Unheard
  <2>5. \A j \in Items : cache[j] = Admin!Gone => cache'[j] = Admin!Gone
    BY <2>1 DEF RowTypes
  <2>6. i \in Items => cache'[i] = Admin!Gone
    BY <2>1 DEF RowTypes
  <2>7. \A j \in Items : (\A l \in Calls : call[l].copy[j] = Admin!Gone)
                          => (\A l \in Calls : call'[l].copy[j] = Admin!Gone)
    BY <2>2, IdleCall DEF Admin!NoCopy
  <2>8. GoneAway'
    BY <2>1, <2>a, <2>b, <2>4, <2>5, <2>6, <2>7 DEF GoneAway
  <2>9. QED BY <2>3, <2>8
<1>4. QED BY <1>1, <1>2, <1>3

LEMMA AdminCreated ==
    ASSUME AdminInv, NEW k \in Calls, Admin!ClientCreated(k) \/ Admin!EntryCreated(k)
    PROVE AdminInv'
<1> USE DEF AdminInv, Admin!world, Admin!quiet, Admin!table, Admin!dialogs, Admin!ClientCreated,
            Admin!EntryCreated, Admin!Inserted, Admin!Ok, Admin!Done, Admin!Alive,
            Admin!ShowSecret
<1>1. RowTypes'
  <2>1. PICK i \in Items : cache' = [cache EXCEPT ![i] = call[k].copy[i]]
    OBVIOUS
  <2>2. call[k].copy[i] \in (SUBSET Flags) \cup {Admin!Gone} /\ server' = server
    BY DEF CallTypes, AdminCall
  <2>3. QED BY <2>1, <2>2 DEF RowTypes
<1>2. OneArmed'
  BY DEF OneArmed
<1>3. CallTypes' /\ GoneAway'
  <2>1. PICK i \in Items : /\ Admin!Alive(call[k].copy[i])
                           /\ cache' = [cache EXCEPT ![i] = call[k].copy[i]]
                           /\ rows' = rows \cup {<<i, "added">>}
    OBVIOUS
  <2>2. /\ UNCHANGED <<server, crossed, fading>> /\ call' = [call EXCEPT ![k] = Admin!NoCall]
        /\ call[k].op # "delete"
    OBVIOUS
  <2>3. ~(server[i] = Admin!Gone /\ i \notin crossed)
    BY <2>1 DEF GoneAway
  <2>a. \A j \in Items \ {i} : RowsGo(j) => RowsGo(j)'
    BY <2>1, <2>2 DEF RowsGo, Admin!Rows, Admin!Both
  <2>4. \A j \in Items : server[j] = Admin!Gone /\ j \notin crossed =>
           /\ RowsGo(j) => RowsGo(j)'
           /\ cache[j] = Admin!Gone => cache'[j] = Admin!Gone
    BY <2>1, <2>2, <2>3, <2>a DEF RowTypes
  <2> HIDE DEF Admin!ClientCreated, Admin!EntryCreated
  <2>5. QED BY <2>2, <2>4, IdleCall, DetachedAlike, CallReplaced
<1>4. QED BY <1>1, <1>2, <1>3

\* The server.
LEMMA AdminReads == ASSUME AdminInv, NEW k \in Calls, Admin!ServeRead(k) PROVE AdminInv'
<1> USE DEF AdminInv, Admin!world, Admin!quiet, Admin!table, Admin!dialogs
<1>1. RowTypes'
  BY DEF Admin!ServeRead, RowTypes
<1>2. OneArmed'
  BY DEF Admin!ServeRead, OneArmed
<1>3. CallTypes' /\ GoneAway'
  <2>1. PICK at \in {"answered", "failed"}, copy \in [Items -> (SUBSET Flags) \cup {Admin!Gone}] :
           /\ Admin!Answer(k, at, copy)
           /\ \A i \in Items : server[i] = Admin!Gone => copy[i] = Admin!Gone
           /\ at = "answered" /\ call[k].op # "list" =>
                 call[k].item \in Items /\ copy[call[k].item] # Admin!Gone
    <3>1. CASE Admin!Answer(k, "failed", Admin!NoCopy)
      BY <3>1, NoCopyTyped DEF Admin!NoCopy
    <3>2. ASSUME NEW is \in SUBSET {i \in Items : Admin!Alive(server[i])},
                 Admin!Answer(k, "answered", Admin!Copy(is)),
                 call[k].op = "list" \/ is = {call[k].item}
          PROVE  \E at \in {"answered", "failed"}, copy \in [Items -> (SUBSET Flags) \cup {Admin!Gone}] :
                    /\ Admin!Answer(k, at, copy)
                    /\ \A i \in Items : server[i] = Admin!Gone => copy[i] = Admin!Gone
                    /\ at = "answered" /\ call[k].op # "list" =>
                          call[k].item \in Items /\ copy[call[k].item] # Admin!Gone
      <4> DEFINE copy == Admin!Copy(is)
      <4>1. copy \in [Items -> (SUBSET Flags) \cup {Admin!Gone}]
        BY <3>2 DEF RowTypes, Admin!Copy, Admin!Alive
      <4>2. \A i \in Items : server[i] = Admin!Gone => copy[i] = Admin!Gone
        BY <3>2 DEF Admin!Copy, Admin!Alive
      <4>3. call[k].op # "list" => call[k].item \in Items /\ copy[call[k].item] # Admin!Gone
        BY <3>2 DEF Admin!Copy, Admin!Alive
      <4> HIDE DEF copy
      <4>4. Admin!Answer(k, "answered", copy)
        BY <3>2 DEF copy
      <4>5. QED BY <4>1, <4>2, <4>3, <4>4
    <3>3. QED BY <3>1, <3>2 DEF Admin!ServeRead
  <2>2. /\ call[k].op \in {"list", "cached", "fresh", "row", "saved"} /\ call[k].at = "sent"
        /\ UNCHANGED <<server, crossed, rows, fading, cache>>
    BY DEF Admin!ServeRead, Admin!Reads, Admin!UserReads, Admin!ClientReads, Admin!EntryReads,
           Admin!LogReads
  <2>3. /\ call' = [l \in Calls |-> call'[l]]
        /\ \A l \in Calls \ {k} : call'[l] = call[l]
        /\ call'[k] = [op |-> call[k].op, item |-> call[k].item, at |-> at, copy |-> copy,
                       row |-> call[k].row]
    BY <2>1, CallAnswered
  <2>4. AdminCall(call'[k])
    BY <2>1, <2>2, <2>3 DEF AdminCall
  <2>5. CallTypes'
    BY <2>3, <2>4 DEF CallTypes
  <2>6. \A i \in Items : Unheard(i) => Unheard(i)'
    BY <2>2, <2>3 DEF Unheard
  <2>a. \A i \in Items : RowsGo(i) => RowsGo(i)'
    BY <2>2 DEF RowsGo, Admin!Rows
  <2>7. GoneAway'
    BY <2>1, <2>2, <2>3, <2>6, <2>a DEF GoneAway
  <2>8. QED BY <2>5, <2>7
<1>4. QED BY <1>1, <1>2, <1>3

LEMMA AdminWrites == ASSUME AdminInv, NEW k \in Calls, Admin!ServeWrite(k) PROVE AdminInv'
<1> USE DEF AdminInv, Admin!world, Admin!quiet, Admin!table, Admin!dialogs
<1>a. /\ call[k].op \in Admin!Writes /\ call[k].at = "sent"
      /\ UNCHANGED <<rows, fading, cache, confirm, armed, current>>
  BY DEF Admin!ServeWrite
<1>r. \A j \in Items : RowsGo(j) => RowsGo(j)'
  BY <1>a DEF RowsGo, Admin!Rows
<1>b. CASE Admin!Answer(k, "failed", Admin!NoCopy) /\ UNCHANGED <<server, crossed>>
  <2>1. /\ call' = [l \in Calls |-> call'[l]]
        /\ \A l \in Calls \ {k} : call'[l] = call[l]
        /\ call'[k] = [op |-> call[k].op, item |-> call[k].item, at |-> "failed",
                       copy |-> Admin!NoCopy, row |-> call[k].row]
    BY <1>b, CallAnswered
  <2>2. AdminCall(call'[k]) /\ call'[k].copy = Admin!NoCopy
    BY <2>1, NoCopyTyped DEF AdminCall
  <2>3. CallTypes'
    BY <2>1, <2>2 DEF CallTypes
  <2>4. \A i \in Items : Unheard(i) => Unheard(i)'
    BY <1>a, <2>1 DEF Unheard
  <2>5. GoneAway'
    BY <1>a, <1>b, <1>r, <2>1, <2>2, <2>4 DEF GoneAway, Admin!NoCopy
  <2>6. RowTypes' /\ OneArmed'
    BY <1>a, <1>b DEF RowTypes, OneArmed
  <2>7. QED BY <2>3, <2>5, <2>6
<1>c. ASSUME NEW i \in Items, NEW at \in {"answered", "failed"},
             IF call[k].op = "create" THEN server[i] = Admin!Unborn
             ELSE i = call[k].item /\ Admin!Alive(server[i]),
             server' = [server EXCEPT ![i] =
                           CASE call[k].op = "create" -> {"on"}
                             [] call[k].op = "delete" -> Admin!Gone
                             [] OTHER -> (@ \ Admin!Clears[call[k].op]) \cup Admin!Sets[call[k].op]],
             crossed' = IF call[k].op = "delete" /\ (at = "failed" \/ i \in Admin!Carried(k))
                        THEN crossed \cup {i} ELSE crossed,
             Admin!Answer(k, at, IF call[k].op = "create" THEN [Admin!NoCopy EXCEPT ![i] = {"on"}]
                                 ELSE Admin!NoCopy)
      PROVE  AdminInv'
  <2> DEFINE op == call[k].op
             copy == IF op = "create" THEN [Admin!NoCopy EXCEPT ![i] = {"on"}] ELSE Admin!NoCopy
  <2>1. /\ copy \in [Items -> (SUBSET Flags) \cup {Admin!Gone}]
        /\ \A j \in Items \ {i} : copy[j] = Admin!Gone
        /\ op # "create" => copy = Admin!NoCopy /\ copy[i] = Admin!Gone
    BY NoCopyTyped DEF Admin!NoCopy, Flags
  <2>2. /\ server[i] # Admin!Gone /\ (op # "create" => server[i] \in SUBSET Flags /\ i = call[k].item)
    BY <1>c DEF RowTypes, Admin!Alive, Admin!Gone, Admin!Unborn
  <2>3. /\ op = "create" => server' = [server EXCEPT ![i] = {"on"}]
        /\ op = "delete" => server' = [server EXCEPT ![i] = Admin!Gone]
        /\ op \notin {"create", "delete"} =>
              server' = [server EXCEPT ![i] = (@ \ Admin!Clears[op]) \cup Admin!Sets[op]]
    BY <1>c, Zenon
  <2>4. op \notin {"create", "delete"} =>
            (server[i] \ Admin!Clears[op]) \cup Admin!Sets[op] \in SUBSET Flags
    BY <1>a, <2>2, SetsFlags
  <2>5. {"on"} \in SUBSET Flags
    BY DEF Flags
  <2>6. /\ RowTypes' /\ \A j \in Items \ {i} : server'[j] = server[j]
        /\ op # "delete" => server'[i] \in SUBSET Flags
    BY <1>a, <2>2, <2>3, <2>4, <2>5 DEF RowTypes
  <2>7. Admin!Gone \notin SUBSET Flags
    BY DEF Admin!Gone, Flags
  <2> HIDE DEF copy, op
  <2>8. /\ call' = [l \in Calls |-> call'[l]]
        /\ \A l \in Calls \ {k} : call'[l] = call[l]
        /\ call'[k] = [op |-> op, item |-> call[k].item, at |-> at, copy |-> copy,
                       row |-> call[k].row]
    BY <1>c, CallAnswered DEF copy, op
  <2>9. AdminCall(call'[k])
    BY <1>a, <2>1, <2>8
       DEF op, AdminCall, Admin!Writes, Admin!UserWrites, Admin!ClientWrites, Admin!EntryWrites
  <2>10. CallTypes'
    BY <2>8, <2>9 DEF CallTypes
  <2>11. \A j \in Items : Unheard(j) => Unheard(j)'
    BY <1>a, <2>8 DEF Unheard
  <2>12. ASSUME NEW j \in Items \ {i}, server'[j] = Admin!Gone, j \notin crossed'
         PROVE  /\ \A l \in Calls : call'[l].copy[j] = Admin!Gone
                /\ Unheard(j)' \/ (RowsGo(j)' /\ cache'[j] = Admin!Gone)
    <3>1. server[j] = Admin!Gone /\ j \notin crossed
      BY <1>c, <2>6, <2>12
    <3>2. QED BY <1>a, <1>r, <2>1, <2>8, <2>11, <3>1 DEF GoneAway
  <2>13. ASSUME server'[i] = Admin!Gone, i \notin crossed'
         PROVE  Unheard(i)' /\ \A l \in Calls : call'[l].copy[i] = Admin!Gone
    <3>1. op = "delete" /\ at = "answered" /\ i \notin Admin!Carried(k)
      BY <1>c, <2>6, <2>7, <2>13 DEF op
    <3>2. Unheard(i)'
      BY <2>2, <2>8, <3>1 DEF Unheard
    <3>3. ASSUME NEW l \in Calls \ {k} PROVE call[l].copy[i] = Admin!Gone
      <4>1. AdminCall(call[l])
        BY DEF CallTypes
      <4>2. CASE call[l].op = "delete"
        BY <4>1, <4>2 DEF AdminCall, Admin!NoCopy
      <4>3. CASE call[l].op # "delete"
        <5>1. ~Admin!Alive(call[l].copy[i])
          BY <3>1, <4>3 DEF Admin!Carried
        <5>2. Admin!Unborn \notin SUBSET Flags /\ Admin!Unborn # Admin!Gone
          BY DEF Admin!Unborn, Admin!Gone, Flags
        <5>3. QED BY <4>1, <5>1, <5>2 DEF AdminCall, Admin!Alive
      <4>4. QED BY <4>2, <4>3
    <3>4. QED BY <2>1, <2>8, <3>1, <3>2, <3>3
  <2>14. GoneAway'
    BY <2>12, <2>13 DEF GoneAway
  <2>15. OneArmed'
    BY <1>a DEF OneArmed
  <2>16. QED BY <2>6, <2>10, <2>14, <2>15
<1>d. QED BY <1>b, <1>c DEF Admin!ServeWrite

\* The administration's invariant is kept by its own steps.
LEMMA AdminStep == AdminInv /\ Admin!Next => AdminInv'
<1>1. AdminInv /\ Admin!Page => AdminInv'
  BY AdminListed, AdminRows, AdminDetailed, AdminChanged, AdminAnswered, AdminDeleted, AdminCreated
     DEF Admin!Page
<1>2. AdminInv /\ Admin!Administrator => AdminInv'
  BY AdminLoads, AdminDetails, AdminAsks, AdminConfirms, AdminHides, AdminSubmits
     DEF Admin!Administrator
<1>3. ASSUME AdminInv, NEW k \in Calls, Admin!Serve(k) PROVE AdminInv'
  BY <1>3, AdminReads, AdminWrites
     DEF Admin!Serve, Admin!ReadUsers, Admin!ReadClients, Admin!ReadEntries, Admin!ReadLogs,
         Admin!WriteUser, Admin!WriteClient, Admin!WriteEntry
<1>4. QED BY <1>1, <1>2, <1>3, AdminFaded DEF Admin!Next

LEMMA AdminInit == Init => AdminInv
<1> SUFFICES ASSUME Init PROVE AdminInv
  OBVIOUS
<1>1. PICK sec \in Admin!Sections : Admin!Rest(sec)
  BY DEF Init, Admin!Init, Admin!Sections
<1>2. /\ server \in [Items -> (SUBSET Flags) \cup {Admin!Unborn}]
  <2>1. CASE \E v \in SUBSET Flags : server \in [Items -> {v, Admin!Unborn}]
    BY <2>1
  <2>2. CASE server = [i \in Items |-> {}]
    BY <2>2
  <2>3. CASE \E v \in SUBSET Flags : server = [i \in Items |-> v]
    BY <2>3
  <2>4. QED
    BY <1>1, <2>1, <2>2, <2>3, Zenon
       DEF Admin!Rest, Admin!UserValues, Admin!ClientValues, Admin!EntryValues, Flags
<1>3. RowTypes
  BY <1>1, <1>2, NoCopyTyped DEF RowTypes, Admin!Rest
<1>4. CallTypes
  BY <1>1, IdleCall DEF CallTypes, Admin!Rest
<1>5. OneArmed
  BY <1>1 DEF OneArmed, Admin!Rest
<1>6. GoneAway
  BY <1>1, <1>2, IdleCall
     DEF GoneAway, Unheard, Admin!Rest, Admin!NoCopy, Admin!Gone, Admin!Unborn, Flags
<1>7. QED BY <1>3, <1>4, <1>5, <1>6 DEF AdminInv

\* The administration keeps its invariant.
LEMMA AdminInvariance == Spec => []AdminInv
<1>1. AdminInv /\ UNCHANGED adminPart => AdminInv'
  BY DEF adminPart, AdminInv, RowTypes, CallTypes, OneArmed, GoneAway, Unheard, RowsGo, Admin!Rows
<1>2. AdminInv /\ [Next]_pages => AdminInv'
  BY <1>1, AdminStep DEF Next, pages
<1>3. QED BY <1>2, AdminInit, PTL DEF Spec, pages

\* A deleted item comes back neither to the table nor to its cache, although
\* refreshes of its row are under way, unless one of them crossed the deletion,
\* its answer was lost or a list had given the item a second row while it was
\* being created (animateTableRow, updateTableRow, showDetailWithCache).
THEOREM DeletionsLast == Spec => []DeletedStaysAway
<1>1. AdminInv => DeletedStaysAway
  BY DEF AdminInv, GoneAway, Unheard, RowsGo, DeletedStaysAway, Admin!DeletedStaysAway, Admin!Alive
<1>2. QED BY <1>1, AdminInvariance, PTL

\* A confirm dialog does what it says: for the PC whose code was scanned, unless
\* a scan was answered late, and for the row it names, as the handler of an
\* earlier dialog is taken off (showQrLoginConfirmModal, showConfirm).
THEOREM ConfirmsAsShown == Spec => []ConfirmsShown
<1>1. DashInv => Dash!ConfirmsShown
  <2>1. CASE section \in Dialogs
    BY <2>1 DEF DashInv, OneConfirms, Dash!ConfirmsShown
  <2>2. CASE section \notin Dialogs
    BY <2>2 DEF DashInv, Dash!Rest, Dash!ConfirmsShown
  <2>3. QED BY <2>1, <2>2
<1>2. AdminInv => Admin!ConfirmNames
  BY DEF AdminInv, OneArmed, Admin!ConfirmNames
<1>3. DashInv /\ AdminInv => ConfirmsShown
  BY <1>1, <1>2 DEF ConfirmsShown
<1>4. QED BY <1>3, DashInvariance, AdminInvariance, PTL
=============================================================================
