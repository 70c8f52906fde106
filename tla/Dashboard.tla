------------------------------ MODULE Dashboard ------------------------------
(***************************************************************************)
(* The dialogs of the account's dashboard that outlive their fetches       *)
(* (modules/account/assets/js/dashboard.ts): the QR scanner and the        *)
(* confirm dialog behind it, the avatar, the log and the authorised        *)
(* applications.  Every opening of a dialog makes a controller of its own  *)
(* (createModalController in feedback.ts) over the same elements of the    *)
(* page, and its fetches, images, timers and camera go on after the        *)
(* controller closed.  A behaviour stays in one section, which is the      *)
(* dialog its user opens; texts, icons and dates are left out, and so is   *)
(* the picture the dashboard repaints after a new avatar.                  *)
(***************************************************************************)
EXTENDS Naturals, Sequences, FiniteSets, SequencesExt

CONSTANTS
    Openings,       \* openings of the section's dialog, one controller each (bound)
    Codes, NoCode, Junk,    \* texts a camera reads: QR login codes, and others
    Urls,           \* avatars that pass validateAvatarUrl, the providers' included
    Apps,           \* applications the user authorised
    Pages,          \* pages of the log
    Tries           \* confirms, saves, loads and revocations the user asks for (bound)

VARIABLES
    section,
    life,           \* per opening: its controller
    calls,          \* the fetches under way
    tries,
    camera, target, \* per opening: its camera stream, and the text it read
    timers,         \* timeouts that will close an opening or end isScanning
    isScanning,
    ask,            \* the confirm dialog: shown, whose PC it describes, its button
    bound,          \* openings whose confirm controller is attached to its buttons
    stage,          \* per code: its row on the server
    late,           \* history: a scan was answered after its dialog had closed
    validatedUrl,   \* per opening
    preview, enabled, readOnly, \* the avatar dialog: its picture, button and input
    images,         \* pictures being loaded
    log,            \* the log dialog: pages listed, and its button
    currentPage, failed,    \* per opening; history: the pages that failed to load
    list,           \* the list of applications: rows, buttons off, the empty notice
    granted         \* applications authorised on the server

scanner == <<camera, target, timers, isScanning, ask, bound, stage, late>>
avatar  == <<validatedUrl, preview, enabled, readOnly, images>>
lists   == <<log, currentPage, failed, list, granted>>
vars    == <<section, life, calls, tries, scanner, avatar, lists>>

NoImage == [url |-> "none", by |-> "none"]

\* What validateAvatarUrl makes of an input: a URL, or nothing.
Validated == Urls \cup {"none"}

\* The state of the dialogs before one is opened.
Rest ==
    /\ tries = Tries
    /\ camera = [o \in Openings |-> "none"] /\ target = [o \in Openings |-> NoCode]
    /\ timers = {} /\ isScanning = FALSE
    /\ ask = [shown |-> FALSE, info |-> NoCode, on |-> FALSE] /\ bound = {}
    /\ stage = [c \in Codes |-> "pending"] /\ late = FALSE
    /\ validatedUrl = [o \in Openings |-> "none"]
    /\ preview = NoImage /\ enabled = FALSE /\ readOnly = FALSE /\ images = {}
    /\ log = [rows |-> <<>>, more |-> FALSE, on |-> TRUE]
    /\ currentPage = [o \in Openings |-> 1] /\ failed = [o \in Openings |-> {}]
    /\ list = [rows |-> {}, off |-> {}, empty |-> FALSE] /\ granted = Apps

Init ==
    /\ section \in {"scan", "avatar", "logs", "grants"}
    /\ life = [o \in Openings |-> "new"]
    /\ calls = {}
    /\ Rest

Fetch(op, o, arg) == [op |-> op, of |-> o, arg |-> arg, at |-> "sent"]
Open(o)  == life[o] = "open"
Shown    == \E o \in Openings : Open(o)
\* Only what the page shows on top can be clicked.
CanOpen(s, o) == section = s /\ life[o] = "new" /\ ~Shown /\ ~ask.shown
Try == tries > 0 /\ tries' = tries - 1

(***************************************************************************)
(* The QR scanner                                                          *)
(***************************************************************************)

\* What close does to an opening: no more than once, and the camera stops.
Closes(o) ==
    IF Open(o)
    THEN /\ life' = [life EXCEPT ![o] = "closed"]
         /\ camera' = IF camera[o] = "on" THEN [camera EXCEPT ![o] = "off"] ELSE camera
         /\ timers' = IF section = "scan" THEN timers \cup {[of |-> o, ends |-> "isScanning"]}
                      ELSE timers
    ELSE UNCHANGED <<life, camera, timers>>

\* The item in the list, which ignores clicks until isScanning is reset.
ClickScan == ~isScanning /\ isScanning' = TRUE

\* showQrScanModal up to its await of getUserMedia, which may be missing.
OpenScan(o) ==
    /\ CanOpen("scan", o) /\ ClickScan
    /\ life' = [life EXCEPT ![o] = "open"]
    /\ \E asked \in {"asked", "none"} : camera' = [camera EXCEPT ![o] = asked]
    /\ UNCHANGED <<section, calls, tries, target, timers, ask, bound, stage, late, avatar, lists>>

\* Mutant: the dialog's state is not looked at after the await.
CameraGrantedBlindly(o) ==
    /\ camera[o] = "asked"
    /\ camera' = [camera EXCEPT ![o] = "on"]
    /\ UNCHANGED <<section, life, calls, tries, target, timers, isScanning, ask, bound,
                   stage, late, avatar, lists>>

\* The stream arrives; if the dialog closed meanwhile it is stopped at once.
CameraGranted(o) ==
    /\ camera[o] = "asked"
    /\ camera' = [camera EXCEPT ![o] = IF Open(o) THEN "on" ELSE "off"]
    /\ UNCHANGED <<section, life, calls, tries, target, timers, isScanning, ask, bound,
                   stage, late, avatar, lists>>

CameraRefused(o) ==
    /\ camera[o] = "asked"
    /\ camera' = [camera EXCEPT ![o] = "none"]
    /\ UNCHANGED <<section, life, calls, tries, target, timers, isScanning, ask, bound,
                   stage, late, avatar, lists>>

\* A frame that holds a QR code ends the frame loop; texts that cannot be a
\* login code close the dialog after two seconds.
ReadFrame(o, text) ==
    /\ camera[o] = "on" /\ Open(o) /\ target[o] = NoCode
    /\ target' = [target EXCEPT ![o] = text]
    /\ IF text = Junk
       THEN timers' = timers \cup {[of |-> o, ends |-> "dialog"]} /\ UNCHANGED calls
       ELSE calls' = calls \cup {Fetch("scan", o, text)} /\ UNCHANGED timers
    /\ UNCHANGED <<section, life, tries, camera, isScanning, ask, bound, stage, late, avatar, lists>>

\* handleQrCodeScanned after its await: nothing asks whether the dialog is
\* still open.  showQrLoginConfirmModal attaches one more controller.
Scanned(c) ==
    /\ c.op = "scan" /\ c.at # "sent"
    /\ calls' = calls \ {c}
    /\ IF c.at = "ok"
       THEN /\ Closes(c.of)
            /\ bound' = bound \cup {c.of}
            /\ ask' = [shown |-> TRUE, info |-> target[c.of], on |-> TRUE]
            /\ late' = (late \/ ~Open(c.of))
       ELSE /\ timers' = timers \cup {[of |-> c.of, ends |-> "dialog"]}
            /\ UNCHANGED <<bound, ask, late, life, camera>>
    /\ UNCHANGED <<section, tries, target, isScanning, stage, avatar, lists>>

\* The two timeouts: two seconds after an error, and 300 ms after a close.
TimerFires(t) ==
    /\ t \in timers
    /\ IF t.ends = "dialog" /\ Open(t.of)
       THEN /\ life' = [life EXCEPT ![t.of] = "closed"]
            /\ camera' = IF camera[t.of] = "on" THEN [camera EXCEPT ![t.of] = "off"] ELSE camera
            /\ timers' = (timers \ {t}) \cup {[of |-> t.of, ends |-> "isScanning"]}
       ELSE timers' = timers \ {t} /\ UNCHANGED <<life, camera>>
    /\ isScanning' = (isScanning /\ t.ends = "dialog")
    /\ UNCHANGED <<section, calls, tries, target, ask, bound, stage, late, avatar, lists>>

\* A click on the confirm button runs the handler of every controller.  (A
\* click while a confirm of one of them is under way is left out.)
Confirm ==
    /\ ask.shown /\ ask.on /\ bound # {} /\ Try
    /\ \A c \in calls : c.op = "confirm" => c.of \notin bound
    /\ ask' = [ask EXCEPT !.on = FALSE]
    /\ calls' = calls \cup {Fetch("confirm", o, target[o]) : o \in bound}
    /\ UNCHANGED <<section, life, camera, target, timers, isScanning, bound, stage, late, avatar, lists>>

\* Its answer: the controller that confirmed closes and hides the dialog.
Confirmed(c) ==
    /\ c.op = "confirm" /\ c.at # "sent"
    /\ calls' = calls \ {c}
    /\ IF c.at = "failed"
       THEN ask' = [ask EXCEPT !.on = TRUE] /\ UNCHANGED bound
       ELSE /\ bound' = bound \ {c.of}
            /\ ask' = IF c.of \in bound THEN [ask EXCEPT !.shown = FALSE] ELSE ask
    /\ UNCHANGED <<section, life, tries, camera, target, timers, isScanning, stage, late, avatar, lists>>

\* Mutant: the dialog is hidden, its controllers stay attached.
CancelStaying ==
    /\ ask.shown /\ bound # {}
    /\ calls' = calls \cup {Fetch("cancel", o, target[o]) : o \in bound}
    /\ ask' = [ask EXCEPT !.shown = FALSE]
    /\ UNCHANGED <<section, life, tries, camera, target, timers, isScanning, bound, stage, late, avatar, lists>>

\* A click on its cancel button: every controller cancels its code and closes.
Cancel ==
    /\ ask.shown /\ bound # {}
    /\ calls' = calls \cup {Fetch("cancel", o, target[o]) : o \in bound}
    /\ bound' = {} /\ ask' = [ask EXCEPT !.shown = FALSE]
    /\ UNCHANGED <<section, life, tries, camera, target, timers, isScanning, stage, late, avatar, lists>>

Cancelled(c) ==
    /\ c.op = "cancel" /\ c.at # "sent"
    /\ calls' = calls \ {c}
    /\ UNCHANGED <<section, life, tries, scanner, avatar, lists>>

ScanStep ==
    \/ \E o \in Openings : OpenScan(o) \/ CameraGranted(o) \/ CameraRefused(o)
    \/ \E o \in Openings, text \in Codes \cup {Junk} : ReadFrame(o, text)
    \/ \E t \in timers : TimerFires(t)
    \/ \E c \in calls : Scanned(c) \/ Confirmed(c) \/ Cancelled(c)
    \/ Confirm
    \/ Cancel

(***************************************************************************)
(* The avatar dialog                                                       *)
(***************************************************************************)

OpenAvatar(o) ==
    /\ CanOpen("avatar", o)
    /\ life' = [life EXCEPT ![o] = "open"]
    /\ preview' = NoImage /\ enabled' = FALSE /\ readOnly' = FALSE
    /\ UNCHANGED <<section, calls, tries, scanner, validatedUrl, images, lists>>

\* Mutant: the old picture stays until the new one has loaded.
LoadNewAvatarBehind(o, url) ==
    /\ section = "avatar" /\ Open(o) /\ ~readOnly /\ Try
    /\ enabled' = FALSE
    /\ validatedUrl' = [validatedUrl EXCEPT ![o] = "none"]
    /\ images' = IF url = "none" THEN images ELSE images \cup {[url |-> url, by |-> o]}
    /\ UNCHANGED <<section, life, calls, scanner, preview, readOnly, lists>>

\* handleBlur and loadNewAvatar: everything is taken back, and a URL that
\* passes validateAvatarUrl is tried.  Pictures already loading go on.
LoadNewAvatar(o, url) ==
    /\ section = "avatar" /\ Open(o) /\ ~readOnly /\ Try
    /\ preview' = NoImage /\ enabled' = FALSE
    /\ validatedUrl' = [validatedUrl EXCEPT ![o] = "none"]
    /\ images' = IF url = "none" THEN images ELSE images \cup {[url |-> url, by |-> o]}
    /\ UNCHANGED <<section, life, calls, scanner, readOnly, lists>>

\* handleFocus on the placeholder of a provider's picture.
Focus(o) ==
    /\ section = "avatar" /\ Open(o) /\ readOnly
    /\ readOnly' = FALSE /\ preview' = NoImage /\ enabled' = FALSE
    /\ validatedUrl' = [validatedUrl EXCEPT ![o] = "none"]
    /\ UNCHANGED <<section, life, calls, tries, scanner, images, lists>>

\* handleMicrosoftClick, handleGoogleClick: the button and the URL stay.
UseProvider(o, url) ==
    /\ section = "avatar" /\ Open(o) /\ Try
    /\ readOnly' = TRUE /\ preview' = NoImage
    /\ images' = images \cup {[url |-> url, by |-> o]}
    /\ UNCHANGED <<section, life, calls, scanner, validatedUrl, enabled, lists>>

\* onload writes the page's preview and the validatedUrl of its own opening.
Loaded(i) ==
    /\ i \in images
    /\ images' = images \ {i}
    /\ preview' = i /\ enabled' = TRUE
    /\ validatedUrl' = [validatedUrl EXCEPT ![i.by] = i.url]
    /\ UNCHANGED <<section, life, calls, tries, scanner, readOnly, lists>>

LoadFailed(i) ==
    /\ i \in images
    /\ images' = images \ {i}
    /\ UNCHANGED <<section, life, calls, tries, scanner, validatedUrl, preview, enabled, readOnly, lists>>

SaveAvatar(o) ==
    /\ section = "avatar" /\ Open(o) /\ enabled /\ validatedUrl[o] # "none" /\ Try
    /\ enabled' = FALSE
    /\ calls' = calls \cup {Fetch("save", o, validatedUrl[o])}
    /\ UNCHANGED <<section, life, scanner, validatedUrl, preview, readOnly, images, lists>>

\* handleRemoveClick once its confirm dialog said yes.
RemoveAvatar(o) ==
    /\ section = "avatar" /\ Open(o) /\ Try
    /\ calls' = calls \cup {Fetch("remove", o, "none")}
    /\ UNCHANGED <<section, life, scanner, avatar, lists>>

AvatarSaved(c) ==
    /\ c.op \in {"save", "remove"} /\ c.at # "sent"
    /\ calls' = calls \ {c}
    /\ IF c.at = "ok"
       THEN Closes(c.of) /\ UNCHANGED enabled
       ELSE enabled' = (enabled \/ c.op = "save") /\ UNCHANGED <<life, camera, timers>>
    /\ UNCHANGED <<section, tries, target, isScanning, ask, bound, stage, late,
                   validatedUrl, preview, readOnly, images, lists>>

AvatarStep ==
    \/ \E o \in Openings : OpenAvatar(o) \/ Focus(o) \/ SaveAvatar(o) \/ RemoveAvatar(o)
    \/ \E o \in Openings, url \in Validated : LoadNewAvatar(o, url)
    \/ \E o \in Openings, url \in Urls : UseProvider(o, url)
    \/ \E i \in images : Loaded(i) \/ LoadFailed(i)
    \/ \E c \in calls : AvatarSaved(c)

(***************************************************************************)
(* The log and the authorised applications                                 *)
(***************************************************************************)

OpenLogs(o) ==
    /\ CanOpen("logs", o)
    /\ life' = [life EXCEPT ![o] = "open"]
    /\ log' = [rows |-> <<>>, more |-> FALSE, on |-> FALSE]
    /\ calls' = calls \cup {Fetch("logs", o, 1)}
    /\ UNCHANGED <<section, tries, scanner, avatar, currentPage, failed, list, granted>>

\* handleLoadMore: the page counts whether or not it will load.  (isLoading is
\* only true while the button is off.)
LoadMore(o) ==
    /\ section = "logs" /\ Open(o) /\ log.more /\ log.on /\ Try
    /\ currentPage' = [currentPage EXCEPT ![o] = @ + 1]
    /\ calls' = calls \cup {Fetch("logs", o, currentPage[o] + 1)}
    /\ log' = [log EXCEPT !.on = FALSE]
    /\ UNCHANGED <<section, life, scanner, avatar, failed, list, granted>>

\* Mutant: an answer is listed whatever became of its dialog.
LogsLoadedAnyway(c) ==
    /\ c.op = "logs" /\ c.at # "sent"
    /\ calls' = calls \ {c}
    /\ LET rows == IF c.at = "ok" /\ c.arg <= Pages THEN Append(log.rows, c.arg) ELSE log.rows IN
       log' = [rows |-> rows, on |-> TRUE,
               more |-> IF c.at = "ok" THEN Len(rows) < Pages ELSE log.more]
    /\ failed' = IF c.at = "ok" THEN failed ELSE [failed EXCEPT ![c.of] = @ \cup {c.arg}]
    /\ UNCHANGED <<section, life, tries, scanner, avatar, currentPage, list, granted>>

\* loadLogs after its await.  A page past the end is an empty answer.
LogsLoaded(c) ==
    /\ c.op = "logs" /\ c.at # "sent"
    /\ calls' = calls \ {c}
    /\ LET rows == IF c.at = "ok" /\ c.arg <= Pages THEN Append(log.rows, c.arg) ELSE log.rows IN
       log' = IF Open(c.of)
              THEN [rows |-> rows, on |-> TRUE,
                    more |-> IF c.at = "ok" THEN Len(rows) < Pages ELSE log.more]
              ELSE log
    /\ failed' = IF c.at = "ok" THEN failed ELSE [failed EXCEPT ![c.of] = @ \cup {c.arg}]
    /\ UNCHANGED <<section, life, tries, scanner, avatar, currentPage, list, granted>>

OpenGrants(o) ==
    /\ CanOpen("grants", o)
    /\ life' = [life EXCEPT ![o] = "open"]
    /\ list' = [rows |-> {}, off |-> {}, empty |-> FALSE]
    /\ calls' = calls \cup {Fetch("grants", o, {})}
    /\ UNCHANGED <<section, tries, scanner, avatar, log, currentPage, failed, granted>>

\* loadGrants after its await: the notice is never hidden again.
GrantsLoaded(c) ==
    /\ c.op = "grants" /\ c.at # "sent"
    /\ calls' = calls \ {c}
    /\ list' = IF ~Open(c.of) THEN list
               ELSE IF c.at = "ok" /\ c.arg # {} THEN [list EXCEPT !.rows = c.arg]
               ELSE [list EXCEPT !.empty = TRUE]
    /\ UNCHANGED <<section, life, tries, scanner, avatar, log, currentPage, failed, granted>>

\* The revoke button of a row, once its confirm dialog said yes.
Revoke(o, a) ==
    /\ section = "grants" /\ Open(o) /\ a \in list.rows \ list.off /\ Try
    /\ list' = [list EXCEPT !.off = @ \cup {a}]
    /\ calls' = calls \cup {Fetch("revoke", o, a)}
    /\ UNCHANGED <<section, life, scanner, avatar, log, currentPage, failed, granted>>

\* The row of an earlier opening is out of the page, but the notice and the
\* list it counts are the page's.
Revoked(c) ==
    /\ c.op = "revoke" /\ c.at # "sent"
    /\ calls' = calls \ {c}
    /\ LET here == \A o \in Openings : Open(o) => o = c.of
           rows == IF here THEN list.rows \ {c.arg} ELSE list.rows IN
       list' = IF c.at = "ok"
               THEN [list EXCEPT !.rows = rows, !.empty = @ \/ rows = {}]
               ELSE IF here THEN [list EXCEPT !.off = @ \ {c.arg}] ELSE list
    /\ UNCHANGED <<section, life, tries, scanner, avatar, log, currentPage, failed, granted>>

\* The two items of the dashboard that open a list.
OpenList(o) == OpenLogs(o) \/ OpenGrants(o)

ListStep ==
    \/ \E o \in Openings : OpenList(o) \/ LoadMore(o)
    \/ \E o \in Openings, a \in Apps : Revoke(o, a)
    \/ \E c \in calls : LogsLoaded(c) \/ GrantsLoaded(c) \/ Revoked(c)

(***************************************************************************)
(* The dialog's close button and backdrop, and the server                  *)
(***************************************************************************)

Close(o) ==
    /\ Open(o) /\ ~ask.shown
    /\ Closes(o)
    /\ UNCHANGED <<section, calls, tries, target, isScanning, ask, bound, stage, late, avatar, lists>>

Answer(c, at) == calls' = (calls \ {c}) \cup {[c EXCEPT !.at = at]}

\* The server did what was asked, though its answer may be lost.
Reply(c) == \E at \in {"ok", "failed"} : Answer(c, at)

\* The conditional UPDATE of a code's row: it must be in the state before.
StatusMoves(c, before, after) ==
    /\ IF stage[c.arg] = before
       THEN stage' = [stage EXCEPT ![c.arg] = after] /\ Reply(c)
       ELSE UNCHANGED stage /\ Answer(c, "failed")
    /\ UNCHANGED granted

Scan(c)          == c.op = "scan" /\ StatusMoves(c, "pending", "scanned")
MobileConfirm(c) == c.op = "confirm" /\ StatusMoves(c, "scanned", "confirmed")

\* The row is deleted whatever its state, and a failure is only logged.
MobileCancel(c) ==
    /\ c.op = "cancel"
    /\ stage' \in {stage, [stage EXCEPT ![c.arg] = "gone"]} /\ Reply(c)
    /\ UNCHANGED granted

\* What they write is not read again here: the dialog closes.
UpdateAvatar(c) == c.op \in {"save", "remove"} /\ Reply(c) /\ UNCHANGED <<stage, granted>>
GetLogs(c)      == c.op = "logs" /\ Reply(c) /\ UNCHANGED <<stage, granted>>

GetOAuthGrants(c) ==
    /\ c.op = "grants"
    /\ \E at \in {"ok", "failed"} :
          calls' = (calls \ {c}) \cup {[c EXCEPT !.at = at, !.arg = granted]}
    /\ UNCHANGED <<stage, granted>>

\* A grant that is not the user's any more is refused, and the revocation may
\* fail.
RevokeOAuthGrant(c) ==
    /\ c.op = "revoke"
    /\ \/ c.arg \in granted /\ granted' = granted \ {c.arg} /\ Reply(c)
       \/ UNCHANGED granted /\ Answer(c, "failed")
    /\ UNCHANGED stage

Serve(c) ==
    /\ c.at = "sent"
    /\ \/ Scan(c) \/ MobileConfirm(c) \/ MobileCancel(c)
       \/ UpdateAvatar(c) \/ GetLogs(c) \/ GetOAuthGrants(c) \/ RevokeOAuthGrant(c)
    /\ UNCHANGED <<section, life, tries, camera, target, timers, isScanning, ask, bound, late,
                   avatar, log, currentPage, failed, list>>

\* The request never arrives.
Lose(c) ==
    /\ c.at = "sent"
    /\ Answer(c, "failed")
    /\ UNCHANGED <<section, life, tries, scanner, avatar, lists>>

\* A code expires, or its PC takes it back.
Lapse(c) ==
    /\ section = "scan" /\ stage[c] \in {"pending", "scanned"}
    /\ stage' = [stage EXCEPT ![c] = "gone"]
    /\ UNCHANGED <<section, life, calls, tries, camera, target, timers, isScanning, ask, bound,
                   late, avatar, lists>>

Next ==
    \/ ScanStep
    \/ AvatarStep
    \/ ListStep
    \/ \E o \in Openings : Close(o)
    \/ \E c \in calls : Serve(c) \/ Lose(c)
    \/ \E c \in Codes : Lapse(c)

Spec == Init /\ [][Next]_vars

(***************************************************************************)
(* Properties                                                              *)
(***************************************************************************)

\* A camera that runs belongs to a scanner the user sees, and to one only:
\* closing the dialog at any moment, while getUserMedia is pending too, ends it.
CameraReleased ==
    \A o \in Openings : camera[o] = "on" => Open(o) /\ \A p \in Openings : Open(p) => p = o

\* One click logs in the PC the dialog describes and no other, as long as no
\* scan was answered after its scanner had been closed.
ConfirmsShown ==
    ask.shown /\ ~late => {target[o] : o \in bound} = {ask.info}

\* What the avatar dialog would save is the picture it shows, when that
\* picture was chosen in this opening.
SavesPreview ==
    \A o \in Openings :
        section = "avatar" /\ Open(o) /\ preview.by = o => validatedUrl[o] = preview.url

\* The log shows the pages asked for in this opening, each once and in order;
\* those missing failed or are on their way.
LogInOrder ==
    \A o \in Openings : section = "logs" /\ Open(o) =>
        LET rows == log.rows
            pending == {c.arg : c \in {x \in calls : x.op = "logs" /\ x.of = o}} IN
        /\ \A m, n \in 1 .. Len(rows) : m < n => rows[m] < rows[n]
        /\ (1 .. currentPage[o]) \cap (1 .. Pages) \subseteq ToSet(rows) \cup failed[o] \cup pending
==============================================================================
