----------------------------- MODULE SitePages -----------------------------
(***************************************************************************)
(* The pages of the site in one browser: the forms of AccountForms, the    *)
(* dashboard and its dialogs, the popups, the administration and its data  *)
(* page, the policies, what a visitor agreed to, and the codes that come   *)
(* by mail.  The forms and the dialogs share the dialog controller, so the *)
(* openings, their lives and the requests under way are one.  Going to     *)
(* another page drops the scripts of the one before, so a behaviour stays  *)
(* on one page; what the other modules keep rests.                         *)
(***************************************************************************)
EXTENDS Naturals, Sequences, FiniteSets, Functions

CONSTANTS
    Openings, Entries, Invalid, Requests,                   \* AccountForms
    Codes, NoCode, Junk, Urls, Apps, Pages, Tries,          \* Dashboard
    Providers, NoProvider, Changes,                         \* DashboardPage
    Links, NoLink, Alerts, Clicks,                          \* Popups
    Letters, NoLetter, Accounts,                            \* MailCodes
    Items, NoItem, Calls, Fetches, currentUserRole,         \* AdminPage
    Tabs, Exports, Uploads, Guesses, otacMaxTries,          \* DataPage
    Versions, Languages, NoLang, DefaultLang, Visits,       \* Consents
    Policies, Privacy, Manifest, Latest, Notice, NoText, Moves   \* PolicyPage

\* The instances are of these values: sentinels lie outside the sets they stand
\* beside, bounds are numbers, and the manifest is well-formed.
ASSUME SentinelsAssumption ==
    /\ Invalid \notin Entries /\ NoCode \notin Codes \cup {Junk} /\ Junk \notin Codes
    /\ NoProvider \notin Providers /\ NoLink \notin Links /\ NoItem \notin Items
    /\ NoLetter \notin Letters /\ {"page", "nobody", "none"} \cap Openings = {}
    /\ NoLang \notin Languages /\ DefaultLang \in Languages /\ currentUserRole \in {1, 2}

ASSUME BoundsAssumption ==
    /\ {Requests, Tries, Changes, Alerts, Clicks, Fetches, Exports, Uploads, Guesses, Visits, Moves,
        Accounts} \subseteq Nat
    /\ {Pages, otacMaxTries, Versions} \subseteq Nat \ {0}

ASSUME ManifestAssumption ==
    /\ Privacy \in Policies /\ Latest # Notice
    /\ \A p \in Policies : IsFiniteSet(DOMAIN Manifest[p])
    /\ \A p \in Policies : \A v \in DOMAIN Manifest[p] :
          /\ v \in Nat /\ v # Latest
          /\ Manifest[p][v].status \in {"effective", "public_notice", "scheduled"}
          /\ Manifest[p][v].languages \in Seq(STRING) /\ IsInjective(Manifest[p][v].languages)

VARIABLES
    section, life, calls,
    siteKey, turnstile, typed, sendOn, submitOn, pending, initing, widget, solved, orphan,
    overdue, countdown, cookie, codeSent, step, currentEmail, accounts, coded, unseen, phase, requests,
    tries, camera, target, timers, isScanning, ask, bound, stage, late, validatedUrl, preview,
    enabled, readOnly, images, log, currentPage, failed, list, granted,
    place, account, copies, user, shown, question, reads, posts, changes, stale,
    alert, listed, link, attached, opened, showing, clicks, hidden,
    adminList, server, crossed, rows, fading, cache, entries, detail, confirm, armed, current, ban,
    form, secret, call, fetches,
    auth, picked, traffic, otac, stored, requested, uploaded, guesses, handed, wrong, imported,
    gate, writing, effective, consents, session, jar, page, torn, visits,
    purpose, tokens, codes, tab, seen, order, member, born, spent,
    startup, known, language, hash, events, policyCache, currentRouteKey, content, frame,
    versionInfo, lines, renders, asked, moves, missed

Form   == INSTANCE AccountForms
Dash   == INSTANCE Dashboard
Home   == INSTANCE DashboardPage
Mail   == INSTANCE Popups
Admin  == INSTANCE AdminPage WITH section <- adminList, left <- fetches
Data   == INSTANCE DataPage
Agree  == INSTANCE Consents
Letter == INSTANCE MailCodes
Policy == INSTANCE PolicyPage

dialogs   == <<life, calls>>
formPart  == <<siteKey, turnstile, typed, sendOn, submitOn, pending, initing, widget, solved,
               orphan, overdue, countdown, cookie, codeSent, step, currentEmail, accounts, coded,
               unseen, phase, requests>>
dashPart  == <<tries, camera, target, timers, isScanning, ask, bound, stage, late, validatedUrl,
               preview, enabled, readOnly, images, log, currentPage, failed, list, granted>>
homePart  == <<place, account, copies, user, shown, question, reads, posts, changes, stale>>
mailPart  == <<alert, listed, link, attached, opened, showing, clicks, hidden>>
adminPart == <<adminList, server, crossed, rows, fading, cache, entries, detail, confirm, armed,
               current, ban, form, secret, call, fetches>>
dataPart  == <<auth, picked, traffic, otac, stored, requested, uploaded, guesses, handed, wrong,
               imported>>
agreePart == <<gate, writing, effective, consents, session, jar, page, torn, visits>>
codePart  == <<purpose, tokens, codes, tab, seen, order, member, born, spent>>
policyPart == <<startup, known, language, hash, events, policyCache, currentRouteKey, content,
                frame, versionInfo, lines, renders, asked, moves, missed>>

Forms    == Form!FormPages \cup Form!Dialogs
Dialogs  == {"scan", "avatar", "logs", "grants"}
Sections == Forms \cup Dialogs \cup
            {"home", "popups", "admin", "export", "import", "gate", "cookies", "verify", "policy"}

\* What AccountForms and AdminPage may start with matters on their own pages.
Init ==
    /\ section \in Sections
    /\ life = [o \in Openings |-> "new"] /\ calls = {}
    /\ Form!Starts(section) /\ (section \notin Forms => ~siteKey)
    /\ Dash!Rest /\ Home!Rest /\ Mail!Rest /\ Policy!Rest
    /\ IF section = "admin" THEN Admin!Init ELSE Admin!Rest("logs")
    /\ Data!Rest(section) /\ Agree!Rest(section)
    /\ \E existing \in (IF section = "verify" THEN {0, 1} ELSE {0}) : Letter!Rest(existing)

Next ==
    \/ /\ section \in Forms /\ Form!Next
       /\ UNCHANGED <<dashPart, homePart, mailPart, adminPart, dataPart, agreePart, codePart,
                      policyPart>>
    \/ /\ section \in Dialogs /\ Dash!Next
       /\ UNCHANGED <<formPart, homePart, mailPart, adminPart, dataPart, agreePart, codePart,
                      policyPart>>
    \/ /\ section = "home" /\ Home!Next
       /\ UNCHANGED <<section, dialogs, formPart, dashPart, mailPart, adminPart, dataPart, agreePart,
                      codePart, policyPart>>
    \/ /\ section = "popups" /\ Mail!Next
       /\ UNCHANGED <<section, dialogs, formPart, dashPart, homePart, adminPart, dataPart, agreePart,
                      codePart, policyPart>>
    \/ /\ section = "admin" /\ Admin!Next
       /\ UNCHANGED <<section, dialogs, formPart, dashPart, homePart, mailPart, dataPart, agreePart,
                      codePart, policyPart>>
    \/ /\ section \in {"export", "import"} /\ Data!Next
       /\ UNCHANGED <<dialogs, formPart, dashPart, homePart, mailPart, adminPart, agreePart,
                      codePart, policyPart>>
    \/ /\ section \in {"gate", "cookies"} /\ Agree!Next
       /\ UNCHANGED <<dialogs, formPart, dashPart, homePart, mailPart, adminPart, dataPart,
                      codePart, policyPart>>
    \/ /\ section = "verify" /\ Letter!Next
       /\ UNCHANGED <<section, dialogs, formPart, dashPart, homePart, mailPart, adminPart, dataPart,
                      agreePart, policyPart>>
    \/ /\ section = "policy" /\ Policy!Next
       /\ UNCHANGED <<section, dialogs, formPart, dashPart, homePart, mailPart, adminPart, dataPart,
                      agreePart, codePart>>

Spec == Init /\ [][Next]_<<section, dialogs, formPart, dashPart, homePart, mailPart, adminPart,
                           dataPart, agreePart, codePart, policyPart>>

(***************************************************************************)
(* Properties                                                              *)
(***************************************************************************)

\* While the button of register or of the deletion dialog counts down, no code
\* can be asked for: typing, late answers and reloads leave it off
\* (updateSendCodeButtonState, handleSendCode, resumeCountdown).
CountdownHolds == Form!CountdownHolds

\* A captcha on display does something once it is solved: its callback has an
\* address, credentials or an open dialog to send for (onSendCodeClick,
\* handleLogin, initCaptcha and the dialogs' cleanup).
CaptchaServes == Form!CaptchaServes

\* The address whose password the page forgot resets has a code created for it
\* if anybody registered with it, whatever was typed or expired while the code
\* was under way (sendResetCode, handleResetSubmit, SendResetCode).
ResetsCoded == Form!ResetsCoded

\* A running camera belongs to the one scanner the user sees, also when the
\* dialog closes while getUserMedia is pending (showQrScanModal).
CameraReleased == Dash!CameraReleased

\* A confirm dialog does what it says, for the PC or the row it shows: no
\* handler of a dialog that was closed before runs with its button
\* (showQrLoginConfirmModal, showConfirm of the administration).
ConfirmsShown == Dash!ConfirmsShown /\ Admin!ConfirmNames

\* What the avatar dialog saves is the picture it shows, however many pictures
\* load at once (loadNewAvatar, handleConfirm).
SavesPreview == Dash!SavesPreview

\* The log lists the pages of this opening once and in order, though answers
\* of earlier openings arrive and pages fail (loadLogs, handleLoadMore).
LogInOrder == Dash!LogInOrder

\* A provider the dashboard shows as not linked is not, and after the readings
\* that follow a change it shows the account's name, avatar and links
\* (verifySession, updateMicrosoftStatus, handleAvatarUpdated).
ProfileShown == Home!ProfileShown

\* The question before a foreign page opens the link it shows and no other,
\* unless an earlier question was hidden by Escape (showExternalLinkConfirm).
OpensLinkShown == Mail!OpensLinkShown

\* A deleted item comes back neither to the table nor to its cache, although
\* refreshes of its row are under way (animateTableRow, updateTableRow).
DeletedStaysAway == Admin!DeletedStaysAway

\* A code hands one backup out at most and dies with its third wrong guess;
\* an upload is imported once at most.  The link of a letter gives its code to
\* one page, and that code resets one password (ValidateOTAC, RetrieveFile,
\* MarkUsedAndGet, UseCode).
SpentOnce ==
    /\ Data!CodeSpentOnce /\ Data!ImportedOnce
    /\ Letter!OnePage /\ Letter!OneReset

\* A page entered by agreeing to the policies has them all on record; a visitor
\* who rejected optional cookies has none (RecordConsent, clearOptionalCookies).
ConsentKept == Agree!GateKept /\ Agree!RejectionHolds

\* The policy page ends with the text its address asks for, in the language of
\* the page, and with the banner and the switcher that go with it
\* (handleRouteChange, renderPolicy).
RouteShown == Policy!RouteShown
=============================================================================
