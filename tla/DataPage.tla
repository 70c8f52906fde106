------------------------------- MODULE DataPage -------------------------------
(***************************************************************************)
(* Backups: the administration's data page (modules/admin/assets/js/       *)
(* data.ts) and the service behind it (internal/services/export.go,        *)
(* internal/handlers/admin/data.go).  An export needs a one-time code that *)
(* the server writes to its log; there is one code for the whole server.   *)
(* An import uploads a file, shows what is in it, and executes it with the *)
(* token of the upload.  Every tab is another super administrator's.       *)
(*                                                                         *)
(* A code is named by the request that made it.  Texts, the contents of    *)
(* the backup and the strategy of an import are left out.  Exports and     *)
(* imports share nothing, so a behaviour is about one of them.             *)
(***************************************************************************)
EXTENDS Naturals, FiniteSets

CONSTANTS
    Tabs,
    Exports,        \* export requests, which number the codes (bound)
    Uploads,        \* uploaded files, which number the tokens (bound)
    Guesses,        \* downloads and imports asked for in all (bound)
    otacMaxTries

VARIABLES
    section,        \* "export" or "import"
    auth,           \* per tab: the export dialog, its timer, exportRequestId
    picked,         \* per tab: the import dialog, the token of its texts, importFileToken
    traffic,        \* requests under way
    otac,           \* currentOTAC
    stored,         \* fileTokenMap
    requested, uploaded, guesses,   \* used up of the bounds
    handed,         \* history: per code, the backups handed out for it
    wrong,          \* history: per code, the wrong guesses
    imported        \* history: per token, the imports of its file

page    == <<auth, picked>>
service == <<otac, stored, handed, wrong, imported>>
spent   == <<section, requested, uploaded, guesses>>
vars    == <<page, traffic, service, spent>>

NoRequest == 0
NoGuess   == 0
NoOtac    == [request |-> NoRequest, owner |-> NoRequest, attempts |-> 0]

\* The page before its first visit; sec is the section in use.
Rest(sec) ==
    /\ section = sec
    /\ auth = [t \in Tabs |-> [open |-> FALSE, timer |-> FALSE, request |-> NoRequest]]
    /\ picked = [t \in Tabs |-> [open |-> FALSE, shown |-> 0, token |-> 0, busy |-> FALSE]]
    /\ traffic = {}
    /\ otac = NoOtac /\ stored = {}
    /\ requested = 0 /\ uploaded = 0 /\ guesses = 0
    /\ handed = [r \in 1 .. Exports |-> 0] /\ wrong = [r \in 1 .. Exports |-> 0]
    /\ imported = [n \in 1 .. Uploads |-> 0]

Init == \E sec \in {"export", "import"} : Rest(sec)

\* live: the button that was pressed is still on the page; again: another
\* download of its tab with the same code is under way.
Call(op, t, arg, code) ==
    [op |-> op, tab |-> t, arg |-> arg, code |-> code, at |-> "sent", live |-> op = "request",
     again |-> \E c \in traffic : /\ c.op = "download" /\ op = "download" /\ c.tab = t
                                  /\ c.arg = arg /\ c.code = code /\ ~c.again]
Answered(c, op) == c.op = op /\ c.at # "sent" /\ traffic' = traffic \ {c}
Covered(t) == auth[t].open \/ picked[t].open

(***************************************************************************)
(* The export dialog                                                       *)
(***************************************************************************)

\* initDataPage on every visit makes new buttons.
Visit(t) ==
    /\ ~Covered(t) /\ \E c \in traffic : c.tab = t /\ c.live
    /\ traffic' = {IF c.tab = t THEN [c EXCEPT !.live = FALSE] ELSE c : c \in traffic}
    /\ UNCHANGED <<page, service, spent>>

\* The button of an export is off until its answer.
RequestExport(t) ==
    /\ section = "export" /\ ~Covered(t) /\ requested < Exports
    /\ ~ \E c \in traffic : c.op = "request" /\ c.tab = t /\ c.live
    /\ requested' = requested + 1
    /\ traffic' = traffic \cup {Call("request", t, requested + 1, NoGuess)}
    /\ UNCHANGED <<section, page, service, uploaded, guesses>>

\* showExportAuthModal: the dialog is emptied, the timer replaced.
ShowExportAuth(c) ==
    /\ Answered(c, "request")
    /\ auth' = IF c.at = "failed" THEN auth
               ELSE [auth EXCEPT ![c.tab].open = TRUE, ![c.tab].timer = TRUE,
                                 ![c.tab].request = c.arg]
    /\ UNCHANGED <<picked, service, spent>>

\* The interval finds no time left: it stops and hides the dialog.
TimeIsUp(t) ==
    /\ auth[t].timer
    /\ auth' = [auth EXCEPT ![t].timer = FALSE, ![t].open = FALSE]
    /\ UNCHANGED <<picked, traffic, service, spent>>

\* Close and cancel give the code up; nobody waits for the answer.
CloseExport(t) ==
    /\ auth[t].open
    /\ auth' = [auth EXCEPT ![t].timer = FALSE, ![t].open = FALSE]
    /\ traffic' = traffic \cup {Call("revoke", t, NoRequest, NoGuess)}
    /\ UNCHANGED <<picked, service, spent>>

\* code is what the user has typed, of this request or a wrong one.  The click
\* puts the button off, but the next key puts it on again: downloads overlap.
Download(t, code) ==
    /\ auth[t].open /\ guesses < Guesses
    /\ traffic' = traffic \cup {Call("download", t, auth[t].request, code)}
    /\ guesses' = guesses + 1
    /\ UNCHANGED <<section, page, service, requested, uploaded>>

\* After a wrong code or a lost answer the dialog waits for another try, any
\* other answer closes it, and it may be the dialog of a later code by now.
Downloaded(c) ==
    /\ Answered(c, "download")
    /\ auth' = IF c.at \in {"wrong", "failed"} THEN auth
               ELSE [auth EXCEPT ![c.tab].timer = FALSE, ![c.tab].open = FALSE]
    /\ UNCHANGED <<picked, service, spent>>

(***************************************************************************)
(* The import dialog                                                       *)
(***************************************************************************)

\* handleImportPreview up to its await; nothing keeps two from overlapping.
Upload(t) ==
    /\ section = "import" /\ ~Covered(t) /\ uploaded < Uploads
    /\ uploaded' = uploaded + 1
    /\ traffic' = traffic \cup {Call("upload", t, uploaded + 1, NoGuess)}
    /\ UNCHANGED <<section, page, service, requested, guesses>>

Previewed(c) ==
    /\ Answered(c, "upload")
    /\ picked' = IF c.at = "failed" THEN picked
                 ELSE [picked EXCEPT ![c.tab].open = TRUE, ![c.tab].token = c.arg,
                                     ![c.tab].shown = c.arg]
    /\ UNCHANGED <<auth, service, spent>>

ClosePreview(t) ==
    /\ picked[t].open
    /\ picked' = [picked EXCEPT ![t].open = FALSE]
    /\ UNCHANGED <<auth, traffic, service, spent>>

ConfirmImport(t) ==
    /\ picked[t].open /\ ~picked[t].busy /\ guesses < Guesses
    /\ picked' = [picked EXCEPT ![t].busy = TRUE]
    /\ traffic' = traffic \cup {Call("import", t, picked[t].token, picked[t].shown)}
    /\ guesses' = guesses + 1
    /\ UNCHANGED <<section, auth, service, requested, uploaded>>

\* A lost answer leaves the dialog open, with its button, for another try.
Imported(c) ==
    /\ Answered(c, "import")
    /\ picked' = [picked EXCEPT ![c.tab].busy = FALSE, ![c.tab].open = @ /\ c.at = "failed"]
    /\ UNCHANGED <<auth, service, spent>>

(***************************************************************************)
(* The service                                                             *)
(***************************************************************************)

Answer(c, at) == traffic' = (traffic \ {c}) \cup {[c EXCEPT !.at = at]}
\* What was done on the server may be lost on the way back.
Arrives(c, at) == Answer(c, at) \/ Answer(c, "failed")

\* GenerateOTAC: the code before it is void.
GenerateOTAC(c) ==
    /\ c.op = "request" /\ c.at = "sent"
    /\ otac' = [request |-> c.arg, owner |-> c.tab, attempts |-> 0]
    /\ Arrives(c, "ok")
    /\ UNCHANGED <<page, spent, stored, handed, wrong, imported>>

\* ValidateOTAC: a match destroys the code, and the last try does.
Match(c)  == c.code = otac.request
Known(c)  == otac # NoOtac /\ otac.request = c.arg /\ otac.owner = c.tab
Tried     == [otac EXCEPT !.attempts = @ + 1]
Used(c)   == IF Match(c) \/ Tried.attempts >= otacMaxTries THEN NoOtac ELSE Tried

\* Mutant: a code that matched stays valid.
ValidateKeeping(c) ==
    IF ~Known(c) THEN otac
    ELSE IF Tried.attempts >= otacMaxTries THEN NoOtac ELSE Tried

ValidateOTAC(c) == IF ~Known(c) THEN otac ELSE Used(c)

\* DownloadExport: the code is used up although the backup may fail after it.
DownloadExport(c) ==
    /\ c.op = "download" /\ c.at = "sent"
    /\ otac' = ValidateOTAC(c)
    /\ IF ~Known(c) THEN Arrives(c, "wrong") /\ UNCHANGED <<handed, wrong>>
       ELSE IF Match(c)
       THEN /\ \/ Arrives(c, "ok") /\ handed' = [handed EXCEPT ![c.arg] = @ + 1]
               \/ Arrives(c, "refused") /\ UNCHANGED handed
            /\ UNCHANGED wrong
       ELSE /\ Arrives(c, IF Tried.attempts >= otacMaxTries THEN "refused" ELSE "wrong")
            /\ wrong' = [wrong EXCEPT ![c.arg] = @ + 1]
            /\ UNCHANGED handed
    /\ UNCHANGED <<page, spent, stored, imported>>

\* RevokeOTAC: whichever code there is, and nobody reads the answer.
RevokeOTAC(c) ==
    /\ c.op = "revoke" /\ c.at = "sent"
    /\ otac' = NoOtac
    /\ traffic' = traffic \ {c}
    /\ UNCHANGED <<page, spent, stored, handed, wrong, imported>>

\* PreviewImport: StoreFile.
StoreFile(c) ==
    /\ c.op = "upload" /\ c.at = "sent"
    /\ stored' = stored \cup {c.arg}
    /\ Arrives(c, "ok")
    /\ UNCHANGED <<page, spent, otac, handed, wrong, imported>>

\* ExecuteImport: RetrieveFile takes the file before anything can fail.
ExecuteImport(c) ==
    /\ c.op = "import" /\ c.at = "sent" /\ c.arg \in stored
    /\ stored' = stored \ {c.arg}
    /\ \/ Arrives(c, "ok") /\ imported' = [imported EXCEPT ![c.arg] = @ + 1]
       \/ Arrives(c, "refused") /\ UNCHANGED imported
    /\ UNCHANGED <<page, spent, otac, handed, wrong>>

Refuse(c) ==
    /\ c.at = "sent"
    /\ IF c.op = "import" /\ c.arg \notin stored THEN Arrives(c, "refused")
       ELSE IF c.op = "revoke" THEN traffic' = traffic \ {c}
       ELSE Answer(c, "failed")
    /\ UNCHANGED <<page, service, spent>>

\* cleanupLoop and the age ValidateOTAC looks at.
Expire ==
    /\ \/ otac # NoOtac /\ otac' = NoOtac /\ UNCHANGED stored
       \/ \E n \in stored : stored' = stored \ {n} /\ UNCHANGED otac
    /\ UNCHANGED <<page, traffic, spent, handed, wrong, imported>>

Next ==
    \/ \E t \in Tabs :
          \/ Visit(t) \/ RequestExport(t) \/ TimeIsUp(t) \/ CloseExport(t)
          \/ Upload(t) \/ ClosePreview(t) \/ ConfirmImport(t)
          \/ \E code \in 1 .. Exports : Download(t, code)
    \/ \E c \in traffic :
          \/ ShowExportAuth(c) \/ Downloaded(c) \/ Previewed(c) \/ Imported(c)
          \/ GenerateOTAC(c) \/ DownloadExport(c) \/ RevokeOTAC(c) \/ StoreFile(c)
          \/ ExecuteImport(c) \/ Refuse(c)
    \/ Expire

Spec == Init /\ [][Next]_vars

(***************************************************************************)
(* Properties                                                              *)
(***************************************************************************)

\* A code hands one backup out at most and dies with its third wrong guess,
\* whatever downloads, retries and closed dialogs cross each other.
CodeSpentOnce == \A r \in 1 .. Exports : handed[r] <= 1 /\ wrong[r] <= otacMaxTries

\* An upload is imported at most once, although the dialog stays open after a
\* lost answer, and only by a click on the preview of that very file.
ImportedOnce ==
    /\ \A n \in 1 .. Uploads : imported[n] <= 1
    /\ \A c \in traffic : c.op = "import" => c.code = c.arg

=============================================================================
