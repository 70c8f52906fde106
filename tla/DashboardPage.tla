--------------------------- MODULE DashboardPage ---------------------------
(***************************************************************************)
(* The page behind the dashboard's dialogs (the DOMContentLoaded handler   *)
(* of modules/account/assets/js/dashboard.ts): it loads, shows the         *)
(* account, links and unlinks providers, and reads the session again after *)
(* every change.  user.current is the last such reading; two readings may  *)
(* be under way at once and end in any order.                              *)
(*                                                                         *)
(* The dialogs that change a name or an avatar are in AccountForms and     *)
(* Dashboard: here they succeed, and their callbacks run.  Texts, heights  *)
(* and icons are left out.                                                 *)
(***************************************************************************)
EXTENDS Naturals, FiniteSets

CONSTANTS
    Providers,      \* "microsoft", "google"
    NoProvider,
    Changes         \* what the user and administrators do to the account (bound)

VARIABLES
    place,          \* "session", "consent", "ready", "left"
    account,        \* the row on the server: links, name, avatar, banned; names and
                    \* avatars are numbered, a provider's avatar is one of them
    copies,         \* rows the account had since the page loads; the server's user
                    \* cache may still hold an older one
    user,           \* user.current
    shown,          \* what the page shows of it
    question,       \* the confirm dialog and what waits for it
    reads,          \* session readings under way
    posts,          \* other requests under way
    changes,
    stale           \* history: a reading failed, was answered out of order or from an
                    \* older copy

vars == <<place, account, copies, user, shown, question, reads, posts, changes, stale>>

NoAsk == [op |-> "none", of |-> NoProvider]

\* why: what the reading is for, and of what.
Read(why, of) == [n |-> changes, why |-> why, of |-> of, at |-> "sent", row |-> account]

Rest ==
    /\ place = "session"
    /\ account = [links |-> Providers, name |-> 0, avatar |-> 0, banned |-> FALSE]
    /\ copies = {account} /\ user = account /\ shown = account
    /\ question = NoAsk /\ reads = {} /\ posts = {} /\ changes = 0 /\ stale = FALSE

Init == Rest

Ready == place = "ready"
SetAccount(row) == account' = row /\ copies' = copies \cup {row}
Step  == changes < Changes /\ changes' = changes + 1

(***************************************************************************)
(* The page loads                                                          *)
(***************************************************************************)

\* verifySession: the row is read now and shown after the policies.
SessionVerified ==
    /\ place = "session"
    /\ \/ place' = "consent" /\ user' = account
       \/ place' = "left" /\ UNCHANGED user
    /\ UNCHANGED <<account, copies, shown, question, reads, posts, changes, stale>>

\* checkPolicyConsent, then everything is shown.
Consented ==
    /\ place = "consent"
    /\ \/ place' = "ready" /\ shown' = user
       \/ place' = "left" /\ UNCHANGED shown
    /\ UNCHANGED <<account, copies, user, question, reads, posts, changes, stale>>

(***************************************************************************)
(* Links, logout and export                                                *)
(***************************************************************************)

\* What is asked depends on user.current, not on what is shown.
ClickLink(p) ==
    /\ Ready /\ question = NoAsk
    /\ question' = [op |-> IF p \in user.links THEN "unlink" ELSE "link", of |-> p]
    /\ UNCHANGED <<place, account, copies, user, shown, reads, posts, changes, stale>>

ClickLogout ==
    /\ Ready /\ question = NoAsk
    /\ question' = [op |-> "logout", of |-> NoProvider]
    /\ UNCHANGED <<place, account, copies, user, shown, reads, posts, changes, stale>>

\* handleDataExport up to its confirm dialog.
DataExport ==
    /\ Ready /\ question = NoAsk
    /\ question' = [op |-> "export", of |-> NoProvider]
    /\ UNCHANGED <<place, account, copies, user, shown, reads, posts, changes, stale>>

\* showConfirm resolves to true; linking goes to the provider's page.
Confirmed ==
    /\ Ready /\ question # NoAsk /\ Step
    /\ question' = NoAsk
    /\ IF question.op = "link" THEN place' = "left" /\ UNCHANGED posts
       ELSE posts' = posts \cup {[n |-> changes, op |-> question.op, of |-> question.of, at |-> "sent"]}
            /\ UNCHANGED place
    /\ UNCHANGED <<account, copies, user, shown, reads, stale>>

Declined ==
    /\ Ready /\ question # NoAsk
    /\ question' = NoAsk
    /\ UNCHANGED <<place, account, copies, user, shown, reads, posts, changes, stale>>

\* An unlinked provider is shown only after the session was read again.
Unlinked(c) ==
    /\ Ready /\ c.op = "unlink" /\ c.at # "sent"
    /\ posts' = posts \ {c}
    /\ reads' = IF c.at = "ok" THEN reads \cup {Read("unlink", c.of)} ELSE reads
    /\ UNCHANGED <<place, account, copies, user, shown, question, changes, stale>>

\* logout goes to the page login whatever the answer.
LoggedOut(c) ==
    /\ Ready /\ c.op = "logout" /\ c.at # "sent"
    /\ place' = "left" /\ posts' = posts \ {c}
    /\ UNCHANGED <<account, copies, user, shown, question, reads, changes, stale>>

Exported(c) ==
    /\ Ready /\ c.op = "export" /\ c.at # "sent"
    /\ posts' = posts \ {c}
    /\ UNCHANGED <<place, account, copies, user, shown, question, reads, changes, stale>>

(***************************************************************************)
(* The dialogs' callbacks and the readings                                 *)
(***************************************************************************)

\* The dialog for a new name succeeded.
NameChanged ==
    /\ Ready /\ Step
    /\ SetAccount([account EXCEPT !.name = changes + 1])
    /\ reads' = reads \cup {[Read("name", NoProvider) EXCEPT !.row = account']}
    /\ UNCHANGED <<place, user, shown, question, posts, stale>>

\* The dialog for an avatar succeeded: handleAvatarUpdated.
AvatarChanged ==
    /\ Ready /\ Step
    /\ SetAccount([account EXCEPT !.avatar = changes + 1])
    /\ reads' = reads \cup {[Read("avatar", changes + 1) EXCEPT !.row = account']}
    /\ UNCHANGED <<place, user, shown, question, posts, stale>>

\* updateMicrosoftStatus, updateGoogleStatus; the new name as user.current has
\* it; the avatar that was saved.
Repainted(r, row) ==
    CASE r.why = "unlink" -> [shown EXCEPT !.links = @ \ {r.of}]
      [] r.why = "name"   -> [shown EXCEPT !.name = row.name]
      [] OTHER            -> [shown EXCEPT !.avatar = r.of]

\* Another reading was asked for before r, or its answer is another one.
Crosses(r) == \E o \in reads \ {r} : o.n <= r.n \/ (o.at = "ok" /\ o.row # r.row)

\* Mutant: what is shown changes, user.current does not.
ReadingShown(r) ==
    /\ Ready /\ r.at # "sent"
    /\ reads' = reads \ {r}
    /\ shown' = Repainted(r, IF r.at = "ok" THEN r.row ELSE user)
    /\ stale' = (stale \/ r.at = "failed" \/ Crosses(r))
    /\ UNCHANGED <<place, account, copies, user, question, posts, changes>>

\* verifySession after its await.
ReadingDone(r) ==
    /\ Ready /\ r.at # "sent"
    /\ reads' = reads \ {r}
    /\ user' = IF r.at = "ok" THEN r.row ELSE user
    /\ shown' = Repainted(r, user')
    /\ stale' = (stale \/ r.at = "failed" \/ Crosses(r))
    /\ UNCHANGED <<place, account, copies, question, posts, changes>>

\* The language switcher applies the links of user.current again, and a ban:
\* updateBannedDisplay never takes one back.
SwitchLanguage ==
    /\ Ready
    /\ shown' = [shown EXCEPT !.links = user.links, !.banned = @ \/ user.banned]
    /\ UNCHANGED <<place, account, copies, user, question, reads, posts, changes, stale>>

(***************************************************************************)
(* The server                                                              *)
(***************************************************************************)

\* userCache.GetOrLoad answers with the row, or with an older copy that a
\* lookup stored late (UserCache); the answer may be lost.
GetMe(r) ==
    /\ r.at = "sent"
    /\ \E at \in {"ok", "failed"}, row \in copies :
          /\ reads' = (reads \ {r}) \cup {[r EXCEPT !.at = at, !.row = row]}
          /\ stale' = (stale \/ row # account)
    /\ UNCHANGED <<place, account, copies, user, shown, question, posts, changes>>

Answer(c, at) == posts' = (posts \ {c}) \cup {[c EXCEPT !.at = at]}

\* A link that is gone is refused; the update may fail, and the answer be lost.
Unlink(c) ==
    /\ c.op = "unlink" /\ c.at = "sent"
    /\ \/ /\ c.of \in account.links /\ SetAccount([account EXCEPT !.links = @ \ {c.of}])
          /\ \E at \in {"ok", "failed"} : Answer(c, at)
       \/ UNCHANGED <<account, copies>> /\ Answer(c, "failed")
    /\ UNCHANGED <<place, user, shown, question, reads, changes, stale>>

\* The page goes on alike after a failure of these two.
Logout(c) ==
    /\ c.op = "logout" /\ c.at = "sent" /\ Answer(c, "ok")
    /\ UNCHANGED <<place, account, copies, user, shown, question, reads, changes, stale>>

RequestDataExport(c) ==
    /\ c.op = "export" /\ c.at = "sent" /\ Answer(c, "ok")
    /\ UNCHANGED <<place, account, copies, user, shown, question, reads, changes, stale>>

\* An administrator bans the user or lifts the ban (BanUser, UnbanUser).
SetBan ==
    /\ place # "left" /\ Step
    /\ SetAccount([account EXCEPT !.banned = ~@])
    /\ UNCHANGED <<place, user, shown, question, reads, posts, stale>>

Next ==
    \/ SessionVerified \/ Consented
    \/ \E p \in Providers : ClickLink(p)
    \/ ClickLogout \/ DataExport \/ Confirmed \/ Declined
    \/ \E c \in posts : \/ Unlinked(c) \/ LoggedOut(c) \/ Exported(c)
                       \/ Unlink(c) \/ Logout(c) \/ RequestDataExport(c)
    \/ NameChanged
    \/ AvatarChanged
    \/ \E r \in reads : ReadingDone(r) \/ GetMe(r)
    \/ SwitchLanguage
    \/ SetBan

Spec == Init /\ [][Next]_vars

(***************************************************************************)
(* Properties                                                              *)
(***************************************************************************)

\* A provider shown as not linked is not linked; and once the readings are in,
\* as long as none failed, overtook another or was answered from an older copy,
\* a click on it offers to link it and the page shows the account's own name and avatar.
ProfileShown ==
    Ready =>
        /\ account.links \subseteq shown.links
        /\ ~stale /\ reads = {} =>
              /\ user.links \subseteq shown.links
              /\ shown.name = account.name /\ shown.avatar = account.avatar
=============================================================================
