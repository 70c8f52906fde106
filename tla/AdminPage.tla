------------------------------ MODULE AdminPage ------------------------------
(***************************************************************************)
(* The administration page (modules/admin/assets/js): the lists of users,  *)
(* OAuth clients and whitelisted mail domains, the dialogs over them, and  *)
(* the helpers of common.ts they share.                                    *)
(*                                                                         *)
(* A row's value is the set of flags the footers look at; texts, search    *)
(* and pagination are abstracted: a list answers any part of the live rows *)
(* and the rows that only say "loading" or "empty" are not counted.  The   *)
(* cache never reaches its hundred entries, and the counters that          *)
(* loadStats shows on another page are left out.  Every fetch is served by *)
(* the server at one step and delivered to the page at a later one, and    *)
(* the dialogs may have moved on by then.                                  *)
(***************************************************************************)
EXTENDS Naturals, Sequences, FiniteSets, SequencesExt

CONSTANTS
    Items, NoItem,
    Calls,          \* fetches of the page under way at once (bound)
    Fetches,        \* fetches the administrator causes in all (bound)
    currentUserRole \* of the administrator at the page

VARIABLES
    section,        \* the list on display
    server,         \* per item: its row in the database
    crossed,        \* history: items an answer about which crossed their deletion,
                    \* and those that had two rows at it
    rows, fading,   \* the table: its rows, and those removed with an animation
    cache,          \* usersCache, clientsCache, whitelistCache
    entries,        \* currentEntries of the whitelist
    detail,         \* the detail dialog: item and value its footer is bound to
    confirm,        \* the confirm dialog: the action it names
    armed,          \* click handlers on its OK button, in order of attachment
    current,        \* currentConfirmHandler
    ban,            \* the ban dialog, and currentBanUser
    form,           \* the form, and editingClientId or editingEntryId
    secret,         \* the dialog of a client's new secret, and its text
    call,           \* the page's fetches
    left            \* fetches the administrator may still cause

dialogs == <<detail, confirm, armed, current, ban, form, secret>>
table   == <<rows, fading, cache, entries>>
world   == <<section, server, crossed>>
quiet   == <<world, left>>
vars    == <<quiet, table, dialogs, call>>

Unborn == {"unborn"}
Gone   == {"gone"}
Alive(v) == v \notin {Unborn, Gone}
Sections == {"users", "oauth", "whitelist", "logs"}

\* What the details of a user, a client and an entry tell apart.
UserValues   == SUBSET {"banned", "admin"}
ClientValues == SUBSET {"on"}
EntryValues  == SUBSET {"on"}

\* What each write of the API sets and clears in the row.
Sets   == [ban |-> {"banned"}, unban |-> {}, promote |-> {"admin"}, demote |-> {},
           enable |-> {"on"}, disable |-> {}, regenerate |-> {},
           save |-> {}, saveOn |-> {"on"}, saveOff |-> {}]
Clears == [ban |-> {}, unban |-> {"banned"}, promote |-> {}, demote |-> {"admin"},
           enable |-> {}, disable |-> {"on"}, regenerate |-> {},
           save |-> {}, saveOn |-> {}, saveOff |-> {"on"}]

Saves   == {"save", "saveOn", "saveOff"}
UserWrites   == {"ban", "unban", "promote", "demote", "delete"}
ClientWrites == {"create", "save", "delete", "regenerate", "enable", "disable"}
EntryWrites  == {"create", "saveOn", "saveOff", "delete", "enable", "disable"}
Writes  == UserWrites \cup ClientWrites \cup EntryWrites

\* A list, or one item: for its dialog, which may show a cached copy meanwhile,
\* for its row, and for the row of what a form has saved.
UserReads   == {"list", "cached", "fresh", "row"}
ClientReads == UserReads \cup {"saved"}
EntryReads  == UserReads \cup {"saved"}
LogReads    == {"list"}
Reads == UserReads \cup ClientReads \cup EntryReads \cup LogReads
NoAction == [op |-> "none", item |-> NoItem]
NoRow    == "none"
NoCopy   == [i \in Items |-> Gone]
NoCall   == [op |-> "none", item |-> NoItem, at |-> "idle", copy |-> NoCopy, row |-> NoRow]
Hidden   == [open |-> FALSE, item |-> NoItem, value |-> Gone]

Sent(op, i) == [op |-> op, item |-> i, at |-> "sent", copy |-> NoCopy, row |-> NoRow]
Free(k)     == call[k] = NoCall
CanSend(k)  == Free(k) /\ left > 0 /\ left' = left - 1

\* The page before its first list; sec is the section in use.  New users
\* only come from the page register.
Rest(sec) ==
    /\ section = sec
    /\ CASE section = "users"     -> \E v \in UserValues : server = [i \in Items |-> v]
         [] section = "oauth"     -> \E v \in ClientValues : server \in [Items -> {v, Unborn}]
         [] section = "whitelist" -> \E v \in EntryValues : server \in [Items -> {v, Unborn}]
         [] OTHER -> server = [i \in Items |-> {}]
    /\ crossed = {}
    /\ rows = {} /\ fading = {} /\ cache = NoCopy /\ entries = NoCopy
    /\ detail = Hidden
    /\ confirm = [open |-> FALSE, names |-> NoAction]
    /\ armed = <<>> /\ current = NoAction
    /\ ban = [open |-> FALSE, user |-> NoItem, ready |-> FALSE]
    /\ form = [open |-> FALSE, shows |-> NoItem, editing |-> NoItem, saving |-> FALSE]
    /\ secret = [open |-> FALSE, text |-> FALSE]
    /\ call = [k \in Calls |-> NoCall]
    /\ left = Fetches

\* init: the menu offers clients and mail domains to super administrators.
Init == \E sec \in Sections :
            /\ sec \in {"oauth", "whitelist"} => currentUserRole = 2
            /\ Rest(sec)

(***************************************************************************)
(* The table and its cache                                                 *)
(***************************************************************************)

\* A row is there because a list had its item or because it was created on
\* this page, where it goes on top without a look at the others: an item may
\* have both, and a query by its number finds the upper one.
Both(i)    == {<<i, "listed">>, <<i, "added">>}
Rows(i)    == rows \cap Both(i)
HasRow(i)  == Rows(i) # {}
TopRow(i)  == IF <<i, "added">> \in rows THEN "added" ELSE "listed"

\* A fetch holds the row it is for; one that is taken out of the document
\* takes no part any more.
Held(k)      == <<call[k].item, call[k].row>>
Detached(rs) == [k \in Calls |-> IF Held(k) \in rs THEN [call[k] EXCEPT !.row = NoRow] ELSE call[k]]

\* A dialog covers what was open before it.
Uncovered == ~confirm.open /\ ~ban.open /\ ~form.open /\ ~secret.open

\* renderList up to its await: the table is emptied.
Load(k) ==
    /\ CanSend(k) /\ Uncovered /\ ~detail.open
    /\ rows' = {} /\ fading' = {}
    /\ call' = [Detached(rows) EXCEPT ![k] = Sent("list", NoItem)]
    /\ UNCHANGED <<world, cache, entries, dialogs>>

\* The search, the page's buttons and the menu all start the list again.
initUsersPage(k)     == section = "users" /\ Load(k)

initOAuthPage(k)     == section = "oauth" /\ Load(k)

initWhitelistPage(k) == section = "whitelist" /\ Load(k)

LoadLogs(k)          == section = "logs" /\ Load(k)

\* The rest of renderList: whichever answer comes last is on display.
Listed(k) ==
    /\ call[k].op = "list" /\ call[k].at # "sent"
    /\ rows' = {<<i, "listed">> : i \in {j \in Items : call[k].copy[j] # Gone}} /\ fading' = {}
    /\ call' = [Detached(rows) EXCEPT ![k] = NoCall]
    /\ UNCHANGED <<quiet, dialogs>>

Cached(k) == cache' = [i \in Items |-> IF call[k].copy[i] # Gone THEN call[k].copy[i] ELSE cache[i]]

ListUsers(k)   == section = "users" /\ Listed(k) /\ Cached(k) /\ UNCHANGED entries

ListClients(k) == section = "oauth" /\ Listed(k) /\ Cached(k) /\ UNCHANGED entries

\* The whitelist keeps what it lists for its form, logs are not cached.
ListEntries(k) ==
    /\ section = "whitelist" /\ Listed(k) /\ Cached(k)
    /\ entries' = IF call[k].at = "answered" THEN call[k].copy ELSE entries

ListLogs(k)    == section = "logs" /\ Listed(k) /\ UNCHANGED <<cache, entries>>

\* updateTableRow: nothing is fetched for an item that has no row.
RowFetch(k, i, op) ==
    [call EXCEPT ![k] = IF HasRow(i) THEN [Sent(op, i) EXCEPT !.row = TopRow(i)] ELSE NoCall]

\* ... after its await: the row it found before is replaced, wherever it is.
RowFetched(k) ==
    /\ call[k].op \in {"row", "saved"} /\ call[k].at # "sent"
    /\ LET i == call[k].item IN
       IF call[k].at = "failed"
       THEN call' = [call EXCEPT ![k] = NoCall] /\ UNCHANGED <<cache, fading>>
       ELSE /\ cache' = [cache EXCEPT ![i] = call[k].copy[i]]
            /\ fading' = fading \ {Held(k)}
            /\ call' = [Detached({Held(k)}) EXCEPT ![k] = NoCall]
    /\ form' = [form EXCEPT !.saving = @ /\ call[k].op # "saved"]
    /\ UNCHANGED <<quiet, rows, entries, detail, confirm, armed, current, ban, secret>>

UpdateUserRow(k)      == section = "users" /\ RowFetched(k)

UpdateClientRow(k)    == section = "oauth" /\ RowFetched(k)

UpdateWhitelistRow(k) == section = "whitelist" /\ RowFetched(k)

\* The timers of animateTableRow run out.
Faded(r) ==
    /\ r \in fading
    /\ rows' = rows \ {r} /\ fading' = fading \ {r}
    /\ call' = Detached({r})
    /\ UNCHANGED <<quiet, cache, entries, dialogs>>

(***************************************************************************)
(* Dialogs                                                                 *)
(***************************************************************************)

UserFooter(v) ==
    (IF "admin" \in v THEN {} ELSE IF "banned" \in v THEN {"unban"} ELSE {"ban"})
    \cup (IF currentUserRole < 2 THEN {}
          ELSE {"delete"} \cup (IF "admin" \in v THEN {"demote"}
                                ELSE IF "banned" \in v THEN {} ELSE {"promote"}))

ClientFooter(v) == {IF "on" \in v THEN "disable" ELSE "enable", "edit", "regenerate", "delete"}

EntryFooter(v)  == {IF "on" \in v THEN "disable" ELSE "enable", "edit", "delete"}

Footer(v) ==
    CASE section = "users"     -> UserFooter(v)
      [] section = "oauth"     -> ClientFooter(v)
      [] section = "whitelist" -> EntryFooter(v)
      [] OTHER -> {}

\* The row of i has a button that shows its details, while it is there.
UserRow(i)      == section = "users" /\ HasRow(i)

ClientRow(i)    == section = "oauth" /\ HasRow(i)

WhitelistRow(i) == section = "whitelist" /\ HasRow(i)

\* showDetailWithCache.
ShowDetail(k, i) ==
    /\ CanSend(k) /\ Uncovered /\ ~detail.open
    /\ detail' = [open |-> TRUE, item |-> IF Alive(cache[i]) THEN i ELSE NoItem, value |-> cache[i]]
    /\ call' = [call EXCEPT ![k] = Sent(IF Alive(cache[i]) THEN "cached" ELSE "fresh", i)]
    /\ UNCHANGED <<world, table, confirm, armed, current, ban, form, secret>>

ShowUserDetail(k, i)      == UserRow(i) /\ ShowDetail(k, i)

ShowClientDetail(k, i)    == ClientRow(i) /\ ShowDetail(k, i)

ShowWhitelistDetail(k, i) == WhitelistRow(i) /\ ShowDetail(k, i)

\* Its answer fills the dialog, whichever item that was opened for since.
Detailed(k) ==
    /\ call[k].op \in {"cached", "fresh"} /\ call[k].at # "sent"
    /\ LET i == call[k].item IN
       IF call[k].at = "answered"
       THEN /\ cache' = [cache EXCEPT ![i] = call[k].copy[i]]
            /\ detail' = IF detail.open
                         THEN [detail EXCEPT !.item = i, !.value = call[k].copy[i]] ELSE detail
       ELSE /\ detail' = IF call[k].op = "fresh" THEN Hidden ELSE detail
            /\ UNCHANGED cache
    /\ call' = [call EXCEPT ![k] = NoCall]
    /\ UNCHANGED <<quiet, rows, fading, entries, confirm, armed, current, ban, form, secret>>

HideDetail ==
    /\ detail.open /\ Uncovered
    /\ detail' = Hidden
    /\ UNCHANGED <<quiet, table, confirm, armed, current, ban, form, secret, call>>

Offers(op) == detail.open /\ Uncovered /\ detail.item # NoItem /\ op \in Footer(detail.value)

\* Mutant: it stays.
ShowConfirmOverOld(op) ==
    /\ Offers(op) /\ op \notin {"ban", "edit"}
    /\ LET a == [op |-> op, item |-> detail.item] IN
       /\ confirm' = [open |-> TRUE, names |-> a]
       /\ armed' = Append(armed, a)
       /\ current' = a
    /\ UNCHANGED <<quiet, table, detail, ban, form, secret, call>>

\* showConfirm: the handler that is still attached is taken off.
ShowConfirm(op) ==
    /\ Offers(op) /\ op \notin {"ban", "edit"}
    /\ LET a == [op |-> op, item |-> detail.item] IN
       /\ confirm' = [open |-> TRUE, names |-> a]
       /\ armed' = Append(RemoveFirst(armed, current), a)
       /\ current' = a
    /\ UNCHANGED <<quiet, table, detail, ban, form, secret, call>>

\* Cancel and backdrop only hide the dialog.
HideConfirm ==
    /\ confirm.open
    /\ confirm' = [confirm EXCEPT !.open = FALSE, !.names = NoAction]
    /\ UNCHANGED <<quiet, table, detail, armed, current, ban, form, secret, call>>

\* handleConfirm: every handler takes itself off, the first one runs.
Confirm(k) ==
    /\ confirm.open /\ CanSend(k) /\ armed # <<>>
    /\ confirm' = [open |-> FALSE, names |-> NoAction]
    /\ armed' = <<>> /\ current' = NoAction
    /\ call' = [call EXCEPT ![k] = Sent(Head(armed).op, Head(armed).item)]
    /\ UNCHANGED <<world, table, detail, ban, form, secret>>

\* showBanModal and the choice of a reason.
ShowBan ==
    /\ Offers("ban")
    /\ detail' = Hidden
    /\ ban' = [open |-> TRUE, user |-> detail.item, ready |-> FALSE]
    /\ UNCHANGED <<quiet, table, confirm, armed, current, form, secret, call>>

ChooseReason ==
    /\ ban.open /\ ~ban.ready
    /\ ban' = [ban EXCEPT !.ready = TRUE]
    /\ UNCHANGED <<quiet, table, detail, confirm, armed, current, form, secret, call>>

HideBan ==
    /\ ban.open
    /\ ban' = [ban EXCEPT !.open = FALSE, !.user = NoItem]
    /\ UNCHANGED <<quiet, table, detail, confirm, armed, current, form, secret, call>>

ConfirmBan(k) ==
    /\ ban.open /\ ban.ready /\ ban.user # NoItem /\ CanSend(k)
    /\ ban' = [ban EXCEPT !.ready = FALSE]
    /\ call' = [call EXCEPT ![k] = Sent("ban", ban.user)]
    /\ UNCHANGED <<world, table, detail, confirm, armed, current, form, secret>>

\* The form is for the item of the dialog, or for a new one.
ShowForm(i) ==
    /\ Uncovered
    /\ (i = NoItem /\ ~detail.open) \/ (Offers("edit") /\ i = detail.item)
    /\ detail' = Hidden
    /\ form' = [form EXCEPT !.open = TRUE, !.shows = i, !.editing = i]
    /\ UNCHANGED <<quiet, table, confirm, armed, current, ban, secret, call>>

ShowClientForm(i) == section = "oauth" /\ ShowForm(i)

OpenFormModal(i)  == section = "whitelist" /\ ShowForm(i)

\* Every form is hidden by its backdrop, and the client's by its buttons too;
\* the whitelist's buttons forget the item as well.
HideForm ==
    /\ form.open
    /\ form' = [form EXCEPT !.open = FALSE, !.shows = NoItem]
    /\ UNCHANGED <<quiet, table, detail, confirm, armed, current, ban, secret, call>>

CloseFormModal ==
    /\ section = "whitelist" /\ form.open
    /\ form' = [form EXCEPT !.open = FALSE, !.shows = NoItem, !.editing = NoItem]
    /\ UNCHANGED <<quiet, table, detail, confirm, armed, current, ban, secret, call>>

Submit(k, op) ==
    /\ form.open /\ ~form.saving /\ CanSend(k)
    /\ form' = [form EXCEPT !.saving = TRUE]
    /\ call' = [call EXCEPT ![k] = Sent(IF form.editing = NoItem THEN "create" ELSE op, form.editing)]
    /\ UNCHANGED <<world, table, detail, confirm, armed, current, ban, secret>>

\* handleFormSubmit up to its request.
SubmitClient(k) == section = "oauth" /\ Submit(k, "save")

\* handleSubmit: an edit sends the flag the entry has in the list that was
\* loaded last.
SubmitEntry(k) ==
    /\ section = "whitelist"
    /\ Submit(k, IF form.editing # NoItem /\ entries[form.editing] \notin {Gone, {"on"}}
                 THEN "saveOff" ELSE "saveOn")

HideSecret ==
    /\ secret.open
    /\ secret' = [open |-> FALSE, text |-> FALSE]
    /\ UNCHANGED <<quiet, table, detail, confirm, armed, current, ban, form, call>>

(***************************************************************************)
(* Answers to writes                                                       *)
(***************************************************************************)

Ok(k, ops)   == call[k].op \in ops /\ call[k].at = "answered"
Done(k)      == call' = [call EXCEPT ![k] = NoCall]
ShowSecret   == secret' = [open |-> TRUE, text |-> TRUE]

\* The dialog goes and the row is fetched again.
Changed(k, ops) ==
    /\ Ok(k, ops)
    /\ detail' = Hidden
    /\ call' = RowFetch(k, call[k].item, "row")
    /\ UNCHANGED <<quiet, table, confirm, armed, current, ban, form, secret>>

UserChanged(k)   == section = "users" /\ Changed(k, {"unban", "promote", "demote"})

ClientChanged(k) == section = "oauth" /\ Changed(k, {"enable", "disable"})

EntryChanged(k)  == section = "whitelist" /\ Changed(k, {"enable", "disable"})

Regenerated(k) ==
    /\ Ok(k, {"regenerate"})
    /\ detail' = Hidden /\ ShowSecret /\ Done(k)
    /\ UNCHANGED <<quiet, table, confirm, armed, current, ban, form>>

\* animateTableRow, to remove: the row that a query finds, and a second one of
\* its item stays.
RemoveRow(i) ==
    /\ fading' = fading \cup (IF HasRow(i) THEN {<<i, TopRow(i)>>} ELSE {})
    /\ crossed' = crossed \cup (IF Both(i) \subseteq rows THEN {i} ELSE {})
    /\ UNCHANGED rows

\* Mutant: the removed row stays in the cache.
DeletedKeepingCopy(k) ==
    /\ Ok(k, {"delete"})
    /\ detail' = Hidden
    /\ RemoveRow(call[k].item) /\ Done(k)
    /\ UNCHANGED <<section, server, left, cache, entries, confirm, armed, current, ban, form, secret>>

\* The dialog goes, then the cached copy and the row.
Deleted(k) ==
    /\ Ok(k, {"delete"})
    /\ detail' = Hidden
    /\ cache' = [cache EXCEPT ![call[k].item] = Gone]
    /\ RemoveRow(call[k].item) /\ Done(k)
    /\ UNCHANGED <<section, server, left, entries, confirm, armed, current, ban, form, secret>>

RemoveUserRow(k)      == section = "users" /\ Deleted(k)

RemoveClientRow(k)    == section = "oauth" /\ Deleted(k)

RemoveWhitelistRow(k) == section = "whitelist" /\ Deleted(k)

\* initBanModal reads currentBanUser again: the ban may be of another user, and
\* when the dialog was cancelled the handler throws before it refreshes the row.
Banned(k) ==
    /\ Ok(k, {"ban"})
    /\ ban' = [ban EXCEPT !.open = FALSE, !.user = NoItem]
    /\ call' = RowFetch(k, ban.user, "row")
    /\ UNCHANGED <<quiet, table, detail, confirm, armed, current, form, secret>>

\* handleFormSubmit reads editingClientId again after its await.
ClientSaved(k) ==
    /\ Ok(k, {"save"})
    /\ call' = RowFetch(k, form.editing, "saved")
    /\ form' = [form EXCEPT !.open = FALSE, !.shows = NoItem, !.saving = HasRow(form.editing)]
    /\ UNCHANGED <<quiet, table, detail, confirm, armed, current, ban, secret>>

\* handleSubmit does not.
EntrySaved(k) ==
    /\ Ok(k, {"saveOn", "saveOff"})
    /\ call' = RowFetch(k, call[k].item, "saved")
    /\ form' = [open |-> FALSE, shows |-> NoItem, editing |-> NoItem, saving |-> HasRow(call[k].item)]
    /\ UNCHANGED <<quiet, table, detail, confirm, armed, current, ban, secret>>

\* animateTableRow, to insert: on top, whether or not a list had the item.
Inserted(k) ==
    /\ Ok(k, {"create"})
    /\ \E i \in Items :
          /\ Alive(call[k].copy[i])
          /\ cache' = [cache EXCEPT ![i] = call[k].copy[i]]
          /\ rows' = rows \cup {<<i, "added">>}
    /\ Done(k)
    /\ UNCHANGED <<quiet, fading, entries, detail, confirm, armed, current, ban>>

ClientCreated(k) ==
    /\ section = "oauth" /\ Inserted(k)
    /\ form' = [form EXCEPT !.open = FALSE, !.shows = NoItem, !.saving = FALSE]
    /\ ShowSecret

EntryCreated(k) ==
    /\ section = "whitelist" /\ Inserted(k)
    /\ form' = [open |-> FALSE, shows |-> NoItem, editing |-> NoItem, saving |-> FALSE]
    /\ UNCHANGED secret

\* A refused or failed write says so and gives its button back.
Refused(k) ==
    /\ call[k].op \in Writes /\ call[k].at = "failed"
    /\ ban' = [ban EXCEPT !.ready = @ \/ call[k].op = "ban"]
    /\ form' = [form EXCEPT !.saving = @ /\ call[k].op \notin Saves \cup {"create"}]
    /\ Done(k)
    /\ UNCHANGED <<quiet, table, detail, confirm, armed, current, secret>>

(***************************************************************************)
(* The server                                                              *)
(***************************************************************************)

Copy(is) == [i \in Items |-> IF i \in is THEN server[i] ELSE Gone]
Answer(k, at, copy) == call' = [call EXCEPT ![k].at = at, ![k].copy = copy]

ServeRead(k) ==
    /\ call[k].op \in Reads /\ call[k].at = "sent"
    /\ LET live == {i \in Items : Alive(server[i])} IN
       \/ call[k].op = "list" /\ \E is \in SUBSET live : Answer(k, "answered", Copy(is))
       \/ call[k].item \in live /\ Answer(k, "answered", Copy({call[k].item}))
       \/ Answer(k, "failed", NoCopy)
    /\ UNCHANGED <<quiet, table, dialogs>>

\* GetUsers and GetUser, and their like.
ReadUsers(k)   == section = "users" /\ ServeRead(k)
ReadClients(k) == section = "oauth" /\ ServeRead(k)
ReadEntries(k) == section = "whitelist" /\ ServeRead(k)
ReadLogs(k)    == section = "logs" /\ ServeRead(k)

\* The items an answer is about that the page has not seen yet.
Carried(k) == {i \in Items : \E l \in Calls \ {k} : call[l].op # "delete" /\ Alive(call[l].copy[i])}

\* A write is done and answered, done while its answer is lost, or refused.
ServeWrite(k) ==
    /\ call[k].op \in Writes /\ call[k].at = "sent"
    /\ \/ /\ Answer(k, "failed", NoCopy)
          /\ UNCHANGED <<server, crossed>>
       \/ \E i \in Items, at \in {"answered", "failed"} :
             /\ IF call[k].op = "create" THEN server[i] = Unborn
                ELSE i = call[k].item /\ Alive(server[i])
             /\ server' = [server EXCEPT ![i] =
                             CASE call[k].op = "create" -> {"on"}
                               [] call[k].op = "delete" -> Gone
                               [] OTHER -> (@ \ Clears[call[k].op]) \cup Sets[call[k].op]]
             /\ crossed' = IF call[k].op = "delete" /\ (at = "failed" \/ i \in Carried(k))
                           THEN crossed \cup {i} ELSE crossed
             /\ Answer(k, at, IF call[k].op = "create" THEN [NoCopy EXCEPT ![i] = {"on"}] ELSE NoCopy)
    /\ UNCHANGED <<section, left, table, dialogs>>

\* SetUserRole, DeleteUser, BanUser and UnbanUser; the writes of the clients;
\* and those of the whitelist.
WriteUser(k)   == section = "users" /\ ServeWrite(k)
WriteClient(k) == section = "oauth" /\ ServeWrite(k)
WriteEntry(k)  == section = "whitelist" /\ ServeWrite(k)

Serve(k) ==
    \/ ReadUsers(k) \/ ReadClients(k) \/ ReadEntries(k) \/ ReadLogs(k)
    \/ WriteUser(k) \/ WriteClient(k) \/ WriteEntry(k)

Page ==
    \E k \in Calls :
       \/ ListUsers(k) \/ ListClients(k) \/ ListEntries(k) \/ ListLogs(k)
       \/ UpdateUserRow(k) \/ UpdateClientRow(k) \/ UpdateWhitelistRow(k) \/ Detailed(k)
       \/ UserChanged(k) \/ ClientChanged(k) \/ EntryChanged(k) \/ Regenerated(k)
       \/ RemoveUserRow(k) \/ RemoveClientRow(k) \/ RemoveWhitelistRow(k) \/ Banned(k)
       \/ ClientSaved(k) \/ EntrySaved(k) \/ ClientCreated(k) \/ EntryCreated(k) \/ Refused(k)

Administrator ==
    \/ \E k \in Calls :
          \/ initUsersPage(k) \/ initOAuthPage(k) \/ initWhitelistPage(k) \/ LoadLogs(k)
          \/ Confirm(k) \/ ConfirmBan(k) \/ SubmitClient(k) \/ SubmitEntry(k)
          \/ \E i \in Items : ShowUserDetail(k, i) \/ ShowClientDetail(k, i) \/ ShowWhitelistDetail(k, i)
    \/ \E op \in Writes : ShowConfirm(op)
    \/ \E i \in Items \cup {NoItem} : ShowClientForm(i) \/ OpenFormModal(i)
    \/ HideForm \/ CloseFormModal
    \/ HideDetail \/ HideConfirm \/ ShowBan \/ ChooseReason \/ HideBan \/ HideSecret

Next ==
    \/ Page \/ Administrator
    \/ \E k \in Calls : Serve(k)
    \/ \E r \in fading : Faded(r)

Spec == Init /\ [][Next]_vars

(***************************************************************************)
(* Properties                                                              *)
(***************************************************************************)

\* The button of the confirm dialog does what the dialog says: no handler of a
\* dialog that was cancelled earlier is still attached in front of it.
ConfirmNames == confirm.open => armed = <<confirm.names>>

\* A deleted item leaves the table and the cache for good, unless the answer to
\* its deletion was lost, another answer that still had it was under way, or it
\* had two rows: a list had come between its creation and the answer to that.
DeletedStaysAway ==
    \A i \in Items :
        server[i] = Gone /\ i \notin crossed
        /\ (\A k \in Calls : call[k].op = "delete" => call[k].item # i)
        => Rows(i) \subseteq fading /\ ~Alive(cache[i])
=============================================================================
