# NebulaStudios-Website: TLA+ verification project

The repository is a website with an account system: a Go server (`internal/`,
`cmd/server`) on PostgreSQL, TypeScript pages (`modules/`, `shared/`), a small
Zig image helper (`img-processor/`) and a build tool (`cmd/build`). The logic
worth verifying is the account system on the server, and the pages in front of
it. Both are concurrent in their own way. The server runs one goroutine per
request and keeps its state in SQL rows that are changed one statement at a
time, mostly without transactions. A page is one thread, but every `await`
lets the user, a timer or another answer in, and what was read before is used
after.

Run everything inside this directory: `tlc -config UserCache.cfg
UserCache` checks a run, `tlapm UserCacheProofs.tla` checks a proof module.
`PROJECT.json` lists the runs, what each mapped definition translates, the
findings, the hazards, the mutants and the theorems.

## 1. Inventory

Server:

| Component | State | Operations | Hard part | What makes it correct |
|---|---|---|---|---|
| User cache `cache/user.go` | LRU of users, version, singleflight | Get, GetOrLoad, Set, Invalidate | loads racing with updates and invalidation | capacity kept, stale entries impossible (claimed) or short-lived (true), callers return |
| Session tokens `services/session.go`, `models/session_token.go` | table `session_tokens` | issue, rotate, detect reuse, revoke, expire | statements of several requests interleave, a statement fails | one successor per token, revocation final, replay contained |
| Users, bans, roles `models/user.go`, `handlers/admin/user.go`, `middleware/ban.go`, `handlers/user/account.go` | table `users` | set role, ban, unban, delete, automatic unban | check-then-act on cached rows | super administrators stay, a ban is lifted only when due |
| OAuth provider `services/oauth.go`, `models/oauth_token.go`, `handlers/oauth/provider.go` | clients, codes, access and refresh tokens, grants | authorize, exchange, refresh, revoke, disable client | revocation racing with exchange | codes and refresh tokens single use, revocation final, one access token per login |
| QR login, server `models/qrlogin.go`, `handlers/qrlogin` | table of login codes | generate, scan, confirm, cancel, set session | phones and the PC race on a row | a code logs in once, the confirmed user only |
| E-mail codes `services/token.go`, `models/token.go` | tables of tokens and codes | create, validate, verify, use, invalidate, clean up | verify and use are different requests | a link gives one page its code, a code resets one password |
| Data export and import `services/export.go`, `handlers/admin/data.go` | one one-time code, tokens of files | request, guess, download, upload, import | one code for all administrators | a code hands out one backup, a file is imported once |
| Consents `handlers/policy.go`, `models/user_consent.go` | table of consents | pending, record | one INSERT per policy, versions taking effect | who is let in has agreed |
| WebSocket hub `services/websocket.go` | 8 shards of connections, a counter | register, notify, close, expire, shutdown | locks per shard and an atomic counter | a page gets the statuses of its code |
| External login, rate limiters, image helper client, request filters, mail, start-up, build | | | | see section 6 |

Pages:

| Component | State | Operations | Hard part | What makes it correct |
|---|---|---|---|---|
| Browser refresh `shared/js/utils/session-refresh.ts`, `api.ts` | shared promise, Web Lock or time stamp, cookie jar | refresh after 401, wait, retry, redirect | tabs racing, aborted fetches, late responses | tabs exclude each other, a working session is not lost |
| QR login, PC `account/.../lib/qr.ts` | dialog, code and status, WebSocket | open, close, receive a status, set the session | module state across awaits | the dialog knows its code, closing leaves nothing behind |
| Account forms `login.ts`, `register.ts`, `forgot.ts`, `link.ts`, `oauth.ts`, three dialogs of `dashboard.ts`, `lib/captcha.ts`, `lib/utils/countdown.ts` | what is typed, buttons, captcha, countdown, step | type, send a code, solve, submit, reload | a captcha's script, a countdown in a cookie, late answers | no code is asked for twice, a solved captcha sends something, the right account is reset |
| Dashboard `dashboard.ts` | the account it shows, dialogs: scanner, avatar, log, applications | open, close, scan, confirm, save, load more, revoke, link, unlink | fetches, pictures and cameras outlive their dialog | a camera stops with its dialog, what is saved or confirmed is what is shown |
| Popups `lib/ui/feedback.ts` | alert, list, question before a foreign page | show, click, Escape | two sets of handlers on one element | the link that is opened is the one that was shown |
| Administration `admin/assets/js` | lists, caches, dialogs, forms | list, show, toggle, edit, delete, ban | dialogs are reused while answers are on their way | an action is about the row it names, what was deleted stays away |
| Data page `admin/assets/js/data.ts` | two dialogs, a timer, the ids of requests | request, download, upload, import | a code that ends in three ways | with the server: once |
| Policies `policy.ts`, `lib/policy` | route, cache, banner, switcher; the gate | navigate, choose, switch language, agree | texts arrive late, languages and versions missing | the page shows the route of its address |
| Languages and cookies `translations.ts`, `language-switcher.ts`, `cookie-consent.ts` | cookies, banner | start, switch, accept, reject | a second tab | a rejection leaves no cookie |

How they interact: handlers read users through the cache and write them
directly, then invalidate; login, QR login and external login end in
`SessionService.GenerateTokens`; password change, reset and logout end in
`RevokeUserTokens`; the browser reaches the session store through
`POST /api/auth/refresh`, where only the cookie says which token it holds;
QR login pushes its state changes to the PC's page through the WebSocket hub,
and the page then asks for its session; a letter's link opens the page verify,
whose code is typed into a form of another page; a cleanup loop deletes expired
rows of most tables under everybody (not those of QR login). All dialogs of the
account pages share `createModalController`. The hazards, each at its line, are
in `PROJECT.json` under `hazards`.

## 2. Modules

| Module | Models | Proofs |
|---|---|---|
| `UserCache` | the user cache and the handlers around it | `UserCacheProofs` |
| `TokenRotation` | abstract: what a rotating credential promises | - |
| `SessionTokens` | the session store and its handlers; implements `TokenRotation` | `AccountsProofs` |
| `UserAdmin` | roles, bans and the gate that lifts them | `AccountsProofs` |
| `OAuthProvider` | the OAuth provider's tables and handlers; implements `TokenRotation` | `OAuthProviderProofs` |
| `Accounts` | `SessionTokens`, `UserAdmin`, `OAuthProvider` | `AccountsProofs` |
| `SessionRefresh` | tabs, locks, cookie jar, network; the server in it is `TokenRotation` | `SessionRefreshProofs` |
| `QRGrant` | abstract: what a login code promises | - |
| `QRCodes` | the table of login codes and its handlers; implements `QRGrant` | `QRCodesProofs` |
| `QRPage` | the PC's page, its WebSocket and the phones; the server in it is `QRGrant` | `QRPageProofs` |
| `AccountForms` | the forms, the captcha, the countdown | `SiteDialogsProofs` |
| `Dashboard` | the dialogs scanner, avatar, log, applications | `SiteDialogsProofs` |
| `DashboardPage` | the page behind them, and what it shows of the account | `SitePagesProofs` |
| `Popups` | alert, list and question of `feedback.ts` | `SitePagesProofs` |
| `AdminPage` | the administration's lists and dialogs | `SiteDialogsProofs` |
| `DataPage` | backups: the page and the service behind it | `SitePagesProofs` |
| `Consents` | the gate of the policies; cookies and languages | `SitePagesProofs` |
| `MailCodes` | letters, links, codes, and the handlers that spend them | `SitePagesProofs` |
| `PolicyPage` | the policy page | `SitePagesProofs` |
| `SitePages` | the nine modules above in one browser | `SitePagesProofs`, `SiteDialogsProofs` |
| `MCAccounts`, `MCSessionTokens`, `MCSessionRefresh`, `MCQRCodes`, `MCQRPage`, `MCSitePages` | symmetry sets and values for TLC | |

Operators marked "Mutant" are faulty variants of the definition that follows
them; no specification uses them. They stand for bugs the properties must
notice: TLC finds the property violated when the variant replaces the original.
Names in lower case, as `verifyToken`, are those of the source; the others name
a step of a handler. "History" in a declaration marks a variable the code does
not have, kept for a property.

### UserCache

`row[u]` counts the updates committed to a row of `users`, so the age of a
cached copy is a number. Each step is what happens between two points where
another goroutine can run: the lock of the LRU, the two atomic accesses to
`version`, the loader's query. `Start` is the first `Get`; `Join` is
`singleflight.Do`; `GetAgain`, `Snapshot`, `Load`, `Compare`, `Fill`, `Finish`
are the body of the closure; `Remove` and `Bump` are the two halves of
`Invalidate`. `RecheckHit` and `RecheckRemove` are `Get`'s second look at an
entry that was past its TTL. The login handler stores the row it read at its
start (`LoginRead`, `LoginSet`) without looking at the version. The least
recently used victim is any other entry; the TTL is an action that may run at
any time. `invalidated` and `staleFills` are history.

* `SizeBound`: the capacity holds under any mixture of fills and logins. It is
  proved and not run, as the run has one user.
* `GuardSound`: the version guard is right up to its comparison.
* `OneStaleFill`: at most one loader stores an older row after an `Invalidate`
  returned, because loads of one user are merged.
* `EventuallyFresh`, `RequestReturns`: liveness.
* `NoStaleAfterInvalidate` is what the comments promise, and is violated (finding 1).

### TokenRotation and SessionTokens

`TokenRotation` says: a token is issued once, spent at most once while live,
replaced at most once after being spent, never live again. `SessionTokens`
implements it with `live <- table \ used`, `spent <- used`.

One step per SQL statement. A refresh is `FindByHash`, then `MarkUsed` (the
`UPDATE ... WHERE used = FALSE`, whose row count decides), then `RefreshIssue`
(the `INSERT`); a spent token goes to `RevokeFamily` instead. Each may fail,
and `MarkUsedFails` covers an `UPDATE` that was applied though its result
never arrived. Any token ever issued may be presented again. Logins (password
login, QR and external login all call `GenerateTokens`) are `LoginVerify` and
`LoginIssue`; password change and reset are `PasswordUpdated` and
`PasswordRevokes`. `Expire` and `DeleteExpired` are the clock and the cleanup
task. `parent`, `root`, `finished` and `flagged` are history: what a token
replaced, which login it descends from, which logins were revoked while no
renewal of them was past `MarkUsed`.

* `SingleSuccessor`: no interleaving gives one token two successors.
* `RevocationFinal`: a revoked login never has a row again.
* `ReplayIsolated`: reuse detection touches the replayed login only.
* `ImplementsRotation`: refinement.
* `ReplayRevokesFamily` is what a comment says, and is violated (finding 2).

### UserAdmin

One step per statement: `Check` reads the operator's and the target's row and
decides, then the handler writes with an `UPDATE` that repeats none of its
conditions, then it drops the row from the cache. A ban is its `unban_at`, a
number up to `Never`, and a copy of a row keeps the one it was read with, be it in
the cache (`cached`) or in a request (`snap`). `Tick` is the clock, which every copy
is compared with by itself (`Active`, `Lapsed`, as `CheckBanned` does). The gate
(`middleware/ban.go`) takes the cached row, or loads it (`GateLoad`), or joins
who is loading it (`GateJoin`), and when the ban in that row ran out it lifts
whatever ban there is with another unconditional `UPDATE`. A login (`LoginLoad`,
`LoginEnds`) reads the row, and stores it later, whatever happened since.
`Evict` is the LRU and its TTL. `late` and `stands` are history: requests that were
overtaken, and bans for which nothing of an earlier ban was under way when
`BanUser` returned.

* `SuperStands`: a super administrator is never demoted or banned, and deleted
  only by his own request. No condition in the `UPDATE` says so: it holds since
  nobody becomes one.
* `ChecksHold`: an administrator is deleted or banned only by a request whose
  check another request overtook. Without the exception it does not hold.
* `BanStands`: a ban lasts until it runs out, is replaced or is lifted by
  `UnbanUser`, provided that, when `BanUser` returned, no lift of the gate was under
  way and nobody who had read the row held an earlier ban that ends sooner.
  Dropping the copy before returning is what it takes; without the proviso it
  does not hold, which is finding 5 (`AutoLiftsLapsed`): a login read a temporary
  ban, administrators lift it and ban for good, the login stores its row, and when
  that row's `unban_at` has passed the gate clears the permanent ban.

### OAuthProvider

A pair is an access and a refresh token, each with a row of its own. `Authorize`,
`CreateCode`, `UpsertGrant` are the decision of the user; `Redeem` begins an
exchange or a refresh, whose steps (`TokenStep`) are the look-up, the `DELETE`
or `UPDATE` that returns the row, and the two `INSERT`s with the undoing of the
first when the second fails. Revocations (`RevokeStep`) are by grant, by client
or by token; disabling and deleting a client run them first. Each statement may
fail, and may fail after it was applied. `Leave` is the deletion of the user,
which cascades. `before`, `consumed`, `over` are history.

* `ClientRevocationFinal`: after a revocation no token of that login comes
  back, unless a request was creating one meanwhile.
* `OneAccess`: a login has one access token, besides those a failed statement
  left behind.
* `ClientRotation`: codes and refresh tokens, taken together, implement
  `TokenRotation`, as session tokens do.

### Accounts

Composes the three. They share the row of a user only through its deletion,
which `SessionTokens` has as a revocation and `OAuthProvider` as `Leave`; a ban
touches no token, since the `banned` column of `session_tokens` is written
FALSE and never updated. So a behaviour (`topic`) is about one of them, and the
run pays for the sum of their states instead of the product.

### SessionRefresh

Tabs share a cookie jar: the refresh token (`jar`) and whether the access
token is accepted (`access`). API callers (`requestWithAuthRetry`) get a 401,
join or start the refresh of their tab, retry, and end at the login form if
that fails. `pc[t]` is where the tab's shared promise stands. With
`WebLocks = TRUE` the Web Lock is held from `LockGranted` to `Settle`; with
`FALSE` the time stamp in localStorage is read (`ReadStamp`) and written
(`WriteStamp`) in two steps, since tabs are processes of their own, and is
removed in `Send`: the code returns the promise of the fetch without awaiting
it, so `finally` runs at once. Requests and responses are messages in `net`;
one whose tab is gone or has aborted is kept until the server has dealt with
it, and its cookies are lost. The server spends and replaces tokens with the
actions of `TokenRotation`, which `SessionTokens` implements. Closing a tab,
leaving it, opening it, logging in and expiry may happen at any time.
`disturbed` records failures, so that each property says which it tolerates.

* `OneFetch`: at most one refresh under way. Holds with Web Locks; violated
  with the time stamp (finding 3).
* `ReplayNeedsFailure`: tabs alone never cause a replay; a lost response or a
  failing server can.
* `RefusalClearsDeadToken`: a refusal does not clear a working cookie.
* `CallersReturn`: every caller gets an outcome although the server is silent.

### QRGrant and QRCodes

`QRGrant` says: a code is shown, scanned, confirmed by one user, and then spent
once for that user, or dropped. `QRCodes` implements it with one row per code.
Its steps are the SQL statements: a handler reads the row (`ScanFind`,
`ConfirmFind`) and updates it later under a condition on the status
(`ScanUpdate`, `ConfirmUpdate`); `Consume` is the transaction that locks, checks
and deletes; `Mint` is `GenerateTokens` for the PC. A session token for the PC is
signed before the confirmation is decided, so `issuer` may hold tokens that no
row knows. Any phone may scan and confirm any code, and any pair of a code and
a signed token may be presented. `Cancel` is both sides' `DELETE`. `spent`,
`cancelled` and `grants` are history.

* `SingleGrant`: a code logs in at most once.
* `CancelExcludesLogin`: a cancelled code never logs in.
* `SessionOfConfirmer`: the login is for the user whose confirmation was
  accepted, and the comparison of UIDs after the code is spent never fails.
* `ImplementsGrant`: refinement, with a deleted row read as spent or dropped.

### QRPage

What `qr.ts` keeps in its module-level `state` is `current`, `status` and `ws`;
`shown` is the picture in the dialog. `call` holds the page's fetches, each
`sent`, then answered by the server (`ServeCreate`, `ServeCancel`,
`ServeSession`), then continued by the page (`Created`, `Cancelled`,
`SessionSet`): the steps between are where a stale `state` is used. A socket is
checked against the code's row (`Check`), later registered (`Register`), and
only then does `Notify` reach it; `push` holds the statuses that handlers have
written and not yet pushed, in any order. `Closed` is the close event of any
socket, new or old. `Dismiss` is the modal controller's `close`, which cleans up
once per opening. `resets` are the 300 ms timers. A phone scans a code it has
seen, confirms it, or presses cancel once (`PhoneCancel`), which pushes a status
even if there was no row left.

* `LandsOnConfirmed`: the dashboard is reached only with a code that was
  consumed and confirmed, although the page pairs the code it holds with the
  session token it is pushed, and these may be of two dialogs.
* `ShownIsCurrent` and `ClosedIsClean`: the page knows the code in its picture,
  and closing leaves no code to scan and no socket. Both hold for a user who
  waits for the page (`Patient`); for an impatient one the first is finding 4.
* `ConfirmedSettles`: a confirmation that was pushed is brought to an end.

### AccountForms

A behaviour stays on one form (`section`): the pages login, register, forgot,
link and oauth, and the dialogs password, username and deletion. `typed` is one
of a few valid entries or `Invalid`, as `validators.ts` decides. `Click` is the
button that asks for a captcha, `Submit` the other one. `initing` holds the
openings whose `initCaptcha` waits for the script (`SdkLoads`, `SdkFails`),
`widget` and `solved` the captcha on display and its token (`Solve`,
`CaptchaFails`). `calls` are requests, served at one step (`Serve`) and
answered at a later one (`CodeSent`, `Submitted`). `countdown` is the timer,
`cookie` what a `Reload` leaves of it, which `ResumeCountdown` and
`OpenDeletion` take up again.

* `CountdownHolds`: while the button of register or of the deletion dialog
  counts down, nothing turns it on again.
* `CaptchaServes`: a captcha on display has something to send when it is solved.
* `ResetsCoded`: the page forgot resets the password of an address a code was
  created for, although another may have been typed while the code was on its
  way, if somebody registered with the address and its look-up did not fail.

On the server `SendResetCode` answers yes for an address nobody registered,
on purpose, and makes no code for it; for the others it creates the code, then
answers, and mails in a goroutine whose failure is only logged. So the page
cannot know that a letter was sent, and no property says so: the mail itself is
not modelled. A look-up that fails for another reason is treated by the code as
"not registered" (`password.go:53`), which `unseen` records.

### Dashboard, DashboardPage and Popups

Every opening of a dialog makes a controller of its own over the same elements
of the page (`life`), so what is kept per opening and what all openings share
are different variables: `validatedUrl`, `currentPage`, `camera`, `bound` are
the former, `preview`, `log`, `list`, `ask` the latter. `ScanStep` has
`getUserMedia` and its late grant, the frame loop, the confirm dialog and the
timers; `AvatarStep` the pictures that load in any order; `ListStep` the log and
the applications. `DashboardPage` has the account on the server, `user.current`
and what is shown of it; a reading of the session is served (`ServeRead`) and
then taken up (`ReadingDone`), two of them in any order. `Popups` has the
alert, the list and the question, with the handlers `initializeModals` added.

* `CameraReleased`: a running camera belongs to the scanner the user sees.
* `ConfirmsShown` (with `AdminPage`): a confirm button acts for the PC or the
  row that is shown, unless a scan was answered after its dialog had closed.
* `SavesPreview`: the avatar that is saved is the picture that is shown.
* `LogInOrder`: the log lists the pages of this opening, once, in order.
* `ProfileShown`: no provider is shown as not linked that is linked, and when
  the readings after a change are done the page shows the account, unless one of
  them failed, was overtaken by another or was answered from an older cached copy.
  Copies from before the page was loaded are left out.
* `OpensLinkShown`: the question opens the link it shows, unless an earlier one
  was hidden past its controller.

### AdminPage and DataPage

`AdminPage` is the three lists with their common code (`common.ts`): the table
(`rows`, and `fading` for those being removed), the cache, the details, the
confirm dialog with the handlers that are on its button (`armed`), the ban
dialog, the forms. `call` are fetches, served and then delivered. A row's value
is the set of flags its footer depends on. A row is an item and where it came
from, since an item may have two: a new one is put on top without a look for
another (`animateTableRow`), and a list that was served after the creation and
comes before its answer has it already. A refresh and a removal find the upper row
only, as `querySelector` does. `DataPage` has the tabs of several
administrators, `otac` (the one code of the whole server), its guesses and
expiry, `stored` (backups by token), and the dialogs with their timer.

* `DeletedStaysAway`: what was deleted comes back neither to the table nor to
  the cache, although refreshes of its row and other reads are on their way. Left
  out are items an answer with which crossed the deletion, those whose deletion
  was not answered, and those that had two rows then: the lower one stays in the
  table until the list is loaded again.
* `SpentOnce`, with `MailCodes`: a code hands out one backup and ends with its
  third wrong guess, an upload is imported once; a link gives its code to one
  page, and a code resets one password.

### Consents, MailCodes and PolicyPage

`Consents` has two halves. The gate lists what took effect since the user last
agreed, and the server records the answer one `INSERT` at a time while versions
go on taking effect, in two tabs. The other half is what the pages keep in
cookies: a language, dismissed notices, the banner's answer. A cookie is read in
one step and written in another, as `document.cookie` is, and the other tab runs in
between. In `MailCodes` a
letter's link is used up by one `UPDATE`, its code verified and spent by
requests (`order`) that stop between their statements, and the account they
are about may be deleted and made again (`member`). `PolicyPage` has the
route in the hash, the files it tries one after the other (`Attempts`), the
renders that wait for one (`renders`), and the frame around the text.

* `ConsentKept`: a page that was entered by agreeing has the consents of its
  list on record; after a rejection no optional cookie is left, unless it fell
  between the check and the write of another tab (`torn`).
* `RouteShown`: once nothing is under way the page shows the text of its
  address, in its language or the fallback the code chooses, with the banner
  and the switcher of that policy.

### SitePages

All pages in one browser. Going to another page drops the scripts of the one
before, so a behaviour is about one page, which `section` tells, and the rest
of the state rests. The forms and the dialogs share the controller of
`feedback.ts`, so their openings (`life`) and requests (`calls`) are one
variable each.

## 3. Runs

| Run (cfg) | Bounds | Shows |
|---|---|---|
| `UserCache` | 1 user, 3 loaders, 1 updating handler, 1 login, 2 updates | `GuardSound`, `OneStaleFill`, `EventuallyFresh`, `RequestReturns` |
| `UserCacheStale` | 1 user, no login | finding 1 |
| `Accounts` | 2 users, 2 requests of each kind, 3 tokens; 1 user, client and code with 3 pairs | `SingleSuccessor`, `RevocationFinal`, `ReplayIsolated`, `ImplementsRotation`, `SuperStands`, `ChecksHold`, `BanStands`, `ClientRevocationFinal`, `OneAccess`, `ClientRotation` |
| `BanLifted` | the same | finding 5 |
| `SessionReplay` | 1 user, 1 request, 3 tokens | finding 2 |
| `RefreshLocks` | 2 tabs, 3 callers, 2 tokens, Web Locks | `OneFetch`, `ReplayNeedsFailure`, `RefusalClearsDeadToken` |
| `RefreshReturns` | 2 tabs, 2 callers, 1 token, time stamp | `CallersReturn` |
| `RefreshStorage` | 2 tabs, 2 callers, 2 tokens, time stamp | finding 3 |
| `QRCodesSafety` | 2 codes, 2 users, 3 session tokens, 3 handlers | `SingleGrant`, `CancelExcludesLogin`, `SessionOfConfirmer`, `ImplementsGrant` |
| `QRPage` | 2 codes, 1 user, 2 fetches, patient user, faults | `LandsOnConfirmed`, `ShownIsCurrent`, `ClosedIsClean`, `ConfirmedSettles` |
| `QRPageForgets` | the same, impatient user, no faults | finding 4 |
| `SitePages` | below | `CountdownHolds`, `CaptchaServes`, `ResetsCoded`, `CameraReleased`, `ConfirmsShown`, `SavesPreview`, `LogInOrder`, `ProfileShown`, `OpensLinkShown`, `DeletedStaysAway`, `SpentOnce`, `ConsentKept`, `RouteShown` |

Why the bounds are enough to be interesting: three loaders are a leader and
a follower and one that comes after them, or successive flights around one
invalidation, and one user is enough since flights and versions are per user and
an entry may run out at any time; three tokens are a login, its
renewal and one more renewal or login, so that two requests can race for one
token and replay it afterwards; the same goes for three pairs after one code;
two administrators' operations are the one that decides and the one that
overtakes it, over two users; `Horizon` (2) has an earlier ban run out while a later
one is still on, and a permanent one after both; two tabs with two callers in one of them exercise
both the sharing within a tab and the exclusion between tabs; two login codes
are the old and the new dialog, and three handlers are two phones and a PC on
one code.

In `SitePages` two openings are a dialog and its successor over the same
elements, two entries an address and the one typed over it, two providers,
items and tabs the one an answer is about and the one on display. `Requests`
(3) bounds clicks and reloads of a form, `Tries` (3) the fetches of a dialog,
`Pages` (3) a log in which one page can fail between two others, `Fetches` (3)
what an administrator causes: a detail, a write and the refresh of its row, or a
creation, the list that crosses it, and a deletion. `Changes` (2) are two changes whose readings overlap; `Alerts` and
`Clicks` (2) a popup and the next; `Exports` and `Uploads` (2) a code and the
one that replaces it; `Guesses` (3) is one more than `otacMaxTries` (2 here,
3 in the code); `Versions` (2) a policy that changes under an open gate;
`Visits` (3) two tabs and one reopened; one letter with two accounts in
succession is enough to spend a code twice; `Moves` (2) a route that changes
while a text is fetched. `Published` in `MCSitePages` is a small manifest in
which every fallback of `loadPolicyMarkdown` happens.

The other bounds are `MaxWrites` (updates of a row), the set `Tokens` (random
tokens a generator can draw, never twice the same), the sets `Codes`, `Pairs`
and `Sessions` (likewise), `Requests`, `Operations` and `Calls` (handlers and
fetches at once) and `MaxNet` (refreshes under way while another caller
arrives). The theorems below need none of them. Deadlock is checked for the
cache and the refresh. `Accounts`, the runs of login codes and `SitePages` do
stop, once the tokens or the clicks are used up, and do not check for it.
Symmetry is used in safety runs only, over sets whose members are compared
with nothing else; where things never meet in a behaviour the same model values
stand for both, so that one permutation does for both.

Fairness. `UserCache`: a goroutine that has begun runs on (the scheduler, and
queries with timeouts), and time passes for cached entries; nobody is obliged
to send requests, update or log in. `SessionRefresh`: an open tab runs its own
promises and timers; the server, the network and the user owe nothing. `QRPage`:
the page's event loop and the server's handlers run on (`PageStep`, `ServerStep`,
each weakly fair as a whole); users, the clock and faults owe nothing.
The pages' properties are about what is shown and sent, and say nothing of what
must come: every request of theirs may be lost, and the user may do nothing.

## 4. Findings

1. `NoStaleAfterInvalidate` (`cache/user.go:174`): comparing and storing are
   two steps, and so are removing and incrementing. A loader that read the old
   row stores it between the two halves of `Invalidate`, or after comparing.
   `OneStaleFill` and `EventuallyFresh` bound the damage: one fill, one TTL.
2. `ReplayRevokesFamily` (`services/session.go:362`): every refresh starts a new
   family, so a replay revokes the spent row only.
3. `OneFetch` without Web Locks (`session-refresh.ts:109`): a missing `await`
   releases the lock when the fetch starts.
4. `ShownIsCurrent` for an impatient user (`qr.ts:314`): the answer to taking
   the old code back clears `currentToken`, which by then is the code of the
   reopened dialog. A confirmation of that dialog then fails; `LandsOnConfirmed`
   shows that it does no worse.
5. `AutoLiftsLapsed` (`middleware/ban.go:122`): the gate decides on a row read
   earlier and clears whatever ban there is. `BanStands` says for which bans this
   cannot happen.

Seen while modelling, and not runs of their own (`R` stands for
`src/modules/account/assets/js`, `A` for `src/modules/admin/assets/js`):

* Sessions. The `banned` column of `session_tokens` is never set, so the check
  on refresh (`session.go:218`) never applies; a tab that waits more than 1.5 s
  for another tab's refresh goes to the login form with a session that works
  (`session-refresh.ts:105`); a status nobody is registered for is dropped and
  never repeated (`websocket.go:249`), so a confirmation between check and
  registration leaves the page waiting until its code expires; expired rows of
  `qr_login_tokens` are never cleaned up (`schema.go:267`); the phone's request
  leaves a refresh token no one has when it is refused (`mobile.go:144`).
* E-mail codes. Register deletes its code and looks at no outcome
  (`handlers/auth/handler.go:221`; the comment above it says one-time): two
  requests pass together, and only the unique address stops the second, unless
  the account is deleted in between. `DeleteAccount` deletes the account before
  its code (`account.go:151`), and when that fails the old code is good for a
  new account of the address. A link is used up when creating its code fails or
  the answer is lost, and the page has taken it out of its address
  (`R/verify.ts:117`).
* Applications. A user may exchange a code for an application whose grant he has
  just removed (`services/oauth.go:318`); disabling a client revokes its tokens
  before the flag is written (250), so tokens may be created in between. Both are
  the exceptions of `ClientRevocationFinal`.
* Administration. The whitelist's form sends the enabled flag of the list
  loaded last and undoes a toggle made since (`A/email-whitelist.ts:393`); the
  client's form reads `editingClientId` after its await, so a row saved while
  the form was closed is not refreshed (`A/oauth.ts:484`); a ban dialog that is
  closed during its request ends in an exception and a stale row
  (`A/users.ts:476`); a late answer fills the detail dialog with another item;
  of two refreshes of one row the later is dropped (`A/common.ts:361`). A list
  that comes between a creation and its answer leaves two rows for one item, and a
  deletion removes the upper one only (`A/common.ts:416`, 436).
* Data page. The code's revocation is global and unconditional, so closing a
  dialog late ends a newer code (`export.go:119`); an import whose answer is
  lost says the file is damaged when it is tried again; a code is used up when
  the backup then fails.
* Dashboard. A scan that is answered after its dialog closed, with a second
  code, has one click confirm both (`R/dashboard.ts:1492`): the exception of
  `ConfirmsShown`. `handleLoadMore` skips a page that failed (1921). The answer to
  a revocation of a closed opening shows the empty notice over a full list (2075).
  A picture of an earlier opening shows while another would be sent (186), a
  name changed after its dialog closed is not shown (1305), a provider stays
  linked in `user.current` when the reading after the unlink fails (612), and a
  ban shown is never taken back (465).
* Popups. `showConfirm` cleans up after an earlier question and hides the new one
  (`feedback.ts:211`; no caller asks twice). Escape hides the question before a
  foreign page and leaves its controller, and the next click opens both links
  (353-394), although that dialog asks not to be closed beside its buttons.
* Forms. The answer to a new password is ignored when the dialog was closed: the
  password is changed and the page stays (`R/dashboard.ts:1154`). The buttons of
  the consent page stay off after a failed decision. On the page forgot a second
  code on its way changes `currentEmail` at the reset step. A slow script draws
  the captcha of a closed opening into the next dialog (`orphan`). Typing and
  switching the language turn a send button on while a code is on its way.
* Cookies. A rejection that falls between the check and the write of the language
  cookie in another tab leaves that cookie (`shared/js/translations.ts:86`).
* Policies. A dialog whose version was superseded can not be accepted until the
  page is loaded again; the gate lets in on any error; two tabs around midnight
  may record an older version last, and the user is asked again. `renderPolicy`
  compares nothing after its await (`policy.ts:542`), so a slow older text
  overwrites a newer one and `currentRouteKey` keeps it there; a file that fails
  once leaves its fallback in the cache for the life of the page; hash changes
  before `init` listens are lost.

## 5. Proofs

All theorems are for every value of the constants, under the named
assumptions of the modules (a positive capacity, null values outside the sets).

* `UserCacheProofs`: `TypeCorrect`, `CapacityRespected`, `VersionGuardSound`,
  `AtMostOneStaleFill`. The version guard needs to know that the version only
  grows and what a snapshot of it implies for the rows read later; the bound on
  stale fills needs that flights exclude each other per user, and that a filler
  past its comparison is the flight's leader.
* `AccountsProofs`, of the sessions, whose variables are its own: `IInv` strengthens the two invariants with: rows belong
  to issued tokens and users (`IssuedOnly`, `Located`), a lineage stays with one
  user (`OneOwner`), replacing comes after spending (`SpentFirst`), the request
  about to insert a successor is the only one and is first (`SoleSpender`), and
  a login being renewed does not count as revoked (`RenewalOpen`). From it:
  `SessionTypeCorrect`, `TokenRotatesOnce`, `RevocationIsFinal`,
  `ReplayStaysInLogin`, and `SessionsImplementRotation`, where every `INSERT`
  is `Issue` or `Replace`, every `UPDATE` is `Spend`, every `DELETE` is `Drop`.
* `SessionRefreshProofs`: `WebLocksExclude`, from the invariant that a tab about
  to fetch or fetching holds the lock (`LockHeld`). `RacesNeverReplay` and
  `RefusalsClearDeadTokens` need `RaceInv` besides: while no response was lost,
  no statement failed and the lock API did not throw (`Quiet`), at most one
  refresh is under way (`OneUnderWay`), the token it shows is unspent and the
  cookie is spent only while its successor is on the way (`CookieFollows`), and
  a refused token is dead (`RefusedIsDead`). Both are for `WebLocks`; without
  them the run `refresh_storage` shows two refreshes at once. `RefreshTypeCorrect`
  is for every browser: however fetches are aborted, pages left and answers lost,
  a tab fetches exactly while one request of it is under way (`WaitsForOne`).
* `QRCodesProofs`: `CodesTypeCorrect`, `CodeGrantsOnce`, `CancelledNeverGrants`,
  `GrantIsForConfirmer`, `CodesImplementGrant`. The invariant says that only one
  handler can be about to mint for a code and that it has been spent, that a
  spent code's row is gone, and that a confirmed row's session was signed by its
  user.
* `QRPageProofs`: `PageLandsOnConfirmed`, for impatient users and faults too.
  The invariant is that a granted session belongs to the code it was asked with
  and that this code is spent; every step of the server's codes keeps spent
  codes spent (`CodesKept`), and every other step only sends or ends a fetch. `PictureIsOfCurrent` and
  `ClosingLeavesNothing` are for the patient user (`qr_page_forgets` shows why)
  and rest on `DInv`: nothing of an earlier dialog can reach an open one
  (`AsksAlone`, `OpenIsFresh`, `ClosedIsQuiet`), a living socket is the one the
  page holds (`OneSocket`), and a code that can be scanned is on display, on its
  way there or on its way back (`CodesAccounted`). `PageTypeCorrect` is for any
  user and needs `OneConnection`: a code is connected once, by the one fetch that
  asked for it, so no message waits for a socket that is only being opened.
* `AccountsProofs`, of the administration (`AdminInv`). `Supers`: no handler
  about to write has a super administrator as its target, and none of them is
  banned; it is preserved because no statement makes one. `Fresh`: what a
  handler read still holds unless it is in `late`; `ApplyKeeps` says what one
  statement leaves of the rows of others. `Standing`: while a ban stands it is
  known (`Known`): it is on, no lift of the gate is under way, and neither the
  cached copy nor any row that is held on the way to the cache or to the gate's
  decision has a ban that ends sooner. A copy with no ban or a later end
  does no harm, and a later read is of the row itself. The first two give the action properties
  `SuperStands` and `ChecksHold` (only `Apply` changes a row, and it is looked
  at once), the third is `BanStands`. `HorizonAssumption` and `NoCopyAssumption` are all it needs of the constants.
* `OAuthProviderProofs`, for random codes (`RandomTokens`, the two assumptions
  that `Accounts` makes). `OneEnd`: a login has at most one end, which is its
  refresh token or the one request between taking it out and storing the next.
  `AccessAtEnd`: a paired access token is that of the end. They need that what a
  request took out stays spent (`Tasks`), that a pair comes after its code was
  spent, and that no spent token has a row (`Lineage`). `QuietStep` covers every
  step that stores no token; the six that are on the way to one have a lemma
  each. `LoginHasOneAccess`, `ProviderRevocationIsFinal` follow from it; in
  `ProviderImplementsRotation` the `INSERT` of a code is `Issue`, that of a
  refresh token `Replace`, `TakeOut` is `Spend`, also when its result is lost.
* `AccountsProofs`, of both: the properties of `UserAdmin` and of
  `OAuthProvider` for `AccountsSpec`. A behaviour of `Accounts` is one of each of
  them, since one runs while the others rest. The prover does not know that two
  instances of a module are the same, so `RunsAdmin` and `RunsProvider` expand
  both; the rest is citing.

`SitePages` runs one page at a time on the variables of all, so each page has
its own inductive invariant and its steps leave those of the others alone.
`SectionStays` says that the choice of `Init` stays. The theorems are for any
number of openings, tabs, items, requests, letters and policies.

* `SitePagesProofs`.
  `LetterInv` and `DataInv` give `CodesAreSpentOnce`: a letter is marked used by
  one tab (`TabsServed`), a request goes on with a code of its own purpose
  (`RequestsMatch`), and a reset is granted by the one `DELETE` that found its
  row (`GrantedOnce`); exports and uploads are numbered, so that no answer is
  taken for another (`Numbered`), and the code in force has as many wrong guesses
  as attempts (`CodeInForce`).
  `AgreeInv` gives `ConsentIsKept`: while the gate writes, what is no longer to
  be written is on record (`Recorded`).
  `LinkInv` gives `LinksOpenAsShown`: unless a question was hidden past its
  controller, the one on the buttons is that of the question on display.
  `HomeInv` gives `ProfilesConverge`: links only go (`LinksShrink`), the last
  reading after a change brings what the account has by now (`LastReads`), and
  what is not shown yet is still being read (`Converges`).
  `PolicyInv` gives `TextsAsAddressed`: every file on display, cached or still
  to be tried is of its route's policy and version (`TextsFit`), and the frame
  and the newest render go with the route read last (`Tracks`). That the newest
  version exists (`HasNewest`) and that the files of a route fit it
  (`AttemptsFit`) hold for every finite manifest; the first is an induction,
  done on a smallest counterexample since the library's theorems cannot be
  instantiated. `HandleRouteChange`, `Rendered` and the two answers of a file
  are the only steps that set the frame; `QuietStep` covers the others.
* `SiteDialogsProofs`.
  `FormInv` gives `CountdownIsHeld`, `CaptchasServe` and `ResetsAreCoded`: only
  the open dialog can be waiting for a captcha or a code, and for one of them at
  a time, unless it waited too long (`DialogWaits`, `DeletionCounts`); a captcha
  that is drawn or awaited has something pending (`CaptchaPends`); whatever
  registered address the server answered with success has a code or a failed
  look-up on record (`CodesMade`).
  `DashInv` gives `CamerasEnd`, `AvatarsAgree` and `LogsInOrder`: one dialog is
  open and only its camera is on (`OneDialog`), one controller waits for the
  confirm dialog (`OneConfirms`), and an opening of the log waits for one page,
  which comes after all that are listed (`LogAwaits`).
  `AdminInv` gives `DeletionsLast` and, with `DashInv`, `ConfirmsAsShown`: one
  handler is on the confirm dialog's button (`OneArmed`), and unless a deletion
  crossed another answer, or the item had two rows, no answer under way has it
  and its rows are on their way out (`GoneAway`).

The assumptions these proofs need are those of `SitePages`: sentinels such as
`NoLetter` lie outside the sets they stand beside (`SentinelsAssumption`), the
bounds are numbers (`BoundsAssumption`), and the manifest is what the build
writes (`ManifestAssumption`): finitely many numbered versions, each with one of
the three states and a list of distinct languages. Every invariant above was
checked by TLC, as an invariant of its run, before it was proved.



Every safety property of the runs is a theorem. Only model-checked: the
liveness properties `EventuallyFresh`, `RequestReturns`, `CallersReturn` and
`ConfirmedSettles`, which rest on fairness and are beyond the prover, and the
five that are refuted, whose counterexamples TLC finds. That the claim refuted by `user_cache_stale` fails for one
fill only is proved (`AtMostOneStaleFill`). Type correctness of `UserCache`, `SessionTokens`,
`SessionRefresh`, `QRCodes`, `QRPage`, `UserAdmin` and `OAuthProvider` is a
theorem and not part of the runs; for the pages the types that matter are conjuncts of the
invariants above (`LetterTypes`, `DataTypes`,
`AgreeTypes`, `FormTypes`, `DashTypes`, `HomeTypes`, `RowTypes`, `PolicyTypes`).
`LandsOnConfirmed` is run for the patient user; the theorem has the impatient
one as well.

## 6. Not modelled

`InvalidateAll` (no caller) and hit counters of the cache; bans in the session
store (a banned login issues no row, and the column that a refresh tests is
never set); signing and verification of access tokens; the probe of a waiting
tab is not a holder of the Web Lock but can make another tab's request find it
busy; encryption of the login codes and the information about the PC that a
phone shows; `UpdateStatus` and `ConfirmLogin` of the code table (no caller).

External login on the server: states and pending links are in maps under one
mutex and taken once; what they link depends on what the provider answers,
which would have to be invented. The pages' side is in `DashboardPage` and
`AccountForms`. The WebSocket hub's shards and counters: `QRPage` lets a
connection be lost or refused at any time, and the counter is seen by nobody
else. Rate limiters and the image helper client: token buckets on real-valued
clocks and an availability flag; without time they say that a request may be
refused, which every module allows. Access control, mail, captcha
verification, start-up, schema, build tool, image helper: stateless or I/O.
Vendored libraries (`shared/js/lib`) are pure functions here; they are about
half of the TypeScript in the repository.

Of the pages: wording, icons, heights, dates, scrolling and animations, the
statistics of the administration (`stats.ts`), search texts and page numbers
(a list answers any part of its rows), the countdown of a code's expiry (only a
text), the effects of the home page.

## 7. Plan

1. What `ConfirmedSettles` and `RequestReturns` rest on but the prover can
   reach: that the step their fairness is about is possible when it should be,
   as invariants without `ENABLED`.
2. The WebSocket hub with its counter, and the state store of external login.

