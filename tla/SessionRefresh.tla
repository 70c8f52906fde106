---------------------------- MODULE SessionRefresh ----------------------------
(***************************************************************************)
(* The silent renewal of a session in the browser                          *)
(* (shared/js/utils/session-refresh.ts) and the API wrapper that asks for  *)
(* it after a 401 (shared/js/utils/api.ts).                                *)
(*                                                                         *)
(* Several tabs share one cookie jar and renew the same refresh token.     *)
(* They exclude each other with the Web Locks API or, where the browser    *)
(* has none, with a time stamp in localStorage.  The server is the         *)
(* abstract TokenRotation, which SessionTokens implements.                 *)
(*                                                                         *)
(* Clocks are left out: a time stamp may age, a wait may time out and a    *)
(* fetch may be aborted at any moment, since the server may be slow.       *)
(***************************************************************************)
EXTENDS Naturals, FiniteSets

CONSTANTS
    Tabs, Callers,
    TabOf,      \* the tab each API caller runs in
    Tokens,     \* refresh tokens the server can draw (bound)
    NoTab, NoToken,
    WebLocks,   \* whether the browser has navigator.locks
    MaxNet      \* refreshes under way while further callers arrive (bound)

ASSUME BrowserAssumption ==
    /\ TabOf \in [Callers -> Tabs]
    /\ WebLocks \in BOOLEAN
    /\ MaxNet \in Nat
    /\ NoTab \notin Tabs
    /\ NoToken \notin Tokens

VARIABLES
    issued, live, spent, parent,    \* the server, as in TokenRotation
    jar,        \* cookie: refresh token
    access,     \* cookie: whether the access token is accepted
    holder,     \* Web Lock: the tab that holds it
    stamp,      \* localStorage lock: "none", "fresh" or "stale"
    pc,         \* per tab: where refreshPromise stands, "idle" when null
    call,       \* per API caller: where requestWithAuthRetry stands
    net,        \* refresh requests and responses under way
    replayed,   \* history: the server was shown a spent token
    disturbed   \* history: what went wrong or crossed so far

Rotation == INSTANCE TokenRotation

server  == <<issued, live, spent, parent>>
cookies == <<jar, access>>
locks   == <<holder, stamp>>
history == <<replayed, disturbed>>
vars == <<server, cookies, locks, pc, call, net, history>>

\* A refresh under way: tab is NoTab once nobody waits for the response.
Message == [tab: Tabs \cup {NoTab}, tok: Tokens \cup {NoToken},
            stage: {"sent", "spent", "ok", "denied", "error"},
            new: Tokens \cup {NoToken}]

TypeOK ==
    /\ issued \subseteq Tokens /\ live \subseteq issued /\ spent \subseteq issued
    /\ parent \in [Tokens -> Tokens \cup {NoToken}]
    /\ jar \in issued \cup {NoToken}
    /\ access \in BOOLEAN
    /\ holder \in Tabs \cup {NoTab}
    /\ stamp \in {"none", "fresh", "stale"}
    /\ pc \in [Tabs -> {"away", "idle", "start", "set", "locked", "fetch", "wait"}]
    /\ call \in [Callers -> {"idle", "denied", "wait", "again", "failed"}]
    /\ net \subseteq Message
    /\ \A t \in Tabs : Cardinality({m \in net : m.tab = t}) = (IF pc[t] = "fetch" THEN 1 ELSE 0)
    /\ replayed \in BOOLEAN
    /\ disturbed \subseteq {"abort", "error", "noLocks", "login"}

Init ==
    /\ Rotation!Init
    /\ jar = NoToken
    /\ access = FALSE
    /\ holder = NoTab
    /\ stamp = "none"
    /\ pc = [t \in Tabs |-> "away"]
    /\ call = [c \in Callers |-> "idle"]
    /\ net = {}
    /\ replayed = FALSE
    /\ disturbed = {}

(***************************************************************************)
(* API callers                                                             *)
(***************************************************************************)

\* A request is answered 401; any other answer ends it.
Unauthorized(c) ==
    /\ call[c] = "idle"
    /\ pc[TabOf[c]] # "away"
    /\ ~access
    /\ Cardinality(net) < MaxNet
    /\ call' = [call EXCEPT ![c] = "denied"]
    /\ UNCHANGED <<server, cookies, locks, pc, net, history>>

\* refreshSession: join the refresh of this tab, or start it.
RefreshSession(c) ==
    /\ call[c] = "denied"
    /\ call' = [call EXCEPT ![c] = "wait"]
    /\ pc' = IF pc[TabOf[c]] = "idle" THEN [pc EXCEPT ![TabOf[c]] = "start"] ELSE pc
    /\ UNCHANGED <<server, cookies, locks, net, history>>

\* The original request is sent once more, with the cookies there are now.
Retry(c) ==
    /\ call[c] = "again"
    /\ call' = [call EXCEPT ![c] = IF access THEN "idle" ELSE "failed"]
    /\ UNCHANGED <<server, cookies, locks, pc, net, history>>

\* skipAuthRedirect, or a download: the error goes to the page.
GiveUp(c) ==
    /\ call[c] = "failed"
    /\ call' = [call EXCEPT ![c] = "idle"]
    /\ UNCHANGED <<server, cookies, locks, pc, net, history>>

Orphaned(t) ==
    {m \in net : m.tab # t}
        \cup {[m EXCEPT !.tab = NoTab] :
                 m \in {x \in net : x.tab = t /\ x.stage \in {"sent", "spent"}}}

\* The page is left: its callers and its fetch die, the browser frees its lock.
Leave(t) ==
    /\ pc' = [pc EXCEPT ![t] = "away"]
    /\ call' = [c \in Callers |-> IF TabOf[c] = t THEN "idle" ELSE call[c]]
    /\ holder' = IF holder = t THEN NoTab ELSE holder
    /\ net' = Orphaned(t)
    /\ disturbed' = IF pc[t] = "fetch" THEN disturbed \cup {"abort"} ELSE disturbed
    /\ UNCHANGED <<server, cookies, stamp, replayed>>

Redirect(c) ==
    /\ call[c] = "failed"
    /\ Leave(TabOf[c])

CloseTab(t) ==
    /\ pc[t] # "away"
    /\ Leave(t)

(***************************************************************************)
(* One refresh of a tab                                                    *)
(***************************************************************************)

\* refreshPromise is reset and all callers that joined get the outcome.
Settle(t, outcome) ==
    /\ pc' = [pc EXCEPT ![t] = "idle"]
    /\ holder' = IF holder = t THEN NoTab ELSE holder
    /\ call' = [c \in Callers |->
                   IF TabOf[c] = t /\ call[c] = "wait"
                   THEN IF outcome = "fail" THEN "failed" ELSE "again"
                   ELSE call[c]]

Goto(t, next) ==
    /\ pc' = [pc EXCEPT ![t] = next]
    /\ UNCHANGED <<server, cookies, call, net, replayed>>

\* navigator.locks.request with ifAvailable.
LockGranted(t) ==
    /\ WebLocks
    /\ pc[t] = "start"
    /\ holder = NoTab
    /\ holder' = t
    /\ Goto(t, "locked")
    /\ UNCHANGED <<stamp, disturbed>>

\* The lock is held by a refresh or, for a moment, by a probe of a waiting tab.
LockBusy(t) ==
    /\ WebLocks
    /\ pc[t] = "start"
    /\ holder # NoTab \/ \E u \in Tabs : pc[u] = "wait"
    /\ Goto(t, "wait")
    /\ UNCHANGED <<locks, disturbed>>

\* The Web Locks API or localStorage throws, while the lock is asked for or
\* waited for: the refresh runs without one.
LocksThrow(t) ==
    /\ pc[t] \in {"start", "set", "wait"}
    /\ Goto(t, "locked")
    /\ disturbed' = disturbed \cup {"noLocks"}
    /\ UNCHANGED locks

\* A waiting tab finds the lock free: somebody else has refreshed.
ProbeFree(t) ==
    /\ WebLocks
    /\ pc[t] = "wait"
    /\ holder = NoTab
    /\ Settle(t, "retry")
    /\ UNCHANGED <<server, cookies, stamp, net, history>>

\* localStorage.getItem finds no lock, or one older than three seconds.
ReadStamp(t) ==
    /\ ~WebLocks
    /\ pc[t] = "start"
    /\ Goto(t, IF stamp = "fresh" THEN "wait" ELSE "set")
    /\ UNCHANGED <<locks, disturbed>>

\* localStorage.setItem; another tab may have run since getItem.
WriteStamp(t) ==
    /\ pc[t] = "set"
    /\ stamp' = "fresh"
    /\ Goto(t, "locked")
    /\ UNCHANGED <<holder, disturbed>>

StampAges ==
    /\ stamp = "fresh"
    /\ stamp' = "stale"
    /\ UNCHANGED <<server, cookies, holder, pc, call, net, history>>

SeeRelease(t) ==
    /\ ~WebLocks
    /\ pc[t] = "wait"
    /\ stamp = "none"
    /\ Settle(t, "retry")
    /\ UNCHANGED <<server, cookies, stamp, net, history>>

WaitTimeout(t) ==
    /\ pc[t] = "wait"
    /\ Settle(t, "fail")
    /\ UNCHANGED <<server, cookies, stamp, net, history>>

\* Mutant: the Web Lock is given back when the fetch is started, too.
SendReleases(t) ==
    /\ pc[t] = "locked"
    /\ pc' = [pc EXCEPT ![t] = "fetch"]
    /\ net' = net \cup {[tab |-> t, tok |-> jar, stage |-> "sent", new |-> NoToken]}
    /\ holder' = IF holder = t THEN NoTab ELSE holder
    /\ stamp' = "none"
    /\ UNCHANGED <<server, cookies, call, history>>

\* performRefreshFetch.  With the time stamp, the fetch is returned and not
\* awaited, so the finally block removes the lock as soon as it is started.
Send(t) ==
    /\ pc[t] = "locked"
    /\ pc' = [pc EXCEPT ![t] = "fetch"]
    /\ net' = net \cup {[tab |-> t, tok |-> jar, stage |-> "sent", new |-> NoToken]}
    /\ stamp' = "none"
    /\ UNCHANGED <<server, cookies, holder, call, history>>

\* Mutant: the fetch has no timeout.
NeverAborts(t) == FALSE /\ UNCHANGED vars

\* Ten seconds have passed, or the connection broke.
FetchAborts(t) ==
    /\ pc[t] = "fetch"
    /\ net' = Orphaned(t)
    /\ Settle(t, "fail")
    /\ disturbed' = disturbed \cup {"abort"}
    /\ UNCHANGED <<server, cookies, stamp, replayed>>

\* The cookies of the response are stored, then the fetch resolves.  A refusal
\* clears the refresh cookie, whatever it holds by now.
Receive(t) ==
    \E m \in net :
        /\ m.tab = t
        /\ m.stage \in {"ok", "denied", "error"}
        /\ net' = net \ {m}
        /\ jar' = CASE m.stage = "ok" -> m.new
                    [] m.stage = "denied" -> NoToken
                    [] OTHER -> jar
        /\ access' = (m.stage = "ok" \/ access)
        /\ Settle(t, IF m.stage = "ok" THEN "ok" ELSE "fail")
        /\ UNCHANGED <<server, stamp, history>>

(***************************************************************************)
(* The server: POST /api/auth/refresh                                      *)
(***************************************************************************)

\* A response nobody waits for is lost with its cookies.
Answer(m, stage, new) ==
    net' = (net \ {m}) \cup
               (IF m.tab = NoTab /\ stage # "spent" THEN {}
                ELSE {[m EXCEPT !.stage = stage, !.new = new]})

ServeSpend(m) ==
    /\ m.stage = "sent"
    /\ Rotation!Spend(m.tok)
    /\ Answer(m, "spent", NoToken)
    /\ UNCHANGED <<cookies, locks, pc, call, history>>

ServeReplace(m) ==
    /\ m.stage = "spent"
    /\ \E n \in Tokens : Rotation!Replace(m.tok, n) /\ Answer(m, "ok", n)
    /\ UNCHANGED <<cookies, locks, pc, call, history>>

\* Unknown, expired or spent.  The family revoked for a spent token is that
\* token alone, which is not live.
ServeDeny(m) ==
    /\ m.stage = "sent"
    /\ m.tok \in issued \ live
    /\ Answer(m, "denied", NoToken)
    /\ replayed' = (replayed \/ m.tok \in spent)
    /\ UNCHANGED <<server, cookies, locks, pc, call, disturbed>>

\* No cookie came with the request, or a statement failed (500): the refresh
\* cookie is left as it is, though the token may be spent already.
ServeError(m) ==
    /\ m.stage \in {"sent", "spent"}
    /\ Answer(m, "error", NoToken)
    /\ disturbed' = IF m.tok = NoToken THEN disturbed ELSE disturbed \cup {"error"}
    /\ UNCHANGED <<server, cookies, locks, pc, call, replayed>>

\* Expiry, logout elsewhere, password change.
ServerDrops ==
    /\ \E t \in live : live' = live \ {t}
    /\ Rotation!Drop
    /\ UNCHANGED <<cookies, locks, pc, call, net, history>>

(***************************************************************************)
(* The user                                                                *)
(***************************************************************************)

AccessExpires ==
    /\ access
    /\ access' = FALSE
    /\ UNCHANGED <<server, jar, locks, pc, call, net, history>>

Login(t) ==
    /\ pc[t] = "away"
    /\ \E n \in Tokens : Rotation!Issue(n) /\ jar' = n
    /\ access' = TRUE
    /\ pc' = [pc EXCEPT ![t] = "idle"]
    /\ disturbed' = IF net # {} \/ \E c \in Callers : call[c] # "idle"
                    THEN disturbed \cup {"login"} ELSE disturbed
    /\ UNCHANGED <<locks, call, net, replayed>>

OpenTab(t) ==
    /\ pc[t] = "away"
    /\ pc' = [pc EXCEPT ![t] = "idle"]
    /\ UNCHANGED <<server, cookies, locks, call, net, history>>

CallerStep(c) == RefreshSession(c) \/ Retry(c) \/ GiveUp(c) \/ Redirect(c)

TabStep(t) ==
    \/ LockGranted(t) \/ LockBusy(t) \/ LocksThrow(t) \/ ProbeFree(t)
    \/ ReadStamp(t) \/ WriteStamp(t) \/ SeeRelease(t) \/ WaitTimeout(t)
    \/ Send(t) \/ FetchAborts(t) \/ Receive(t)

ServerStep ==
    \/ \E m \in net : ServeSpend(m) \/ ServeReplace(m) \/ ServeDeny(m) \/ ServeError(m)
    \/ ServerDrops

Next ==
    \/ \E c \in Callers : Unauthorized(c) \/ CallerStep(c)
    \/ \E t \in Tabs : TabStep(t) \/ CloseTab(t) \/ Login(t) \/ OpenTab(t)
    \/ ServerStep
    \/ StampAges
    \/ AccessExpires

Spec == Init /\ [][Next]_vars

\* A tab that is open runs its promises and timers; the server may be silent.
FairSpec == Spec /\ \A t \in Tabs : WF_vars(TabStep(t))

(***************************************************************************)
(* Properties                                                              *)
(***************************************************************************)

\* No response was lost, no statement failed, no lock API threw, and no login
\* crossed a refresh.
Calm == disturbed = {}

\* The header of session-refresh.ts: tabs exclude each other.  No two tabs
\* have a refresh request under way, unless the lock API itself failed.
OneFetch ==
    "noLocks" \notin disturbed =>
        \A t, u \in Tabs : pc[t] = "fetch" /\ pc[u] = "fetch" => t = u

\* What the exclusion is for: the server is shown a spent token only after a
\* response was lost or the server failed, never because tabs raced.
ReplayNeedsFailure ==
    replayed => disturbed \cap {"abort", "error", "noLocks"} # {}

\* A refusal never clears a refresh cookie that still works, as long as no
\* response was lost and no login crossed the refresh.
RefusalClearsDeadToken ==
    [][Calm => ~(jar \in live /\ jar' = NoToken)]_vars

\* Every caller that waits for a refresh gets an outcome, even if the server
\* never answers: a shared promise is never left pending.
CallersReturn == \A c \in Callers : call[c] = "wait" ~> call[c] # "wait"
=============================================================================
