------------------------- MODULE SessionRefreshProofs -------------------------
(***************************************************************************)
(* With Web Locks, any number of tabs have one refresh request under way   *)
(* (LockHeld).  Hence no race of theirs shows the server a spent token or  *)
(* clears a cookie that still works (RaceInv).  The types hold in every    *)
(* browser: a tab that fetches waits for one response (TInv).              *)
(***************************************************************************)
EXTENDS SessionRefresh, FiniteSetTheorems, TLAPS

\* A tab that is about to fetch or fetching holds the Web Lock, unless the
\* lock API threw in some tab before.
LockHeld ==
    /\ pc \in [Tabs -> {"away", "idle", "start", "set", "locked", "fetch", "wait"}]
    /\ \A t \in Tabs : pc[t] # "set"
    /\ "noLocks" \notin disturbed =>
           \A t \in Tabs : pc[t] \in {"locked", "fetch"} => holder = t

LEMMA InitLockHeld == Init => LockHeld
BY DEF Init, LockHeld

\* The steps at which a tab lets go of the lock also end its fetch.
LEMMA ReleasingStep ==
    ASSUME LockHeld, NEW t \in Tabs, NEW next \in {"away", "idle"},
           pc' = [pc EXCEPT ![t] = next],
           holder' = IF holder = t THEN NoTab ELSE holder,
           disturbed \subseteq disturbed'
    PROVE  LockHeld'
<1>1. ASSUME "noLocks" \notin disturbed', NEW u \in Tabs, pc'[u] \in {"locked", "fetch"}
      PROVE  holder' = u
  BY <1>1 DEF LockHeld
<1>2. QED BY <1>1 DEF LockHeld

\* Steps that start or end no refresh and leave the lock alone.
LEMMA BystanderStep ==
    ASSUME LockHeld, UNCHANGED holder, disturbed \subseteq disturbed',
           pc' \in [Tabs -> {"away", "idle", "start", "set", "locked", "fetch", "wait"}],
           \A t \in Tabs : pc'[t] = pc[t] \/ pc'[t] \in {"idle", "start"}
    PROVE  LockHeld'
BY DEF LockHeld

LEMMA TabKeepsLock ==
    ASSUME WebLocks, LockHeld, NEW t \in Tabs, TabStep(t)
    PROVE  LockHeld'
<1>1. CASE LockGranted(t)
  BY <1>1, BrowserAssumption DEF LockGranted, Goto, LockHeld
<1>2. CASE LockBusy(t)
  BY <1>2 DEF LockBusy, Goto, locks, LockHeld
<1>3. CASE LocksThrow(t)
  BY <1>3 DEF LocksThrow, Goto, locks, LockHeld
<1>4. CASE ProbeFree(t) \/ SeeRelease(t) \/ WaitTimeout(t) \/ FetchAborts(t) \/ Receive(t)
  <2>1. /\ \E outcome : Settle(t, outcome)
        /\ disturbed \subseteq disturbed'
    BY <1>4 DEF ProbeFree, SeeRelease, WaitTimeout, FetchAborts, Receive, history
  <2>2. /\ pc' = [pc EXCEPT ![t] = "idle"]
        /\ holder' = IF holder = t THEN NoTab ELSE holder
    BY <2>1 DEF Settle
  <2>3. QED BY <2>1, <2>2, ReleasingStep
<1>5. CASE ReadStamp(t) \/ WriteStamp(t)
  BY <1>5 DEF ReadStamp, WriteStamp, LockHeld
<1>6. CASE Send(t)
  BY <1>6 DEF Send, history, LockHeld
<1>7. QED BY <1>1, <1>2, <1>3, <1>4, <1>5, <1>6 DEF TabStep

LEMMA NextLockHeld ==
    ASSUME WebLocks, LockHeld, [Next]_vars
    PROVE  LockHeld'
<1>1. CASE \E t \in Tabs : TabStep(t)
  BY <1>1, TabKeepsLock
<1>2. CASE \/ \E c \in Callers : Redirect(c)
           \/ \E t \in Tabs : CloseTab(t)
  <2>1. PICK t \in Tabs : Leave(t)
    BY <1>2, BrowserAssumption DEF Redirect, CloseTab
  <2>2. /\ pc' = [pc EXCEPT ![t] = "away"]
        /\ holder' = IF holder = t THEN NoTab ELSE holder
        /\ disturbed \subseteq disturbed'
    BY <2>1 DEF Leave
  <2>3. QED BY <2>2, ReleasingStep
<1>3. CASE \/ \E c \in Callers : Unauthorized(c) \/ Retry(c) \/ GiveUp(c)
           \/ ServerStep \/ StampAges \/ AccessExpires \/ UNCHANGED vars
  <2>1. UNCHANGED <<pc, holder>> /\ disturbed \subseteq disturbed'
    BY <1>3 DEF Unauthorized, Retry, GiveUp, ServerStep, ServeSpend, ServeReplace,
                ServeDeny, ServeError, ServerDrops, StampAges, AccessExpires,
                vars, locks, history
  <2>2. QED BY <2>1, BystanderStep DEF LockHeld
<1>4. CASE \E c \in Callers : RefreshSession(c)
  <2>1. PICK c \in Callers : RefreshSession(c)
    BY <1>4
  <2>2. /\ TabOf[c] \in Tabs /\ UNCHANGED <<holder, disturbed>>
        /\ pc' = pc \/ pc' = [pc EXCEPT ![TabOf[c]] = "start"]
    BY <2>1, BrowserAssumption DEF RefreshSession, locks, history
  <2>3. QED BY <2>2, BystanderStep DEF LockHeld
<1>5. CASE \E t \in Tabs : Login(t) \/ OpenTab(t)
  <2>1. PICK t \in Tabs : Login(t) \/ OpenTab(t)
    BY <1>5
  <2>2. /\ UNCHANGED holder /\ disturbed \subseteq disturbed'
        /\ pc' = [pc EXCEPT ![t] = "idle"]
    BY <2>1 DEF Login, OpenTab, locks, history
  <2>3. QED BY <2>2, BystanderStep DEF LockHeld
<1>6. QED BY <1>1, <1>2, <1>3, <1>4, <1>5 DEF Next, CallerStep

\* Where the browser has Web Locks, tabs exclude each other: at most one has a
\* refresh request under way, until the lock API itself throws.
THEOREM WebLocksExclude == WebLocks => (Spec => []OneFetch)
<1>1. SUFFICES ASSUME WebLocks PROVE Spec => []OneFetch
  OBVIOUS
<1>2. LockHeld /\ [Next]_vars => LockHeld'
  BY <1>1, NextLockHeld
<1>3. LockHeld => OneFetch
  BY DEF LockHeld, OneFetch
<1>4. QED BY <1>2, <1>3, InitLockHeld, PTL DEF Spec

(***************************************************************************)
(* What the exclusion is for: no race shows the server a spent token.      *)
(***************************************************************************)

\* What a lost response, a failed statement or a failed lock API leaves behind
\* may replay; a login that crosses a refresh may not.
Quiet == disturbed \cap {"abort", "error", "noLocks"} = {}

RefreshTypes ==
    /\ spent \subseteq issued /\ live \subseteq issued /\ issued \subseteq Tokens
    /\ jar \in issued \cup {NoToken}
    /\ net \subseteq Message
    /\ \A m \in net : /\ m.tok \in issued \cup {NoToken}
                      /\ m.stage = "spent" => m.tok # NoToken
                      /\ m.stage = "ok" => m.new \in issued

\* The one refresh under way: the tab that fetches waits for it.
OneUnderWay ==
    /\ \A m \in net : m.tab \in Tabs /\ pc[m.tab] = "fetch"
    /\ \A m, n \in net : m = n

\* The token a refresh shows is not spent before the server spends it, nor is
\* the one that it brings back; the cookie is spent only meanwhile.
CookieFollows ==
    /\ \A m \in net : /\ m.stage = "sent" => m.tok \notin spent
                      /\ m.stage = "ok" => m.new \notin spent
    /\ jar \in spent => \E m \in net : m.stage \in {"spent", "ok"}

\* A refused token is dead, and stays so; it is still the cookie unless a login
\* has crossed the refresh.
RefusedIsDead ==
    /\ \A m \in net : m.stage = "denied" => m.tok \notin live
    /\ "login" \notin disturbed => \A m \in net : m.tok = jar

RaceInv ==
    /\ LockHeld
    /\ RefreshTypes
    /\ replayed => ~Quiet
    /\ Quiet => OneUnderWay /\ CookieFollows /\ RefusedIsDead

LEMMA InitRaceInv == Init => RaceInv
BY InitLockHeld, BrowserAssumption DEF Init, Rotation!Init, RaceInv, RefreshTypes, Quiet,
   OneUnderWay,
   CookieFollows, RefusedIsDead

LEMMA NoiseStays == disturbed \subseteq disturbed' /\ Quiet' => Quiet
BY DEF Quiet

\* Steps that leave the server, its cookie and every refresh alone.
LEMMA AsideStep ==
    ASSUME RaceInv, LockHeld', UNCHANGED <<server, jar, net, replayed>>,
           disturbed \subseteq disturbed', \A t \in Tabs : pc[t] = "fetch" => pc'[t] = "fetch"
    PROVE  RaceInv'
<1> USE DEF server
<1>1. RefreshTypes'
  BY DEF RaceInv, RefreshTypes
<1>2. replayed' => ~Quiet'
  BY NoiseStays DEF RaceInv
<1>3. ASSUME Quiet' PROVE (OneUnderWay /\ CookieFollows /\ RefusedIsDead)'
  <2>1. OneUnderWay /\ CookieFollows /\ RefusedIsDead
    BY <1>3, NoiseStays DEF RaceInv
  <2>2. OneUnderWay'
    BY <2>1 DEF OneUnderWay
  <2>3. CookieFollows' /\ RefusedIsDead'
    BY <2>1 DEF CookieFollows, RefusedIsDead
  <2>4. QED BY <2>2, <2>3
<1>4. QED BY <1>1, <1>2, <1>3 DEF RaceInv

\* A page that is left while it fetches loses the response.
LEMMA LeaveStep == ASSUME RaceInv, LockHeld', NEW t \in Tabs, Leave(t) PROVE RaceInv'
<1>1. /\ UNCHANGED <<server, jar, replayed>> /\ disturbed \subseteq disturbed'
      /\ net' = Orphaned(t) /\ pc' = [pc EXCEPT ![t] = "away"]
      /\ pc[t] = "fetch" => ~Quiet'
  BY DEF Leave, cookies, Quiet
<1>2. \A m \in net' : \E n \in net : /\ m.tok = n.tok /\ m.stage = n.stage /\ m.new = n.new
                                     /\ m \in Message
  BY <1>1 DEF Orphaned, RaceInv, RefreshTypes, Message
<1>3. RefreshTypes'
  <2>1. net' \subseteq Message
    BY <1>2
  <2>2. \A m \in net' : /\ m.tok \in issued \cup {NoToken}
                        /\ m.stage = "spent" => m.tok # NoToken
                        /\ m.stage = "ok" => m.new \in issued
    BY <1>2 DEF RaceInv, RefreshTypes
  <2>3. QED BY <1>1, <2>1, <2>2 DEF RaceInv, RefreshTypes, server
<1>4. replayed' => ~Quiet'
  BY <1>1, NoiseStays DEF RaceInv
<1>5. ASSUME Quiet' PROVE (OneUnderWay /\ CookieFollows /\ RefusedIsDead)'
  <2>1. /\ OneUnderWay /\ CookieFollows /\ RefusedIsDead
        /\ pc[t] # "fetch"
    BY <1>1, <1>5, NoiseStays DEF RaceInv
  <2>2. \A m \in net : m.tab # t
    BY <2>1 DEF OneUnderWay
  <2>3. net' = net
    BY <1>1, <2>2 DEF Orphaned
  <2>4. OneUnderWay'
    BY <1>1, <2>1, <2>2, <2>3 DEF OneUnderWay, RaceInv, LockHeld
  <2>5. CookieFollows'
    BY <1>1, <2>1, <2>3 DEF CookieFollows, server
  <2>6. RefusedIsDead'
    BY <1>1, <2>1, <2>3 DEF RefusedIsDead, server
  <2>7. QED BY <2>4, <2>5, <2>6
<1>6. QED BY <1>3, <1>4, <1>5 DEF RaceInv

\* A tab that holds the lock finds no refresh under way, so its cookie is unspent.
LEMMA SendStep == ASSUME RaceInv, LockHeld', NEW t \in Tabs, Send(t) PROVE RaceInv'
<1> DEFINE new == [tab |-> t, tok |-> jar, stage |-> "sent", new |-> NoToken]
<1>1. /\ UNCHANGED <<server, jar, replayed, disturbed, holder>>
      /\ net' = net \cup {new} /\ pc' = [pc EXCEPT ![t] = "fetch"] /\ pc[t] = "locked"
  BY DEF Send, cookies, history
<1>2. /\ new \in Message /\ new.tab = t /\ new.tok = jar /\ new.stage = "sent"
      /\ jar \in issued \cup {NoToken}
  BY DEF RaceInv, RefreshTypes, Message
<1> HIDE DEF new
<1>3. RefreshTypes'
  BY <1>1, <1>2 DEF RaceInv, RefreshTypes, server
<1>4. replayed' => ~Quiet'
  BY <1>1 DEF RaceInv, Quiet
<1>5. ASSUME Quiet' PROVE (OneUnderWay /\ CookieFollows /\ RefusedIsDead)'
  <2>1. OneUnderWay /\ CookieFollows /\ RefusedIsDead /\ "noLocks" \notin disturbed
    BY <1>1, <1>5 DEF RaceInv, Quiet
  <2>2. ASSUME NEW m \in net PROVE FALSE
    <3>1. m.tab \in Tabs /\ pc[m.tab] = "fetch"
      BY <2>1, <2>2 DEF OneUnderWay
    <3>2. holder = m.tab /\ holder = t
      BY <1>1, <2>1, <3>1 DEF RaceInv, LockHeld
    <3>3. QED BY <1>1, <3>1, <3>2
  <2>3. net = {} /\ net' = {new}
    BY <1>1, <2>2
  <2>4. jar \notin spent
    BY <2>1, <2>3 DEF CookieFollows
  <2>5. OneUnderWay'
    BY <1>1, <1>2, <2>3 DEF OneUnderWay, RaceInv, LockHeld
  <2>6. CookieFollows' /\ RefusedIsDead'
    BY <1>1, <1>2, <2>3, <2>4 DEF CookieFollows, RefusedIsDead, server
  <2>7. QED BY <2>5, <2>6
<1>6. QED BY <1>3, <1>4, <1>5 DEF RaceInv

LEMMA AbortStep == ASSUME RaceInv, LockHeld', NEW t \in Tabs, FetchAborts(t) PROVE RaceInv'
<1>1. /\ UNCHANGED <<server, jar, replayed>> /\ net' = Orphaned(t) /\ ~Quiet'
  BY DEF FetchAborts, cookies, Quiet
<1>2. \A m \in net' : \E n \in net : /\ m.tok = n.tok /\ m.stage = n.stage /\ m.new = n.new
                                     /\ m \in Message
  BY <1>1 DEF Orphaned, RaceInv, RefreshTypes, Message
<1>3. /\ net' \subseteq Message
      /\ \A m \in net' : /\ m.tok \in issued \cup {NoToken}
                         /\ m.stage = "spent" => m.tok # NoToken
                         /\ m.stage = "ok" => m.new \in issued
  BY <1>2 DEF RaceInv, RefreshTypes
<1>4. RefreshTypes'
  BY <1>1, <1>3 DEF RaceInv, RefreshTypes, server
<1>5. QED BY <1>1, <1>4 DEF RaceInv

\* The response that arrives is the only one; a refusal finds a dead cookie.
LEMMA ReceiveStep == ASSUME RaceInv, LockHeld', NEW t \in Tabs, Receive(t) PROVE RaceInv'
<1>1. PICK m \in net :
         /\ m.stage \in {"ok", "denied", "error"} /\ net' = net \ {m}
         /\ jar' = CASE m.stage = "ok" -> m.new
                     [] m.stage = "denied" -> NoToken
                     [] OTHER -> jar
         /\ UNCHANGED <<server, history>>
  BY DEF Receive
<1>2. UNCHANGED <<issued, live, spent, replayed, disturbed>>
  BY <1>1 DEF server, history
<1>3. /\ m.stage = "ok" => jar' = m.new
      /\ m.stage = "denied" => jar' = NoToken
      /\ m.stage = "error" => jar' = jar
  BY <1>1
<1>4. RefreshTypes'
  BY <1>1, <1>2, <1>3 DEF RaceInv, RefreshTypes
<1>5. replayed' => ~Quiet'
  BY <1>2 DEF RaceInv, Quiet
<1>6. ASSUME Quiet' PROVE (OneUnderWay /\ CookieFollows /\ RefusedIsDead)'
  <2>1. OneUnderWay /\ CookieFollows /\ RefusedIsDead
    BY <1>2, <1>6 DEF RaceInv, Quiet
  <2>2. net' = {}
    BY <1>1, <2>1 DEF OneUnderWay
  <2>3. NoToken \notin spent
    BY BrowserAssumption DEF RaceInv, RefreshTypes
  <2>4. jar' \notin spent
    BY <1>1, <1>3, <2>1, <2>3 DEF OneUnderWay, CookieFollows
  <2>5. QED BY <1>2, <2>2, <2>4 DEF OneUnderWay, CookieFollows, RefusedIsDead
<1>7. QED BY <1>4, <1>5, <1>6 DEF RaceInv

(***************************************************************************)
(* The server's answers                                                    *)
(***************************************************************************)

\* An answer takes the place of the request, or is lost with a lost fetch.
LEMMA AnswerStep ==
    ASSUME RefreshTypes, NEW m \in net, NEW s \in {"spent", "ok", "denied", "error"},
           NEW n \in Tokens \cup {NoToken}, Answer(m, s, n)
    PROVE  \E a \in Message :
              /\ a.tab = m.tab /\ a.tok = m.tok /\ a.stage = s /\ a.new = n
              /\ net' = net \ {m} \/ net' = (net \ {m}) \cup {a}
              /\ m.tab \in Tabs => net' = (net \ {m}) \cup {a}
<1> DEFINE a == [m EXCEPT !.stage = s, !.new = n]
<1>1. m \in Message
  BY DEF RefreshTypes
<1>2. /\ a \in Message /\ a.tab = m.tab /\ a.tok = m.tok /\ a.stage = s /\ a.new = n
  BY <1>1 DEF Message
<1>3. /\ net' = net \ {m} \/ net' = (net \ {m}) \cup {a}
      /\ m.tab \in Tabs => net' = (net \ {m}) \cup {a}
  BY BrowserAssumption DEF Answer
<1> HIDE DEF a
<1>4. QED BY <1>2, <1>3

\* When nothing has gone wrong, the answer is all there is under way.
LEMMA OnlyAnswer ==
    ASSUME OneUnderWay, NEW m \in net, NEW a, m.tab \in Tabs => net' = (net \ {m}) \cup {a},
           a.tab = m.tab, UNCHANGED pc
    PROVE  net = {m} /\ net' = {a} /\ OneUnderWay'
BY DEF OneUnderWay

LEMMA SpendStep == ASSUME RaceInv, LockHeld', NEW m \in net, ServeSpend(m) PROVE RaceInv'
<1>1. /\ m.stage = "sent" /\ m.tok \in live /\ live' = live \ {m.tok}
      /\ spent' = spent \cup {m.tok} /\ Answer(m, "spent", NoToken)
      /\ UNCHANGED <<issued, jar, pc, replayed, disturbed>>
  BY DEF ServeSpend, Rotation!Spend, cookies, history
<1>2. PICK a \in Message :
         /\ a.tab = m.tab /\ a.tok = m.tok /\ a.stage = "spent" /\ a.new = NoToken
         /\ net' = net \ {m} \/ net' = (net \ {m}) \cup {a}
         /\ m.tab \in Tabs => net' = (net \ {m}) \cup {a}
  BY <1>1, AnswerStep DEF RaceInv
<1>3. RefreshTypes'
  BY <1>1, <1>2, BrowserAssumption DEF RaceInv, RefreshTypes
<1>4. replayed' => ~Quiet'
  BY <1>1 DEF RaceInv, Quiet
<1>5. ASSUME Quiet' PROVE (OneUnderWay /\ CookieFollows /\ RefusedIsDead)'
  <2>1. OneUnderWay /\ CookieFollows /\ RefusedIsDead
    BY <1>1, <1>5 DEF RaceInv, Quiet
  <2>2. net = {m} /\ net' = {a} /\ OneUnderWay'
    BY <1>1, <1>2, <2>1, OnlyAnswer
  <2>3. CookieFollows' /\ RefusedIsDead'
    BY <1>1, <1>2, <2>1, <2>2 DEF CookieFollows, RefusedIsDead
  <2>4. QED BY <2>2, <2>3
<1>6. QED BY <1>3, <1>4, <1>5 DEF RaceInv

LEMMA ReplaceStep == ASSUME RaceInv, LockHeld', NEW m \in net, ServeReplace(m) PROVE RaceInv'
<1>1. PICK n \in Tokens :
         /\ n \notin issued /\ issued' = issued \cup {n} /\ live' = live \cup {n}
         /\ Answer(m, "ok", n)
         /\ m.stage = "spent" /\ UNCHANGED <<spent, jar, pc, replayed, disturbed>>
  BY DEF ServeReplace, Rotation!Replace, cookies, history
<1>2. PICK a \in Message :
         /\ a.tab = m.tab /\ a.tok = m.tok /\ a.stage = "ok" /\ a.new = n
         /\ net' = net \ {m} \/ net' = (net \ {m}) \cup {a}
         /\ m.tab \in Tabs => net' = (net \ {m}) \cup {a}
  BY <1>1, AnswerStep DEF RaceInv
<1>3. RefreshTypes'
  BY <1>1, <1>2 DEF RaceInv, RefreshTypes
<1>4. replayed' => ~Quiet'
  BY <1>1 DEF RaceInv, Quiet
<1>5. ASSUME Quiet' PROVE (OneUnderWay /\ CookieFollows /\ RefusedIsDead)'
  <2>1. OneUnderWay /\ CookieFollows /\ RefusedIsDead
    BY <1>1, <1>5 DEF RaceInv, Quiet
  <2>2. net = {m} /\ net' = {a} /\ OneUnderWay'
    BY <1>1, <1>2, <2>1, OnlyAnswer
  <2>3. n \notin spent
    BY <1>1 DEF RaceInv, RefreshTypes
  <2>4. CookieFollows' /\ RefusedIsDead'
    BY <1>1, <1>2, <2>1, <2>2, <2>3 DEF CookieFollows, RefusedIsDead
  <2>5. QED BY <2>2, <2>4
<1>6. QED BY <1>3, <1>4, <1>5 DEF RaceInv

\* The token that is refused was never shown before: it is dead, but not spent.
LEMMA DenyStep == ASSUME RaceInv, LockHeld', NEW m \in net, ServeDeny(m) PROVE RaceInv'
<1>1. /\ m.stage = "sent" /\ m.tok \in issued \ live /\ Answer(m, "denied", NoToken)
      /\ replayed' = (replayed \/ m.tok \in spent)
      /\ UNCHANGED <<issued, live, spent, jar, pc, disturbed>>
  BY DEF ServeDeny, cookies, server
<1>2. PICK a \in Message :
         /\ a.tab = m.tab /\ a.tok = m.tok /\ a.stage = "denied" /\ a.new = NoToken
         /\ net' = net \ {m} \/ net' = (net \ {m}) \cup {a}
         /\ m.tab \in Tabs => net' = (net \ {m}) \cup {a}
  BY <1>1, AnswerStep DEF RaceInv
<1>3. RefreshTypes'
  BY <1>1, <1>2 DEF RaceInv, RefreshTypes
<1>4. ASSUME Quiet PROVE m.tok \notin spent
  BY <1>1, <1>4 DEF RaceInv, CookieFollows
<1>5. replayed' => ~Quiet'
  BY <1>1, <1>4 DEF RaceInv, Quiet
<1>6. ASSUME Quiet' PROVE (OneUnderWay /\ CookieFollows /\ RefusedIsDead)'
  <2>1. OneUnderWay /\ CookieFollows /\ RefusedIsDead
    BY <1>1, <1>6 DEF RaceInv, Quiet
  <2>2. net = {m} /\ net' = {a} /\ OneUnderWay'
    BY <1>1, <1>2, <2>1, OnlyAnswer
  <2>3. CookieFollows' /\ RefusedIsDead'
    BY <1>1, <1>2, <2>1, <2>2 DEF CookieFollows, RefusedIsDead
  <2>4. QED BY <2>2, <2>3
<1>7. QED BY <1>3, <1>5, <1>6 DEF RaceInv

\* A failure is noted, unless there was no cookie to show.
LEMMA ErrorStep == ASSUME RaceInv, LockHeld', NEW m \in net, ServeError(m) PROVE RaceInv'
<1>1. /\ m.stage \in {"sent", "spent"} /\ Answer(m, "error", NoToken)
      /\ UNCHANGED <<issued, live, spent, jar, pc, replayed>>
      /\ disturbed \subseteq disturbed'
      /\ m.tok # NoToken => ~Quiet'
  BY DEF ServeError, cookies, server, Quiet
<1>2. PICK a \in Message :
         /\ a.tab = m.tab /\ a.tok = m.tok /\ a.stage = "error" /\ a.new = NoToken
         /\ net' = net \ {m} \/ net' = (net \ {m}) \cup {a}
         /\ m.tab \in Tabs => net' = (net \ {m}) \cup {a}
  BY <1>1, AnswerStep DEF RaceInv
<1>3. RefreshTypes'
  BY <1>1, <1>2 DEF RaceInv, RefreshTypes
<1>4. replayed' => ~Quiet'
  BY <1>1, NoiseStays DEF RaceInv
<1>5. ASSUME Quiet' PROVE (OneUnderWay /\ CookieFollows /\ RefusedIsDead)'
  <2>1. OneUnderWay /\ CookieFollows /\ RefusedIsDead
    BY <1>1, <1>5, NoiseStays DEF RaceInv
  <2>2. net = {m} /\ net' = {a} /\ OneUnderWay'
    BY <1>1, <1>2, <2>1, OnlyAnswer
  <2>3. m.tok = NoToken
    BY <1>1, <1>5
  <2>4. m.stage = "sent"
    BY <1>1, <2>3 DEF RaceInv, RefreshTypes
  <2>5. CookieFollows' /\ RefusedIsDead'
    BY <1>1, <1>2, <2>1, <2>2, <2>4 DEF CookieFollows, RefusedIsDead
  <2>6. QED BY <2>2, <2>5
<1>6. QED BY <1>3, <1>4, <1>5 DEF RaceInv

LEMMA DropStep == ASSUME RaceInv, LockHeld', ServerDrops PROVE RaceInv'
<1>1. live' \subseteq live /\ UNCHANGED <<issued, spent, jar, pc, net, replayed, disturbed>>
  BY DEF ServerDrops, Rotation!Drop, cookies, history
<1>2. QED BY <1>1 DEF RaceInv, RefreshTypes, Quiet, OneUnderWay, CookieFollows, RefusedIsDead

\* A login stores a token that nobody has spent, and is noted if it crosses.
LEMMA LoginStep == ASSUME RaceInv, LockHeld', NEW t \in Tabs, Login(t) PROVE RaceInv'
<1>1. PICK n \in Tokens :
         /\ n \notin issued /\ issued' = issued \cup {n} /\ live' = live \cup {n}
         /\ jar' = n /\ UNCHANGED spent
  BY DEF Login, Rotation!Issue
<1>2. /\ UNCHANGED <<net, replayed>> /\ pc[t] = "away" /\ pc' = [pc EXCEPT ![t] = "idle"]
      /\ disturbed' \in {disturbed, disturbed \cup {"login"}}
      /\ net # {} => "login" \in disturbed'
  BY DEF Login
<1>3. RefreshTypes'
  BY <1>1, <1>2 DEF RaceInv, RefreshTypes
<1>4. replayed' => ~Quiet'
  BY <1>2 DEF RaceInv, Quiet
<1>5. ASSUME Quiet' PROVE (OneUnderWay /\ CookieFollows /\ RefusedIsDead)'
  <2>1. OneUnderWay /\ CookieFollows /\ RefusedIsDead
    BY <1>2, <1>5 DEF RaceInv, Quiet
  <2>2. n \notin spent
    BY <1>1 DEF RaceInv, RefreshTypes
  <2>3. \A u \in Tabs : pc[u] = "fetch" => pc'[u] = "fetch"
    BY <1>2 DEF RaceInv, LockHeld
  <2>4. OneUnderWay'
    BY <1>2, <2>1, <2>3 DEF OneUnderWay
  <2>5. CookieFollows'
    BY <1>1, <1>2, <2>1, <2>2 DEF CookieFollows
  <2>6. ASSUME NEW m \in net', m.stage = "denied" PROVE m.tok \notin live'
    BY <1>1, <1>2, <2>1, <2>6, BrowserAssumption DEF RefusedIsDead, RaceInv, RefreshTypes
  <2>7. RefusedIsDead'
    BY <1>2, <2>6 DEF RefusedIsDead
  <2>8. QED BY <2>4, <2>5, <2>7
<1>6. QED BY <1>3, <1>4, <1>5 DEF RaceInv

(***************************************************************************)
(* All steps                                                               *)
(***************************************************************************)

LEMMA TabRaces == ASSUME RaceInv, LockHeld', NEW t \in Tabs, TabStep(t) PROVE RaceInv'
<1>1. CASE Send(t)
  BY <1>1, SendStep
<1>2. CASE FetchAborts(t)
  BY <1>2, AbortStep
<1>3. CASE Receive(t)
  BY <1>3, ReceiveStep
<1>4. CASE \/ LockGranted(t) \/ LockBusy(t) \/ LocksThrow(t) \/ ProbeFree(t)
           \/ ReadStamp(t) \/ WriteStamp(t) \/ SeeRelease(t) \/ WaitTimeout(t)
  <2>1. /\ UNCHANGED <<server, jar, net, replayed>> /\ disturbed \subseteq disturbed'
        /\ pc[t] # "fetch" /\ \E next : pc' = [pc EXCEPT ![t] = next]
    BY <1>4 DEF LockGranted, LockBusy, LocksThrow, ProbeFree, ReadStamp, WriteStamp, SeeRelease,
                WaitTimeout, Goto, Settle, cookies, history, locks
  <2>2. \A u \in Tabs : pc[u] = "fetch" => pc'[u] = "fetch"
    BY <2>1 DEF RaceInv, LockHeld
  <2>3. QED BY <2>1, <2>2, AsideStep
<1>5. QED BY <1>1, <1>2, <1>3, <1>4 DEF TabStep

LEMMA ServerRaces == ASSUME RaceInv, LockHeld', ServerStep PROVE RaceInv'
BY SpendStep, ReplaceStep, DenyStep, ErrorStep, DropStep DEF ServerStep

LEMMA NextRaceInv == ASSUME WebLocks, RaceInv, [Next]_vars PROVE RaceInv'
<1>1. LockHeld'
  BY NextLockHeld DEF RaceInv
<1>2. CASE \E t \in Tabs : TabStep(t)
  BY <1>1, <1>2, TabRaces
<1>3. CASE \/ \E c \in Callers : Redirect(c)
           \/ \E t \in Tabs : CloseTab(t)
  <2>1. PICK t \in Tabs : Leave(t)
    BY <1>3, BrowserAssumption DEF Redirect, CloseTab
  <2>2. QED BY <1>1, <2>1, LeaveStep
<1>4. CASE ServerStep
  BY <1>1, <1>4, ServerRaces
<1>5. CASE \E t \in Tabs : Login(t)
  BY <1>1, <1>5, LoginStep
<1>6. CASE \/ \E c \in Callers : Unauthorized(c) \/ Retry(c) \/ GiveUp(c)
           \/ StampAges \/ AccessExpires \/ UNCHANGED vars
  <2>1. UNCHANGED <<server, jar, net, replayed, disturbed, pc>>
    BY <1>6 DEF Unauthorized, Retry, GiveUp, StampAges, AccessExpires, vars, cookies, history, locks
  <2>2. QED BY <1>1, <2>1, AsideStep
<1>7. CASE \/ \E c \in Callers : RefreshSession(c)
           \/ \E t \in Tabs : OpenTab(t)
  <2>1. PICK t \in Tabs :
           /\ \/ pc' = pc
              \/ pc[t] # "fetch" /\ \E next : pc' = [pc EXCEPT ![t] = next]
           /\ UNCHANGED <<server, jar, net, replayed, disturbed>>
    <3>1. CASE \E c \in Callers : RefreshSession(c)
      <4>1. PICK c \in Callers : RefreshSession(c)
        BY <3>1
      <4>2. /\ UNCHANGED <<server, jar, net, replayed, disturbed>> /\ TabOf[c] \in Tabs
            /\ \/ pc' = pc
               \/ pc[TabOf[c]] = "idle" /\ pc' = [pc EXCEPT ![TabOf[c]] = "start"]
        BY <4>1, BrowserAssumption DEF RefreshSession, cookies, history
      <4>3. QED BY <4>2
    <3>2. CASE \E t \in Tabs : OpenTab(t)
      BY <3>2 DEF OpenTab, cookies, history
    <3>3. QED BY <1>7, <3>1, <3>2
  <2>2. \A u \in Tabs : pc[u] = "fetch" => pc'[u] = "fetch"
    BY <2>1 DEF RaceInv, LockHeld
  <2>3. QED BY <1>1, <2>1, <2>2, AsideStep
<1>8. QED BY <1>2, <1>3, <1>4, <1>5, <1>6, <1>7 DEF Next, CallerStep

\* With Web Locks, the server is shown a spent token only after a response was
\* lost, a statement failed or the lock API threw, and never because tabs raced.
THEOREM RacesNeverReplay == WebLocks => (Spec => []ReplayNeedsFailure)
<1>1. SUFFICES ASSUME WebLocks PROVE Spec => []ReplayNeedsFailure
  OBVIOUS
<1>2. RaceInv /\ [Next]_vars => RaceInv'
  BY <1>1, NextRaceInv
<1>3. RaceInv => ReplayNeedsFailure
  BY DEF RaceInv, Quiet, ReplayNeedsFailure
<1>4. QED BY <1>2, <1>3, InitRaceInv, PTL DEF Spec

\* With Web Locks, a refusal does not clear a refresh cookie that still works,
\* as long as no response was lost and no login crossed the refresh.
THEOREM RefusalsClearDeadTokens == WebLocks => (Spec => RefusalClearsDeadToken)
<1>1. SUFFICES ASSUME WebLocks PROVE Spec => RefusalClearsDeadToken
  OBVIOUS
<1>2. RaceInv /\ [Next]_vars => RaceInv'
  BY <1>1, NextRaceInv
<1>3. ASSUME RaceInv, [Next]_vars, Calm, jar \in live, jar' = NoToken PROVE FALSE
  <2>1. jar' # jar
    BY <1>3, BrowserAssumption DEF RaceInv, RefreshTypes
  <2>2. ASSUME NEW t \in Tabs, Receive(t) PROVE FALSE
    <3>1. PICK m \in net :
             /\ m.stage \in {"ok", "denied", "error"}
             /\ jar' = CASE m.stage = "ok" -> m.new
                         [] m.stage = "denied" -> NoToken
                         [] OTHER -> jar
      BY <2>2 DEF Receive
    <3>2. CASE m.stage = "ok"
      BY <1>3, <3>1, <3>2, BrowserAssumption DEF RaceInv, RefreshTypes
    <3>3. CASE m.stage = "denied"
      BY <1>3, <3>3 DEF Calm, RaceInv, Quiet, RefusedIsDead
    <3>4. CASE m.stage = "error"
      BY <2>1, <3>1, <3>4
    <3>5. QED BY <3>1, <3>2, <3>3, <3>4
  <2>3. ASSUME NEW t \in Tabs, Login(t) PROVE FALSE
    BY <1>3, <2>3, BrowserAssumption DEF Login
  <2>4. ASSUME NEW t \in Tabs, TabStep(t), ~Receive(t) PROVE UNCHANGED jar
    BY <2>4 DEF TabStep, LockGranted, LockBusy, LocksThrow, ProbeFree, ReadStamp, WriteStamp,
                SeeRelease, WaitTimeout, Send, FetchAborts, Goto, Settle, cookies
  <2>5. ASSUME ServerStep PROVE UNCHANGED jar
    BY <2>5 DEF ServerStep, ServeSpend, ServeReplace, ServeDeny, ServeError, ServerDrops, cookies
  <2>6. ASSUME NEW c \in Callers, Unauthorized(c) \/ CallerStep(c) PROVE UNCHANGED jar
    BY <2>6 DEF Unauthorized, CallerStep, RefreshSession, Retry, GiveUp, Redirect, Leave, cookies
  <2>7. ASSUME NEW t \in Tabs, CloseTab(t) \/ OpenTab(t) PROVE UNCHANGED jar
    BY <2>7 DEF CloseTab, OpenTab, Leave, cookies
  <2>8. ASSUME StampAges \/ AccessExpires \/ UNCHANGED vars PROVE UNCHANGED jar
    BY <2>8 DEF StampAges, AccessExpires, cookies, vars
  <2>9. QED BY <1>3, <2>1, <2>2, <2>3, <2>4, <2>5, <2>6, <2>7, <2>8 DEF Next
<1>4. RaceInv /\ [Next]_vars => [Calm => ~(jar \in live /\ jar' = NoToken)]_vars
  BY <1>3
<1>5. QED BY <1>2, <1>4, InitRaceInv, PTL DEF Spec, RefusalClearsDeadToken

(***************************************************************************)
(* Types, with any browser: a tab that fetches waits for one response.     *)
(***************************************************************************)

\* A tab fetches exactly while one request of it is under way; a response that
\* nobody waits for belongs to no tab.
WaitsForOne ==
    /\ pc \in [Tabs -> {"away", "idle", "start", "set", "locked", "fetch", "wait"}]
    /\ \A t \in Tabs : pc[t] = "fetch" <=> \E m \in net : m.tab = t
    /\ \A m, n \in net : m.tab \in Tabs /\ m.tab = n.tab => m = n

OtherTypes ==
    /\ parent \in [Tokens -> Tokens \cup {NoToken}]
    /\ access \in BOOLEAN
    /\ holder \in Tabs \cup {NoTab}
    /\ stamp \in {"none", "fresh", "stale"}
    /\ call \in [Callers -> {"idle", "denied", "wait", "again", "failed"}]
    /\ replayed \in BOOLEAN
    /\ disturbed \subseteq {"abort", "error", "noLocks", "login"}

TInv == RefreshTypes /\ OtherTypes /\ WaitsForOne

LEMMA InitTInv == Init => TInv
BY BrowserAssumption DEF Init, Rotation!Init, TInv, RefreshTypes, OtherTypes, WaitsForOne

\* Steps that leave every refresh alone.
LEMMA OthersWait ==
    ASSUME WaitsForOne, UNCHANGED net, NEW t \in Tabs, pc[t] # "fetch",
           NEW next \in {"away", "idle", "start", "set", "locked", "wait"},
           pc' \in {pc, [pc EXCEPT ![t] = next]}
    PROVE  WaitsForOne'
BY DEF WaitsForOne

\* A fetch that ends before its response: what is under way belongs to nobody.
LEMMA OrphansWait ==
    ASSUME TInv, NEW t \in Tabs, NEW next \in {"away", "idle"},
           pc' = [pc EXCEPT ![t] = next], net' = Orphaned(t), UNCHANGED <<issued, jar>>,
           UNCHANGED <<spent, live>>
    PROVE  RefreshTypes' /\ WaitsForOne'
<1>1. \A m \in net' : \E n \in net :
         /\ m.tok = n.tok /\ m.stage = n.stage /\ m.new = n.new /\ m \in Message
         /\ \/ m = n /\ m.tab # t
            \/ n.tab = t /\ m.tab = NoTab
  BY DEF Orphaned, TInv, RefreshTypes, Message
<1>2. \A m \in net : m.tab # t => m \in net'
  BY DEF Orphaned
<1>3. NoTab \notin Tabs
  BY BrowserAssumption
<1>4. RefreshTypes'
  <2>1. net' \subseteq Message
    BY <1>1
  <2>2. \A m \in net' : /\ m.tok \in issued \cup {NoToken}
                        /\ m.stage = "spent" => m.tok # NoToken
                        /\ m.stage = "ok" => m.new \in issued
    BY <1>1 DEF TInv, RefreshTypes
  <2>3. QED BY <2>1, <2>2 DEF TInv, RefreshTypes
<1>5. \A u \in Tabs : pc'[u] = "fetch" <=> u # t /\ pc[u] = "fetch"
  BY DEF TInv, WaitsForOne
<1>6. \A u \in Tabs : (\E m \in net' : m.tab = u) <=> u # t /\ \E m \in net : m.tab = u
  BY <1>1, <1>2, <1>3
<1>7. \A m, n \in net' : m.tab \in Tabs /\ m.tab = n.tab => m = n
  BY <1>1, <1>3 DEF TInv, WaitsForOne
<1>8. pc' \in [Tabs -> {"away", "idle", "start", "set", "locked", "fetch", "wait"}]
  BY DEF TInv, WaitsForOne
<1>9. WaitsForOne'
  BY <1>5, <1>6, <1>7, <1>8 DEF TInv, WaitsForOne
<1>10. QED BY <1>4, <1>9

LEMMA SendTyped == ASSUME TInv, NEW t \in Tabs, Send(t) PROVE RefreshTypes' /\ WaitsForOne'
<1> DEFINE new == [tab |-> t, tok |-> jar, stage |-> "sent", new |-> NoToken]
<1>1. /\ UNCHANGED <<issued, live, spent, jar>>
      /\ net' = net \cup {new} /\ pc' = [pc EXCEPT ![t] = "fetch"] /\ pc[t] = "locked"
  BY DEF Send, cookies, server
<1>2. /\ new \in Message /\ new.tab = t /\ new.tok = jar /\ new.stage = "sent"
  BY DEF TInv, RefreshTypes, Message
<1> HIDE DEF new
<1>3. RefreshTypes'
  BY <1>1, <1>2 DEF TInv, RefreshTypes
<1>4. \A m \in net : m.tab # t
  BY <1>1 DEF TInv, WaitsForOne
<1>5. WaitsForOne'
  BY <1>1, <1>2, <1>4 DEF TInv, WaitsForOne
<1>6. QED BY <1>3, <1>5

LEMMA ReceiveTyped ==
    ASSUME TInv, NEW t \in Tabs, Receive(t)
    PROVE  RefreshTypes' /\ WaitsForOne'
<1>1. PICK m \in net :
         /\ m.tab = t /\ m.stage \in {"ok", "denied", "error"} /\ net' = net \ {m}
         /\ jar' = CASE m.stage = "ok" -> m.new
                     [] m.stage = "denied" -> NoToken
                     [] OTHER -> jar
         /\ UNCHANGED server /\ pc' = [pc EXCEPT ![t] = "idle"]
  BY DEF Receive, Settle
<1>2. UNCHANGED <<issued, live, spent>>
  BY <1>1 DEF server
<1>3. jar' \in issued' \cup {NoToken}
  BY <1>1, <1>2 DEF TInv, RefreshTypes
<1>4. RefreshTypes'
  BY <1>1, <1>2, <1>3 DEF TInv, RefreshTypes
<1>5. \A n \in net' : n.tab # t
  BY <1>1 DEF TInv, WaitsForOne
<1>6. WaitsForOne'
  BY <1>1, <1>5 DEF TInv, WaitsForOne
<1>7. QED BY <1>4, <1>6

\* An answer to a request is for the tab that sent it.
LEMMA AnswerWaits ==
    ASSUME TInv, NEW m \in net, NEW a, a.tab = m.tab, UNCHANGED pc,
           net' = net \ {m} \/ net' = (net \ {m}) \cup {a},
           m.tab \in Tabs => net' = (net \ {m}) \cup {a}
    PROVE  WaitsForOne'
<1>1. CASE m.tab \in Tabs
  BY <1>1 DEF TInv, WaitsForOne
<1>2. CASE m.tab \notin Tabs
  <2>1. \A n \in net' : n \in net \/ n.tab \notin Tabs
    BY <1>2
  <2>2. \A n \in net : n.tab \in Tabs => n \in net'
    BY <1>2
  <2>3. \A u \in Tabs : (\E n \in net' : n.tab = u) <=> \E n \in net : n.tab = u
    BY <2>1, <2>2
  <2>4. QED BY <2>1, <2>3 DEF TInv, WaitsForOne
<1>3. QED BY <1>1, <1>2

LEMMA ServerTyped == ASSUME TInv, ServerStep PROVE RefreshTypes' /\ WaitsForOne'
<1>1. CASE ServerDrops
  BY <1>1 DEF ServerDrops, Rotation!Drop, cookies, TInv, RefreshTypes, WaitsForOne
<1>2. ASSUME NEW m \in net, NEW s \in {"spent", "ok", "denied", "error"},
             NEW n \in Tokens \cup {NoToken}, Answer(m, s, n), UNCHANGED <<jar, pc>>,
             s = "spent" => m.tok # NoToken, s = "ok" => n \in issued',
             issued \subseteq issued', issued' \subseteq Tokens,
             live' \subseteq issued', spent' \subseteq issued'
      PROVE  RefreshTypes' /\ WaitsForOne'
  <2>1. PICK a \in Message :
           /\ a.tab = m.tab /\ a.tok = m.tok /\ a.stage = s /\ a.new = n
           /\ net' = net \ {m} \/ net' = (net \ {m}) \cup {a}
           /\ m.tab \in Tabs => net' = (net \ {m}) \cup {a}
    BY <1>2, AnswerStep DEF TInv
  <2>2. RefreshTypes'
    BY <1>2, <2>1 DEF TInv, RefreshTypes
  <2>3. QED BY <1>2, <2>1, <2>2, AnswerWaits
<1>3. ASSUME NEW m \in net, ServeSpend(m) PROVE RefreshTypes' /\ WaitsForOne'
  <2>1. /\ Answer(m, "spent", NoToken) /\ UNCHANGED <<jar, pc, issued>>
        /\ m.tok \in live /\ live' = live \ {m.tok} /\ spent' = spent \cup {m.tok}
    BY <1>3 DEF ServeSpend, Rotation!Spend, cookies
  <2>2. m.tok # NoToken /\ m.tok \in issued
    BY <2>1, BrowserAssumption DEF TInv, RefreshTypes
  <2>3. QED BY <1>2, <2>1, <2>2 DEF TInv, RefreshTypes
<1>4. ASSUME NEW m \in net, ServeReplace(m) PROVE RefreshTypes' /\ WaitsForOne'
  <2>1. PICK n \in Tokens :
           /\ Answer(m, "ok", n) /\ UNCHANGED <<jar, pc, spent>>
           /\ issued' = issued \cup {n} /\ live' = live \cup {n}
    BY <1>4 DEF ServeReplace, Rotation!Replace, cookies
  <2>2. QED BY <1>2, <2>1 DEF TInv, RefreshTypes
<1>5. ASSUME NEW m \in net, ServeDeny(m) \/ ServeError(m)
      PROVE  RefreshTypes' /\ WaitsForOne'
  <2>1. /\ Answer(m, "denied", NoToken) \/ Answer(m, "error", NoToken)
        /\ UNCHANGED <<jar, pc, issued, live, spent>>
    BY <1>5 DEF ServeDeny, ServeError, server, cookies
  <2>2. QED BY <1>2, <2>1 DEF TInv, RefreshTypes
<1>6. QED BY <1>1, <1>3, <1>4, <1>5 DEF ServerStep

LEMMA LeaveTyped == ASSUME TInv, NEW t \in Tabs, Leave(t) PROVE TInv'
<1>1. RefreshTypes' /\ WaitsForOne'
  <2>1. /\ pc' = [pc EXCEPT ![t] = "away"] /\ net' = Orphaned(t)
        /\ UNCHANGED <<issued, jar, spent, live>>
    BY DEF Leave, server, cookies
  <2>2. QED BY <2>1, OrphansWait
<1>2. OtherTypes'
  BY DEF Leave, server, cookies, TInv, OtherTypes
<1>3. QED BY <1>1, <1>2 DEF TInv

LEMMA TabTyped == ASSUME TInv, NEW t \in Tabs, TabStep(t) PROVE TInv'
<1>1. RefreshTypes' /\ WaitsForOne'
  <2>1. CASE Send(t)
    BY <2>1, SendTyped
  <2>2. CASE Receive(t)
    BY <2>2, ReceiveTyped
  <2>3. CASE FetchAborts(t)
    <3>1. /\ pc' = [pc EXCEPT ![t] = "idle"] /\ net' = Orphaned(t)
          /\ UNCHANGED <<issued, jar, spent, live>>
      BY <2>3 DEF FetchAborts, Settle, server, cookies
    <3>2. QED BY <3>1, OrphansWait
  <2>4. CASE \/ LockGranted(t) \/ LockBusy(t) \/ LocksThrow(t) \/ ProbeFree(t)
             \/ ReadStamp(t) \/ WriteStamp(t) \/ SeeRelease(t) \/ WaitTimeout(t)
    <3>1. /\ UNCHANGED <<issued, live, spent, jar, net>> /\ pc[t] # "fetch"
          /\ \E next \in {"idle", "set", "locked", "wait"} : pc' = [pc EXCEPT ![t] = next]
      BY <2>4 DEF LockGranted, LockBusy, LocksThrow, ProbeFree, ReadStamp, WriteStamp, SeeRelease,
                  WaitTimeout, Goto, Settle, server, cookies
    <3>2. WaitsForOne'
      BY <3>1, OthersWait DEF TInv
    <3>3. QED BY <3>1, <3>2 DEF TInv, RefreshTypes
  <2>5. QED BY <2>1, <2>2, <2>3, <2>4 DEF TabStep
<1>2. OtherTypes'
  <2>1. CASE LockGranted(t) \/ LockBusy(t) \/ LocksThrow(t) \/ ReadStamp(t) \/ WriteStamp(t)
    BY <2>1 DEF LockGranted, LockBusy, LocksThrow, ReadStamp, WriteStamp, Goto, server, cookies,
                locks, TInv, OtherTypes
  <2>2. CASE ProbeFree(t) \/ SeeRelease(t) \/ WaitTimeout(t) \/ FetchAborts(t)
    BY <2>2 DEF ProbeFree, SeeRelease, WaitTimeout, FetchAborts, Settle, server, cookies,
                history, TInv, OtherTypes
  <2>3. CASE Send(t)
    BY <2>3 DEF Send, server, cookies, history, TInv, OtherTypes
  <2>4. CASE Receive(t)
    BY <2>4 DEF Receive, Settle, server, history, TInv, OtherTypes
  <2>5. QED BY <2>1, <2>2, <2>3, <2>4 DEF TabStep
<1>3. QED BY <1>1, <1>2 DEF TInv

LEMMA NextTInv == TInv /\ [Next]_vars => TInv'
<1> SUFFICES ASSUME TInv, [Next]_vars PROVE TInv'
  OBVIOUS
<1>1. CASE \E t \in Tabs : TabStep(t)
  BY <1>1, TabTyped
<1>2. CASE \/ \E c \in Callers : Redirect(c)
           \/ \E t \in Tabs : CloseTab(t)
  <2>1. PICK t \in Tabs : Leave(t)
    BY <1>2, BrowserAssumption DEF Redirect, CloseTab
  <2>2. QED BY <2>1, LeaveTyped
<1>3. CASE ServerStep
  <2>1. RefreshTypes' /\ WaitsForOne'
    BY <1>3, ServerTyped
  <2>2. UNCHANGED <<access, holder, stamp, call>>
    BY <1>3 DEF ServerStep, ServeSpend, ServeReplace, ServeDeny, ServeError, ServerDrops,
                cookies, locks
  <2>3. replayed' \in BOOLEAN /\ disturbed' \subseteq {"abort", "error", "noLocks", "login"}
    BY <1>3 DEF ServerStep, ServeSpend, ServeReplace, ServeDeny, ServeError, ServerDrops,
                history, TInv, OtherTypes
  <2>4. parent' \in [Tokens -> Tokens \cup {NoToken}]
    <3>1. \/ UNCHANGED parent
          \/ \E m \in net, n \in Tokens : /\ m.tok \in spent
                                          /\ parent' = [parent EXCEPT ![n] = m.tok]
      BY <1>3 DEF ServerStep, ServeSpend, ServeReplace, ServeDeny, ServeError, ServerDrops,
                  Rotation!Spend, Rotation!Replace, Rotation!Drop, server
    <3>2. QED BY <3>1 DEF TInv, OtherTypes, RefreshTypes
  <2>5. QED BY <2>1, <2>2, <2>3, <2>4 DEF TInv, OtherTypes
<1>4. CASE \E t \in Tabs : Login(t)
  <2>1. PICK t \in Tabs, n \in Tokens :
           /\ pc[t] = "away" /\ pc' = [pc EXCEPT ![t] = "idle"] /\ jar' = n
           /\ issued' = issued \cup {n} /\ live' = live \cup {n}
           /\ UNCHANGED <<spent, parent, holder, stamp, call, net, replayed>>
           /\ access' = TRUE /\ disturbed' \in {disturbed, disturbed \cup {"login"}}
    BY <1>4 DEF Login, Rotation!Issue, locks
  <2>2. WaitsForOne'
    BY <2>1, OthersWait DEF TInv
  <2>3. RefreshTypes'
    BY <2>1 DEF TInv, RefreshTypes
  <2>4. OtherTypes'
    BY <2>1 DEF TInv, OtherTypes
  <2>5. QED BY <2>2, <2>3, <2>4 DEF TInv
<1>5. CASE \E t \in Tabs : OpenTab(t)
  <2>1. PICK t \in Tabs : /\ pc[t] = "away" /\ pc' = [pc EXCEPT ![t] = "idle"]
                          /\ UNCHANGED <<server, cookies, locks, call, net, history>>
    BY <1>5 DEF OpenTab
  <2>2. WaitsForOne'
    BY <2>1, OthersWait DEF TInv
  <2>3. QED BY <2>1, <2>2 DEF TInv, RefreshTypes, OtherTypes, server, cookies, locks, history
<1>6. CASE \E c \in Callers : RefreshSession(c)
  <2>1. PICK c \in Callers :
           /\ call' = [call EXCEPT ![c] = "wait"]
           /\ \/ pc' = pc
              \/ pc[TabOf[c]] = "idle" /\ pc' = [pc EXCEPT ![TabOf[c]] = "start"]
           /\ TabOf[c] \in Tabs /\ UNCHANGED <<server, cookies, locks, net, history>>
    BY <1>6, BrowserAssumption DEF RefreshSession
  <2>2. WaitsForOne'
    <3>1. CASE pc' = pc
      BY <2>1, <3>1 DEF TInv, WaitsForOne
    <3>2. CASE pc' # pc
      BY <2>1, <3>2, OthersWait DEF TInv
    <3>3. QED BY <3>1, <3>2
  <2>3. QED BY <2>1, <2>2 DEF TInv, RefreshTypes, OtherTypes, server, cookies, locks, history
<1>7. CASE \/ \E c \in Callers : Unauthorized(c) \/ Retry(c) \/ GiveUp(c)
           \/ StampAges \/ AccessExpires \/ UNCHANGED vars
  <2>1. UNCHANGED <<server, jar, holder, pc, net, history>>
    BY <1>7 DEF Unauthorized, Retry, GiveUp, StampAges, AccessExpires, vars, cookies, locks
  <2>2. /\ access' \in BOOLEAN /\ stamp' \in {"none", "fresh", "stale"}
        /\ call' \in [Callers -> {"idle", "denied", "wait", "again", "failed"}]
    BY <1>7 DEF Unauthorized, Retry, GiveUp, StampAges, AccessExpires, vars, cookies, locks,
                TInv, OtherTypes
  <2>3. QED BY <2>1, <2>2 DEF TInv, RefreshTypes, OtherTypes, WaitsForOne, server, history
<1>8. QED BY <1>1, <1>2, <1>3, <1>4, <1>5, <1>6, <1>7 DEF Next, CallerStep

\* The tabs, the callers, the cookies and what is under way keep their types, with
\* Web Locks or without: exactly one request of a tab is under way while it fetches.
THEOREM RefreshTypeCorrect == Spec => []TypeOK
<1>1. ASSUME TInv, NEW t \in Tabs
      PROVE  Cardinality({m \in net : m.tab = t}) = (IF pc[t] = "fetch" THEN 1 ELSE 0)
  <2>1. CASE pc[t] = "fetch"
    <3>1. PICK m \in net : m.tab = t
      BY <1>1, <2>1 DEF TInv, WaitsForOne
    <3>2. {n \in net : n.tab = t} = {m}
      BY <1>1, <3>1 DEF TInv, WaitsForOne
    <3>3. QED BY <2>1, <3>2, FS_Singleton
  <2>2. CASE pc[t] # "fetch"
    <3>1. {n \in net : n.tab = t} = {}
      BY <1>1, <2>2 DEF TInv, WaitsForOne
    <3>2. QED BY <2>2, <3>1, FS_EmptySet
  <2>3. QED BY <2>1, <2>2
<1>2. TInv => TypeOK
  BY <1>1 DEF TInv, RefreshTypes, OtherTypes, WaitsForOne, TypeOK
<1>3. QED BY <1>2, InitTInv, NextTInv, PTL DEF Spec
=============================================================================
