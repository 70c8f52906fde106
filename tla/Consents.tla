------------------------------ MODULE Consents ------------------------------
(***************************************************************************)
(* What a visitor agrees to, in two tabs of one browser.                   *)
(*                                                                         *)
(* "gate": the pages login, oauth and dashboard ask for the policies that  *)
(* took effect since the user last agreed (policy-consent.ts), and the     *)
(* server records the answer one policy at a time (handlers/policy.go).    *)
(* A policy's versions are numbered in the order they take effect.         *)
(*                                                                         *)
(* "cookies": the banner for optional cookies (cookie-consent.ts), the     *)
(* language the pages keep in one (translations.ts, language-switcher.ts)  *)
(* and the notices a visitor has dismissed (public-notice.ts).             *)
(***************************************************************************)
EXTENDS Naturals, FiniteSets

CONSTANTS
    Tabs,
    Policies,
    Versions,           \* versions of a policy that take effect (bound)
    Languages, NoLang, DefaultLang,
    Visits              \* pages opened and cookies that expire (bound)

VARIABLES
    section,        \* "gate" or "cookies"
    gate,           \* per tab: the dialog, the versions it lists, its box, the way in
    writing,        \* per tab: the policies of its request still to be recorded
    effective,      \* per policy: the latest version in effect
    consents,       \* user_consents: the pairs recorded, and the last of each policy
    session,        \* the user is logged in
    jar,            \* the cookies
    page,           \* per tab: its language, the switcher's label, the two banners, and
                    \* what it is about to do with the language cookie
    torn,           \* history: a language was written after another tab's rejection
                    \* that came between the check and the write
    visits

gates   == <<gate, writing, effective, consents, session>>
cookies == <<jar, page, torn>>
vars    == <<section, gates, cookies, visits>>

NoList == [p \in Policies |-> 0]

Rest(of) ==
    /\ section = of
    /\ gate = [t \in Tabs |-> [at |-> "closed", listed |-> NoList, box |-> FALSE, agreed |-> FALSE]]
    /\ writing = [t \in Tabs |-> {}]
    /\ effective = [p \in Policies |-> 1]
    /\ consents = [all |-> {}, last |-> NoList]
    /\ session = TRUE
    /\ jar = [consent |-> "none", lang |-> NoLang, dismissed |-> {}]
    /\ page = [t \in Tabs |-> [at |-> "closed", lang |-> NoLang, label |-> NoLang,
                               banner |-> FALSE, notices |-> {}, next |-> "none"]]
    /\ torn = FALSE /\ visits = 0

Init == \E of \in {"gate", "cookies"} : Rest(of)

Visit(of) == section = of /\ visits < Visits /\ visits' = visits + 1
Goto(t, at) == gate' = [gate EXCEPT ![t].at = at]
Boxed(t)   == gate[t].at = "asked"
Pending    == [p \in Policies |-> IF consents.last[p] = effective[p] THEN 0 ELSE effective[p]]

(***************************************************************************)
(* The gate                                                                *)
(***************************************************************************)

\* doCheckPolicyConsent and GetPendingConsent.  Whatever fails lets the page
\* through, and so does a user who is logged out.
CheckPolicyConsent(t) ==
    /\ gate[t].at \in {"closed", "left"} /\ Visit("gate")
    /\ gate' = [gate EXCEPT ![t] =
                  [at |-> IF session /\ Pending # NoList THEN "asked" ELSE "through",
                   listed |-> Pending, box |-> FALSE, agreed |-> FALSE]]
       \/ gate' = [gate EXCEPT ![t] = [at |-> "through", listed |-> NoList, box |-> FALSE, agreed |-> FALSE]]
    /\ UNCHANGED <<section, writing, effective, consents, session, cookies>>

\* The box puts the accept button on and off.
ToggleBox(t) ==
    /\ Boxed(t)
    /\ gate' = [gate EXCEPT ![t].box = ~@]
    /\ UNCHANGED <<section, writing, effective, consents, session, cookies, visits>>

Accept(t) ==
    /\ Boxed(t) /\ gate[t].box
    /\ Goto(t, "sent")
    /\ UNCHANGED <<section, writing, effective, consents, session, cookies, visits>>

Listed(t) == {p \in Policies : gate[t].listed[p] # 0}

\* RecordConsent checks every version before it writes the first.
RecordConsent(t) ==
    /\ gate[t].at = "sent"
    /\ IF session /\ \A p \in Listed(t) : gate[t].listed[p] = effective[p]
       THEN Goto(t, "writing") /\ writing' = [writing EXCEPT ![t] = Listed(t)]
       ELSE Goto(t, "refused") /\ UNCHANGED writing
    /\ UNCHANGED <<section, effective, consents, session, cookies, visits>>

\* LogConsent: one INSERT per policy.
LogConsent(t, p) ==
    /\ gate[t].at = "writing" /\ p \in writing[t]
    /\ writing' = [writing EXCEPT ![t] = @ \ {p}]
    /\ consents' = [all  |-> consents.all \cup {<<p, gate[t].listed[p]>>},
                    last |-> [consents.last EXCEPT ![p] = gate[t].listed[p]]]
    /\ UNCHANGED <<section, gate, effective, session, cookies, visits>>

\* The INSERT fails, or the answer is lost.
LogFails(t) ==
    /\ gate[t].at \in {"sent", "writing"}
    /\ Goto(t, "refused")
    /\ writing' = [writing EXCEPT ![t] = {}]
    /\ UNCHANGED <<section, effective, consents, session, cookies, visits>>

\* Mutant: any answer is an acceptance.
AcceptedAnyway(t) ==
    /\ gate[t].at = "refused" \/ (gate[t].at = "writing" /\ writing[t] = {})
    /\ gate' = [gate EXCEPT ![t].at = "through", ![t].agreed = TRUE]
    /\ UNCHANGED <<section, writing, effective, consents, session, cookies, visits>>

\* Success lets the page through; anything else gives the buttons back, and
\* the dialog keeps the versions it lists.
Accepted(t) ==
    /\ \/ /\ gate[t].at = "writing" /\ writing[t] = {}
          /\ gate' = [gate EXCEPT ![t].at = "through", ![t].agreed = TRUE]
       \/ gate[t].at = "refused" /\ Goto(t, "asked")
    /\ UNCHANGED <<section, writing, effective, consents, session, cookies, visits>>

\* Declining logs out, and goes to the page login even when that fails.
Decline(t) ==
    /\ Boxed(t)
    /\ Goto(t, "left")
    /\ session' \in {session, FALSE}
    /\ UNCHANGED <<section, writing, effective, consents, cookies, visits>>

\* The page login logs in again.
LogIn(t) ==
    /\ gate[t].at = "left" /\ ~session
    /\ session' = TRUE
    /\ UNCHANGED <<section, gate, writing, effective, consents, cookies, visits>>

\* GetLatestEffectiveVersion: the day of a new version comes.
TakeEffect(p) ==
    /\ section = "gate" /\ effective[p] < Versions
    /\ effective' = [effective EXCEPT ![p] = @ + 1]
    /\ UNCHANGED <<section, gate, writing, consents, session, cookies, visits>>

GateStep ==
    \/ \E t \in Tabs :
          \/ CheckPolicyConsent(t) \/ ToggleBox(t) \/ Accept(t) \/ Decline(t) \/ LogIn(t)
          \/ RecordConsent(t) \/ LogFails(t) \/ Accepted(t)
          \/ \E p \in Policies : LogConsent(t, p)
    \/ \E p \in Policies : TakeEffect(p)

(***************************************************************************)
(* Cookies and languages                                                   *)
(***************************************************************************)

Opened(t) == page[t].at # "closed"
Idle(t)   == page[t].next = "none"
Clearing  == \E t \in Tabs : page[t].next = "clear"

\* The inline script: the cookie, or the browser's language.
OpenPage(t) ==
    /\ ~Opened(t) /\ Visit("cookies")
    /\ \E browser \in Languages :
          page' = [page EXCEPT ![t].at = "inline",
                               ![t].lang = IF jar.lang # NoLang THEN jar.lang ELSE browser]
    /\ UNCHANGED <<section, gates, jar, torn>>

ClosePage(t) ==
    /\ Opened(t)
    /\ page' = [page EXCEPT ![t] = [at |-> "closed", lang |-> NoLang, label |-> NoLang,
                                    banner |-> FALSE, notices |-> {}, next |-> "none"]]
    /\ UNCHANGED <<section, gates, jar, torn, visits>>

\* initializeTranslations: the texts are there, for a switcher that waits or
\* that has given up waiting.
initializeTranslations(t) == CASE page[t].at = "inline" -> "loaded" [] page[t].at = "late" -> "ready"

\* translations.ts: the label is written where the switcher will be.
InitializeLanguage(t) ==
    /\ page[t].at \in {"inline", "late"}
    /\ page' = [page EXCEPT ![t].at = initializeTranslations(t), ![t].label = page[t].lang]
    /\ UNCHANGED <<section, gates, jar, torn, visits>>

\* waitForTranslations ends with the texts, or after three seconds without.
waitForTranslations(t) == CASE page[t].at = "loaded" -> "ready" [] page[t].at = "inline" -> "late"

\* getCurrentLanguage: before translations.ts ran the page has none.
getCurrentLanguage(t) == IF page[t].at = "loaded" THEN page[t].lang ELSE DefaultLang

InitLanguageSwitcher(t) ==
    /\ page[t].at \in {"loaded", "inline"}
    /\ page' = [page EXCEPT ![t].at = waitForTranslations(t), ![t].label = getCurrentLanguage(t)]
    /\ UNCHANGED <<section, gates, jar, torn, visits>>

\* createBanner of cookie-consent.ts.
CreateBanner(t) ==
    /\ page[t].at # "closed" /\ ~page[t].banner /\ jar.consent = "none"
    /\ page' = [page EXCEPT ![t].banner = TRUE]
    /\ UNCHANGED <<section, gates, jar, torn, visits>>

hideBanner(t) == page' = [page EXCEPT ![t].banner = FALSE]

AcceptCookies(t) ==
    /\ page[t].banner /\ hideBanner(t)
    /\ jar' = [jar EXCEPT !.consent = "accepted"]
    /\ UNCHANGED <<section, gates, torn, visits>>

\* A rejection: the consent first,
RejectCookies(t) ==
    /\ page[t].banner
    /\ page' = [page EXCEPT ![t].banner = FALSE, ![t].next = "clear"]
    /\ jar' = [jar EXCEPT !.consent = "rejected"]
    /\ UNCHANGED <<section, gates, torn, visits>>

\* ... then the optional cookies; other tabs share the jar.
clearOptionalCookies(t) ==
    /\ page[t].next = "clear"
    /\ page' = [page EXCEPT ![t].next = "none"]
    /\ jar' = [jar EXCEPT !.lang = NoLang]
    /\ UNCHANGED <<section, gates, torn, visits>>

\* setCookie looks into the jar for the consent,
SwitchLanguage(t, lang) ==
    /\ page[t].at = "ready" /\ lang # page[t].lang
    /\ page' = [page EXCEPT ![t].lang = lang, ![t].label = lang,
                            ![t].next = IF jar.consent = "accepted" THEN "write" ELSE "none"]
    /\ UNCHANGED <<section, gates, jar, torn, visits>>

\* ... and writes, whatever it is by then.
WriteLanguage(t) ==
    /\ page[t].next = "write"
    /\ page' = [page EXCEPT ![t].next = "none"]
    /\ jar' = [jar EXCEPT !.lang = page[t].lang]
    /\ torn' = (torn \/ (jar.consent = "rejected" /\ ~Clearing))
    /\ UNCHANGED <<section, gates, visits>>

\* initPublicNoticeBanner: the notices not dismissed yet.
ShowNotices(t) ==
    /\ Opened(t) /\ page[t].notices = {}
    /\ page' = [page EXCEPT ![t].notices = Policies \ jar.dismissed]
    /\ UNCHANGED <<section, gates, jar, torn, visits>>

\* Its close button: a cookie that needs no consent for each of them.
DismissNotices(t) ==
    /\ page[t].notices # {}
    /\ jar' = [jar EXCEPT !.dismissed = @ \cup page[t].notices]
    /\ page' = [page EXCEPT ![t].notices = {}]
    /\ UNCHANGED <<section, gates, torn, visits>>

\* The browser drops a cookie, each on its own day.
CookieExpires ==
    /\ Visit("cookies")
    /\ jar' \in {[jar EXCEPT !.consent = "none"], [jar EXCEPT !.lang = NoLang], [jar EXCEPT !.dismissed = {}]}
    /\ UNCHANGED <<section, gates, page, torn>>

PageStep(t) ==
    \/ OpenPage(t) \/ ClosePage(t) \/ InitializeLanguage(t) \/ InitLanguageSwitcher(t)
    \/ CreateBanner(t) \/ AcceptCookies(t) \/ RejectCookies(t)
    \/ ShowNotices(t) \/ DismissNotices(t)
    \/ \E lang \in Languages : SwitchLanguage(t, lang)

\* A script that has begun on the jar ends before its page does anything else.
CookieStep ==
    \/ \E t \in Tabs :
          \/ Idle(t) /\ PageStep(t)
          \/ clearOptionalCookies(t) \/ WriteLanguage(t)
    \/ CookieExpires

Next == GateStep \/ CookieStep

Spec == Init /\ [][Next]_vars

(***************************************************************************)
(* Properties                                                              *)
(***************************************************************************)

\* A page the user entered by agreeing has every version of its dialog on
\* record, although the server writes them one by one, may fail between two,
\* and the other tab agrees or logs out meanwhile.
GateKept ==
    \A t \in Tabs : gate[t].agreed =>
        \A p \in Listed(t) : <<p, gate[t].listed[p]>> \in consents.all

\* A visitor who rejected optional cookies has none, whatever the banners,
\* switchers and expired cookies of other tabs did before or do after.  (A
\* rejection that falls between the check and the write of another tab's
\* setCookie is lost on that cookie; that case is left aside.)
RejectionHolds == jar.consent = "rejected" /\ ~Clearing /\ ~torn => jar.lang = NoLang
=============================================================================
