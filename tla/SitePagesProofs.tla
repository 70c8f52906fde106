-------------------------- MODULE SitePagesProofs ---------------------------
(***************************************************************************)
(* What the pages of SitePages that show or change what the server keeps   *)
(* guarantee for every number of letters, tabs, requests and policies: the *)
(* link in a letter, codes and exported files, the agreement and the       *)
(* cookies, the profile and the policy page.  Each part of the module is   *)
(* about one page: its inductive invariant, the lemmas that its steps      *)
(* preserve it, and the theorem that the property it strengthens holds of  *)
(* SitePages.  A step of SitePages is a step of one page, and leaves the   *)
(* variables of every other page alone.  SiteDialogsProofs is about the    *)
(* forms, the dialogs and the administration.                              *)
(***************************************************************************)
EXTENDS SitePages, Sequences, FiniteSetTheorems, NaturalsInduction, WellFoundedInduction, TLAPS

pages == <<section, dialogs, formPart, dashPart, homePart, mailPart, adminPart, dataPart,
           agreePart, codePart, policyPart>>

(***************************************************************************)
(* MailCodes: what a code may still do                                     *)
(***************************************************************************)

LetterOrders ==
    [Calls -> [at : {"idle", "asked", "found", "passed", "create", "known", "used", "changed",
                     "deleted"},
               op : Letter!Purposes \cup {"none"},
               of : Letters \cup {NoLetter},
               uid : Nat]]

\* How far a token, a code and a request can be, and of which letter.
LetterTypes ==
    /\ purpose \in [Letters -> Letter!Purposes \cup {"none"}]
    /\ tokens \in [Letters -> {"none", "mailed", "used", "gone"}]
    /\ codes \in [Letters -> {"none", "new", "verified", "gone"}]
    /\ tab \in [Tabs -> [at : {"closed", "opened", "asking", "marked", "answered", "success",
                               "error"},
                         of : Letters \cup {NoLetter}]]
    /\ seen \subseteq Letters
    /\ order \in LetterOrders
    /\ spent \in [Letters -> Nat]
    /\ member \in Nat /\ born \in Nat

\* The tab has been given the letter's code, or is about to be.
Served(t) == tab[t].at \in {"marked", "answered", "success"}

\* A tab has a letter; the letter of a served one is used up, its code is
\* written once, and no other tab was served it.
TabsServed ==
    \A t \in Tabs :
        /\ tab[t].at # "closed" => tab[t].of \in Letters /\ tokens[tab[t].of] # "none"
        /\ Served(t) => tokens[tab[t].of] \in {"used", "gone"}
        /\ tab[t].at = "marked" => codes[tab[t].of] = "none"
        /\ \A s \in Tabs : Served(s) /\ Served(t) /\ tab[s].of = tab[t].of => s = t

\* A letter that was not opened has no code, and one not sent has a code
\* nobody saw or spent.
Unopened ==
    \A l \in Letters :
        /\ tokens[l] \in {"none", "mailed"} => codes[l] = "none"
        /\ tokens[l] = "none" => l \notin seen /\ spent[l] = 0

\* A request goes on with a code of its own purpose.
RequestsMatch ==
    \A k \in Calls :
        /\ order[k].at # "idle" => order[k].of \in Letters /\ tokens[order[k].of] # "none"
        /\ order[k].at \notin {"idle", "asked"} => purpose[order[k].of] = order[k].op
        /\ order[k].at = "create" => order[k].op = "register"
        /\ order[k].at \in {"known", "used", "changed"} => order[k].op = "reset"
        /\ order[k].at = "deleted" => order[k].op = "delete"

\* A reset is granted by the one DELETE that found the row: whoever was
\* granted it has not spent it yet, and is alone.
GrantedOnce ==
    /\ \A l \in Letters : purpose[l] = "reset" =>
          spent[l] <= 1 /\ (spent[l] > 0 => codes[l] = "gone")
    /\ \A k \in Calls : order[k].at = "used" =>
          /\ codes[order[k].of] = "gone" /\ spent[order[k].of] = 0
          /\ \A j \in Calls : order[j].at = "used" /\ order[j].of = order[k].of => j = k

LetterInv == LetterTypes /\ TabsServed /\ Unopened /\ RequestsMatch /\ GrantedOnce

LEMMA LetterInit ==
    ASSUME NEW existing \in {0, 1}, Letter!Rest(existing)
    PROVE  LetterInv
BY SentinelsAssumption
   DEF Letter!Rest, Letter!NoTab, Letter!Idle, Letter!Purposes, LetterInv, LetterTypes, TabsServed,
       LetterOrders, Served, Unopened, RequestsMatch, GrantedOnce

\* Letters that are sent, and tokens and codes that expire.
LEMMA LetterSent ==
    ASSUME LetterInv, NEW l \in Letters,
           \/ \E p \in Letter!Purposes : Letter!CreateToken(l, p)
           \/ Letter!ExpireToken(l) \/ Letter!ExpireCode(l)
    PROVE  LetterInv'
<1> USE DEF LetterInv, LetterTypes, TabsServed, Served, Unopened, RequestsMatch, GrantedOnce,
            Letter!Purposes, Letter!account, Letter!tables
<1>1. CASE \E p \in Letter!Purposes : Letter!CreateToken(l, p)
  <2> USE <1>1 DEF Letter!CreateToken
  <2>1. LetterTypes' /\ TabsServed' /\ Unopened'
    OBVIOUS
  <2>2. RequestsMatch'
    OBVIOUS
  <2>3. GrantedOnce'
    OBVIOUS
  <2>4. QED BY <2>1, <2>2, <2>3
<1>2. CASE Letter!ExpireToken(l)
  BY <1>2 DEF Letter!ExpireToken
<1>3. CASE Letter!ExpireCode(l)
  <2> USE <1>3 DEF Letter!ExpireCode
  <2>1. LetterTypes' /\ TabsServed' /\ Unopened'
    OBVIOUS
  <2>2. RequestsMatch' /\ GrantedOnce'
    OBVIOUS
  <2>3. QED BY <2>1, <2>2
<1>4. QED BY <1>1, <1>2, <1>3

\* The page verify, in any tab.
LEMMA LetterOpened ==
    ASSUME LetterInv, NEW t \in Tabs,
           \/ \E l \in Letters : Letter!OpenLetter(t, l)
           \/ Letter!LoadVerificationCode(t) \/ Letter!MarkUsedAndGet(t)
           \/ Letter!CreateCode(t) \/ Letter!ShowCode(t) \/ Letter!LoadFails(t) \/ Letter!CloseTab(t)
    PROVE  LetterInv'
<1> USE DEF LetterInv, LetterTypes, TabsServed, Served, Unopened, Letter!At, Letter!showError,
            Letter!verifyToken, Letter!NoTab, Letter!account, Letter!tables
<1>1. CASE \E l \in Letters : Letter!OpenLetter(t, l)
  BY <1>1 DEF Letter!OpenLetter, RequestsMatch, GrantedOnce
<1>2. CASE Letter!LoadVerificationCode(t)
  BY <1>2 DEF Letter!LoadVerificationCode, RequestsMatch, GrantedOnce
<1>3. CASE Letter!MarkUsedAndGet(t)
  <2>1. CASE tokens[tab[t].of] = "mailed"
    <3>1. tab[t].of \in Letters /\ codes[tab[t].of] = "none"
          /\ \A s \in Tabs : Served(s) => tab[s].of # tab[t].of
      BY <1>3, <2>1 DEF Letter!MarkUsedAndGet
    <3>2. /\ tab'[t].at = "marked" /\ tab'[t].of = tab[t].of
          /\ \A s \in Tabs \ {t} : tab'[s] = tab[s]
          /\ tokens'[tab[t].of] = "used"
          /\ \A m \in Letters \ {tab[t].of} : tokens'[m] = tokens[m]
      BY <1>3, <2>1, <3>1, SMTT(30) DEF Letter!MarkUsedAndGet
    <3>3. LetterTypes'
      BY <1>3, <2>1, <3>1, SMTT(30) DEF Letter!MarkUsedAndGet
    <3>4. TabsServed' /\ Unopened'
      BY <1>3, <3>1, <3>2 DEF Letter!MarkUsedAndGet
    <3>5. RequestsMatch' /\ GrantedOnce'
      BY <1>3, <3>1, <3>2 DEF Letter!MarkUsedAndGet, RequestsMatch, GrantedOnce
    <3>6. QED BY <3>3, <3>4, <3>5
  <2>2. CASE tokens[tab[t].of] # "mailed"
    BY <1>3, <2>2 DEF Letter!MarkUsedAndGet, RequestsMatch, GrantedOnce
  <2>3. QED BY <2>1, <2>2
<1>4. CASE Letter!CreateCode(t)
  <2>1. CASE codes' = [codes EXCEPT ![tab[t].of] = "new"] /\ Letter!At(t, "answered")
    <3>1. tab[t].of \in Letters /\ codes[tab[t].of] = "none" /\ tokens[tab[t].of] \in {"used", "gone"}
          /\ \A s \in Tabs \ {t} : Served(s) => tab[s].of # tab[t].of
      BY <1>4, <2>1 DEF Letter!CreateCode
    <3>2. /\ tab'[t].at = "answered" /\ tab'[t].of = tab[t].of
          /\ \A s \in Tabs \ {t} : tab'[s] = tab[s]
          /\ codes'[tab[t].of] = "new"
          /\ \A m \in Letters \ {tab[t].of} : codes'[m] = codes[m]
      BY <1>4, <2>1, <3>1
    <3>3. LetterTypes'
      BY <1>4, <2>1, <3>1 DEF Letter!CreateCode
    <3>4. TabsServed' /\ Unopened'
      BY <1>4, <3>1, <3>2 DEF Letter!CreateCode
    <3>5. RequestsMatch' /\ GrantedOnce'
      BY <1>4, <3>1, <3>2 DEF Letter!CreateCode, RequestsMatch, GrantedOnce
    <3>6. QED BY <3>3, <3>4, <3>5
  <2>2. CASE Letter!showError(t) /\ UNCHANGED codes
    BY <1>4, <2>2 DEF Letter!CreateCode, RequestsMatch, GrantedOnce
  <2>3. QED BY <1>4, <2>1, <2>2 DEF Letter!CreateCode
<1>5. CASE Letter!ShowCode(t)
  BY <1>5 DEF Letter!ShowCode, RequestsMatch, GrantedOnce
<1>6. CASE Letter!LoadFails(t)
  BY <1>6 DEF Letter!LoadFails, RequestsMatch, GrantedOnce
<1>7. CASE Letter!CloseTab(t)
  BY <1>7 DEF Letter!CloseTab, RequestsMatch, GrantedOnce
<1>8. QED BY <1>1, <1>2, <1>3, <1>4, <1>5, <1>6, <1>7

\* Codes only move forward when a handler invalidates those of a purpose.
LEMMA InvalidatedCodes ==
    ASSUME LetterTypes, NEW ps, Letter!Invalidate(ps)
    PROVE  /\ codes' \in [Letters -> {"none", "new", "verified", "gone"}]
           /\ \A l \in Letters : codes'[l] = codes[l] \/ (codes[l] # "none" /\ codes'[l] = "gone")
BY DEF LetterTypes, Letter!Invalidate, Letter!Without

\* What the steps of a request leave of it and of the other requests.
LEMMA OrderMoves ==
    ASSUME LetterTypes, NEW k \in Calls,
           NEW at \in {"found", "passed", "create", "known", "used", "changed", "deleted"}
    PROVE  /\ Letter!Step(k, at) =>
                 /\ order' \in LetterOrders
                 /\ order'[k].at = at /\ order'[k].op = order[k].op /\ order'[k].of = order[k].of
           /\ Letter!Ends(k) => order' \in LetterOrders /\ order'[k].at = "idle"
           /\ Letter!Step(k, at) \/ Letter!Ends(k) =>
                 \A j \in Calls \ {k} : order'[j] = order[j]
           /\ Letter!Counted(k) /\ order[k].of \in Letters =>
                 /\ spent' \in [Letters -> Nat]
                 /\ spent'[order[k].of] = spent[order[k].of] + 1
                 /\ \A l \in Letters \ {order[k].of} : spent'[l] = spent[l]
<1> USE DEF LetterTypes, LetterOrders
<1>1. Letter!Step(k, at) =>
         /\ order' \in LetterOrders
         /\ order'[k].at = at /\ order'[k].op = order[k].op /\ order'[k].of = order[k].of
         /\ \A j \in Calls \ {k} : order'[j] = order[j]
  <2>1. ASSUME Letter!Step(k, at)
        PROVE  /\ order'[k] = [order[k] EXCEPT !.at = at] /\ DOMAIN order' = Calls
               /\ \A j \in Calls \ {k} : order'[j] = order[j]
               /\ order' = [j \in Calls |-> order'[j]]
    BY <2>1 DEF Letter!Step
  <2>2. QED BY <2>1
<1>2. Letter!Ends(k) =>
         /\ order' \in LetterOrders /\ order'[k].at = "idle"
         /\ \A j \in Calls \ {k} : order'[j] = order[j]
  BY DEF Letter!Ends, Letter!Idle, Letter!Purposes
<1>3. QED BY <1>1, <1>2 DEF Letter!Counted

\* A request that does not get a reset, nor spends one, disturbs nothing.
LEMMA LetterGoesOn ==
    ASSUME LetterInv, NEW k \in Calls,
           \/ Letter!Ends(k)
           \/ \E at \in {"found", "passed"} :
                 Letter!Step(k, at) /\ purpose[order[k].of] = order[k].op /\ order[k].at # "idle"
           \/ Letter!Step(k, "create") /\ Letter!Is(k, "register", "passed")
           \/ Letter!Step(k, "changed") /\ order[k].at = "used",
           codes' \in [Letters -> {"none", "new", "verified", "gone"}],
           \A l \in Letters : \/ codes'[l] = codes[l]
                              \/ codes[l] # "none" /\ codes'[l] = "gone"
                              \/ codes[l] = "new" /\ codes'[l] = "verified",
           UNCHANGED <<purpose, tokens, tab, seen, Letter!account, spent>>
    PROVE  LetterInv'
<1>1. LetterTypes' /\ TabsServed' /\ Unopened'
  BY OrderMoves DEF LetterInv, LetterTypes, LetterOrders, TabsServed, Served, Unopened,
                    Letter!account
<1>2. /\ order'[k].at = "idle" \/ /\ order'[k].op = order[k].op /\ order'[k].of = order[k].of
                                  /\ order'[k].at \in {"found", "passed", "create", "changed"}
                                  /\ order[k].at # "idle" /\ purpose[order[k].of] = order[k].op
                                  /\ order'[k].at = "create" => order[k].op = "register"
                                  /\ order'[k].at = "changed" => order[k].op = "reset"
      /\ \A j \in Calls \ {k} : order'[j] = order[j]
  BY OrderMoves DEF LetterInv, RequestsMatch, Letter!Is
<1>3. RequestsMatch' /\ GrantedOnce'
  BY <1>2 DEF LetterInv, LetterTypes, RequestsMatch, GrantedOnce
<1>4. QED BY <1>1, <1>3 DEF LetterInv

LEMMA LetterAsked ==
    ASSUME LetterInv, NEW k \in Calls,
           \/ \E p \in Letter!Purposes, l \in Letters : Letter!Ask(k, p, l)
           \/ Letter!FindByCode(k) \/ Letter!UpdateVerification(k)
           \/ Letter!RegisterInvalidates(k) \/ Letter!ResetInvalidates(k)
           \/ Letter!DeleteInvalidates(k) \/ Letter!Abort(k)
    PROVE  LetterInv'
<1> USE DEF Letter!account, Letter!tables
<1>1. CASE \E p \in Letter!Purposes, l \in Letters : Letter!Ask(k, p, l)
  BY <1>1 DEF Letter!Ask, LetterInv, LetterTypes, LetterOrders, TabsServed, Served, Unopened,
              RequestsMatch, GrantedOnce, Letter!Idle, Letter!Purposes
<1>2. CASE Letter!FindByCode(k)
  <2>1. Letter!Ends(k) \/ (purpose[order[k].of] = order[k].op
                           /\ (Letter!Step(k, "found") \/ Letter!Step(k, "passed")))
    BY <1>2 DEF Letter!FindByCode
  <2>2. QED BY <1>2, <2>1, LetterGoesOn DEF Letter!FindByCode, LetterInv, LetterTypes
<1>3. CASE Letter!UpdateVerification(k)
  BY <1>3, LetterGoesOn DEF Letter!UpdateVerification, LetterInv, LetterTypes, RequestsMatch
<1>4. CASE Letter!RegisterInvalidates(k)
  BY <1>4, LetterGoesOn, InvalidatedCodes DEF Letter!RegisterInvalidates, LetterInv
<1>5. CASE Letter!ResetInvalidates(k) \/ Letter!DeleteInvalidates(k)
  BY <1>5, LetterGoesOn, InvalidatedCodes
     DEF Letter!ResetInvalidates, Letter!DeleteInvalidates, LetterInv
<1>6. CASE Letter!Abort(k)
  BY <1>6, LetterGoesOn DEF Letter!Abort, LetterInv, LetterTypes
<1>7. QED BY <1>1, <1>2, <1>3, <1>4, <1>5, <1>6

\* The writes a code is good for.
LEMMA LetterUsed ==
    ASSUME LetterInv, NEW k \in Calls,
           \/ Letter!CreateUser(k) \/ Letter!FindUser(k) \/ Letter!UseCode(k)
           \/ Letter!UpdatePassword(k) \/ Letter!DeleteUser(k)
    PROVE  LetterInv'
<1> USE DEF Letter!account, Letter!tables
<1>1. CASE Letter!CreateUser(k)
  <2>1. /\ purpose[order[k].of] = "register" /\ order[k].of \in Letters
        /\ tokens[order[k].of] # "none"
    BY <1>1 DEF Letter!CreateUser, LetterInv, RequestsMatch
  <2>2. LetterTypes' /\ TabsServed' /\ Unopened' /\ RequestsMatch'
    BY <1>1, <2>1, OrderMoves
       DEF Letter!CreateUser, LetterInv, LetterTypes, LetterOrders, TabsServed, Served, Unopened,
           RequestsMatch
  <2>3. GrantedOnce'
    BY <1>1, <2>1, OrderMoves
       DEF Letter!CreateUser, LetterInv, LetterTypes, RequestsMatch, GrantedOnce
  <2>4. QED BY <2>2, <2>3 DEF LetterInv
<1>2. CASE Letter!FindUser(k)
  <2>1. /\ order' \in LetterOrders /\ \A j \in Calls \ {k} : order'[j] = order[j]
        /\ \/ order'[k].at = "idle"
           \/ order'[k].at = "known" /\ order'[k].op = "reset" /\ order'[k].of = order[k].of
    BY <1>2, OrderMoves DEF Letter!FindUser, Letter!Is, LetterInv, LetterTypes, LetterOrders
  <2>2. LetterTypes' /\ TabsServed' /\ Unopened'
    BY <1>2, <2>1 DEF Letter!FindUser, LetterInv, LetterTypes, TabsServed, Served, Unopened
  <2>3. RequestsMatch' /\ GrantedOnce'
    BY <1>2, <2>1 DEF Letter!FindUser, Letter!Is, LetterInv, LetterTypes, RequestsMatch, GrantedOnce
  <2>4. QED BY <2>2, <2>3 DEF LetterInv
<1>3. CASE Letter!UseCode(k)
  <2>1. /\ order[k].of \in Letters /\ purpose[order[k].of] = "reset" /\ order[k].op = "reset"
        /\ tokens[order[k].of] # "none"
    BY <1>3 DEF Letter!UseCode, LetterInv, RequestsMatch
  <2>2. CASE codes[order[k].of] = "verified"
    <3>1. /\ \A j \in Calls : order[j].at = "used" => order[j].of # order[k].of
          /\ spent[order[k].of] = 0
      BY <2>1, <2>2 DEF LetterInv, LetterTypes, GrantedOnce
    <3>2. /\ codes' \in [Letters -> {"none", "new", "verified", "gone"}]
          /\ codes'[order[k].of] = "gone"
          /\ \A l \in Letters \ {order[k].of} : codes'[l] = codes[l]
      BY <1>3, <2>1, <2>2 DEF Letter!UseCode, LetterInv, LetterTypes
    <3>3. LetterTypes' /\ TabsServed' /\ Unopened'
      BY <1>3, <2>2, <3>2, OrderMoves
         DEF Letter!UseCode, LetterInv, LetterTypes, LetterOrders, TabsServed, Served, Unopened
    <3>4. RequestsMatch'
      BY <1>3, <2>1, <2>2, OrderMoves
         DEF Letter!UseCode, LetterInv, LetterTypes, RequestsMatch
    <3>5. /\ order'[k].at = "used" /\ order'[k].of = order[k].of
          /\ \A j \in Calls \ {k} : order'[j] = order[j]
      BY <1>3, <2>2, OrderMoves DEF Letter!UseCode, LetterInv
    <3>6. GrantedOnce'
      BY <1>3, <2>1, <3>1, <3>2, <3>5 DEF Letter!UseCode, LetterInv, GrantedOnce, RequestsMatch
    <3>7. QED BY <3>3, <3>4, <3>6 DEF LetterInv
  <2>3. CASE codes[order[k].of] # "verified"
    BY <1>3, <2>3, LetterGoesOn DEF Letter!UseCode, LetterInv, LetterTypes
  <2>4. QED BY <2>2, <2>3
<1>4. CASE Letter!UpdatePassword(k)
  <2>1. CASE order[k].uid = member
    <3>1. /\ order[k].of \in Letters /\ purpose[order[k].of] = "reset" /\ order[k].op = "reset"
          /\ tokens[order[k].of] # "none" /\ codes[order[k].of] = "gone" /\ spent[order[k].of] = 0
          /\ \A j \in Calls \ {k} : order[j].at = "used" => order[j].of # order[k].of
      BY <1>4 DEF Letter!UpdatePassword, LetterInv, RequestsMatch, GrantedOnce
    <3>2. LetterTypes' /\ TabsServed' /\ Unopened'
      BY <1>4, <2>1, <3>1, OrderMoves
         DEF Letter!UpdatePassword, LetterInv, LetterTypes, LetterOrders, TabsServed, Served,
             Unopened
    <3>3. RequestsMatch'
      BY <1>4, <2>1, <3>1, OrderMoves
         DEF Letter!UpdatePassword, LetterInv, LetterTypes, RequestsMatch
    <3>4. /\ order'[k].at = "changed" /\ \A j \in Calls \ {k} : order'[j] = order[j]
          /\ spent'[order[k].of] = 1 /\ \A l \in Letters \ {order[k].of} : spent'[l] = spent[l]
      BY <1>4, <2>1, <3>1, OrderMoves DEF Letter!UpdatePassword, LetterInv
    <3>5. GrantedOnce'
      BY <1>4, <3>1, <3>4 DEF Letter!UpdatePassword, LetterInv, GrantedOnce, RequestsMatch
    <3>6. QED BY <3>2, <3>3, <3>5 DEF LetterInv
  <2>2. CASE order[k].uid # member
    BY <1>4, <2>2, LetterGoesOn DEF Letter!UpdatePassword, LetterInv, LetterTypes
  <2>3. QED BY <2>1, <2>2
<1>5. CASE Letter!DeleteUser(k)
  <2>1. CASE order[k].uid = member
    <3>1. /\ order[k].of \in Letters /\ purpose[order[k].of] = "delete" /\ order[k].op = "delete"
          /\ tokens[order[k].of] # "none"
      BY <1>5 DEF Letter!DeleteUser, Letter!Is, LetterInv, RequestsMatch
    <3>2. LetterTypes' /\ TabsServed' /\ Unopened'
      BY <1>5, <2>1, <3>1, OrderMoves
         DEF Letter!DeleteUser, LetterInv, LetterTypes, LetterOrders, TabsServed, Served, Unopened
    <3>3. RequestsMatch' /\ GrantedOnce'
      BY <1>5, <2>1, <3>1, OrderMoves
         DEF Letter!DeleteUser, LetterInv, LetterTypes, RequestsMatch, GrantedOnce
    <3>4. QED BY <3>2, <3>3 DEF LetterInv
  <2>2. CASE order[k].uid # member
    BY <1>5, <2>2, LetterGoesOn DEF Letter!DeleteUser, LetterInv, LetterTypes
  <2>3. QED BY <2>1, <2>2
<1>6. QED BY <1>1, <1>2, <1>3, <1>4, <1>5

LEMMA LetterStep == LetterInv /\ (Letter!Next \/ UNCHANGED codePart) => LetterInv'
<1>1. LetterInv /\ Letter!Next => LetterInv'
  BY LetterSent, LetterOpened, LetterAsked, LetterUsed DEF Letter!Next
<1>2. LetterInv /\ UNCHANGED codePart => LetterInv'
  BY DEF codePart, LetterInv, LetterTypes, TabsServed, Served, Unopened, RequestsMatch, GrantedOnce
<1>3. QED BY <1>1, <1>2

\* The codes keep their invariant whichever page is in use.
LEMMA LetterInvariance == Spec => []LetterInv
<1>1. Init => LetterInv
  BY LetterInit DEF Init
<1>2. LetterInv /\ [Next]_pages => LetterInv'
  BY LetterStep DEF Next, pages
<1>3. QED BY <1>1, <1>2, PTL DEF Spec, pages

(***************************************************************************)
(* DataPage: codes of exports and uploaded files                           *)
(***************************************************************************)

DataCalls == [op   : {"request", "revoke", "download", "upload", "import"},
              tab  : Tabs, arg : Nat, code : Nat,
              at   : {"sent", "ok", "failed", "wrong", "refused"},
              live : BOOLEAN, again : BOOLEAN]

AuthPages == [Tabs -> [open : BOOLEAN, timer : BOOLEAN, request : Nat]]
PickPages == [Tabs -> [open : BOOLEAN, shown : Nat, token : Nat, busy : BOOLEAN]]

DataTypes ==
    /\ auth \in AuthPages /\ picked \in PickPages
    /\ traffic \subseteq DataCalls
    /\ otac \in [request : Nat, owner : Tabs \cup {0}, attempts : Nat]
    /\ requested \in 0 .. Exports /\ uploaded \in 0 .. Uploads
    /\ handed \in [1 .. Exports -> Nat] /\ wrong \in [1 .. Exports -> Nat]
    /\ imported \in [1 .. Uploads -> Nat]

\* The requests for an export and the uploads have numbers of their own.
Numbered ==
    \A c \in traffic : c.op \in {"request", "upload"} =>
        /\ c.op = "request" => c.arg \in 1 .. requested
        /\ c.op = "upload" => c.arg \in 1 .. uploaded
        /\ \A d \in traffic : d.op = c.op /\ d.arg = c.arg => d = c

\* A code that has not been made was not tried, the one in force has as many
\* wrong guesses as attempts, and nothing was handed out for it.
CodeInForce ==
    /\ \A c \in traffic : c.op = "request" /\ c.at = "sent" =>
          handed[c.arg] = 0 /\ wrong[c.arg] = 0 /\ otac.request # c.arg
    /\ \A r \in 1 .. Exports : r > requested => handed[r] = 0 /\ wrong[r] = 0
    /\ otac # Data!NoOtac =>
          /\ otac.request \in 1 .. requested
          /\ handed[otac.request] = 0
          /\ wrong[otac.request] = otac.attempts /\ otac.attempts < otacMaxTries

\* A file is stored by the one answer to its upload, and taken out before it
\* is imported.
FilesStored ==
    /\ \A c \in traffic : c.op = "upload" /\ c.at = "sent" =>
          imported[c.arg] = 0 /\ c.arg \notin stored
    /\ stored \subseteq 1 .. uploaded
    /\ \A n \in 1 .. Uploads : n > uploaded \/ n \in stored => imported[n] = 0
    /\ \A t \in Tabs : picked[t].token = picked[t].shown

DataInv ==
    DataTypes /\ Numbered /\ CodeInForce /\ FilesStored /\ Data!CodeSpentOnce /\ Data!ImportedOnce

LEMMA DataInit == ASSUME NEW sec, Data!Rest(sec) PROVE DataInv
BY BoundsAssumption
   DEF Data!Rest, Data!NoOtac, Data!NoRequest, DataInv, DataTypes, AuthPages, PickPages, DataCalls,
       Numbered,
       CodeInForce, FilesStored, Data!CodeSpentOnce, Data!ImportedOnce

\* What may be picked out of the types: numbers, and the fields of a page.
LEMMA DataBounds ==
    ASSUME DataTypes
    PROVE  /\ Exports \in Nat /\ Uploads \in Nat /\ requested \in Nat /\ uploaded \in Nat
           /\ requested <= Exports /\ uploaded <= Uploads
           /\ \A r \in 1 .. requested : r \in 1 .. Exports /\ r \in Nat
           /\ \A n \in 1 .. uploaded : n \in 1 .. Uploads /\ n \in Nat
           /\ otac.attempts \in Nat
<1>1. /\ Exports \in Nat /\ Uploads \in Nat
      /\ requested \in 0 .. Exports /\ uploaded \in 0 .. Uploads
  BY BoundsAssumption DEF DataTypes
<1>2. otac.attempts \in Nat
  BY DEF DataTypes
<1>3. QED BY <1>1, <1>2

LEMMA AuthMoves ==
    ASSUME auth \in AuthPages, NEW t \in Tabs
    PROVE  /\ auth[t].request \in Nat
           /\ [auth EXCEPT ![t].timer = FALSE, ![t].open = FALSE] \in AuthPages
           /\ \A r \in Nat :
                 [auth EXCEPT ![t].open = TRUE, ![t].timer = TRUE, ![t].request = r] \in AuthPages
BY ZenonT(40) DEF AuthPages

LEMMA PickMoves ==
    ASSUME picked \in PickPages, NEW t \in Tabs
    PROVE  /\ picked[t].token \in Nat /\ picked[t].shown \in Nat
           /\ picked' = [picked EXCEPT ![t].open = FALSE] => picked' \in PickPages
           /\ \A n \in Nat :
                 [picked EXCEPT ![t].open = TRUE, ![t].token = n, ![t].shown = n] \in PickPages
           /\ \A at : [picked EXCEPT ![t].busy = FALSE, ![t].open = @ /\ at = "failed"] \in PickPages
BY ZenonT(40) DEF PickPages

\* A step of the page, or an answer, disturbs nothing that the service keeps.
LEMMA DataGoesOn ==
    ASSUME DataInv,
           UNCHANGED <<otac, stored, handed, wrong, imported, requested, uploaded>>,
           auth' \in AuthPages, picked' \in PickPages,
           \A t \in Tabs : picked'[t].token = picked'[t].shown,
           traffic' \subseteq DataCalls,
           \A d \in traffic' : d.op = "import" => d.code = d.arg,
           \A d \in traffic' : d.op \in {"request", "upload"} =>
              /\ \E e \in traffic : e.op = d.op /\ e.arg = d.arg /\ (d.at = "sent" => e.at = "sent")
              /\ \A e \in traffic' : e.op = d.op /\ e.arg = d.arg => e = d
    PROVE  DataInv'
<1>1. DataTypes'
  BY DEF DataInv, DataTypes
<1>2. Numbered'
  BY DEF DataInv, Numbered
<1>3. FilesStored'
  BY DEF DataInv, FilesStored
<1>4. CodeInForce'
  BY DEF DataInv, CodeInForce
<1>5. QED BY <1>1, <1>2, <1>3, <1>4 DEF DataInv, Data!CodeSpentOnce, Data!ImportedOnce

\* An answered call keeps its number and is sent no more.
LEMMA Answering ==
    ASSUME DataTypes, Numbered, NEW c \in traffic, NEW at \in {"ok", "failed", "wrong", "refused"},
           Data!Answer(c, at)
    PROVE  /\ traffic' \subseteq DataCalls
           /\ \A d \in traffic' : \E e \in traffic :
                 /\ e.op = d.op /\ e.arg = d.arg /\ e.code = d.code
                 /\ d.at = "sent" => d = e /\ d # c
           /\ \A d, e \in traffic' : d.op \in {"request", "upload"} /\ e.op = d.op /\ e.arg = d.arg
                 => e = d
<1> DEFINE a == [c EXCEPT !.at = at]
<1>1. a \in DataCalls /\ a.op = c.op /\ a.arg = c.arg /\ a.code = c.code /\ a.at = at
  BY DEF DataTypes, DataCalls
<1>2. traffic' = (traffic \ {c}) \cup {a}
  BY DEF Data!Answer
<1> HIDE DEF a
<1>3. traffic' \subseteq DataCalls
  BY <1>1, <1>2 DEF DataTypes
<1>4. \A d \in traffic' : \E e \in traffic :
         /\ e.op = d.op /\ e.arg = d.arg /\ e.code = d.code
         /\ d.at = "sent" => d = e /\ d # c
  BY <1>1, <1>2
<1>5. \A d, e \in traffic' : d.op \in {"request", "upload"} /\ e.op = d.op /\ e.arg = d.arg => e = d
  BY <1>1, <1>2 DEF Numbered
<1>6. QED BY <1>3, <1>4, <1>5

\* The page: its dialogs, and what it asks for.
LEMMA DataAsked ==
    ASSUME DataInv, NEW t \in Tabs,
           \/ Data!Visit(t) \/ Data!RequestExport(t) \/ Data!TimeIsUp(t) \/ Data!CloseExport(t)
           \/ Data!Upload(t) \/ Data!ClosePreview(t) \/ Data!ConfirmImport(t)
           \/ \E code \in 1 .. Exports : Data!Download(t, code)
    PROVE  DataInv'
<1> USE BoundsAssumption
   DEF Data!page, Data!service, Data!spent, Data!Call, Data!NoRequest, Data!NoGuess
<1>0. DataTypes /\ Exports \in Nat /\ Uploads \in Nat /\ requested \in Nat /\ uploaded \in Nat
  BY DataBounds DEF DataInv
<1>a. auth \in AuthPages /\ picked \in PickPages /\ \A s \in Tabs : picked[s].token = picked[s].shown
  BY DEF DataInv, DataTypes, FilesStored
<1>1. CASE Data!Visit(t)
  <2> DEFINE off(c) == IF c.tab = t THEN [c EXCEPT !.live = FALSE] ELSE c
  <2>1. traffic' = {off(c) : c \in traffic}
    BY <1>1 DEF Data!Visit
  <2>2. \A c \in traffic : /\ off(c) \in DataCalls /\ off(c).op = c.op /\ off(c).arg = c.arg
                           /\ off(c).code = c.code /\ off(c).at = c.at
    BY DEF DataInv, DataTypes, DataCalls
  <2> HIDE DEF off
  <2>3. traffic' \subseteq DataCalls
    BY <2>1, <2>2
  <2>4. \A d \in traffic' : d.op = "import" => d.code = d.arg
    BY <2>1, <2>2 DEF DataInv, Data!ImportedOnce
  <2>5. \A d \in traffic' : d.op \in {"request", "upload"} =>
           /\ \E e \in traffic : e.op = d.op /\ e.arg = d.arg /\ (d.at = "sent" => e.at = "sent")
           /\ \A e \in traffic' : e.op = d.op /\ e.arg = d.arg => e = d
    BY <2>1, <2>2 DEF DataInv, Numbered
  <2>6. QED BY <1>1, <2>3, <2>4, <2>5, DataGoesOn DEF Data!Visit, DataInv, DataTypes, FilesStored
<1>2. CASE Data!RequestExport(t)
  <2> DEFINE new == Data!Call("request", t, requested + 1, Data!NoGuess)
  <2>1. new \in DataCalls /\ new.op = "request" /\ new.arg = requested + 1
    BY <1>0 DEF DataCalls
  <2>2. traffic' = traffic \cup {new} /\ requested' = requested + 1 /\ requested < Exports
    BY <1>2 DEF Data!RequestExport
  <2> HIDE DEF new
  <2>3. \A c \in traffic : c.op = "request" => c.arg # requested + 1
    BY <1>0 DEF DataInv, Numbered
  <2>4. DataTypes'
    <3>1. requested' \in 0 .. Exports
      BY <1>0, <2>2
    <3>2. UNCHANGED <<auth, picked, otac, uploaded, handed, wrong, imported>>
      BY <1>2 DEF Data!RequestExport
    <3>3. QED BY <2>1, <2>2, <3>1, <3>2 DEF DataInv, DataTypes
  <2>5. Numbered'
    BY <1>0, <1>2, <2>1, <2>2, <2>3 DEF Data!RequestExport, DataInv, Numbered
  <2>6. CodeInForce'
    <3>1. /\ UNCHANGED <<otac, handed, wrong>> /\ requested + 1 \in 1 .. Exports
          /\ otac # Data!NoOtac => otac.request # requested + 1 /\ otac.request \in 1 .. requested'
      BY <1>0, <1>2, <2>2 DEF Data!RequestExport, DataInv, CodeInForce
    <3>2. otac.request # requested + 1
      BY <1>0, <3>1 DEF Data!NoOtac
    <3>3. handed[requested + 1] = 0 /\ wrong[requested + 1] = 0
      BY <1>0, <3>1 DEF DataInv, CodeInForce
    <3>4. \A r \in 1 .. Exports : r > requested' => r > requested
      BY <1>0, <2>2
    <3>5. QED BY <2>1, <2>2, <3>1, <3>2, <3>3, <3>4 DEF DataInv, CodeInForce, Data!NoOtac
  <2>7. FilesStored' /\ Data!CodeSpentOnce' /\ Data!ImportedOnce'
    BY <1>2, <2>1, <2>2
       DEF Data!RequestExport, DataInv, FilesStored, Data!CodeSpentOnce, Data!ImportedOnce
  <2>8. QED BY <2>4, <2>5, <2>6, <2>7 DEF DataInv
<1>3. CASE Data!Upload(t)
  <2> DEFINE new == Data!Call("upload", t, uploaded + 1, Data!NoGuess)
  <2>1. new \in DataCalls /\ new.op = "upload" /\ new.arg = uploaded + 1
    BY <1>0 DEF DataCalls
  <2>2. traffic' = traffic \cup {new} /\ uploaded' = uploaded + 1 /\ uploaded < Uploads
    BY <1>3 DEF Data!Upload
  <2> HIDE DEF new
  <2>3. \A c \in traffic : c.op = "upload" => c.arg # uploaded + 1
    BY <1>0 DEF DataInv, Numbered
  <2>4. DataTypes'
    <3>1. uploaded' \in 0 .. Uploads
      BY <1>0, <2>2
    <3>2. UNCHANGED <<auth, picked, otac, requested, handed, wrong, imported>>
      BY <1>3 DEF Data!Upload
    <3>3. QED BY <2>1, <2>2, <3>1, <3>2 DEF DataInv, DataTypes
  <2>5. Numbered'
    BY <1>0, <1>3, <2>1, <2>2, <2>3 DEF Data!Upload, DataInv, Numbered
  <2>6. FilesStored'
    <3>1. UNCHANGED <<stored, imported, picked>> /\ uploaded + 1 \in 1 .. Uploads
      BY <1>0, <1>3, <2>2 DEF Data!Upload
    <3>2. imported[uploaded + 1] = 0 /\ uploaded + 1 \notin stored
      BY <1>0, <3>1 DEF DataInv, FilesStored
    <3>3. stored \subseteq 1 .. uploaded' /\ \A n \in 1 .. Uploads : n > uploaded' => n > uploaded
      BY <1>0, <2>2, <3>1 DEF DataInv, FilesStored
    <3>4. QED BY <2>1, <2>2, <3>1, <3>2, <3>3 DEF DataInv, FilesStored
  <2>7. CodeInForce' /\ Data!CodeSpentOnce' /\ Data!ImportedOnce'
    BY <1>3, <2>1, <2>2
       DEF Data!Upload, DataInv, CodeInForce, Data!NoOtac, Data!CodeSpentOnce, Data!ImportedOnce
  <2>8. QED BY <2>4, <2>5, <2>6, <2>7 DEF DataInv
<1>4. CASE Data!TimeIsUp(t) \/ Data!ClosePreview(t)
  <2>1. /\ auth' \in AuthPages /\ picked' \in PickPages /\ traffic' = traffic
        /\ UNCHANGED <<otac, stored, handed, wrong, imported, requested, uploaded>>
    BY <1>4, <1>a, AuthMoves, PickMoves DEF Data!TimeIsUp, Data!ClosePreview
  <2>2. \A s \in Tabs : picked'[s].token = picked'[s].shown
    BY <1>4, <1>a DEF Data!TimeIsUp, Data!ClosePreview, PickPages
  <2>3. /\ traffic' \subseteq DataCalls
        /\ \A d \in traffic' : d.op = "import" => d.code = d.arg
        /\ \A d \in traffic' : d.op \in {"request", "upload"} =>
             /\ \E e \in traffic : e.op = d.op /\ e.arg = d.arg /\ (d.at = "sent" => e.at = "sent")
             /\ \A e \in traffic' : e.op = d.op /\ e.arg = d.arg => e = d
    BY <2>1 DEF DataInv, DataTypes, Numbered, Data!ImportedOnce
  <2>4. QED BY <2>1, <2>2, <2>3, DataGoesOn
<1>5. ASSUME NEW new \in DataCalls, traffic' = traffic \cup {new}, new.op \notin {"request", "upload"},
             new.op = "import" => new.code = new.arg,
             UNCHANGED <<otac, stored, handed, wrong, imported, requested, uploaded>>,
             auth' \in AuthPages, picked' \in PickPages,
             \A s \in Tabs : picked'[s].token = picked'[s].shown
      PROVE  DataInv'
  <2>1. /\ traffic' \subseteq DataCalls
        /\ \A d \in traffic' : d.op = "import" => d.code = d.arg
        /\ \A d \in traffic' : d.op \in {"request", "upload"} =>
             /\ \E e \in traffic : e.op = d.op /\ e.arg = d.arg /\ (d.at = "sent" => e.at = "sent")
             /\ \A e \in traffic' : e.op = d.op /\ e.arg = d.arg => e = d
    BY <1>5 DEF DataInv, DataTypes, Numbered, Data!ImportedOnce
  <2>2. QED BY <1>5, <2>1, DataGoesOn
<1>6. CASE Data!CloseExport(t)
  <2>1. Data!Call("revoke", t, Data!NoRequest, Data!NoGuess) \in DataCalls
    BY SMTT(30) DEF DataCalls
  <2>2. auth' \in AuthPages
    BY <1>6, <1>a, AuthMoves DEF Data!CloseExport
  <2>3. QED BY <1>5, <1>6, <1>a, <2>1, <2>2 DEF Data!CloseExport
<1>7. CASE \E code \in 1 .. Exports : Data!Download(t, code)
  <2> PICK code \in 1 .. Exports : Data!Download(t, code)
    BY <1>7
  <2>1. Data!Call("download", t, auth[t].request, code) \in DataCalls
    <3>1. auth[t].request \in Nat
      BY <1>a, AuthMoves
    <3>2. code \in Nat
      BY <1>0
    <3>3. QED BY <3>1, <3>2 DEF DataCalls
  <2>2. QED BY <1>5, <1>a, <2>1 DEF Data!Download
<1>8. CASE Data!ConfirmImport(t)
  <2>1. Data!Call("import", t, picked[t].token, picked[t].shown) \in DataCalls
    BY <1>a, PickMoves DEF DataCalls
  <2>2. picked' \in PickPages /\ \A s \in Tabs : picked'[s].token = picked'[s].shown
    BY <1>8, <1>a DEF Data!ConfirmImport, PickPages
  <2>3. QED BY <1>5, <1>8, <1>a, <2>1, <2>2 DEF Data!ConfirmImport
<1>9. QED BY <1>1, <1>2, <1>3, <1>4, <1>6, <1>7, <1>8

\* The page hears an answer.
LEMMA DataHeard ==
    ASSUME DataInv, NEW c \in traffic,
           \/ Data!ShowExportAuth(c) \/ Data!Downloaded(c) \/ Data!Previewed(c) \/ Data!Imported(c)
    PROVE  DataInv'
<1> USE DEF Data!service, Data!spent, Data!Answered
<1>1. c \in DataCalls /\ traffic' = traffic \ {c}
  BY DEF Data!ShowExportAuth, Data!Downloaded, Data!Previewed, Data!Imported, DataInv, DataTypes
<1>2. /\ traffic' \subseteq DataCalls
      /\ \A d \in traffic' : d.op = "import" => d.code = d.arg
      /\ \A d \in traffic' : d.op \in {"request", "upload"} =>
           /\ \E e \in traffic : e.op = d.op /\ e.arg = d.arg /\ (d.at = "sent" => e.at = "sent")
           /\ \A e \in traffic' : e.op = d.op /\ e.arg = d.arg => e = d
  BY <1>1 DEF DataInv, DataTypes, Numbered, Data!ImportedOnce
<1>3. c.tab \in Tabs /\ c.arg \in Nat /\ auth \in AuthPages /\ picked \in PickPages
      /\ \A s \in Tabs : picked[s].token = picked[s].shown
  BY <1>1 DEF DataCalls, DataInv, DataTypes, FilesStored
<1>4. UNCHANGED <<otac, stored, handed, wrong, imported, requested, uploaded>>
  BY SMTT(40) DEF Data!ShowExportAuth, Data!Downloaded, Data!Previewed, Data!Imported
<1>5. auth' \in AuthPages
  BY <1>3, AuthMoves, ZenonT(60) DEF Data!ShowExportAuth, Data!Downloaded, Data!Previewed, Data!Imported
<1>6. CASE Data!ShowExportAuth(c) \/ Data!Downloaded(c)
  BY <1>2, <1>3, <1>4, <1>5, <1>6, DataGoesOn DEF Data!ShowExportAuth, Data!Downloaded
<1>7. CASE Data!Previewed(c)
  <2>1. picked' \in PickPages
    BY <1>3, <1>7, PickMoves DEF Data!Previewed
  <2>2. \A s \in Tabs : picked'[s].token = picked'[s].shown
    BY <1>3, <1>7 DEF Data!Previewed, PickPages
  <2>3. QED BY <1>2, <1>4, <1>5, <2>1, <2>2, DataGoesOn
<1>8. CASE Data!Imported(c)
  <2>1. picked' \in PickPages
    BY <1>3, <1>8, PickMoves DEF Data!Imported
  <2>2. \A s \in Tabs : picked'[s].token = picked'[s].shown
    BY <1>3, <1>8 DEF Data!Imported, PickPages
  <2>3. QED BY <1>2, <1>4, <1>5, <2>1, <2>2, DataGoesOn
<1>9. QED BY <1>6, <1>7, <1>8

\* A counter goes up by one, and the others stay.
LEMMA Counted ==
    ASSUME NEW S, NEW i \in S, NEW f \in [S -> Nat], NEW g, g = [f EXCEPT ![i] = @ + 1]
    PROVE  g \in [S -> Nat] /\ g[i] = f[i] + 1 /\ \A j \in S : j # i => g[j] = f[j]
OBVIOUS

\* The service answers.
LEMMA DataServed ==
    ASSUME DataInv, NEW c \in traffic,
           \/ Data!GenerateOTAC(c) \/ Data!DownloadExport(c) \/ Data!RevokeOTAC(c)
           \/ Data!StoreFile(c) \/ Data!ExecuteImport(c) \/ Data!Refuse(c)
    PROVE  DataInv'
<1> USE DEF Data!page, Data!service, Data!spent
<1>0. /\ DataTypes /\ Exports \in Nat /\ Uploads \in Nat /\ requested \in Nat /\ uploaded \in Nat
      /\ requested <= Exports /\ uploaded <= Uploads /\ otac.attempts \in Nat
  BY DataBounds DEF DataInv
<1> DEFINE kept == /\ traffic' \subseteq DataCalls
                   /\ \A d \in traffic' : \E e \in traffic :
                         /\ e.op = d.op /\ e.arg = d.arg /\ e.code = d.code
                         /\ d.at = "sent" => d = e /\ d # c
                   /\ \A d, e \in traffic' :
                         d.op \in {"request", "upload"} /\ e.op = d.op /\ e.arg = d.arg => e = d
<1>1. ASSUME NEW at \in {"ok", "wrong", "refused"}, Data!Arrives(c, at)
      PROVE  kept
  BY <1>1, Answering DEF Data!Arrives, DataInv
<1>2. c \in DataCalls
  BY DEF DataInv, DataTypes
<1>3. ASSUME traffic' = traffic \ {c}
      PROVE  kept
  BY <1>3 DEF DataInv, DataTypes, Numbered
<1>4. kept
  BY <1>1, <1>3, Answering
     DEF Data!GenerateOTAC, Data!DownloadExport, Data!RevokeOTAC, Data!StoreFile,
         Data!ExecuteImport, Data!Refuse, DataInv
<1> HIDE DEF kept
<1>5. Numbered' /\ UNCHANGED <<auth, picked, requested, uploaded>>
  BY <1>4 DEF kept, DataInv, Numbered, Data!GenerateOTAC, Data!DownloadExport, Data!RevokeOTAC,
              Data!StoreFile, Data!ExecuteImport, Data!Refuse
<1>6. \A d \in traffic' : d.op = "import" => d.code = d.arg
  BY <1>4 DEF kept, DataInv, Data!ImportedOnce
<1>7. CASE UNCHANGED <<stored, handed, wrong, imported>> /\ otac' \in {otac, Data!NoOtac}
  <2>1. Data!NoOtac \in [request : Nat, owner : Tabs \cup {0}, attempts : Nat]
    BY DEF Data!NoOtac, Data!NoRequest
  <2>2. DataTypes'
    BY <1>4, <1>5, <1>7, <2>1 DEF kept, DataInv, DataTypes
  <2>3. CodeInForce'
    <3>1. \A d \in traffic' : d.op = "request" /\ d.at = "sent" =>
             d \in traffic /\ d.arg # 0
      BY <1>4, <1>0 DEF kept, DataInv, Numbered
    <3>2. Data!NoOtac.request = 0
      BY DEF Data!NoOtac, Data!NoRequest
    <3>3. QED BY <1>5, <1>7, <3>1, <3>2 DEF DataInv, CodeInForce
  <2>4. FilesStored'
    BY <1>4, <1>5, <1>7 DEF kept, DataInv, FilesStored
  <2>5. QED BY <1>5, <1>6, <1>7, <2>2, <2>3, <2>4 DEF DataInv, Data!CodeSpentOnce, Data!ImportedOnce
<1>8. CASE Data!GenerateOTAC(c)
  <2>1. /\ c.op = "request" /\ c.at = "sent" /\ c.arg \in 1 .. requested
        /\ handed[c.arg] = 0 /\ wrong[c.arg] = 0
    BY <1>8 DEF Data!GenerateOTAC, DataInv, Numbered, CodeInForce
  <2>2. \A d \in traffic' : d.op = "request" /\ d.at = "sent" => d.arg # c.arg
    BY <1>4, <2>1 DEF kept, DataInv, Numbered
  <2>3. otac' = [request |-> c.arg, owner |-> c.tab, attempts |-> 0]
        /\ UNCHANGED <<stored, handed, wrong, imported>>
    BY <1>8 DEF Data!GenerateOTAC
  <2>4. DataTypes'
    BY <1>2, <1>4, <1>5, <2>3 DEF kept, DataInv, DataTypes, DataCalls
  <2>5. CodeInForce'
    BY <1>4, <1>5, <2>1, <2>2, <2>3, BoundsAssumption DEF kept, DataInv, CodeInForce
  <2>6. QED BY <1>4, <1>5, <1>6, <2>3, <2>4, <2>5
            DEF kept, DataInv, FilesStored, Data!CodeSpentOnce, Data!ImportedOnce
<1>9. CASE Data!DownloadExport(c)
  <2>1. c.op = "download" /\ UNCHANGED <<stored, imported>>
    BY <1>9 DEF Data!DownloadExport
  <2>2. CASE ~Data!Known(c)
    BY <1>7, <1>9, <2>1, <2>2 DEF Data!DownloadExport, Data!ValidateOTAC
  <2>3. CASE Data!Known(c)
    <3>1. /\ otac # Data!NoOtac /\ otac.request = c.arg /\ c.arg \in 1 .. Exports
          /\ c.arg \in 1 .. requested
          /\ handed[c.arg] = 0 /\ wrong[c.arg] = otac.attempts /\ otac.attempts < otacMaxTries
          /\ otac.attempts \in Nat
      BY <1>0, <2>3 DEF Data!Known, DataInv, CodeInForce
    <3>2. otac' = Data!Used(c)
      BY <1>9, <2>3 DEF Data!DownloadExport, Data!ValidateOTAC
    <3>3. CASE Data!Match(c)
      <4>1. otac' = Data!NoOtac /\ UNCHANGED wrong
            /\ (handed' = [handed EXCEPT ![c.arg] = @ + 1] \/ handed' = handed)
        BY <1>9, <2>3, <3>2, <3>3 DEF Data!DownloadExport, Data!Used
      <4>2. /\ handed' \in [1 .. Exports -> Nat] /\ handed'[c.arg] \in {0, 1}
            /\ \A r \in 1 .. Exports : r # c.arg => handed'[r] = handed[r]
        <5>1. handed \in [1 .. Exports -> Nat] /\ handed[c.arg] = 0
          BY <1>0, <3>1 DEF DataTypes
        <5>2. CASE handed' = handed
          BY <5>1, <5>2
        <5>3. CASE handed' = [handed EXCEPT ![c.arg] = @ + 1]
          BY <3>1, <5>1, <5>3, Counted
        <5>4. QED BY <4>1, <5>2, <5>3
      <4>3. \A d \in traffic' : d.op = "request" /\ d.at = "sent" =>
               d \in traffic /\ d.arg # c.arg /\ d.arg \in 1 .. Exports
        BY <1>0, <1>4, <3>1 DEF kept, DataInv, Numbered, CodeInForce
      <4>4. DataTypes' /\ FilesStored'
        BY <1>4, <1>5, <2>1, <4>1, <4>2
           DEF kept, DataInv, DataTypes, FilesStored, Data!NoOtac, Data!NoRequest
      <4>5. CodeInForce'
        BY <1>5, <3>1, <4>1, <4>2, <4>3
           DEF DataInv, DataTypes, CodeInForce, Data!NoOtac, Data!NoRequest, Numbered
      <4>6. Data!CodeSpentOnce' /\ Data!ImportedOnce'
        BY <1>6, <2>1, <3>1, <4>1, <4>2 DEF DataInv, Data!CodeSpentOnce, Data!ImportedOnce
      <4>7. QED BY <1>5, <4>4, <4>5, <4>6 DEF DataInv
    <3>4. CASE ~Data!Match(c)
      <4>0. Data!Tried \in [request : Nat, owner : Tabs \cup {0}, attempts : Nat]
            /\ Data!Tried.request = otac.request /\ Data!Tried.attempts = otac.attempts + 1
        <5>1. otac \in [request : Nat, owner : Tabs \cup {0}, attempts : Nat]
          BY <1>0 DEF DataTypes
        <5>2. QED BY <5>1 DEF Data!Tried
      <4>1. /\ wrong' = [wrong EXCEPT ![c.arg] = @ + 1] /\ UNCHANGED handed
            /\ otac' = IF otac.attempts + 1 >= otacMaxTries THEN Data!NoOtac ELSE Data!Tried
        BY <1>9, <2>3, <3>2, <3>4, <4>0 DEF Data!DownloadExport, Data!Used
      <4>2. /\ wrong' \in [1 .. Exports -> Nat] /\ wrong'[c.arg] = otac.attempts + 1
            /\ \A r \in 1 .. Exports : r # c.arg => wrong'[r] = wrong[r]
        <5>1. wrong \in [1 .. Exports -> Nat]
          BY <1>0 DEF DataTypes
        <5>2. QED BY <3>1, <4>1, <5>1, Counted
      <4>3. \A d \in traffic' : d.op = "request" /\ d.at = "sent" =>
               d \in traffic /\ d.arg # c.arg /\ d.arg \in 1 .. Exports
        BY <1>0, <1>4, <3>1 DEF kept, DataInv, Numbered, CodeInForce
      <4>4. otac' = Data!NoOtac \/ (otac' = Data!Tried /\ otac.attempts + 1 < otacMaxTries)
        <5>1. otacMaxTries \in Nat /\ otac.attempts \in Nat
          BY <3>1, BoundsAssumption
        <5>2. QED BY <4>1, <5>1
      <4>5. DataTypes' /\ FilesStored'
        <5>1. otac' \in [request : Nat, owner : Tabs \cup {0}, attempts : Nat]
          BY <4>0, <4>4 DEF Data!NoOtac, Data!NoRequest
        <5>2. QED BY <1>4, <1>5, <2>1, <4>1, <4>2, <5>1 DEF kept, DataInv, DataTypes, FilesStored
      <4>6. CodeInForce'
        <5>1. /\ \A d \in traffic' : d.op = "request" /\ d.at = "sent" =>
                    handed'[d.arg] = 0 /\ wrong'[d.arg] = 0
              /\ \A r \in 1 .. Exports : r > requested' => handed'[r] = 0 /\ wrong'[r] = 0
          BY <1>0, <1>5, <3>1, <4>1, <4>2, <4>3 DEF DataInv, CodeInForce
        <5>2. CASE otac' = Data!NoOtac
          BY <1>0, <4>3, <5>1, <5>2 DEF CodeInForce, Data!NoOtac, Data!NoRequest
        <5>3. CASE otac' = Data!Tried /\ otac.attempts + 1 < otacMaxTries
          BY <1>5, <3>1, <4>0, <4>1, <4>2, <4>3, <5>1, <5>3 DEF CodeInForce
        <5>4. QED BY <4>4, <5>2, <5>3
      <4>7. Data!CodeSpentOnce' /\ Data!ImportedOnce'
        <5>1. wrong'[c.arg] <= otacMaxTries
          BY <1>0, <3>1, <4>2, BoundsAssumption
        <5>2. QED BY <1>6, <2>1, <4>1, <4>2, <5>1 DEF DataInv, Data!CodeSpentOnce, Data!ImportedOnce
      <4>8. QED BY <1>5, <4>5, <4>6, <4>7 DEF DataInv
    <3>5. QED BY <3>3, <3>4
  <2>4. QED BY <2>2, <2>3
<1>10. CASE Data!StoreFile(c)
  <2>1. /\ c.op = "upload" /\ c.at = "sent" /\ c.arg \in 1 .. uploaded /\ imported[c.arg] = 0
        /\ stored' = stored \cup {c.arg} /\ UNCHANGED <<otac, handed, wrong, imported>>
    BY <1>10 DEF Data!StoreFile, DataInv, Numbered, FilesStored
  <2>2. \A d \in traffic' : d.op = "upload" /\ d.at = "sent" => d \in traffic /\ d.arg # c.arg
    BY <1>4, <2>1 DEF kept, DataInv, Numbered
  <2>3. DataTypes' /\ FilesStored'
    BY <1>4, <1>5, <2>1, <2>2 DEF kept, DataInv, DataTypes, FilesStored
  <2>4. CodeInForce'
    BY <1>4, <1>5, <2>1 DEF kept, DataInv, CodeInForce
  <2>5. QED BY <1>5, <1>6, <2>1, <2>3, <2>4 DEF DataInv, Data!CodeSpentOnce, Data!ImportedOnce
<1>11. CASE Data!ExecuteImport(c)
  <2>1. /\ c.arg \in 1 .. uploaded /\ c.arg \in stored /\ imported[c.arg] = 0
        /\ stored' = stored \ {c.arg} /\ UNCHANGED <<otac, handed, wrong>>
        /\ (imported' = [imported EXCEPT ![c.arg] = @ + 1] \/ imported' = imported)
        /\ c.arg \in 1 .. Uploads
    <3>1. c.arg \in stored /\ stored \subseteq 1 .. uploaded
      BY <1>11 DEF Data!ExecuteImport, DataInv, FilesStored
    <3>2. c.arg \in 1 .. uploaded /\ c.arg \in 1 .. Uploads
      <4>1. c.arg \in 1 .. uploaded
        BY <3>1
      <4>2. QED BY <1>0, <4>1
    <3>3. imported[c.arg] = 0
      BY <3>1, <3>2 DEF DataInv, FilesStored
    <3>4. QED BY <1>11, <3>1, <3>2, <3>3 DEF Data!ExecuteImport
  <2>2. /\ imported' \in [1 .. Uploads -> Nat] /\ imported'[c.arg] \in {0, 1}
        /\ \A n \in 1 .. Uploads : n # c.arg => imported'[n] = imported[n]
    <3>1. imported \in [1 .. Uploads -> Nat] /\ imported[c.arg] = 0
      BY <1>0, <2>1 DEF DataTypes
    <3>2. CASE imported' = imported
      BY <3>1, <3>2
    <3>3. CASE imported' = [imported EXCEPT ![c.arg] = @ + 1]
      BY <2>1, <3>1, <3>3, Counted
    <3>4. QED BY <2>1, <3>2, <3>3
  <2>3. \A d \in traffic' : d.op = "upload" /\ d.at = "sent" =>
           d \in traffic /\ d.arg # c.arg /\ d.arg \in 1 .. Uploads
    BY <1>0, <1>4, <2>1 DEF kept, DataInv, Numbered, FilesStored
  <2>4. DataTypes'
    BY <1>4, <1>5, <2>1, <2>2 DEF kept, DataInv, DataTypes
  <2>5. FilesStored'
    <3>1. stored \subseteq 1 .. uploaded /\ \A n \in 1 .. Uploads :
             n > uploaded \/ n \in stored => imported[n] = 0
      BY DEF DataInv, FilesStored
    <3>2. \A n \in 1 .. Uploads : n > uploaded' \/ n \in stored' => imported'[n] = 0
      BY <1>0, <1>5, <2>1, <2>2, <3>1
    <3>3. stored' \subseteq 1 .. uploaded'
      BY <1>5, <2>1, <3>1
    <3>4. \A d \in traffic' : d.op = "upload" /\ d.at = "sent" =>
             imported'[d.arg] = 0 /\ d.arg \notin stored'
      BY <2>1, <2>2, <2>3 DEF DataInv, FilesStored
    <3>5. QED BY <1>5, <3>2, <3>3, <3>4 DEF DataInv, FilesStored
  <2>6. CodeInForce'
    BY <1>4, <1>5, <2>1 DEF kept, DataInv, CodeInForce
  <2>7. QED BY <1>5, <1>6, <2>1, <2>2, <2>4, <2>5, <2>6
            DEF DataInv, Data!CodeSpentOnce, Data!ImportedOnce
<1>12. CASE Data!RevokeOTAC(c) \/ Data!Refuse(c)
  BY <1>7, <1>12 DEF Data!RevokeOTAC, Data!Refuse
<1>13. QED BY <1>8, <1>9, <1>10, <1>11, <1>12

LEMMA DataStep == DataInv /\ (Data!Next \/ UNCHANGED dataPart) => DataInv'
<1> SUFFICES ASSUME DataInv, Data!Next \/ UNCHANGED dataPart
             PROVE  DataInv'
  OBVIOUS
<1>1. CASE UNCHANGED dataPart
  BY <1>1 DEF dataPart, DataInv, DataTypes, Numbered, CodeInForce, FilesStored, Data!CodeSpentOnce,
              Data!ImportedOnce
<1>2. CASE Data!Expire
  <2>1. UNCHANGED <<auth, picked, traffic, requested, uploaded, handed, wrong, imported>>
        /\ stored' \subseteq stored /\ otac' \in {otac, Data!NoOtac}
    BY <1>2 DEF Data!Expire, Data!page, Data!spent
  <2>2. Data!NoOtac \in [request : Nat, owner : Tabs \cup {0}, attempts : Nat]
    BY DEF Data!NoOtac, Data!NoRequest
  <2>3. DataTypes' /\ Numbered'
    BY <2>1, <2>2 DEF DataInv, DataTypes, Numbered
  <2>4. FilesStored'
    BY <2>1 DEF DataInv, FilesStored
  <2>5. CodeInForce'
    <3>1. \A c \in traffic : c.op = "request" => c.arg # 0
      BY DataBounds DEF DataInv, Numbered
    <3>2. QED BY <2>1, <3>1 DEF DataInv, CodeInForce, Data!NoOtac, Data!NoRequest
  <2>6. QED BY <2>1, <2>3, <2>4, <2>5 DEF DataInv, Data!CodeSpentOnce, Data!ImportedOnce
<1>3. QED BY <1>1, <1>2, DataAsked, DataHeard, DataServed DEF Data!Next

\* The codes of exports and the uploaded files keep their invariant.
LEMMA DataInvariance == Spec => []DataInv
<1>1. Init => DataInv
  BY DataInit DEF Init
<1>2. DataInv /\ [Next]_pages => DataInv'
  BY DataStep DEF Next, pages
<1>3. QED BY <1>1, <1>2, PTL DEF Spec, pages

\* A code hands out one backup at most and is spent by its third wrong guess,
\* an upload is imported once at most, and the link of a letter serves one page
\* and resets one password: for any number of tabs, letters and bounds
\* (ValidateOTAC, RetrieveFile, MarkUsedAndGet, UseCode).
THEOREM CodesAreSpentOnce == Spec => []SpentOnce
<1>1. DataInv /\ LetterInv => SpentOnce
  BY DEF DataInv, LetterInv, TabsServed, Served, GrantedOnce, SpentOnce, Letter!OnePage,
         Letter!OneReset
<1>2. QED BY <1>1, DataInvariance, LetterInvariance, PTL

(***************************************************************************)
(* Consents: what was agreed to, and what was rejected                     *)
(***************************************************************************)

GateDialog == [at     : {"closed", "asked", "sent", "writing", "refused", "through", "left"},
               listed : [Policies -> Nat], box : BOOLEAN, agreed : BOOLEAN]

PageRecord(r) ==
    r = [at |-> r.at, lang |-> r.lang, label |-> r.label, banner |-> r.banner,
         notices |-> r.notices, next |-> r.next]

AgreeTypes ==
    /\ gate \in [Tabs -> GateDialog]
    /\ writing \in [Tabs -> SUBSET Policies]
    /\ effective \in [Policies -> Nat]
    /\ consents \in [all : SUBSET (Policies \X Nat), last : [Policies -> Nat]]
    /\ jar = [consent |-> jar.consent, lang |-> jar.lang, dismissed |-> jar.dismissed]
    /\ page = [t \in Tabs |-> page[t]] /\ \A t \in Tabs : PageRecord(page[t])
    /\ torn \in BOOLEAN

\* While the server records a dialog's policies, those it has done are on
\* record; a page that is not through was not agreed to.
Recorded ==
    \A t \in Tabs :
        /\ gate[t].at = "writing" =>
              \A p \in Agree!Listed(t) \ writing[t] : <<p, gate[t].listed[p]>> \in consents.all
        /\ gate[t].agreed => gate[t].at = "through"

AgreeInv == AgreeTypes /\ Recorded /\ Agree!GateKept /\ Agree!RejectionHolds

LEMMA AgreeInit == ASSUME NEW of, Agree!Rest(of) PROVE AgreeInv
<1>1. AgreeTypes
  BY DEF Agree!Rest, Agree!NoList, AgreeTypes, PageRecord, GateDialog
<1>2. Recorded /\ Agree!GateKept /\ Agree!RejectionHolds
  BY DEF Agree!Rest, Recorded, Agree!GateKept, Agree!RejectionHolds
<1>3. QED BY <1>1, <1>2 DEF AgreeInv

\* Where one gate goes the others stay, and it keeps its list.
LEMMA GateMoves ==
    ASSUME AgreeTypes, NEW t \in Tabs
    PROVE  /\ \A at \in {"sent", "writing", "refused", "asked", "left"} :
                 Agree!Goto(t, at) =>
                    /\ gate' \in [Tabs -> GateDialog]
                    /\ gate'[t].at = at /\ gate'[t].listed = gate[t].listed
                    /\ gate'[t].agreed = gate[t].agreed
                    /\ \A s \in Tabs \ {t} : gate'[s] = gate[s]
           /\ gate' = [gate EXCEPT ![t].at = "through", ![t].agreed = TRUE] =>
                    /\ gate' \in [Tabs -> GateDialog]
                    /\ gate'[t].at = "through" /\ gate'[t].listed = gate[t].listed
                    /\ \A s \in Tabs \ {t} : gate'[s] = gate[s]
<1>1. gate[t] \in GateDialog /\ gate \in [Tabs -> GateDialog]
  BY DEF AgreeTypes
<1>2. ASSUME NEW at \in {"sent", "writing", "refused", "asked", "left"}, Agree!Goto(t, at)
      PROVE  /\ gate' \in [Tabs -> GateDialog]
             /\ gate'[t].at = at /\ gate'[t].listed = gate[t].listed
             /\ gate'[t].agreed = gate[t].agreed
             /\ \A s \in Tabs \ {t} : gate'[s] = gate[s]
  <2> DEFINE moved == [gate[t] EXCEPT !.at = at]
  <2>1. /\ moved \in GateDialog /\ moved.at = at /\ moved.listed = gate[t].listed
        /\ moved.agreed = gate[t].agreed
    BY <1>1 DEF GateDialog
  <2>2. gate' = [gate EXCEPT ![t] = moved]
    BY <1>2 DEF Agree!Goto
  <2> HIDE DEF moved
  <2>3. QED BY <1>1, <2>1, <2>2
<1>3. ASSUME gate' = [gate EXCEPT ![t].at = "through", ![t].agreed = TRUE]
      PROVE  /\ gate' \in [Tabs -> GateDialog]
             /\ gate'[t].at = "through" /\ gate'[t].listed = gate[t].listed
             /\ \A s \in Tabs \ {t} : gate'[s] = gate[s]
  BY <1>1, <1>3 DEF GateDialog
<1>4. QED BY <1>2, <1>3

\* A gate that moves without having been agreed to breaks no record.
LEMMA GateGoesOn ==
    ASSUME AgreeInv, NEW t \in Tabs,
           UNCHANGED <<effective, jar, page, torn>>, gate' \in [Tabs -> GateDialog],
           writing' \in [Tabs -> SUBSET Policies],
           consents' \in [all : SUBSET (Policies \X Nat), last : [Policies -> Nat]],
           consents.all \subseteq consents'.all,
           \A s \in Tabs \ {t} : gate'[s] = gate[s] /\ writing'[s] = writing[s],
           gate'[t].at = "writing" =>
              \A p \in Policies : gate'[t].listed[p] # 0 /\ p \notin writing'[t] =>
                 <<p, gate'[t].listed[p]>> \in consents'.all,
           gate'[t].agreed => gate'[t].at = "through",
           gate'[t].agreed => \A p \in Policies :
              gate'[t].listed[p] # 0 => <<p, gate'[t].listed[p]>> \in consents'.all
    PROVE  AgreeInv'
<1>1. AgreeTypes'
  BY DEF AgreeInv, AgreeTypes
<1>2. Recorded'
  BY DEF AgreeInv, Recorded, Agree!Listed
<1>3. Agree!GateKept'
  BY DEF AgreeInv, Agree!GateKept, Agree!Listed
<1>4. QED BY <1>1, <1>2, <1>3 DEF AgreeInv, Agree!RejectionHolds, Agree!Clearing

LEMMA GateStays ==
    ASSUME AgreeInv, Agree!GateStep
    PROVE  AgreeInv'
<1> USE DEF Agree!cookies
<1>0. AgreeTypes /\ Recorded /\ Agree!GateKept
  BY DEF AgreeInv
<1>t. /\ gate \in [Tabs -> GateDialog] /\ writing \in [Tabs -> SUBSET Policies]
      /\ effective \in [Policies -> Nat] /\ consents.all \subseteq Policies \X Nat
      /\ consents \in [all : SUBSET (Policies \X Nat), last : [Policies -> Nat]]
  BY <1>0 DEF AgreeTypes
<1>1. ASSUME NEW t \in Tabs, Agree!CheckPolicyConsent(t)
      PROVE  AgreeInv'
  <2>1. Agree!Pending \in [Policies -> Nat] /\ Agree!NoList \in [Policies -> Nat]
    BY <1>t DEF Agree!Pending, Agree!NoList
  <2>2. /\ gate' \in [Tabs -> GateDialog] /\ gate'[t].at \in {"asked", "through"}
        /\ gate'[t].agreed = FALSE
        /\ \A s \in Tabs \ {t} : gate'[s] = gate[s]
    <3>1. PICK at \in {"asked", "through"}, wanted \in [Policies -> Nat] :
             gate' = [gate EXCEPT ![t] = [at |-> at, listed |-> wanted, box |-> FALSE, agreed |-> FALSE]]
      BY <1>1, <2>1 DEF Agree!CheckPolicyConsent
    <3>2. [at |-> at, listed |-> wanted, box |-> FALSE, agreed |-> FALSE] \in GateDialog
      BY DEF GateDialog
    <3>3. QED BY <1>t, <3>1, <3>2
  <2>3. UNCHANGED <<writing, effective, consents, jar, page, torn>>
    BY <1>1 DEF Agree!CheckPolicyConsent
  <2>4. QED BY <1>t, <2>2, <2>3, GateGoesOn
<1>2. ASSUME NEW t \in Tabs, Agree!ToggleBox(t)
      PROVE  AgreeInv'
  <2>1. /\ gate' \in [Tabs -> GateDialog] /\ gate'[t].at = "asked"
        /\ gate'[t].agreed = gate[t].agreed
        /\ \A s \in Tabs \ {t} : gate'[s] = gate[s]
    <3>1. PICK b \in BOOLEAN : b = ~gate[t].box
      BY Zenon
    <3> DEFINE toggled == [gate[t] EXCEPT !.box = b]
    <3>2. toggled \in GateDialog /\ toggled.at = gate[t].at /\ toggled.agreed = gate[t].agreed
      <4>1. gate[t] \in GateDialog
        BY <1>t
      <4>2. QED BY <4>1 DEF GateDialog
    <3>3. gate' = [gate EXCEPT ![t] = toggled] /\ gate[t].at = "asked"
      BY <1>2, <3>1 DEF Agree!ToggleBox, Agree!Boxed
    <3> HIDE DEF toggled
    <3>4. QED BY <1>t, <3>2, <3>3
  <2>2. ~gate[t].agreed
    BY <1>0, <1>2 DEF Agree!ToggleBox, Agree!Boxed, Recorded
  <2>3. UNCHANGED <<writing, effective, consents, jar, page, torn>>
    BY <1>2 DEF Agree!ToggleBox
  <2>4. QED BY <1>t, <2>1, <2>2, <2>3, GateGoesOn
<1>3. ASSUME NEW t \in Tabs, NEW at \in {"sent", "refused", "asked", "left"}, Agree!Goto(t, at),
             gate[t].at # "through", writing' \in {writing, [writing EXCEPT ![t] = {}]},
             UNCHANGED <<effective, consents, jar, page, torn>>
      PROVE  AgreeInv'
  <2>1. /\ gate' \in [Tabs -> GateDialog] /\ gate'[t].at = at
        /\ gate'[t].agreed = gate[t].agreed
        /\ \A s \in Tabs \ {t} : gate'[s] = gate[s]
    BY <1>0, <1>3, GateMoves
  <2>2. ~gate[t].agreed
    BY <1>0, <1>3 DEF Recorded
  <2>3. writing' \in [Tabs -> SUBSET Policies] /\ \A s \in Tabs \ {t} : writing'[s] = writing[s]
    BY <1>3, <1>t
  <2>4. QED BY <1>3, <1>t, <2>1, <2>2, <2>3, GateGoesOn
<1>4. ASSUME NEW t \in Tabs, Agree!Accept(t) \/ Agree!Decline(t) \/ Agree!LogFails(t)
      PROVE  AgreeInv'
  BY <1>3, <1>4 DEF Agree!Accept, Agree!Decline, Agree!LogFails, Agree!Boxed
<1>5. ASSUME NEW t \in Tabs, Agree!LogIn(t)
      PROVE  AgreeInv'
  BY <1>5, <1>t, <1>0, GateGoesOn DEF Agree!LogIn, Recorded, Agree!GateKept, Agree!Listed
<1>6. ASSUME NEW t \in Tabs, Agree!RecordConsent(t)
      PROVE  AgreeInv'
  <2>1. CASE Agree!Goto(t, "writing") /\ writing' = [writing EXCEPT ![t] = Agree!Listed(t)]
    <3>1. /\ gate' \in [Tabs -> GateDialog] /\ gate'[t].at = "writing"
          /\ gate'[t].agreed = gate[t].agreed /\ gate'[t].listed = gate[t].listed
          /\ \A s \in Tabs \ {t} : gate'[s] = gate[s]
      BY <1>0, <2>1, GateMoves
    <3>2. ~gate[t].agreed
      BY <1>0, <1>6 DEF Agree!RecordConsent, Recorded
    <3>3. /\ writing' \in [Tabs -> SUBSET Policies] /\ writing'[t] = Agree!Listed(t)
          /\ \A s \in Tabs \ {t} : writing'[s] = writing[s]
      BY <2>1, <1>t DEF Agree!Listed
    <3>4. UNCHANGED <<effective, consents, jar, page, torn>>
      BY <1>6 DEF Agree!RecordConsent
    <3>5. QED BY <1>t, <3>1, <3>2, <3>3, <3>4, GateGoesOn DEF Agree!Listed
  <2>2. CASE Agree!Goto(t, "refused") /\ UNCHANGED writing
    BY <1>3, <1>6, <2>2 DEF Agree!RecordConsent
  <2>3. QED BY <1>6, <2>1, <2>2 DEF Agree!RecordConsent
<1>7. ASSUME NEW t \in Tabs, NEW p \in Policies, Agree!LogConsent(t, p)
      PROVE  AgreeInv'
  <2>1. /\ gate[t].at = "writing" /\ ~gate[t].agreed /\ gate[t].listed[p] \in Nat
        /\ UNCHANGED <<gate, effective, jar, page, torn>>
    BY <1>0, <1>t, <1>7 DEF Agree!LogConsent, Recorded, GateDialog
  <2>2. /\ consents' \in [all : SUBSET (Policies \X Nat), last : [Policies -> Nat]]
        /\ consents'.all = consents.all \cup {<<p, gate[t].listed[p]>>}
    BY <1>t, <1>7, <2>1 DEF Agree!LogConsent
  <2>3. /\ writing' \in [Tabs -> SUBSET Policies] /\ writing'[t] = writing[t] \ {p}
        /\ \A s \in Tabs \ {t} : writing'[s] = writing[s]
    BY <1>t, <1>7 DEF Agree!LogConsent
  <2>4. \A q \in Policies : gate[t].listed[q] # 0 /\ q \notin writing'[t] =>
           <<q, gate[t].listed[q]>> \in consents'.all
    BY <1>0, <2>1, <2>2, <2>3 DEF Recorded, Agree!Listed
  <2>5. QED BY <1>t, <2>1, <2>2, <2>3, <2>4, GateGoesOn
<1>8. ASSUME NEW t \in Tabs, Agree!Accepted(t)
      PROVE  AgreeInv'
  <2>1. CASE gate[t].at = "refused" /\ Agree!Goto(t, "asked")
    BY <1>3, <1>8, <2>1 DEF Agree!Accepted
  <2>2. CASE /\ gate[t].at = "writing" /\ writing[t] = {}
             /\ gate' = [gate EXCEPT ![t].at = "through", ![t].agreed = TRUE]
    <3>1. /\ gate' \in [Tabs -> GateDialog] /\ gate'[t].at = "through"
          /\ gate'[t].listed = gate[t].listed
          /\ \A s \in Tabs \ {t} : gate'[s] = gate[s]
      BY <1>0, <2>2, GateMoves
    <3>2. \A p \in Policies : gate[t].listed[p] # 0 => <<p, gate[t].listed[p]>> \in consents.all
      BY <1>0, <2>2 DEF Recorded, Agree!Listed
    <3>3. UNCHANGED <<writing, effective, consents, jar, page, torn>>
      BY <1>8 DEF Agree!Accepted
    <3>4. QED BY <1>t, <3>1, <3>2, <3>3, GateGoesOn
  <2>3. QED BY <1>8, <2>1, <2>2 DEF Agree!Accepted
<1>9. ASSUME NEW p \in Policies, Agree!TakeEffect(p)
      PROVE  AgreeInv'
  <2>1. effective' \in [Policies -> Nat] /\ UNCHANGED <<gate, writing, consents, jar, page, torn>>
    BY <1>9, <1>t DEF Agree!TakeEffect
  <2>2. QED BY <2>1 DEF AgreeInv, AgreeTypes, Recorded, Agree!GateKept, Agree!RejectionHolds,
                        Agree!Clearing, Agree!Listed
<1>10. QED
  BY <1>1, <1>2, <1>4, <1>5, <1>6, <1>7, <1>8, <1>9 DEF Agree!GateStep

\* A page's record stays one, field by field.
LEMMA PageField ==
    ASSUME NEW p, PageRecord(p), NEW v
    PROVE  /\ PageRecord([p EXCEPT !.at = v]) /\ PageRecord([p EXCEPT !.lang = v])
           /\ PageRecord([p EXCEPT !.label = v]) /\ PageRecord([p EXCEPT !.banner = v])
           /\ PageRecord([p EXCEPT !.notices = v]) /\ PageRecord([p EXCEPT !.next = v])
<1>1. PageRecord([p EXCEPT !.at = v])
  BY DEF PageRecord
<1>2. PageRecord([p EXCEPT !.lang = v])
  BY DEF PageRecord
<1>3. PageRecord([p EXCEPT !.label = v])
  BY DEF PageRecord
<1>4. PageRecord([p EXCEPT !.banner = v])
  BY DEF PageRecord
<1>5. PageRecord([p EXCEPT !.notices = v])
  BY DEF PageRecord
<1>6. PageRecord([p EXCEPT !.next = v])
  BY DEF PageRecord
<1>7. QED BY <1>1, <1>2, <1>3, <1>4, <1>5, <1>6

LEMMA PageFields ==
    ASSUME NEW p, PageRecord(p), NEW v, NEW w, NEW x
    PROVE  /\ PageRecord([p EXCEPT !.at = v, !.lang = w])
           /\ PageRecord([p EXCEPT !.at = v, !.label = w])
           /\ PageRecord([p EXCEPT !.banner = v, !.next = w])
           /\ PageRecord([p EXCEPT !.lang = v, !.label = w, !.next = x])
<1>1. PageRecord([p EXCEPT !.at = v, !.lang = w])
  <2> DEFINE q == [p EXCEPT !.at = v]
  <2>1. PageRecord(q)
    BY PageField
  <2>2. PageRecord([q EXCEPT !.lang = w])
    <3> HIDE DEF q
    <3>1. QED BY <2>1, PageField
  <2>3. QED BY <2>2
<1>2. PageRecord([p EXCEPT !.at = v, !.label = w])
  <2> DEFINE q == [p EXCEPT !.at = v]
  <2>1. PageRecord(q)
    BY PageField
  <2>2. PageRecord([q EXCEPT !.label = w])
    <3> HIDE DEF q
    <3>1. QED BY <2>1, PageField
  <2>3. QED BY <2>2
<1>3. PageRecord([p EXCEPT !.banner = v, !.next = w])
  <2> DEFINE q == [p EXCEPT !.banner = v]
  <2>1. PageRecord(q)
    BY PageField
  <2>2. PageRecord([q EXCEPT !.next = w])
    <3> HIDE DEF q
    <3>1. QED BY <2>1, PageField
  <2>3. QED BY <2>2
<1>4. PageRecord([p EXCEPT !.lang = v, !.label = w, !.next = x])
  <2> DEFINE q == [p EXCEPT !.lang = v]
  <2> DEFINE r == [q EXCEPT !.label = w]
  <2>1. PageRecord(q)
    BY PageField
  <2>2. PageRecord(r)
    <3> HIDE DEF q
    <3>1. QED BY <2>1, PageField
  <2>3. PageRecord([r EXCEPT !.next = x])
    <3> HIDE DEF r
    <3>1. QED BY <2>2, PageField
  <2>4. QED BY <2>3
<1>5. QED BY <1>1, <1>2, <1>3, <1>4

\* What a page does about cookies leaves the other pages, and what they are
\* about to do, alone.
LEMMA PageAlone ==
    ASSUME AgreeTypes, NEW t \in Tabs, NEW r, PageRecord(r), page' = [page EXCEPT ![t] = r]
    PROVE  /\ page' = [s \in Tabs |-> page'[s]] /\ \A s \in Tabs : PageRecord(page'[s])
           /\ page'[t] = r /\ \A s \in Tabs \ {t} : page'[s] = page[s]
<1>1. page = [s \in Tabs |-> page[s]] /\ \A s \in Tabs : PageRecord(page[s])
  BY DEF AgreeTypes
<1>2. page' = [s \in Tabs |-> IF s = t THEN r ELSE page[s]]
  BY <1>1
<1>3. /\ page'[t] = r /\ \A s \in Tabs \ {t} : page'[s] = page[s]
      /\ page' = [s \in Tabs |-> page'[s]]
  BY <1>2
<1> HIDE DEF PageRecord
<1>4. QED BY <1>1, <1>3

LEMMA CookiesStay ==
    ASSUME AgreeInv, Agree!CookieStep
    PROVE  AgreeInv'
<1> USE DEF Agree!gates
<1>0. AgreeTypes /\ Agree!RejectionHolds /\ \A t \in Tabs : PageRecord(page[t])
  BY DEF AgreeInv, AgreeTypes
<1>1. UNCHANGED <<gate, writing, effective, consents>>
  BY DEF Agree!CookieStep, Agree!PageStep, Agree!OpenPage, Agree!ClosePage,
         Agree!InitializeLanguage, Agree!InitLanguageSwitcher, Agree!CreateBanner,
         Agree!AcceptCookies, Agree!RejectCookies, Agree!clearOptionalCookies,
         Agree!ShowNotices, Agree!DismissNotices, Agree!SwitchLanguage, Agree!WriteLanguage,
         Agree!CookieExpires
<1>2. jar = [consent |-> jar.consent, lang |-> jar.lang, dismissed |-> jar.dismissed]
      /\ torn \in BOOLEAN
  BY <1>0 DEF AgreeTypes
\* What a step of one page has to show.
<1> DEFINE Kept == /\ page' = [t \in Tabs |-> page'[t]] /\ \A t \in Tabs : PageRecord(page'[t])
                   /\ jar' = [consent |-> jar'.consent, lang |-> jar'.lang,
                              dismissed |-> jar'.dismissed]
                   /\ torn' \in BOOLEAN /\ Agree!RejectionHolds'
<1>3. ASSUME NEW t \in Tabs, NEW r, PageRecord(r), page' = [page EXCEPT ![t] = r],
             jar' = [consent |-> jar'.consent, lang |-> jar'.lang, dismissed |-> jar'.dismissed],
             torn' \in BOOLEAN,
             \/ /\ torn' = torn /\ (page[t].next = "clear" => r.next = "clear")
                /\ jar'.lang = jar.lang /\ (jar'.consent = "rejected" => jar.consent = "rejected")
             \/ jar'.consent = "accepted"
             \/ r.next = "clear"
             \/ jar'.lang = NoLang
             \/ /\ jar'.consent = jar.consent /\ page[t].next # "clear"
                /\ torn' = (torn \/ (jar.consent = "rejected" /\ ~Agree!Clearing))
      PROVE  Kept
  <2>1. /\ page' = [s \in Tabs |-> page'[s]] /\ \A s \in Tabs : PageRecord(page'[s])
        /\ page'[t] = r /\ \A s \in Tabs \ {t} : page'[s] = page[s]
    BY <1>0, <1>3, PageAlone
  <2>2. (page[t].next = "clear" => r.next = "clear") => (Agree!Clearing => Agree!Clearing')
    BY <2>1 DEF Agree!Clearing
  <2>3. r.next = "clear" => Agree!Clearing'
    BY <2>1 DEF Agree!Clearing
  <2>4. Agree!RejectionHolds'
    <3> HIDE DEF Agree!Clearing
    <3>1. QED BY <1>0, <1>2, <1>3, <2>2, <2>3 DEF Agree!RejectionHolds
  <2>5. QED BY <1>3, <2>1, <2>4
<1>4. ASSUME UNCHANGED <<page, torn>>,
             jar' = [consent |-> jar'.consent, lang |-> jar'.lang, dismissed |-> jar'.dismissed],
             \/ jar'.lang = jar.lang /\ (jar'.consent = "rejected" => jar.consent = "rejected")
             \/ jar'.lang = NoLang
      PROVE  Kept
  BY <1>0, <1>2, <1>4 DEF AgreeTypes, Agree!RejectionHolds, Agree!Clearing
<1> HIDE DEF Kept
<1>5. ASSUME NEW t \in Tabs, Agree!Idle(t), Agree!PageStep(t)
      PROVE  Kept
  <2> USE DEF Agree!Idle, Agree!hideBanner
  <2>0. PageRecord(page[t])
    BY <1>0
  <2>p. page = [s \in Tabs |-> page[s]]
    BY <1>0 DEF AgreeTypes
  <2>1. CASE Agree!OpenPage(t)
    <3>1. PICK lang : page' = [page EXCEPT ![t].at = "inline", ![t].lang = lang]
      BY <2>1, Zenon DEF Agree!OpenPage
    <3> DEFINE r == [page[t] EXCEPT !.at = "inline", !.lang = lang]
    <3>2. page' = [page EXCEPT ![t] = r]
      BY <2>p, <3>1
    <3>3. PageRecord(r)
      BY <2>0, PageFields
    <3>4. r.next = page[t].next
      BY <2>0 DEF PageRecord
    <3>5. jar' = jar /\ torn' = torn
      BY <2>1 DEF Agree!OpenPage
    <3> HIDE DEF r
    <3>6. QED BY <1>2, <1>3, <3>2, <3>3, <3>4, <3>5
  <2>2. CASE Agree!ClosePage(t)
    <3> DEFINE r == [at |-> "closed", lang |-> NoLang, label |-> NoLang, banner |-> FALSE,
                     notices |-> {}, next |-> "none"]
    <3>1. page' = [page EXCEPT ![t] = r] /\ PageRecord(r) /\ jar' = jar /\ torn' = torn
      BY <2>2 DEF Agree!ClosePage, PageRecord
    <3> HIDE DEF r
    <3>2. QED BY <1>2, <1>3, <1>5, <3>1
  <2>3. CASE Agree!InitializeLanguage(t) \/ Agree!InitLanguageSwitcher(t)
    <3>1. PICK at, label : page' = [page EXCEPT ![t].at = at, ![t].label = label]
      BY <2>3, Zenon DEF Agree!InitializeLanguage, Agree!InitLanguageSwitcher
    <3> DEFINE r == [page[t] EXCEPT !.at = at, !.label = label]
    <3>2. page' = [page EXCEPT ![t] = r]
      BY <2>p, <3>1
    <3>3. PageRecord(r)
      BY <2>0, PageFields
    <3>4. r.next = page[t].next
      BY <2>0 DEF PageRecord
    <3>5. jar' = jar /\ torn' = torn
      BY <2>3 DEF Agree!InitializeLanguage, Agree!InitLanguageSwitcher
    <3> HIDE DEF r
    <3>6. QED BY <1>2, <1>3, <3>2, <3>3, <3>4, <3>5
  <2>4. CASE Agree!CreateBanner(t)
    <3> DEFINE r == [page[t] EXCEPT !.banner = TRUE]
    <3>1. page' = [page EXCEPT ![t] = r] /\ jar' = jar /\ torn' = torn
      BY <2>4 DEF Agree!CreateBanner
    <3>2. PageRecord(r)
      BY <2>0, PageField
    <3>3. r.next = page[t].next
      BY <2>0 DEF PageRecord
    <3> HIDE DEF r
    <3>4. QED BY <1>2, <1>3, <3>1, <3>2, <3>3
  <2>5. CASE Agree!AcceptCookies(t)
    <3> DEFINE r == [page[t] EXCEPT !.banner = FALSE]
    <3>1. page' = [page EXCEPT ![t] = r]
      BY <2>5 DEF Agree!AcceptCookies
    <3>3. PageRecord(r)
      BY <2>0, PageField
    <3>4. r.next = page[t].next
      BY <2>0 DEF PageRecord
    <3>2. jar' = [jar EXCEPT !.consent = "accepted"] /\ torn' = torn
      BY <2>5 DEF Agree!AcceptCookies
    <3> HIDE DEF r
    <3>5. QED BY <1>2, <1>3, <3>1, <3>2, <3>3, <3>4
  <2>6. CASE Agree!RejectCookies(t)
    <3> DEFINE r == [page[t] EXCEPT !.banner = FALSE, !.next = "clear"]
    <3>1. page' = [page EXCEPT ![t] = r]
      BY <2>p, <2>6 DEF Agree!RejectCookies
    <3>3. PageRecord(r)
      BY <2>0, PageFields
    <3>4. r.next = "clear"
      BY <2>0 DEF PageRecord
    <3>2. jar' = [jar EXCEPT !.consent = "rejected"] /\ torn' = torn
      BY <2>6 DEF Agree!RejectCookies
    <3> HIDE DEF r
    <3>5. QED BY <1>2, <1>3, <3>1, <3>2, <3>3, <3>4
  <2>7. CASE Agree!ShowNotices(t)
    <3> DEFINE r == [page[t] EXCEPT !.notices = Policies \ jar.dismissed]
    <3>1. page' = [page EXCEPT ![t] = r] /\ jar' = jar /\ torn' = torn
      BY <2>7 DEF Agree!ShowNotices
    <3>2. PageRecord(r)
      BY <2>0, PageField
    <3>3. r.next = page[t].next
      BY <2>0 DEF PageRecord
    <3> HIDE DEF r
    <3>4. QED BY <1>2, <1>3, <3>1, <3>2, <3>3
  <2>8. CASE Agree!DismissNotices(t)
    <3> DEFINE r == [page[t] EXCEPT !.notices = {}]
    <3>1. page' = [page EXCEPT ![t] = r]
      BY <2>8 DEF Agree!DismissNotices
    <3>3. PageRecord(r)
      BY <2>0, PageField
    <3>4. r.next = page[t].next
      BY <2>0 DEF PageRecord
    <3>2. \E d : jar' = [jar EXCEPT !.dismissed = d] /\ torn' = torn
      BY <2>8 DEF Agree!DismissNotices
    <3> HIDE DEF r
    <3>5. QED BY <1>2, <1>3, <3>1, <3>2, <3>3, <3>4
  <2>9. ASSUME NEW lang \in Languages, Agree!SwitchLanguage(t, lang)
        PROVE  Kept
    <3>1. PICK next : page' = [page EXCEPT ![t].lang = lang, ![t].label = lang, ![t].next = next]
      BY <2>9, Zenon DEF Agree!SwitchLanguage
    <3> DEFINE r == [page[t] EXCEPT !.lang = lang, !.label = lang, !.next = next]
    <3>2. page' = [page EXCEPT ![t] = r]
      BY <2>p, <3>1
    <3>4. PageRecord(r)
      BY <2>0, PageFields
    <3>3. jar' = jar /\ torn' = torn
      BY <2>9 DEF Agree!SwitchLanguage
    <3> HIDE DEF r
    <3>5. QED BY <1>2, <1>3, <1>5, <3>2, <3>3, <3>4
  <2>10. QED BY <1>5, <2>1, <2>2, <2>3, <2>4, <2>5, <2>6, <2>7, <2>8, <2>9 DEF Agree!PageStep
<1>6. ASSUME NEW t \in Tabs, Agree!clearOptionalCookies(t)
      PROVE  Kept
  <2> DEFINE r == [page[t] EXCEPT !.next = "none"]
  <2>1. page' = [page EXCEPT ![t] = r] /\ PageRecord(r)
    <3>1. page' = [page EXCEPT ![t] = r]
      BY <1>6 DEF Agree!clearOptionalCookies
    <3>2. PageRecord(r)
      BY <1>0, PageField
    <3>3. QED BY <3>1, <3>2
  <2>2. jar' = [jar EXCEPT !.lang = NoLang] /\ torn' = torn
    BY <1>6 DEF Agree!clearOptionalCookies
  <2> HIDE DEF r
  <2>3. QED BY <1>2, <1>3, <2>1, <2>2
<1>7. ASSUME NEW t \in Tabs, Agree!WriteLanguage(t)
      PROVE  Kept
  <2> DEFINE r == [page[t] EXCEPT !.next = "none"]
  <2>1. page' = [page EXCEPT ![t] = r] /\ PageRecord(r)
    <3>1. page' = [page EXCEPT ![t] = r]
      BY <1>7 DEF Agree!WriteLanguage
    <3>2. PageRecord(r)
      BY <1>0, PageField
    <3>3. QED BY <3>1, <3>2
  <2>2. /\ \E lang : jar' = [jar EXCEPT !.lang = lang]
        /\ torn' = (torn \/ (jar.consent = "rejected" /\ ~Agree!Clearing))
        /\ page[t].next # "clear"
    BY <1>7 DEF Agree!WriteLanguage
  <2>3. torn' \in BOOLEAN
    BY <2>2, Zenon
  <2> HIDE DEF r
  <2>4. QED BY <1>2, <1>3, <2>1, <2>2, <2>3
<1>8. ASSUME Agree!CookieExpires
      PROVE  Kept
  <2>1. UNCHANGED <<page, torn>>
        /\ jar' \in {[jar EXCEPT !.consent = "none"], [jar EXCEPT !.lang = NoLang],
                     [jar EXCEPT !.dismissed = {}]}
    BY <1>8 DEF Agree!CookieExpires
  <2>2. CASE jar' = [jar EXCEPT !.consent = "none"]
    BY <1>2, <1>4, <2>1, <2>2
  <2>3. CASE jar' = [jar EXCEPT !.lang = NoLang]
    BY <1>2, <1>4, <2>1, <2>3
  <2>4. CASE jar' = [jar EXCEPT !.dismissed = {}]
    BY <1>2, <1>4, <2>1, <2>4
  <2>5. QED BY <2>1, <2>2, <2>3, <2>4
<1>9. Kept
  <2>1. ASSUME NEW t \in Tabs, Agree!Idle(t) /\ Agree!PageStep(t)
        PROVE  Kept
    BY <1>5, <2>1
  <2>2. QED BY <1>6, <1>7, <1>8, <2>1, Zenon DEF Agree!CookieStep
<1>10. QED
  BY <1>1, <1>9 DEF Kept, AgreeInv, AgreeTypes, Recorded, Agree!GateKept, Agree!Listed

LEMMA AgreeStep == AgreeInv /\ (Agree!Next \/ UNCHANGED agreePart) => AgreeInv'
<1>1. ASSUME AgreeInv, UNCHANGED agreePart
      PROVE  AgreeInv'
  BY <1>1 DEF agreePart, AgreeInv, AgreeTypes, Recorded, Agree!GateKept, Agree!RejectionHolds,
              Agree!Clearing, Agree!Listed
<1>2. QED BY <1>1, GateStays, CookiesStay DEF Agree!Next

\* What was agreed to and what was rejected keeps its invariant.
LEMMA AgreeInvariance == Spec => []AgreeInv
<1>1. Init => AgreeInv
  BY AgreeInit DEF Init
<1>2. AgreeInv /\ [Next]_pages => AgreeInv'
  BY AgreeStep DEF Next, pages
<1>3. QED BY <1>1, <1>2, PTL DEF Spec, pages

\* A page entered by agreeing has all its policies on record, and a visitor who
\* rejected optional cookies has none, for any policies and tabs
\* (RecordConsent, LogConsent, clearOptionalCookies).
THEOREM ConsentIsKept == Spec => []ConsentKept
<1>1. AgreeInv => ConsentKept
  BY DEF AgreeInv, ConsentKept
<1>2. QED BY <1>1, AgreeInvariance, PTL

(***************************************************************************)
(* Popups: which link a click opens                                        *)
(***************************************************************************)

\* As long as no question was hidden past its controller, the one controller on
\* the buttons is that of the question on display.
LinkInv ==
    /\ link = [shown |-> link.shown, url |-> link.url] /\ link.shown \in BOOLEAN
    /\ ~hidden => /\ link.shown => attached = <<link.url>>
                  /\ ~link.shown => attached = <<>>
    /\ Mail!OpensLinkShown

\* The questions and the clicks on them.
LEMMA LinkStep == ASSUME LinkInv, Mail!Next PROVE LinkInv'
<1> USE DEF LinkInv, Mail!OpensLinkShown
<1>1. CASE \/ Mail!ShowAlert \/ Mail!AlertClicked \/ Mail!ShowSupportedEmails \/ Mail!CloseModal
           \/ Mail!Escape
  BY <1>1 DEF Mail!ShowAlert, Mail!AlertClicked, Mail!ShowSupportedEmails, Mail!CloseModal,
              Mail!Escape
<1>2. ASSUME NEW url \in Links, Mail!ShowExternalLink(url) PROVE LinkInv'
  <2>1. link' = [shown |-> TRUE, url |-> url] /\ attached' = Append(attached, url)
    BY <1>2 DEF Mail!ShowExternalLink
  <2>2. ~link.shown /\ UNCHANGED <<opened, showing, hidden>>
    BY <1>2 DEF Mail!ShowExternalLink
  <2>3. ASSUME ~hidden PROVE attached' = <<url>>
    BY <2>1, <2>2, <2>3
  <2>4. QED BY <2>1, <2>2, <2>3
<1>3. CASE Mail!Continue \/ Mail!CancelLink \/ Mail!CloseExternalLink
  BY <1>3 DEF Mail!Continue, Mail!CancelLink, Mail!CloseExternalLink
<1>4. QED BY <1>1, <1>2, <1>3 DEF Mail!Next

\* The question before a foreign page opens the link it shows, once, unless an
\* earlier question was hidden past its controller (showExternalLinkConfirm,
\* closeExternalLinkModal).
THEOREM LinksOpenAsShown == Spec => []OpensLinkShown
<1>1. Init => LinkInv
  BY DEF Init, Mail!Rest, LinkInv, Mail!OpensLinkShown
<1>2. LinkInv /\ [Next]_pages => LinkInv'
  <2>1. LinkInv /\ UNCHANGED mailPart => LinkInv'
    BY DEF mailPart, LinkInv, Mail!OpensLinkShown
  <2>2. QED BY <2>1, LinkStep DEF Next, pages
<1>3. LinkInv => OpensLinkShown
  BY DEF LinkInv, OpensLinkShown
<1>4. QED BY <1>1, <1>2, <1>3, PTL DEF Spec, pages

(***************************************************************************)
(* DashboardPage: what the page shows of the account                       *)
(***************************************************************************)

HomeRow(row) ==
    row = [links |-> row.links, name |-> row.name, avatar |-> row.avatar, banned |-> row.banned]

HomeTypes ==
    /\ changes \in Nat
    /\ question = Home!NoAsk \/ question.op \in {"link", "unlink", "logout", "export"}
    /\ HomeRow(account) /\ HomeRow(user) /\ HomeRow(shown)
    /\ account \in copies /\ \A row \in copies : HomeRow(row)
    /\ \A r \in reads :
          /\ r = [n |-> r.n, why |-> r.why, of |-> r.of, at |-> r.at, row |-> r.row]
          /\ HomeRow(r.row) /\ r.n \in Nat /\ r.n <= changes
          /\ r.why \in {"unlink", "name", "avatar"} /\ r.at \in {"sent", "ok", "failed"}
    /\ \A c \in posts :
          /\ c = [n |-> c.n, op |-> c.op, of |-> c.of, at |-> c.at]
          /\ c.op \in {"unlink", "logout", "export"}

\* Links only go: every row that is cached or was read has those that are left,
\* and one read for an unlinked provider no longer has it unless it was old.
LinksShrink ==
    /\ account.links \subseteq user.links /\ account.links \subseteq shown.links
    /\ \A row \in copies : account.links \subseteq row.links
    /\ \A r \in reads :
          /\ account.links \subseteq r.row.links
          /\ r.why = "unlink" => r.of \notin account.links /\ (stale \/ r.of \notin r.row.links)
    /\ \A c \in posts : c.op = "unlink" /\ c.at = "ok" => c.of \notin account.links

\* Before the page is ready nothing but a ban changes.
HomeWaits ==
    place \in {"session", "consent"} =>
        /\ reads = {} /\ posts = {}
        /\ user.links = account.links /\ user.name = account.name
        /\ user.avatar = account.avatar

\* Unless a reading failed, overtook another or was old, the last one after a change of
\* the name or the avatar brings what the account has by now.
LastReads ==
    /\ \A r \in reads : r.why \in {"name", "avatar"} => r.n < changes
    /\ ~stale =>
          /\ \A r \in reads : r.why = "name" =>
                r.row.name = account.name \/ \E o \in reads : o.why = "name" /\ o.n > r.n
          /\ \A r \in reads : r.why = "avatar" =>
                r.of = account.avatar \/ \E o \in reads : o.why = "avatar" /\ o.n > r.n

\* In the same case what the page does not show yet is still being read, and no
\* reading brings back a link it took away.
Converges ==
    place = "ready" /\ ~stale =>
        /\ user.links \subseteq shown.links
        /\ \A r \in reads : r.at = "ok" =>
              r.row.links \subseteq shown.links /\ r.row.links \subseteq user.links
        /\ shown.name = account.name \/ \E r \in reads : r.why = "name"
        /\ shown.avatar = account.avatar \/ \E r \in reads : r.why = "avatar"

HomeInv == HomeTypes /\ LinksShrink /\ HomeWaits /\ LastReads /\ Converges

\* The page loads.
LEMMA HomeLoads == ASSUME HomeInv, Home!SessionVerified \/ Home!Consented PROVE HomeInv'
<1> USE DEF HomeInv, Home!Ready, Home!NoAsk, Home!SessionVerified, Home!Consented
<1>1. HomeTypes'
  BY DEF HomeTypes, HomeRow
<1>2. LinksShrink'
  BY DEF HomeTypes, HomeRow, LinksShrink, HomeWaits
<1>3. HomeWaits'
  BY DEF HomeTypes, HomeRow, HomeWaits
<1>4. LastReads'
  BY DEF HomeTypes, HomeRow, HomeWaits, LastReads
<1>5. Converges'
  BY DEF HomeTypes, HomeRow, LinksShrink, HomeWaits, LastReads, Converges
<1>6. QED BY <1>1, <1>2, <1>3, <1>4, <1>5

\* The question before a link, a logout or an export.
LEMMA HomeAsks ==
    ASSUME HomeInv,
           \/ \E p \in Providers : Home!ClickLink(p)
           \/ Home!ClickLogout \/ Home!DataExport \/ Home!Declined
    PROVE  HomeInv'
<1> USE DEF HomeInv, Home!Ready, Home!NoAsk, Home!ClickLink, Home!ClickLogout, Home!DataExport,
            Home!Declined
<1>1. HomeTypes'
  BY DEF HomeTypes, HomeRow
<1>2. LinksShrink'
  BY DEF HomeTypes, HomeRow, LinksShrink, HomeWaits
<1>3. HomeWaits'
  BY DEF HomeTypes, HomeRow, HomeWaits
<1>4. LastReads'
  BY DEF HomeTypes, HomeRow, HomeWaits, LastReads
<1>5. Converges'
  BY DEF HomeTypes, HomeRow, LinksShrink, HomeWaits, LastReads, Converges
<1>6. QED BY <1>1, <1>2, <1>3, <1>4, <1>5

LEMMA HomeConfirms == ASSUME HomeInv, Home!Confirmed PROVE HomeInv'
<1> USE DEF HomeInv, Home!Ready, Home!NoAsk, Home!Confirmed, Home!Step
<1>1. HomeTypes'
  BY DEF HomeTypes, HomeRow
<1>2. LinksShrink'
  BY DEF HomeTypes, HomeRow, LinksShrink, HomeWaits
<1>3. HomeWaits'
  BY DEF HomeTypes, HomeRow, HomeWaits
<1>4. LastReads'
  <2>1. /\ UNCHANGED <<reads, stale>> /\ changes' = changes + 1 /\ changes \in Nat
        /\ account'.name = account.name /\ account'.avatar = account.avatar
    BY DEF HomeTypes, HomeRow
  <2>2. \A r \in reads : r.n \in Nat
    BY DEF HomeTypes
  <2>3. QED BY <2>1, <2>2 DEF LastReads
<1>5. Converges'
  BY DEF HomeTypes, HomeRow, LinksShrink, HomeWaits, LastReads, Converges
<1>6. QED BY <1>1, <1>2, <1>3, <1>4, <1>5

\* The requests that follow.
LEMMA HomePosted ==
    ASSUME HomeInv, NEW c \in posts, Home!Unlinked(c) \/ Home!LoggedOut(c) \/ Home!Exported(c)
    PROVE HomeInv'
<1> USE DEF HomeInv, Home!Ready, Home!NoAsk, Home!Unlinked, Home!LoggedOut, Home!Exported,
            Home!Read
<1>1. HomeTypes'
  BY DEF HomeTypes, HomeRow
<1>2. LinksShrink'
  BY DEF HomeTypes, HomeRow, LinksShrink, HomeWaits
<1>3. HomeWaits'
  BY DEF HomeTypes, HomeRow, HomeWaits
<1>4. LastReads'
  BY DEF HomeTypes, HomeRow, HomeWaits, LastReads
<1>5. Converges'
  BY DEF HomeTypes, HomeRow, LinksShrink, HomeWaits, LastReads, Converges
<1>6. QED BY <1>1, <1>2, <1>3, <1>4, <1>5

LEMMA HomeServes ==
    ASSUME HomeInv, NEW c \in posts,
           Home!Unlink(c) \/ Home!Logout(c) \/ Home!RequestDataExport(c)
    PROVE  HomeInv'
<1> USE DEF HomeInv, Home!Ready, Home!NoAsk, Home!SetAccount, Home!Answer, Home!Unlink,
            Home!Logout, Home!RequestDataExport
<1>1. HomeTypes'
  BY DEF HomeTypes, HomeRow
<1>2. LinksShrink'
  BY DEF HomeTypes, HomeRow, LinksShrink, HomeWaits
<1>3. HomeWaits'
  BY DEF HomeTypes, HomeRow, HomeWaits
<1>4. LastReads'
  BY DEF HomeTypes, HomeRow, HomeWaits, LastReads
<1>5. Converges'
  BY DEF HomeTypes, HomeRow, LinksShrink, HomeWaits, LastReads, Converges
<1>6. QED BY <1>1, <1>2, <1>3, <1>4, <1>5

\* The dialogs for a name and an avatar, and the readings after them.
LEMMA HomeRenames == ASSUME HomeInv, Home!NameChanged PROVE HomeInv'
<1> USE DEF HomeInv, Home!Ready, Home!NoAsk, Home!NameChanged, Home!Read, Home!Step,
            Home!SetAccount
<1>1. HomeTypes'
  <2> DEFINE d == [n |-> changes, why |-> "name", of |-> NoProvider, at |-> "sent", row |-> account']
  <2>1. /\ reads' = reads \cup {d} /\ changes' = changes + 1 /\ copies' = copies \cup {account'}
        /\ UNCHANGED <<question, user, shown, posts>>
    OBVIOUS
  <2>2. HomeRow(account')
    BY DEF HomeTypes, HomeRow
  <2>3. /\ d = [n |-> d.n, why |-> d.why, of |-> d.of, at |-> d.at, row |-> d.row]
        /\ d.row = account' /\ d.n = changes /\ d.why = "name" /\ d.at = "sent"
    OBVIOUS
  <2> HIDE DEF d, Home!NameChanged
  <2>4. changes \in Nat /\ \A r \in reads : r.n \in Nat /\ r.n <= changes
    BY DEF HomeTypes
  <2>5. \A r \in reads : r.n <= changes'
    BY <2>1, <2>4
  <2>6. HomeRow(d.row) /\ d.n \in Nat /\ d.n <= changes'
    BY <2>1, <2>2, <2>3, <2>4
  <2>7. QED BY <2>1, <2>2, <2>3, <2>4, <2>5, <2>6 DEF HomeTypes, HomeRow
<1>2. LinksShrink'
  BY DEF HomeTypes, HomeRow, LinksShrink, HomeWaits
<1>3. HomeWaits'
  BY DEF HomeTypes, HomeRow, HomeWaits
<1>4. LastReads'
  <2> DEFINE d == [n |-> changes, why |-> "name", of |-> NoProvider, at |-> "sent", row |-> account']
  <2>1. reads' = reads \cup {d} /\ changes' = changes + 1 /\ stale' = stale
    OBVIOUS
  <2>2. /\ d.n = changes /\ d.why = "name" /\ d.of = NoProvider /\ d.at = "sent" /\ d.row = account'
        /\ account' = [account EXCEPT !.name = changes + 1]
    OBVIOUS
  <2> HIDE DEF d
  <2>3. account'.avatar = account.avatar /\ account'.name = changes + 1
    BY <2>2 DEF HomeTypes, HomeRow
  <2>4. /\ \A r \in reads : r.n \in Nat /\ r.n <= changes
        /\ \A r \in reads : r.why \in {"name", "avatar"} => r.n < changes
        /\ changes \in Nat
    BY DEF HomeTypes, LastReads
  <2>5. \A r \in reads' : r.why \in {"name", "avatar"} => r.n < changes'
    BY <2>1, <2>2, <2>4
  <2>6. ASSUME ~stale
        PROVE  \A r \in reads' : r.why = "name" =>
                  \/ r.row.name = account'.name
                  \/ \E o \in reads' : o.why = "name" /\ o.n > r.n
    BY <2>1, <2>2, <2>3, <2>4
  <2>7. ASSUME ~stale
        PROVE  \A r \in reads' : r.why = "avatar" =>
                  \/ r.of = account'.avatar
                  \/ \E o \in reads' : o.why = "avatar" /\ o.n > r.n
    BY <2>1, <2>2, <2>3, <2>7 DEF LastReads
  <2>8. QED BY <2>1, <2>5, <2>6, <2>7 DEF LastReads
<1>5. Converges'
  <2> DEFINE d == [n |-> changes, why |-> "name", of |-> NoProvider, at |-> "sent", row |-> account']
  <2>1. reads' = reads \cup {d} /\ changes' = changes + 1 /\ stale' = stale
    OBVIOUS
  <2>2. /\ d.n = changes /\ d.why = "name" /\ d.of = NoProvider /\ d.at = "sent" /\ d.row = account'
        /\ account' = [account EXCEPT !.name = changes + 1]
    OBVIOUS
  <2> HIDE DEF d
  <2>3. account'.avatar = account.avatar /\ UNCHANGED <<place, user, shown>>
    BY <2>2 DEF HomeTypes, HomeRow
  <2>4. QED BY <2>1, <2>2, <2>3 DEF Converges
<1>6. QED BY <1>1, <1>2, <1>3, <1>4, <1>5

LEMMA HomeRepaints == ASSUME HomeInv, Home!AvatarChanged PROVE HomeInv'
<1> USE DEF HomeInv, Home!Ready, Home!NoAsk, Home!AvatarChanged, Home!Read, Home!Step,
            Home!SetAccount
<1>1. HomeTypes'
  <2> DEFINE d == [n |-> changes, why |-> "avatar", of |-> changes + 1, at |-> "sent", row |-> account']
  <2>1. /\ reads' = reads \cup {d} /\ changes' = changes + 1 /\ copies' = copies \cup {account'}
        /\ UNCHANGED <<question, user, shown, posts>>
    OBVIOUS
  <2>2. HomeRow(account')
    BY DEF HomeTypes, HomeRow
  <2>3. /\ d = [n |-> d.n, why |-> d.why, of |-> d.of, at |-> d.at, row |-> d.row]
        /\ d.row = account' /\ d.n = changes /\ d.why = "avatar" /\ d.at = "sent"
    OBVIOUS
  <2> HIDE DEF d, Home!AvatarChanged
  <2>4. changes \in Nat /\ \A r \in reads : r.n \in Nat /\ r.n <= changes
    BY DEF HomeTypes
  <2>5. \A r \in reads : r.n <= changes'
    BY <2>1, <2>4
  <2>6. HomeRow(d.row) /\ d.n \in Nat /\ d.n <= changes'
    BY <2>1, <2>2, <2>3, <2>4
  <2>7. QED BY <2>1, <2>2, <2>3, <2>4, <2>5, <2>6 DEF HomeTypes, HomeRow
<1>2. LinksShrink'
  BY DEF HomeTypes, HomeRow, LinksShrink, HomeWaits
<1>3. HomeWaits'
  BY DEF HomeTypes, HomeRow, HomeWaits
<1>4. LastReads'
  <2> DEFINE d == [n |-> changes, why |-> "avatar", of |-> changes + 1, at |-> "sent", row |-> account']
  <2>1. reads' = reads \cup {d} /\ changes' = changes + 1 /\ stale' = stale
    OBVIOUS
  <2>2. /\ d.n = changes /\ d.why = "avatar" /\ d.of = changes + 1 /\ d.at = "sent" /\ d.row = account'
        /\ account' = [account EXCEPT !.avatar = changes + 1]
    OBVIOUS
  <2> HIDE DEF d
  <2>3. account'.name = account.name /\ account'.avatar = changes + 1
    BY <2>2 DEF HomeTypes, HomeRow
  <2>4. /\ \A r \in reads : r.n \in Nat /\ r.n <= changes
        /\ \A r \in reads : r.why \in {"name", "avatar"} => r.n < changes
        /\ changes \in Nat
    BY DEF HomeTypes, LastReads
  <2>5. \A r \in reads' : r.why \in {"name", "avatar"} => r.n < changes'
    BY <2>1, <2>2, <2>4
  <2>6. ASSUME ~stale
        PROVE  \A r \in reads' : r.why = "avatar" =>
                  \/ r.of = account'.avatar
                  \/ \E o \in reads' : o.why = "avatar" /\ o.n > r.n
    BY <2>1, <2>2, <2>3, <2>4
  <2>7. ASSUME ~stale
        PROVE  \A r \in reads' : r.why = "name" =>
                  \/ r.row.name = account'.name
                  \/ \E o \in reads' : o.why = "name" /\ o.n > r.n
    BY <2>1, <2>2, <2>3, <2>7 DEF LastReads
  <2>8. QED BY <2>1, <2>5, <2>6, <2>7 DEF LastReads
<1>5. Converges'
  <2> DEFINE d == [n |-> changes, why |-> "avatar", of |-> changes + 1, at |-> "sent", row |-> account']
  <2>1. reads' = reads \cup {d} /\ changes' = changes + 1 /\ stale' = stale
    OBVIOUS
  <2>2. /\ d.n = changes /\ d.why = "avatar" /\ d.of = changes + 1 /\ d.at = "sent" /\ d.row = account'
        /\ account' = [account EXCEPT !.avatar = changes + 1]
    OBVIOUS
  <2> HIDE DEF d
  <2>3. account'.name = account.name /\ UNCHANGED <<place, user, shown>>
    BY <2>2 DEF HomeTypes, HomeRow
  <2>4. QED BY <2>1, <2>2, <2>3 DEF Converges
<1>6. QED BY <1>1, <1>2, <1>3, <1>4, <1>5

LEMMA HomeReads == ASSUME HomeInv, NEW r \in reads, Home!ReadingDone(r) PROVE HomeInv'
<1> USE DEF HomeInv, Home!Ready, Home!NoAsk, Home!ReadingDone, Home!Repainted, Home!Crosses
<1>1. HomeTypes'
  BY DEF HomeTypes, HomeRow
<1>2. LinksShrink'
  BY DEF HomeTypes, HomeRow, LinksShrink, HomeWaits
<1>3. HomeWaits'
  BY DEF HomeTypes, HomeRow, HomeWaits
<1>4. LastReads'
  <2>1. reads' = reads \ {r} /\ UNCHANGED <<account, changes>>
    OBVIOUS
  <2>2. ASSUME ~stale' PROVE ~stale /\ \A o \in reads' : o.n > r.n
    <3>1. ~(stale \/ r.at = "failed" \/ Home!Crosses(r))
      BY <2>2
    <3>2. ~stale /\ \A o \in reads \ {r} : ~(o.n <= r.n)
      BY <3>1, Zenon
    <3>3. \A o \in reads : o.n \in Nat
      BY DEF HomeTypes
    <3> HIDE DEF Home!ReadingDone, Home!Crosses
    <3>4. QED BY <2>1, <3>2, <3>3
  <2>3. ASSUME ~stale'
        PROVE  /\ \A x \in reads' : x.why = "name" =>
                     x.row.name = account.name \/ \E o \in reads' : o.why = "name" /\ o.n > x.n
               /\ \A x \in reads' : x.why = "avatar" =>
                     x.of = account.avatar \/ \E o \in reads' : o.why = "avatar" /\ o.n > x.n
    BY <2>1, <2>2, <2>3 DEF LastReads, HomeTypes
  <2>4. QED BY <2>1, <2>3 DEF LastReads
<1>5. Converges'
  <2>1. SUFFICES ASSUME place = "ready", ~stale' PROVE Converges'
    BY DEF Converges
  <2>2. /\ reads' = reads \ {r} /\ UNCHANGED <<account, changes>> /\ ~stale /\ r.at = "ok"
        /\ user' = r.row /\ \A o \in reads' : o.at = "ok" => o.row = r.row
    BY <2>1 DEF HomeTypes
  <2>3. r.row.links \subseteq shown.links /\ (r.why = "unlink" => r.of \notin r.row.links)
    BY <2>1, <2>2 DEF Converges, LinksShrink
  <2>4. /\ r.why = "unlink" => shown' = [shown EXCEPT !.links = @ \ {r.of}]
        /\ r.why = "name" => shown' = [shown EXCEPT !.name = r.row.name]
        /\ r.why = "avatar" => shown' = [shown EXCEPT !.avatar = r.of]
    BY <2>2 DEF HomeTypes
  <2>5. /\ shown'.links = IF r.why = "unlink" THEN shown.links \ {r.of} ELSE shown.links
        /\ shown'.name = IF r.why = "name" THEN r.row.name ELSE shown.name
        /\ shown'.avatar = IF r.why = "avatar" THEN r.of ELSE shown.avatar
    BY <2>4 DEF HomeTypes, HomeRow
  <2>6. /\ user'.links \subseteq shown'.links
        /\ \A o \in reads' : o.at = "ok" =>
              o.row.links \subseteq shown'.links /\ o.row.links \subseteq user'.links
    BY <2>2, <2>3, <2>5
  <2>7. /\ shown'.name = account.name \/ \E o \in reads' : o.why = "name"
        /\ shown'.avatar = account.avatar \/ \E o \in reads' : o.why = "avatar"
    BY <2>1, <2>2, <2>5 DEF Converges, LastReads, HomeTypes
  <2>8. QED BY <2>2, <2>6, <2>7 DEF Converges
<1>6. QED BY <1>1, <1>2, <1>3, <1>4, <1>5

LEMMA HomeReadServed == ASSUME HomeInv, NEW r \in reads, Home!GetMe(r) PROVE HomeInv'
<1> USE DEF HomeInv, Home!Ready, Home!NoAsk
<1>a. PICK d : /\ reads' = (reads \ {r}) \cup {d}
               /\ d = [n |-> r.n, why |-> r.why, of |-> r.of, at |-> d.at, row |-> d.row]
               /\ d.at \in {"ok", "failed"} /\ d.row \in copies
               /\ stale' = (stale \/ d.row # account)
  <2>1. PICK at \in {"ok", "failed"}, row \in copies :
           /\ reads' = (reads \ {r}) \cup {[r EXCEPT !.at = at, !.row = row]}
           /\ stale' = (stale \/ row # account)
    BY DEF Home!GetMe
  <2>2. r = [n |-> r.n, why |-> r.why, of |-> r.of, at |-> r.at, row |-> r.row]
    BY DEF HomeTypes
  <2> DEFINE s == [r EXCEPT !.at = at]
  <2>3. [r EXCEPT !.at = at, !.row = row] = [s EXCEPT !.row = row]
    BY Zenon
  <2>4. s = [n |-> r.n, why |-> r.why, of |-> r.of, at |-> at, row |-> r.row]
    BY <2>2
  <2> HIDE DEF s
  <2>5. [s EXCEPT !.row = row]
           = [n |-> r.n, why |-> r.why, of |-> r.of, at |-> at, row |-> row]
    BY <2>4
  <2>6. [r EXCEPT !.at = at, !.row = row]
           = [n |-> r.n, why |-> r.why, of |-> r.of, at |-> at, row |-> row]
    BY <2>3, <2>5, Zenon
  <2>7. QED BY <2>1, <2>6
<1>b. UNCHANGED <<place, account, copies, user, shown, question, posts, changes>>
  BY DEF Home!GetMe
<1>c. /\ stale => stale'
      /\ ~stale' => ~stale /\ d.row = account
  BY <1>a
<1>1. HomeTypes'
  <2>1. /\ d = [n |-> d.n, why |-> d.why, of |-> d.of, at |-> d.at, row |-> d.row]
        /\ HomeRow(d.row) /\ d.n \in Nat /\ d.n <= changes
        /\ d.why \in {"unlink", "name", "avatar"} /\ d.at \in {"sent", "ok", "failed"}
    BY <1>a DEF HomeTypes
  <2>2. \A x \in reads' : x \in reads \/ x = d
    BY <1>a
  <2>3. QED BY <1>b, <2>1, <2>2 DEF HomeTypes, HomeRow
<1>2. LinksShrink'
  BY <1>a, <1>b, <1>c DEF LinksShrink
<1>3. HomeWaits'
  BY <1>a, <1>b DEF HomeWaits
<1>4. LastReads'
  <2>1. /\ \A x \in reads' : x = d \/ x \in reads
        /\ \A x \in reads : x = r \/ x \in reads'
        /\ d \in reads' /\ d.n = r.n /\ d.why = r.why /\ d.of = r.of /\ (~stale' => d.row = account)
    BY <1>a, <1>c
  <2>2. \A why, m : (\E o \in reads : o.why = why /\ o.n > m)
                      => (\E o \in reads' : o.why = why /\ o.n > m)
    BY <2>1
  <2>3. QED BY <1>b, <1>c, <2>1, <2>2 DEF LastReads
<1>5. Converges'
  <2>1. /\ \A x \in reads' : x = d \/ x \in reads
        /\ \A x \in reads : x = r \/ x \in reads'
        /\ d \in reads' /\ d.n = r.n /\ d.why = r.why /\ d.of = r.of /\ (~stale' => d.row = account)
    BY <1>a, <1>c
  <2>2. \A why : (\E o \in reads : o.why = why) => (\E o \in reads' : o.why = why)
    BY <2>1
  <2>3. QED BY <1>b, <1>c, <2>1, <2>2 DEF Converges, LinksShrink
<1>6. QED BY <1>1, <1>2, <1>3, <1>4, <1>5

\* The language switcher, and a ban.
LEMMA HomeSwitches == ASSUME HomeInv, Home!SwitchLanguage PROVE HomeInv'
<1> USE DEF HomeInv, Home!Ready, Home!NoAsk, Home!SwitchLanguage
<1>1. HomeTypes'
  BY DEF HomeTypes, HomeRow
<1>2. LinksShrink'
  BY DEF HomeTypes, HomeRow, LinksShrink, HomeWaits
<1>3. HomeWaits'
  BY DEF HomeTypes, HomeRow, HomeWaits
<1>4. LastReads'
  BY DEF HomeTypes, HomeRow, HomeWaits, LastReads
<1>5. Converges'
  BY DEF HomeTypes, HomeRow, LinksShrink, HomeWaits, LastReads, Converges
<1>6. QED BY <1>1, <1>2, <1>3, <1>4, <1>5

LEMMA HomeBans == ASSUME HomeInv, Home!SetBan PROVE HomeInv'
<1> USE DEF HomeInv, Home!Ready, Home!NoAsk, Home!SetBan, Home!Step, Home!SetAccount
<1>1. HomeTypes'
  BY DEF HomeTypes, HomeRow
<1>2. LinksShrink'
  BY DEF HomeTypes, HomeRow, LinksShrink, HomeWaits
<1>3. HomeWaits'
  BY DEF HomeTypes, HomeRow, HomeWaits
<1>4. LastReads'
  <2>1. /\ UNCHANGED <<reads, stale>> /\ changes' = changes + 1 /\ changes \in Nat
        /\ account'.name = account.name /\ account'.avatar = account.avatar
    BY DEF HomeTypes, HomeRow
  <2>2. \A r \in reads : r.n \in Nat
    BY DEF HomeTypes
  <2>3. QED BY <2>1, <2>2 DEF LastReads
<1>5. Converges'
  BY DEF HomeTypes, HomeRow, LinksShrink, HomeWaits, LastReads, Converges
<1>6. QED BY <1>1, <1>2, <1>3, <1>4, <1>5

LEMMA HomeStep == HomeInv /\ Home!Next => HomeInv'
BY HomeLoads, HomeAsks, HomeConfirms, HomePosted, HomeServes, HomeRenames, HomeRepaints, HomeReads,
   HomeReadServed, HomeSwitches, HomeBans DEF Home!Next

\* The dashboard keeps its invariant.
LEMMA HomeInvariance == Spec => []HomeInv
<1>1. Init => HomeInv
  BY DEF Init, Home!Rest, Home!NoAsk, HomeInv, HomeTypes, HomeRow, LinksShrink, HomeWaits,
         LastReads,
         Converges
<1>2. HomeInv /\ UNCHANGED homePart => HomeInv'
  BY DEF homePart, Home!NoAsk, HomeInv, HomeTypes, HomeRow, LinksShrink, HomeWaits, LastReads,
         Converges
<1>3. HomeInv /\ [Next]_pages => HomeInv'
  BY <1>2, HomeStep DEF Next, pages
<1>4. QED BY <1>1, <1>3, PTL DEF Spec, pages

\* A provider the dashboard shows as not linked is not linked, and after the
\* readings that follow a change it shows the account's own name, avatar and
\* links, unless one of them failed, overtook another or was answered from an
\* older copy (verifySession,
\* updateMicrosoftStatus, handleAvatarUpdated).
THEOREM ProfilesConverge == Spec => []ProfileShown
<1>1. HomeInv => ProfileShown
  BY DEF HomeInv, LinksShrink, Converges, ProfileShown, Home!ProfileShown, Home!Ready
<1>2. QED BY <1>1, HomeInvariance, PTL

(***************************************************************************)
(* PolicyPage: which text goes with an address                             *)
(***************************************************************************)

RouteShape(route) ==
    route = [policy |-> route.policy, version |-> route.version, lang |-> route.lang,
             notice |-> route.notice]

\* A file is of the policy and of the version that a route asks for.
Fits(route, file) ==
    file # NoText =>
        /\ file.policy = route.policy
        /\ route.version # Latest => file.version = route.version

PolicyTypes ==
    /\ startup \in {"versions", "route", "first", "listening"}
    /\ hash = [policy |-> hash.policy, version |-> hash.version] /\ hash.policy \in Policies
    /\ missed \in BOOLEAN
    /\ events \in Nat /\ lines \in Nat /\ asked \in Nat
    /\ content = [visible |-> content.visible, route |-> content.route, file |-> content.file,
                  id |-> content.id, line |-> content.line]
    /\ content.id \in Nat /\ content.visible \in BOOLEAN
    /\ \A r \in renders : r = [id |-> r.id, route |-> r.route, left |-> r.left] /\ r.id \in Nat
    /\ RouteShape(content.route) /\ RouteShape(currentRouteKey)
    /\ \A r \in renders : RouteShape(r.route)

\* What is on display, cached or still tried for a route fits it.
TextsFit ==
    /\ Fits(content.route, content.file)
    /\ \A c \in policyCache : Fits(c.key, c.file)
    /\ \A r \in renders :
          r.left # <<>> /\ \E S : r.left \in Seq(S) /\ \A file \in S : Fits(r.route, file)

\* Renders are numbered, and nothing is on display or under way before the
\* first route is read.
TextsNumbered ==
    /\ content.line = "waiting" => lines > 0
    /\ content.id <= asked /\ \A r \in renders : r.id <= asked
    /\ startup \in {"versions", "route"} =>
          ~content.visible /\ renders = {} /\ asked = 0 /\ ~missed
    /\ startup # "listening" => events = 0

\* The frame of a route around a text.
Around(key, visible) ==
    [nav |-> Policy!Frame(key).nav, banner |-> Policy!Frame(key).banner, behind |-> ~visible,
     switcher |-> Policy!Frame(key).switcher, current |-> Policy!Frame(key).current]

\* From the first route on the frame, and the last text asked for, go with the
\* route read last; that is the address's as long as none is to be read.
Tracks ==
    startup \in {"first", "listening"} =>
        /\ frame = Around(currentRouteKey, content.visible)
        /\ content.id = asked => content.route = currentRouteKey
        /\ \A r \in renders : r.id = asked => r.route = currentRouteKey
        /\ events = 0 /\ ~missed => currentRouteKey = Policy!RouteKey(hash, language)

PolicyInv == PolicyTypes /\ TextsFit /\ TextsNumbered /\ Tracks

\* A finite set of numbers has a greatest one.
LEMMA HasNewest ==
    ASSUME NEW V \in SUBSET Nat, IsFiniteSet(V), V # {}
    PROVE  Policy!Newest(V) \in V /\ \A v \in V : v <= Policy!Newest(V)
<1> DEFINE Greatest(S) == \E v \in S : \A w \in S : w <= v
           Bad == {n \in Nat : \E S \in SUBSET Nat :
                      IsFiniteSet(S) /\ Cardinality(S) = n /\ S # {} /\ ~Greatest(S)}
<1>1. Bad = {}
  <2> SUFFICES ASSUME Bad # {} PROVE FALSE
    OBVIOUS
  <2>1. PICK n \in Bad : \A m \in Bad : ~(<<m, n>> \in OpToRel(<, Nat))
    <3>1. IsWellFoundedOn(OpToRel(<, Nat), Nat) /\ Bad \subseteq Nat
      BY NatLessThanWellFounded
    <3> HIDE DEF Bad
    <3>2. QED BY <3>1, WFMin
  <2>2. n \in Nat /\ \A m \in Bad : n <= m
    <3>1. n \in Nat /\ Bad \subseteq Nat
      OBVIOUS
    <3> HIDE DEF Bad
    <3>2. \A m \in Bad : ~(m < n)
      BY <2>1, <3>1 DEF OpToRel
    <3>3. QED BY <3>1, <3>2
  <2>3. PICK S \in SUBSET Nat : IsFiniteSet(S) /\ Cardinality(S) = n /\ S # {} /\ ~Greatest(S)
    OBVIOUS
  <2>4. PICK x \in S : TRUE
    BY <2>3
  <2> DEFINE R == S \ {x}
  <2>5. IsFiniteSet(R) /\ Cardinality(R) = n - 1 /\ R \in SUBSET Nat
    BY <2>3, <2>4, FS_RemoveElement
  <2>6. n - 1 \in Nat
    BY <2>5, FS_CardinalityType
  <2>7. n - 1 \notin Bad
    BY <2>2, <2>6
  <2>8. R = {} \/ Greatest(R)
    BY <2>5, <2>6, <2>7
  <2>9. CASE R = {}
    <3>1. S = {x}
      BY <2>4, <2>9
    <3>2. QED BY <2>3, <3>1
  <2>10. CASE Greatest(R)
    <3>1. PICK v \in R : \A w \in R : w <= v
      BY <2>10
    <3>2. x \in Nat /\ v \in Nat /\ v \in S /\ x \in S /\ \A w \in S : w = x \/ w \in R
      BY <2>3, <2>4
    <3>3. CASE v <= x
      <4>1. \A w \in S : w \in Nat /\ w <= x
        BY <3>1, <3>2, <3>3
      <4>2. QED BY <2>3, <3>2, <4>1
    <3>4. CASE ~(v <= x)
      <4>1. \A w \in S : w <= v
        BY <3>1, <3>2, <3>4
      <4>2. QED BY <2>3, <3>2, <4>1
    <3>5. QED BY <3>3, <3>4
  <2>11. QED BY <2>8, <2>9, <2>10
<1>2. Cardinality(V) \in Nat
  BY FS_CardinalityType
<1>3. Greatest(V)
  BY <1>1, <1>2
<1>4. QED BY <1>3 DEF Policy!Newest


LEMMA SameCardinality == ASSUME NEW S PROVE Policy!Cardinality(S) = Cardinality(S)
BY DEF Policy!Cardinality, Cardinality

\* The files that the other languages of a version give are numbered from one.
LEMMA WithoutSeq ==
    ASSUME NEW S, NEW seq \in Seq(S), NEW set
    PROVE  \E n \in Nat : DOMAIN Policy!Without(seq, set) = 1 .. n
<1> DEFINE kept == {i \in DOMAIN seq : seq[i] \notin set}
<1>1. DOMAIN seq = 1 .. Len(seq) /\ Len(seq) \in Nat
  OBVIOUS
<1>2. IsFiniteSet(DOMAIN seq)
  BY <1>1, FS_Interval
<1>3. IsFiniteSet(kept)
  BY <1>2, FS_Subset
<1>4. Cardinality(kept) \in Nat
  BY <1>3, FS_CardinalityType
<1>5. DOMAIN Policy!Without(seq, set) = 1 .. Cardinality(kept)
  <2> DEFINE Nth(n) == CHOOSE i \in kept : Policy!Cardinality({j \in kept : j < i}) = n - 1
  <2>1. Policy!Without(seq, set) = [n \in 1 .. Policy!Cardinality(kept) |-> seq[Nth(n)]]
    BY DEF Policy!Without
  <2> HIDE DEF kept, Nth
  <2>2. QED BY <2>1, SameCardinality
<1>6. QED BY <1>4, <1>5

LEMMA FileFields ==
    ASSUME NEW p, NEW lang, NEW v
    PROVE  /\ Policy!File(p, lang, v).policy = p
           /\ Policy!File(p, lang, v).version = v
BY SMTT(30) DEF Policy!File

LEMMA AttemptsFit ==
    ASSUME NEW route, route.policy \in Policies
    PROVE  \E S : /\ Policy!Attempts(route) \in Seq(S)
                  /\ \A file \in S : Fits(route, file)
<1> DEFINE p      == route.policy
           first  == IF route.version = Latest THEN Policy!getLatestVersion(p) ELSE route.version
           langs  == IF first \in Policy!VersionsOf(p) THEN Policy!LanguagesOf(p, first) ELSE <<>>
           own    == IF route.lang \in Policy!ToSet(langs)
                     THEN <<Policy!File(p, route.lang, first)>> ELSE <<>>
           zh     == IF route.version # Latest
                     THEN (IF DefaultLang \in Policy!ToSet(langs) THEN first ELSE NoText)
                     ELSE Policy!getLatestEntryForLang(p, DefaultLang)
           zhs    == IF zh = NoText THEN <<>> ELSE <<Policy!File(p, DefaultLang, zh)>>
           others == Policy!Without(langs, {route.lang, DefaultLang})
           rest   == [i \in DOMAIN others |-> Policy!File(p, others[i], first)]
           S      == {Policy!File(p, route.lang, first)}
                        \cup (IF zh = NoText THEN {} ELSE {Policy!File(p, DefaultLang, zh)})
                        \cup {Policy!File(p, others[i], first) : i \in DOMAIN others}
<1>1. Policy!Attempts(route) = own \o zhs \o rest
  BY DEF Policy!Attempts
<1>2. langs \in Seq(STRING)
  <2>1. first \in Policy!VersionsOf(p) => Policy!LanguagesOf(p, first) \in Seq(STRING)
    <3> HIDE DEF first
    <3>1. QED BY ManifestAssumption DEF Policy!VersionsOf, Policy!LanguagesOf
  <2>2. <<>> \in Seq(STRING)
    OBVIOUS
  <2> HIDE DEF first, p
  <2>3. QED BY <2>1, <2>2
<1>3. own \in Seq(S) /\ zhs \in Seq(S)
  <2>1. /\ Policy!File(p, route.lang, first) \in S
        /\ zh # NoText => Policy!File(p, DefaultLang, zh) \in S
    OBVIOUS
  <2> HIDE DEF S, langs, first, zh, p
  <2>2. QED BY <2>1
<1>4. PICK n \in Nat : DOMAIN others = 1 .. n
  <2> HIDE DEF langs
  <2>1. QED BY <1>2, WithoutSeq
<1>5. rest \in Seq(S)
  <2>1. rest \in [1 .. n -> S]
    BY <1>4
  <2> HIDE DEF rest, S
  <2>2. QED BY <2>1
<1>6. own \o zhs \o rest \in Seq(S)
  <2> HIDE DEF own, zhs, rest, S
  <2>1. QED BY <1>3, <1>5
<1>7. route.version # Latest => first = route.version /\ zh \in {first, NoText}
  OBVIOUS
<1>8. \A file \in S : /\ file.policy = p
                      /\ file.version = first \/ (file.version = zh /\ zh # NoText)
  <2> HIDE DEF others, first, zh, p
  <2>1. QED BY FileFields
<1>9. \A file \in S : Fits(route, file)
  <2>1. p = route.policy
    OBVIOUS
  <2> HIDE DEF S, first, zh, p
  <2>2. QED BY <1>7, <1>8, <2>1 DEF Fits
<1>10. QED BY <1>1, <1>6, <1>9

\* The version of a public notice is neither the latest nor the word for it.
LEMMA NoticeIsNotLatest ==
    ASSUME NEW p \in Policies, Policy!getPublicNoticeVersion(p) # NoText
    PROVE  /\ Policy!getPublicNoticeVersion(p) # Latest
           /\ Policy!getPublicNoticeVersion(p) # Policy!getLatestVersion(p)
<1> DEFINE noticed == Policy!HasStatus(p, "public_notice")
           all     == Policy!HasStatus(p, "effective")
           n       == Policy!getPublicNoticeVersion(p)
           latest  == Policy!getLatestVersion(p)
<1>1. n \in noticed
  BY DEF Policy!getPublicNoticeVersion
<1>2. /\ noticed \subseteq DOMAIN Manifest[p]
      /\ \A v \in noticed : Manifest[p][v].status = "public_notice"
      /\ all \subseteq DOMAIN Manifest[p] /\ \A v \in all : Manifest[p][v].status = "effective"
  BY DEF Policy!HasStatus, Policy!VersionsOf
<1>3. all \in SUBSET Nat /\ IsFiniteSet(all)
  <2>1. IsFiniteSet(DOMAIN Manifest[p]) /\ DOMAIN Manifest[p] \subseteq Nat
    BY ManifestAssumption
  <2> HIDE DEF all
  <2>2. QED BY <1>2, <2>1, FS_Subset
<1>4. latest = NoText \/ latest \in all
  <2>1. CASE all = {}
    BY <2>1 DEF Policy!getLatestVersion, Policy!getAllVersions
  <2>2. CASE all # {}
    <3>1. Policy!Newest(all) \in all
      BY <1>3, <2>2, HasNewest
    <3>2. QED BY <2>2, <3>1 DEF Policy!getLatestVersion, Policy!getAllVersions
  <2>3. QED BY <2>1, <2>2
<1>5. n # Latest
  BY <1>1, <1>2, ManifestAssumption
<1>6. n # latest
  <2> HIDE DEF n, latest, noticed, all
  <2>1. n # NoText
    BY DEF n
  <2>2. QED BY <1>1, <1>2, <1>4, <2>1
<1>7. QED BY <1>5, <1>6

LEMMA KeyFields ==
    ASSUME NEW h, NEW lang
    PROVE  /\ RouteShape(Policy!RouteKey(h, lang))
           /\ Policy!RouteKey(h, lang).policy = h.policy
           /\ Policy!RouteKey(h, lang).version = Policy!Version(h)
           /\ Policy!RouteKey(h, lang).lang = lang
           /\ Policy!RouteKey(h, lang).notice = Policy!Announced(h)
           /\ [Policy!RouteKey(h, lang) EXCEPT !.lang = lang] = Policy!RouteKey(h, lang)
BY DEF Policy!RouteKey, RouteShape

\* Tidying the address up does not change the route it stands for.
LEMMA TidiedKey ==
    ASSUME NEW h, h = [policy |-> h.policy, version |-> h.version], h.policy \in Policies, NEW lang
    PROVE  /\ Policy!RouteKey(Policy!Tidied(h), lang) = Policy!RouteKey(h, lang)
           /\ \E v : Policy!Tidied(h) = [policy |-> h.policy, version |-> v]
<1> DEFINE t == [policy |-> h.policy, version |-> Latest]
<1>1. CASE Policy!Tidied(h) = h
  BY <1>1
<1>2. CASE Policy!Tidied(h) # h
  <2>1. Policy!Version(h) = Latest /\ Policy!Tidied(h) = t
    BY <1>2 DEF Policy!Tidied
  <2>2. t.policy = h.policy /\ t.version = Latest /\ Latest # Notice
    BY ManifestAssumption
  <2>3. Policy!Version(t) = Latest
    <3> HIDE DEF t
    <3>1. QED BY <2>2 DEF Policy!Version
  <2>4. ~Policy!Announced(t)
    <3> HIDE DEF t
    <3>1. QED BY <2>2 DEF Policy!Announced
  <2>5. ~Policy!Announced(h)
    <3>1. SUFFICES ASSUME h.version = Notice, Policy!getPublicNoticeVersion(h.policy) # NoText
                   PROVE  FALSE
      BY DEF Policy!Announced
    <3>2. Policy!Version(h) = Policy!getPublicNoticeVersion(h.policy)
      BY <3>1, NoticeIsNotLatest DEF Policy!Version
    <3>3. QED BY <2>1, <3>1, <3>2, NoticeIsNotLatest
  <2>6. Policy!RouteKey(t, lang) = Policy!RouteKey(h, lang)
    <3>1. Policy!Announced(t) = FALSE /\ Policy!Announced(h) = FALSE
      BY <2>4, <2>5 DEF Policy!Announced
    <3> HIDE DEF t
    <3>2. QED BY <2>1, <2>2, <2>3, <3>1 DEF Policy!RouteKey
  <2>7. QED BY <2>1, <2>6
<1>3. QED BY <1>1, <1>2

LEMMA Behind ==
    ASSUME NEW n, NEW b, NEW s, NEW c, NEW x, NEW y
    PROVE  [[nav |-> n, banner |-> b, behind |-> x, switcher |-> s, current |-> c] EXCEPT !.behind = y]
               = [nav |-> n, banner |-> b, behind |-> y, switcher |-> s, current |-> c]
OBVIOUS

LEMMA FrameShape ==
    ASSUME NEW key, NEW visible \in BOOLEAN
    PROVE  /\ visible => Policy!Frame(key) = Around(key, visible)
           /\ [Policy!Frame(key) EXCEPT !.behind = ~visible] = Around(key, visible)
           /\ \A b : [Around(key, b) EXCEPT !.behind = ~visible] = Around(key, visible)
<1> DEFINE n == Policy!Frame(key).nav
           b == Policy!Frame(key).banner
           s == Policy!Frame(key).switcher
           c == Policy!Frame(key).current
<1>1. Policy!Frame(key) = [nav |-> n, banner |-> b, behind |-> FALSE, switcher |-> s, current |-> c]
  <2>1. ASSUME NEW n1, NEW b1, NEW s1, NEW c1, NEW f,
               f = [nav |-> n1, banner |-> b1, behind |-> FALSE, switcher |-> s1, current |-> c1]
        PROVE  f = [nav |-> f.nav, banner |-> f.banner, behind |-> FALSE, switcher |-> f.switcher,
                    current |-> f.current]
    BY <2>1
  <2>2. \E n1, b1, s1, c1 : Policy!Frame(key) =
           [nav |-> n1, banner |-> b1, behind |-> FALSE, switcher |-> s1, current |-> c1]
    BY Zenon DEF Policy!Frame
  <2>3. QED BY <2>1, <2>2
<1>2. \A v : Around(key, v) = [nav |-> n, banner |-> b, behind |-> ~v, switcher |-> s, current |-> c]
  BY DEF Around
<1> HIDE DEF n, b, s, c
<1>3. [Policy!Frame(key) EXCEPT !.behind = ~visible] = Around(key, visible)
  BY <1>1, <1>2, Behind
<1>4. \A v : [Around(key, v) EXCEPT !.behind = ~visible] = Around(key, visible)
  BY <1>2, Behind
<1>5. visible => (~visible <=> FALSE)
  OBVIOUS
<1>6. visible => Policy!Frame(key) = Around(key, visible)
  <2>1. SUFFICES ASSUME visible PROVE Policy!Frame(key) = Around(key, visible)
    OBVIOUS
  <2>2. (~visible) = FALSE
    BY <2>1
  <2>3. QED BY <1>1, <1>2, <2>2
<1>7. QED BY <1>3, <1>4, <1>6

(***************************************************************************)
(* The steps of the policy page                                            *)
(***************************************************************************)

\* The end of a render: its text is on display, and waits at most for a version
\* that has been asked for.
LEMMA ShowsText ==
    ASSUME PolicyTypes, NEW route, NEW file, NEW n, Policy!Show(route, file, n)
    PROVE  \E l : /\ content' = [visible |-> TRUE, route |-> route, file |-> file, id |-> n, line |-> l]
                  /\ lines' \in Nat /\ (l = "waiting" => lines' > 0)
                  /\ lines' >= lines
<1> DEFINE waits == Policy!EndsWithVersion(route, file) /\ ~versionInfo
           l == IF waits THEN "waiting"
                ELSE IF Policy!EndsWithVersion(route, file) THEN "known" ELSE "none"
<1>1. content' = [visible |-> TRUE, route |-> route, file |-> file, id |-> n, line |-> l]
  BY DEF Policy!Show
<1>2. lines' = IF waits THEN lines + 1 ELSE lines
  BY DEF Policy!Show
<1>3. l = "waiting" => waits
  OBVIOUS
<1> HIDE DEF waits, l
<1>4. lines \in Nat
  BY DEF PolicyTypes
<1>5. lines' \in Nat /\ (l = "waiting" => lines' > 0) /\ lines' >= lines
  BY <1>2, <1>3, <1>4
<1>6. QED BY <1>1, <1>5

\* What handling a route does: nothing, a text at once, or a request for one.
LEMMA Handled ==
    ASSUME PolicyTypes, TextsFit, NEW lang, Policy!HandleRouteChange(hash, lang)
    PROVE  LET key == Policy!RouteKey(hash, lang) IN
           /\ hash' = Policy!Tidied(hash) /\ currentRouteKey' = key
           /\ \/ /\ key = currentRouteKey /\ content.visible
                 /\ UNCHANGED <<content, frame, lines, renders, asked>>
              \/ /\ asked' = asked + 1 /\ UNCHANGED renders /\ frame' = Policy!Frame(key)
                 /\ \E file : Policy!Show(key, file, asked') /\ Fits(key, file)
              \/ /\ asked' = asked + 1 /\ UNCHANGED lines
                 /\ content' = [content EXCEPT !.visible = FALSE]
                 /\ frame' = [Policy!Frame(key) EXCEPT !.behind = TRUE]
                 /\ Policy!Attempts(key) # <<>>
                 /\ renders' = renders \cup
                       {[id |-> asked', route |-> key, left |-> Policy!Attempts(key)]}
<1> DEFINE key == Policy!RouteKey(hash, lang)
<1>1. [key EXCEPT !.lang = lang] = key
  BY KeyFields
<1>2. /\ hash' = Policy!Tidied(hash) /\ currentRouteKey' = key
      /\ IF key = currentRouteKey /\ content.visible
         THEN UNCHANGED <<Policy!shown, renders, asked>>
         ELSE /\ asked' = asked + 1
              /\ IF Policy!Cached(key) # {}
                 THEN /\ Policy!Show(key, (CHOOSE c \in Policy!Cached(key) : TRUE).file, asked')
                      /\ frame' = Policy!Frame(key)
                      /\ UNCHANGED renders
                 ELSE IF Policy!Attempts(key) = <<>>
                 THEN /\ Policy!Show(key, NoText, asked') /\ frame' = Policy!Frame(key)
                      /\ UNCHANGED renders
                 ELSE /\ content' = [content EXCEPT !.visible = FALSE]
                      /\ frame' = Policy!hideNoticeBanner(Policy!Frame(key))
                      /\ UNCHANGED <<versionInfo, lines>>
                      /\ renders' = renders \cup
                            {[id |-> asked', route |-> key, left |-> Policy!Attempts(key)]}
  BY <1>1 DEF Policy!HandleRouteChange
<1>3. ASSUME Policy!Cached(key) # {}
      PROVE  Fits(key, (CHOOSE c \in Policy!Cached(key) : TRUE).file)
  <2>1. PICK c \in Policy!Cached(key) : c = CHOOSE x \in Policy!Cached(key) : TRUE
    BY <1>3
  <2>2. c \in policyCache /\ c.key = [key EXCEPT !.notice = FALSE]
    BY <2>1 DEF Policy!Cached, Policy!CacheKey
  <2>3. RouteShape(key)
    BY KeyFields
  <2> HIDE DEF key
  <2>4. c.key.policy = key.policy /\ c.key.version = key.version
    BY <2>2, <2>3 DEF RouteShape
  <2>5. Fits(c.key, c.file)
    BY <2>2 DEF TextsFit
  <2>6. QED BY <2>1, <2>4, <2>5 DEF Fits
<1>4. Fits(key, NoText)
  BY DEF Fits
<1> HIDE DEF key
<1>5. CASE key = currentRouteKey /\ content.visible
  <2>1. UNCHANGED <<content, frame, lines, renders, asked>>
    BY <1>2, <1>5 DEF Policy!shown
  <2>2. QED BY <1>2, <1>5, <2>1 DEF key
<1>6. CASE ~(key = currentRouteKey /\ content.visible) /\ Policy!Cached(key) # {}
  <2>1. /\ asked' = asked + 1 /\ UNCHANGED renders /\ frame' = Policy!Frame(key)
        /\ \E file : Policy!Show(key, file, asked') /\ Fits(key, file)
    BY <1>2, <1>3, <1>6
  <2>2. QED BY <1>2, <2>1 DEF key
<1>7. CASE /\ ~(key = currentRouteKey /\ content.visible) /\ Policy!Cached(key) = {}
           /\ Policy!Attempts(key) = <<>>
  <2>1. /\ asked' = asked + 1 /\ UNCHANGED renders /\ frame' = Policy!Frame(key)
        /\ \E file : Policy!Show(key, file, asked') /\ Fits(key, file)
    BY <1>2, <1>4, <1>7
  <2>2. QED BY <1>2, <2>1 DEF key
<1>8. CASE /\ ~(key = currentRouteKey /\ content.visible) /\ Policy!Cached(key) = {}
           /\ Policy!Attempts(key) # <<>>
  <2>1. /\ asked' = asked + 1 /\ UNCHANGED lines
        /\ content' = [content EXCEPT !.visible = FALSE]
        /\ frame' = Policy!hideNoticeBanner(Policy!Frame(key))
        /\ renders' = renders \cup
              {[id |-> asked', route |-> key, left |-> Policy!Attempts(key)]}
    BY <1>2, <1>8
  <2>2. frame' = [Policy!Frame(key) EXCEPT !.behind = TRUE]
    BY <2>1 DEF Policy!hideNoticeBanner
  <2>3. QED BY <1>2, <1>8, <2>1, <2>2 DEF key
<1>9. QED BY <1>5, <1>6, <1>7, <1>8

\* With the same manifest an address stands for the same route.
LEMMA KeyKept ==
    ASSUME known' = known, NEW h, NEW lang
    PROVE  Policy!RouteKey(h, lang)' = Policy!RouteKey(h, lang)
<1>1. \A p, s : Policy!HasStatus(p, s)' = Policy!HasStatus(p, s)
  BY DEF Policy!HasStatus, Policy!VersionsOf
<1>2. ASSUME NEW p PROVE Policy!getLatestVersion(p)' = Policy!getLatestVersion(p)
  <2>1. Policy!getAllVersions(p)' = Policy!getAllVersions(p)
    BY <1>1 DEF Policy!getAllVersions
  <2>2. QED BY <2>1 DEF Policy!getLatestVersion, Policy!Newest
<1>3. ASSUME NEW p PROVE Policy!getPublicNoticeVersion(p)' = Policy!getPublicNoticeVersion(p)
  <2> DEFINE Noticed(vs) == IF vs = {} THEN NoText ELSE CHOOSE v \in vs : TRUE
  <2>1. /\ Policy!getPublicNoticeVersion(p)' = Noticed(Policy!HasStatus(p, "public_notice")')
        /\ Policy!getPublicNoticeVersion(p) = Noticed(Policy!HasStatus(p, "public_notice"))
    BY DEF Policy!getPublicNoticeVersion
  <2>2. Policy!HasStatus(p, "public_notice")' = Policy!HasStatus(p, "public_notice")
    BY <1>1
  <2> HIDE DEF Noticed
  <2>3. QED BY <2>1, <2>2
<1>4. QED BY <1>2, <1>3 DEF Policy!RouteKey, Policy!Version, Policy!Announced

LEMMA RouteStep ==
    ASSUME PolicyInv, NEW lang, Policy!HandleRouteChange(hash, lang), language' = lang,
           UNCHANGED <<known, policyCache, missed>>,
           startup' \in {"first", "listening"}, content.visible => startup = startup',
           events' \in Nat, startup' # "listening" => events' = 0
    PROVE  PolicyInv'
<1> DEFINE key == Policy!RouteKey(hash, lang)
<1> USE DEF PolicyInv
<1>1. /\ hash' = Policy!Tidied(hash) /\ currentRouteKey' = key
      /\ \/ /\ key = currentRouteKey /\ content.visible
            /\ UNCHANGED <<content, frame, lines, renders, asked>>
         \/ /\ asked' = asked + 1 /\ UNCHANGED renders /\ frame' = Policy!Frame(key)
            /\ \E file : Policy!Show(key, file, asked') /\ Fits(key, file)
         \/ /\ asked' = asked + 1 /\ UNCHANGED lines
            /\ content' = [content EXCEPT !.visible = FALSE]
            /\ frame' = [Policy!Frame(key) EXCEPT !.behind = TRUE]
            /\ Policy!Attempts(key) # <<>>
            /\ renders' = renders \cup
                  {[id |-> asked', route |-> key, left |-> Policy!Attempts(key)]}
  BY Handled
<1>2. /\ RouteShape(key) /\ key.policy = hash.policy /\ hash.policy \in Policies
      /\ hash = [policy |-> hash.policy, version |-> hash.version]
  BY KeyFields DEF PolicyTypes
<1>3. PICK v : hash' = [policy |-> hash.policy, version |-> v]
  BY <1>1, <1>2, TidiedKey
<1>4. hash' = [policy |-> hash'.policy, version |-> hash'.version] /\ hash'.policy \in Policies
  BY <1>2, <1>3
<1>5. Policy!RouteKey(hash', lang) = key
  BY <1>1, <1>2, TidiedKey
<1>6. (Policy!RouteKey(hash, language))' = key
  <2>1. \A h, l : Policy!RouteKey(h, l)' = Policy!RouteKey(h, l)
    BY KeyKept
  <2> HIDE DEF key
  <2>2. QED BY <1>5, <2>1
<1>7. \A k, b : Around(k, b)' = Around(k, b)
  BY DEF Around, Policy!Frame, Policy!updateNoticeBanner, Policy!getPublicNoticeVersion,
         Policy!getLatestVersion, Policy!getAllVersions, Policy!HasStatus, Policy!VersionsOf
<1> HIDE DEF key
<1>8. Tracks' <=> /\ frame' = Around(key, content'.visible)
                  /\ content'.id = asked' => content'.route = key
                  /\ \A r \in renders' : r.id = asked' => r.route = key
  BY <1>1, <1>6, <1>7 DEF Tracks
<1>9. asked \in Nat /\ asked' \in Nat /\ lines \in Nat /\ content.id \in Nat /\ content.id <= asked
  BY <1>1 DEF PolicyTypes, TextsNumbered
<1>10. CASE /\ key = currentRouteKey /\ content.visible
            /\ UNCHANGED <<content, frame, lines, renders, asked>>
  <2>1. PolicyTypes' /\ TextsFit'
    BY <1>1, <1>2, <1>4, <1>10 DEF PolicyTypes, TextsFit
  <2>2. TextsNumbered'
    BY <1>10 DEF TextsNumbered
  <2>3. startup \in {"first", "listening"}
    BY <1>10
  <2>4. frame = Around(key, content.visible)
    BY <1>10, <2>3 DEF Tracks
  <2>5. /\ content.id = asked => content.route = key
        /\ \A r \in renders : r.id = asked => r.route = key
    BY <1>10, <2>3 DEF Tracks
  <2>6. Tracks'
    BY <1>8, <1>10, <2>4, <2>5
  <2>7. QED BY <2>1, <2>2, <2>6
<1>11. CASE /\ asked' = asked + 1 /\ UNCHANGED renders /\ frame' = Policy!Frame(key)
            /\ \E file : Policy!Show(key, file, asked') /\ Fits(key, file)
  <2>1. PICK file : Policy!Show(key, file, asked') /\ Fits(key, file)
    BY <1>11
  <2>2. PICK l : /\ content' = [visible |-> TRUE, route |-> key, file |-> file, id |-> asked', line |-> l]
                 /\ lines' \in Nat /\ (l = "waiting" => lines' > 0)
                 /\ lines' >= lines
    BY <2>1, ShowsText
  <2>3. /\ content'.route = key /\ content'.file = file /\ content'.id = asked' /\ content'.line = l
        /\ content'.visible = TRUE
        /\ content' = [visible |-> content'.visible, route |-> content'.route, file |-> content'.file,
                       id |-> content'.id, line |-> content'.line]
    BY <2>2
  <2>4. content'.visible \in BOOLEAN
    BY <2>3
  <2>5. PolicyTypes'
    BY <1>1, <1>2, <1>4, <1>9, <1>11, <2>2, <2>3, <2>4 DEF PolicyTypes
  <2>6. TextsFit'
    BY <1>11, <2>1, <2>3 DEF TextsFit
  <2>7. TextsNumbered'
    BY <1>9, <1>11, <2>2, <2>3 DEF TextsNumbered, PolicyTypes
  <2>8. frame' = Around(key, content'.visible)
    BY <1>11, <2>3, FrameShape
  <2>9. \A r \in renders' : r.id # asked'
    BY <1>9, <1>11 DEF TextsNumbered, PolicyTypes
  <2>10. Tracks'
    BY <1>8, <2>3, <2>8, <2>9
  <2>11. QED BY <2>5, <2>6, <2>7, <2>10
<1>12. CASE /\ asked' = asked + 1 /\ UNCHANGED lines
            /\ content' = [content EXCEPT !.visible = FALSE]
            /\ frame' = [Policy!Frame(key) EXCEPT !.behind = TRUE]
            /\ Policy!Attempts(key) # <<>>
            /\ renders' = renders \cup
                  {[id |-> asked', route |-> key, left |-> Policy!Attempts(key)]}
  <2> DEFINE new == [id |-> asked', route |-> key, left |-> Policy!Attempts(key)]
  <2>1. /\ new.id = asked' /\ new.route = key /\ new.left = Policy!Attempts(key)
        /\ new = [id |-> new.id, route |-> new.route, left |-> new.left]
    OBVIOUS
  <2>2. renders' = renders \cup {new}
    BY <1>12
  <2> HIDE DEF new
  <2>3. /\ content'.route = content.route /\ content'.file = content.file /\ content'.id = content.id
        /\ content'.line = content.line /\ content'.visible = FALSE
        /\ content' = [visible |-> content'.visible, route |-> content'.route, file |-> content'.file,
                       id |-> content'.id, line |-> content'.line]
    BY <1>12 DEF PolicyTypes
  <2>4. content'.visible \in BOOLEAN
    BY <2>3
  <2>5. PolicyTypes'
    BY <1>1, <1>2, <1>4, <1>9, <1>12, <2>1, <2>2, <2>3, <2>4 DEF PolicyTypes
  <2>6. \E S : Policy!Attempts(key) \in Seq(S) /\ \A file \in S : Fits(key, file)
    BY <1>2, AttemptsFit
  <2>7. TextsFit'
    <3>1. Fits(content'.route, content'.file) /\ \A c \in policyCache' : Fits(c.key, c.file)
      BY <2>3 DEF TextsFit
    <3>2. new.left # <<>> /\ \E S : new.left \in Seq(S) /\ \A file \in S : Fits(new.route, file)
      BY <1>12, <2>1, <2>6
    <3>3. ASSUME NEW r \in renders'
          PROVE  r.left # <<>> /\ \E S : r.left \in Seq(S) /\ \A file \in S : Fits(r.route, file)
      BY <2>2, <3>2, <3>3 DEF TextsFit
    <3>4. QED BY <3>1, <3>3 DEF TextsFit
  <2>8. TextsNumbered'
    BY <1>9, <1>12, <2>1, <2>2, <2>3 DEF TextsNumbered, PolicyTypes
  <2>9. frame' = Around(key, content'.visible)
    <3>1. (~FALSE) = TRUE
      OBVIOUS
    <3>2. QED BY <1>12, <2>3, <3>1, FrameShape
  <2>10. content'.id # asked' /\ \A r \in renders' : r.id = asked' => r.route = key
    BY <1>9, <1>12, <2>1, <2>2, <2>3 DEF TextsNumbered, PolicyTypes
  <2>11. Tracks'
    BY <1>8, <2>9, <2>10
  <2>12. QED BY <2>5, <2>7, <2>8, <2>11
<1>13. QED BY <1>1, <1>10, <1>11, <1>12

\* A late text takes the place of whatever is on display, and the banner comes
\* back with it.
LEMMA RenderedStep ==
    ASSUME PolicyInv, NEW r \in renders, NEW file, Fits(r.route, file), Policy!Rendered(r, file),
           \A c \in policyCache' : Fits(c.key, c.file)
    PROVE  PolicyInv'
<1> USE DEF PolicyInv
<1>1. /\ renders' = renders \ {r} /\ frame' = [frame EXCEPT !.behind = FALSE]
      /\ UNCHANGED <<startup, known, language, hash, events, currentRouteKey, asked, missed>>
      /\ Policy!Show(r.route, file, r.id)
  BY DEF Policy!Rendered, Policy!showNoticeBanner
<1>2. PICK l : /\ content' = [visible |-> TRUE, route |-> r.route, file |-> file, id |-> r.id, line |-> l]
               /\ lines' \in Nat /\ (l = "waiting" => lines' > 0)
               /\ lines' >= lines
  BY <1>1, ShowsText
<1>3. /\ content'.route = r.route /\ content'.file = file /\ content'.id = r.id /\ content'.line = l
      /\ content'.visible = TRUE
      /\ content' = [visible |-> content'.visible, route |-> content'.route, file |-> content'.file,
                     id |-> content'.id, line |-> content'.line]
  BY <1>2
<1>4. content'.visible \in BOOLEAN
  BY <1>3
<1>5. r.id \in Nat /\ r.id <= asked /\ RouteShape(r.route)
  BY DEF PolicyTypes, TextsNumbered
<1>6. PolicyTypes'
  BY <1>1, <1>2, <1>3, <1>4, <1>5 DEF PolicyTypes
<1>7. TextsFit'
  BY <1>1, <1>3 DEF TextsFit
<1>8. startup \in {"first", "listening"}
  BY DEF PolicyTypes, TextsNumbered
<1>9. TextsNumbered'
  BY <1>1, <1>2, <1>3, <1>5, <1>8 DEF TextsNumbered
<1>10. \A k, b : Around(k, b)' = Around(k, b)
  BY <1>1 DEF Around, Policy!Frame, Policy!updateNoticeBanner, Policy!getPublicNoticeVersion,
         Policy!getLatestVersion, Policy!getAllVersions, Policy!HasStatus, Policy!VersionsOf
<1>11. \A h, k : Policy!RouteKey(h, k)' = Policy!RouteKey(h, k)
  BY <1>1, KeyKept
<1>12. frame' = Around(currentRouteKey, TRUE)
  <2>1. frame = Around(currentRouteKey, content.visible)
    BY <1>8 DEF Tracks
  <2>2. (~TRUE) = FALSE
    OBVIOUS
  <2>3. QED BY <1>1, <2>1, <2>2, FrameShape
<1>13. Tracks'
  <2>1. frame' = Around(currentRouteKey, content.visible)'
    BY <1>1, <1>3, <1>10, <1>12
  <2>2. content'.id = asked' => content'.route = currentRouteKey'
    BY <1>1, <1>3, <1>8 DEF Tracks
  <2>3. \A q \in renders' : q.id = asked' => q.route = currentRouteKey'
    BY <1>1, <1>8 DEF Tracks
  <2>4. events' = 0 /\ ~missed' => currentRouteKey' = Policy!RouteKey(hash, language)'
    BY <1>1, <1>8, <1>11 DEF Tracks
  <2>5. QED BY <2>1, <2>2, <2>3, <2>4 DEF Tracks
<1>14. QED BY <1>6, <1>7, <1>9, <1>13

LEMMA TextStep ==
    ASSUME PolicyInv, NEW r \in renders, Policy!TextArrives(r) \/ Policy!TextFails(r)
    PROVE  PolicyInv'
<1> USE DEF PolicyInv
<1>1. PICK S : /\ r.left # <<>> /\ r.left \in Seq(S)
               /\ \A file \in S : Fits(r.route, file)
  BY DEF TextsFit
<1>2. Head(r.left) \in S /\ Tail(r.left) \in Seq(S)
  BY <1>1
<1>3. CASE Policy!TextArrives(r)
  <2>1. /\ policyCache' = {c \in policyCache : c.key # Policy!CacheKey(r.route)}
                              \cup {[key |-> Policy!CacheKey(r.route), file |-> Head(r.left)]}
        /\ Policy!Rendered(r, Head(r.left))
    BY <1>3 DEF Policy!TextArrives
  <2>2. Fits(r.route, Head(r.left))
    BY <1>1, <1>2
  <2>3. /\ Policy!CacheKey(r.route).policy = r.route.policy
        /\ Policy!CacheKey(r.route).version = r.route.version
    BY DEF PolicyTypes, RouteShape, Policy!CacheKey
  <2>4. Fits(Policy!CacheKey(r.route), Head(r.left))
    BY <2>2, <2>3 DEF Fits
  <2>5. \A c \in policyCache' : Fits(c.key, c.file)
    BY <2>1, <2>4 DEF TextsFit
  <2>6. QED BY <2>1, <2>2, <2>5, RenderedStep
<1>4. CASE Policy!TextFails(r) /\ Tail(r.left) = <<>>
  <2>1. Policy!Rendered(r, NoText) /\ UNCHANGED policyCache
    BY <1>4 DEF Policy!TextFails
  <2>2. Fits(r.route, NoText)
    BY DEF Fits
  <2>3. QED BY <2>1, <2>2, RenderedStep DEF TextsFit
<1>5. CASE Policy!TextFails(r) /\ Tail(r.left) # <<>>
  <2> DEFINE q == [r EXCEPT !.left = Tail(r.left)]
  <2>1. /\ renders' = (renders \ {r}) \cup {q}
        /\ UNCHANGED <<startup, known, language, hash, events, policyCache, currentRouteKey,
                       Policy!shown, asked, moves, missed>>
    BY <1>5 DEF Policy!TextFails
  <2>2. /\ q.id = r.id /\ q.route = r.route /\ q.left = Tail(r.left)
        /\ q = [id |-> q.id, route |-> q.route, left |-> q.left]
    <3>1. r = [id |-> r.id, route |-> r.route, left |-> r.left]
      BY DEF PolicyTypes
    <3>2. ASSUME NEW x, NEW a, NEW b, NEW c, NEW d, x = [id |-> a, route |-> b, left |-> c]
          PROVE  [x EXCEPT !.left = d] = [id |-> a, route |-> b, left |-> d]
      BY <3>2
    <3>3. q = [id |-> r.id, route |-> r.route, left |-> Tail(r.left)]
      BY <3>1, <3>2, ZenonT(40)
    <3> HIDE DEF q
    <3>4. QED BY <3>3
  <2> HIDE DEF q
  <2>3. q.left # <<>> /\ q.left \in Seq(S) /\ \A file \in S : Fits(q.route, file)
    BY <1>1, <1>2, <1>5, <2>2
  <2>4. UNCHANGED <<content, frame, versionInfo, lines>>
    BY <2>1 DEF Policy!shown
  <2>5. PolicyTypes'
    BY <2>1, <2>2, <2>4 DEF PolicyTypes
  <2>6. TextsFit'
    <3>1. ASSUME NEW p \in renders'
          PROVE  p.left # <<>> /\ \E T : p.left \in Seq(T) /\ \A file \in T : Fits(p.route, file)
      BY <2>1, <2>3, <3>1 DEF TextsFit
    <3>2. QED BY <2>1, <2>4, <3>1 DEF TextsFit
  <2>7. TextsNumbered'
    BY <2>1, <2>2, <2>4 DEF TextsNumbered
  <2>8. \A k, b : Around(k, b)' = Around(k, b)
    BY <2>1 DEF Around, Policy!Frame, Policy!updateNoticeBanner, Policy!getPublicNoticeVersion,
           Policy!getLatestVersion, Policy!getAllVersions, Policy!HasStatus, Policy!VersionsOf
  <2>9. \A h, k : Policy!RouteKey(h, k)' = Policy!RouteKey(h, k)
    BY <2>1, KeyKept
  <2>10. Tracks'
    BY <2>1, <2>2, <2>4, <2>8, <2>9 DEF Tracks
  <2>11. QED BY <2>5, <2>6, <2>7, <2>10
<1>6. QED BY <1>3, <1>4, <1>5

\* Steps that read no route leave the frame and the texts alone.
LEMMA QuietStep ==
    ASSUME PolicyInv,
           UNCHANGED <<known, policyCache, currentRouteKey, content, frame, lines, renders, asked>>,
           startup' \in {"first", "listening"} => startup = startup' \/ startup = "first",
           startup' \in {"versions", "route", "first", "listening"},
           startup' \in {"versions", "route"} => startup \in {"versions", "route"} /\ missed' = missed,
           hash' = [policy |-> hash'.policy, version |-> hash'.version], hash'.policy \in Policies,
           events' \in Nat, startup' # "listening" => events' = 0,
           startup' \in {"first", "listening"} =>
               (events' = 0 /\ ~missed' =>
                   events = 0 /\ ~missed /\ hash' = hash /\ language' = language),
           missed' \in BOOLEAN
    PROVE  PolicyInv'
<1> USE DEF PolicyInv
<1>1. PolicyTypes' /\ TextsFit'
  BY DEF PolicyTypes, TextsFit
<1>2. TextsNumbered'
  BY DEF TextsNumbered
<1>3. \A k, b : Around(k, b)' = Around(k, b)
  BY DEF Around, Policy!Frame, Policy!updateNoticeBanner, Policy!getPublicNoticeVersion,
         Policy!getLatestVersion, Policy!getAllVersions, Policy!HasStatus, Policy!VersionsOf
<1>4. \A h, k : Policy!RouteKey(h, k)' = Policy!RouteKey(h, k)
  BY KeyKept
<1>5. Tracks'
  BY <1>3, <1>4 DEF Tracks
<1>6. QED BY <1>1, <1>2, <1>5

LEMMA PolicySteps == ASSUME PolicyInv, Policy!Next PROVE PolicyInv'
<1> USE DEF PolicyInv
<1>1. /\ startup \in {"versions", "route", "first", "listening"} /\ events \in Nat
      /\ hash = [policy |-> hash.policy, version |-> hash.version] /\ hash.policy \in Policies
      /\ startup # "listening" => events = 0
      /\ missed \in BOOLEAN
  BY DEF PolicyTypes, TextsNumbered
<1>2. CASE Policy!LoadPolicyVersions
  <2>1. /\ startup = "versions" /\ startup' = "route"
        /\ UNCHANGED <<language, hash, events, policyCache, currentRouteKey, content, frame,
                       versionInfo, lines, renders, asked, moves, missed>>
    BY <1>2 DEF Policy!LoadPolicyVersions, Policy!shown
  <2>2. PolicyTypes' /\ TextsFit' /\ Tracks'
    BY <2>1 DEF PolicyTypes, TextsFit, Tracks
  <2>3. TextsNumbered'
    BY <2>1 DEF TextsNumbered
  <2>4. QED BY <2>2, <2>3
<1>3. CASE Policy!FirstRoute
  <2>1. /\ startup = "route" /\ startup' = "first" /\ Policy!HandleRouteChange(hash, language)
        /\ UNCHANGED <<known, language, events, policyCache, missed>>
    BY <1>3 DEF Policy!FirstRoute
  <2>2. ~content.visible /\ events' = 0
    BY <1>1, <2>1 DEF TextsNumbered
  <2>3. QED BY <1>1, <2>1, <2>2, RouteStep
<1>4. CASE Policy!Listen
  <2>1. /\ startup = "first" /\ startup' = "listening"
        /\ UNCHANGED <<known, language, hash, events, policyCache, currentRouteKey, content, frame,
                       lines, renders, asked, missed>>
    BY <1>4 DEF Policy!Listen, Policy!shown
  <2>2. QED BY <1>1, <2>1, QuietStep
<1>5. CASE Policy!HashChange
  <2>1. /\ events > 0 /\ events' = events - 1 /\ Policy!HandleRouteChange(hash, language)
        /\ UNCHANGED <<startup, known, language, policyCache, missed>>
    BY <1>5 DEF Policy!HashChange
  <2>2. events' \in Nat /\ startup = "listening"
    BY <1>1, <2>1
  <2>3. QED BY <2>1, <2>2, RouteStep
<1>6. CASE Policy!VersionArrives
  <2>1. /\ lines > 0 /\ lines' = lines - 1
        /\ UNCHANGED <<startup, known, language, hash, events, policyCache, currentRouteKey, frame,
                       renders, asked, missed>>
    BY <1>6 DEF Policy!VersionArrives
  <2>2. /\ content'.line # "waiting"
        /\ content'.route = content.route /\ content'.file = content.file /\ content'.id = content.id
        /\ content'.visible = content.visible
        /\ content' = [visible |-> content'.visible, route |-> content'.route, file |-> content'.file,
                       id |-> content'.id, line |-> content'.line]
    <3>1. content = [visible |-> content.visible, route |-> content.route, file |-> content.file,
                     id |-> content.id, line |-> content.line]
      BY DEF PolicyTypes
    <3>2. CASE content' = content /\ content.line # "waiting"
      BY <3>1, <3>2
    <3>3. ASSUME NEW b \in {"known", "none"}, content' = [content EXCEPT !.line = b]
          PROVE  content' = [visible |-> content.visible, route |-> content.route, file |-> content.file,
                             id |-> content.id, line |-> b]
      BY <3>1, <3>3
    <3>4. \/ content' = content /\ content.line # "waiting"
          \/ \E b \in {"known", "none"} : content' = [content EXCEPT !.line = b]
      BY <1>6 DEF Policy!VersionArrives
    <3>5. QED BY <3>2, <3>3, <3>4
  <2>3. lines \in Nat /\ lines' \in Nat
    BY <2>1 DEF PolicyTypes
  <2>4. PolicyTypes' /\ TextsFit'
    BY <1>1, <2>1, <2>2, <2>3 DEF PolicyTypes, TextsFit
  <2>5. TextsNumbered'
    BY <2>1, <2>2 DEF TextsNumbered
  <2>6. \A k, b : Around(k, b)' = Around(k, b)
    BY <2>1 DEF Around, Policy!Frame, Policy!updateNoticeBanner, Policy!getPublicNoticeVersion,
           Policy!getLatestVersion, Policy!getAllVersions, Policy!HasStatus, Policy!VersionsOf
  <2>7. \A h, k : Policy!RouteKey(h, k)' = Policy!RouteKey(h, k)
    BY <2>1, KeyKept
  <2>8. Tracks'
    BY <2>1, <2>2, <2>6, <2>7 DEF Tracks
  <2>9. QED BY <2>4, <2>5, <2>8
<1>7. ASSUME NEW p \in Policies, Policy!NavigateTo(p) PROVE PolicyInv'
  <2>1. /\ \E v : hash' = [policy |-> p, version |-> v]
        /\ events' = IF startup = "listening" THEN events + 1 ELSE events
        /\ missed' = (missed \/ startup = "first")
        /\ UNCHANGED <<startup, known, language, policyCache, currentRouteKey, content, frame,
                       lines, renders, asked>>
    BY <1>7 DEF Policy!NavigateTo, Policy!Listening, Policy!shown
  <2>2. /\ hash' = [policy |-> hash'.policy, version |-> hash'.version] /\ hash'.policy \in Policies
        /\ events' \in Nat /\ startup = "listening" => events' > 0
    BY <1>1, <2>1
  <2>3. startup' # "listening" => events' = 0
    BY <1>1, <2>1
  <2>4. startup' \in {"versions", "route"} => startup \in {"versions", "route"} /\ missed' = missed
    <3>1. SUFFICES ASSUME startup' \in {"versions", "route"}
                   PROVE  startup \in {"versions", "route"} /\ missed' = missed
      OBVIOUS
    <3>2. startup \in {"versions", "route"} /\ startup # "first" /\ missed \in BOOLEAN
      BY <2>1, <3>1 DEF PolicyTypes
    <3>3. missed' = missed
      BY Zenon, <2>1, <3>2
    <3>4. QED BY <3>2, <3>3
  <2>5. startup' \in {"first", "listening"} => ~(events' = 0 /\ ~missed')
    <3>1. CASE startup = "first"
      BY Zenon, <2>1, <3>1
    <3>2. CASE startup = "listening"
      BY <2>1, <2>2, <3>2
    <3>3. QED BY <2>1, <3>1, <3>2
  <2>6. missed' \in BOOLEAN
    BY Zenon, <1>1, <2>1
  <2>7. QED BY <1>1, <2>1, <2>2, <2>3, <2>4, <2>5, <2>6, QuietStep
<1>8. ASSUME NEW v, Policy!ChooseVersion(v) PROVE PolicyInv'
  <2>1. /\ startup = "listening" /\ hash' = [hash EXCEPT !.version = v] /\ events' = events + 1
        /\ UNCHANGED <<startup, known, language, policyCache, currentRouteKey, content, frame,
                       lines, renders, asked, missed>>
    BY <1>8 DEF Policy!ChooseVersion, Policy!Listening, Policy!shown
  <2>2. /\ hash' = [policy |-> hash'.policy, version |-> hash'.version] /\ hash'.policy \in Policies
        /\ events' \in Nat /\ events' > 0
    BY <1>1, <2>1
  <2>3. QED BY <1>1, <2>1, <2>2, QuietStep
<1>9. ASSUME NEW lang \in Languages, Policy!SwitchLanguage(lang) PROVE PolicyInv'
  <2>1. /\ startup = "listening" /\ language' = lang /\ Policy!HandleRouteChange(hash, lang)
        /\ UNCHANGED <<startup, known, events, policyCache, missed>>
    BY <1>9 DEF Policy!SwitchLanguage, Policy!Listening
  <2>2. QED BY <1>1, <2>1, RouteStep
<1>10. QED BY <1>2, <1>3, <1>4, <1>5, <1>6, <1>7, <1>8, <1>9, TextStep DEF Policy!Next

LEMMA InitPolicy == Init => PolicyInv
<1> SUFFICES ASSUME Init PROVE PolicyInv
  OBVIOUS
<1> USE DEF Init, Policy!Rest, Policy!NoRoute
<1>1. PolicyTypes
  BY ManifestAssumption DEF PolicyTypes, RouteShape
<1>2. TextsFit /\ TextsNumbered /\ Tracks
  BY DEF TextsFit, Fits, TextsNumbered, Tracks
<1>3. QED BY <1>1, <1>2 DEF PolicyInv

LEMMA PolicyInvariance == Spec => []PolicyInv
<1>1. ASSUME PolicyInv, [Next]_pages PROVE PolicyInv'
  <2>1. CASE Policy!Next
    BY <1>1, <2>1, PolicySteps
  <2>2. CASE UNCHANGED policyPart
    BY <1>1, <2>2, QuietStep DEF policyPart, PolicyInv, PolicyTypes, TextsNumbered
  <2>3. QED BY <1>1, <2>1, <2>2 DEF Next, pages
<1>2. QED BY <1>1, InitPolicy, PTL DEF Spec, pages

\* RouteShown, for every manifest and any number of routes: once nothing is
\* under way the page shows the text of its address in its language, and the
\* banner, the switcher and the active policy go with it, unless an older
\* route's file came last or a link was clicked before init listened.
THEOREM TextsAsAddressed == Spec => []RouteShown
<1>1. ASSUME PolicyInv PROVE RouteShown
  <2> USE DEF PolicyInv
  <2>1. content.line = "waiting" => lines > 0
    BY <1>1 DEF TextsNumbered
  <2>2. ASSUME Policy!Listening, events = 0, ~missed
        PROVE  /\ currentRouteKey = Policy!RouteKey(hash, language)
               /\ frame = Around(currentRouteKey, content.visible)
               /\ content.id = asked => content.route = currentRouteKey
    BY <1>1, <2>2 DEF Policy!Listening, Tracks
  <2>3. ASSUME Policy!Listening, events = 0, ~missed
        PROVE  frame = [Policy!Frame(Policy!RouteKey(hash, language)) EXCEPT !.behind = ~content.visible]
    <3>1. content.visible \in BOOLEAN
      BY <1>1 DEF PolicyTypes
    <3>2. QED BY <2>2, <2>3, <3>1, FrameShape
  <2>4. ASSUME Policy!Listening, events = 0, ~missed, content.id = asked
        PROVE  /\ content.route = Policy!RouteKey(hash, language)
               /\ content.file # NoText =>
                     /\ content.file.policy = hash.policy
                     /\ Policy!Version(hash) # Latest => content.file.version = Policy!Version(hash)
    BY <1>1, <2>2, <2>4, KeyFields DEF TextsFit, Fits
  <2>5. QED BY <2>1, <2>3, <2>4 DEF RouteShown, Policy!RouteShown, Policy!RouteKey
<1>2. QED BY <1>1, PolicyInvariance, PTL
=============================================================================
