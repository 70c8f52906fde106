------------------------------ MODULE MailCodes ------------------------------
(***************************************************************************)
(* The codes that prove an e-mail address: the letter with a link, the     *)
(* page verify that turns its token into a code (verify.ts), and the       *)
(* requests that spend the code (services/token.go, models/token.go and    *)
(* the handlers Register, ResetPassword and DeleteAccount).                *)
(*                                                                         *)
(* All letters go to one address, and a letter has one code at most, which *)
(* is named by it.  Captchas, rate limits, mail domains and passwords are  *)
(* left out, and so is a code generated twice.                             *)
(***************************************************************************)
EXTENDS Naturals, FiniteSets

CONSTANTS
    Letters, NoLetter,
    Tabs,
    Calls,          \* requests under way at once (bound)
    Accounts        \* accounts the address ever has (bound)

VARIABLES
    purpose,        \* per letter: what its code is for
    tokens,         \* per letter: its row in the table tokens
    codes,          \* per letter: the row of its code in the table codes
    tab,            \* per tab: the page verify, and the letter it came from
    seen,           \* codes the user has seen
    order,          \* per call: how far the handler is, and for which account
    member, born,   \* the account of the address, 0 if none; accounts so far
    spent           \* history: how often the code changed something

tables  == <<purpose, tokens, codes>>
account == <<member, born>>
vars    == <<tables, tab, seen, order, account, spent>>

Purposes == {"register", "reset", "delete"}
NoTab    == [at |-> "closed", of |-> NoLetter]
Idle     == [at |-> "idle", op |-> "none", of |-> NoLetter, uid |-> 0]

Rest(existing) ==
    /\ purpose = [l \in Letters |-> "none"]
    /\ tokens = [l \in Letters |-> "none"] /\ codes = [l \in Letters |-> "none"]
    /\ tab = [t \in Tabs |-> NoTab] /\ seen = {}
    /\ order = [k \in Calls |-> Idle]
    /\ born = existing /\ member = existing
    /\ spent = [l \in Letters |-> 0]

Init == \E existing \in {0, 1} : Rest(existing)

(***************************************************************************)
(* Letters                                                                 *)
(***************************************************************************)

\* SendCode, SendResetCode and SendDeleteCode; without an account, or with
\* one, they answer the same and send nothing.
CreateToken(l, p) ==
    /\ tokens[l] = "none" /\ (p = "register" <=> member = 0)
    /\ tokens' = [tokens EXCEPT ![l] = "mailed"]
    /\ purpose' = [purpose EXCEPT ![l] = p]
    /\ UNCHANGED <<codes, tab, seen, order, account, spent>>

\* Ten minutes later; CleanupExpired deletes what nobody asked for again.
ExpireToken(l) ==
    /\ tokens[l] \in {"mailed", "used"}
    /\ tokens' = [tokens EXCEPT ![l] = "gone"]
    /\ UNCHANGED <<purpose, codes, tab, seen, order, account, spent>>

ExpireCode(l) ==
    /\ codes[l] \in {"new", "verified"}
    /\ codes' = [codes EXCEPT ![l] = "gone"]
    /\ UNCHANGED <<purpose, tokens, tab, seen, order, account, spent>>

(***************************************************************************)
(* The page verify                                                         *)
(***************************************************************************)

At(t, at) == tab' = [tab EXCEPT ![t].at = at]

\* The link of a letter, whose token is in the page's hash.
OpenLetter(t, l) ==
    /\ tab[t] = NoTab /\ tokens[l] # "none"
    /\ tab' = [tab EXCEPT ![t] = [at |-> "opened", of |-> l]]
    /\ UNCHANGED <<tables, seen, order, account, spent>>

verifyToken(t) == At(t, "asking")

showError(t)   == At(t, "error")

\* loadVerificationCode takes the token out of the address before it asks.
LoadVerificationCode(t) ==
    /\ tab[t].at = "opened" /\ verifyToken(t)
    /\ UNCHANGED <<tables, seen, order, account, spent>>

\* ValidateAndUseToken: one UPDATE that returns the row it marked.
MarkUsedAndGet(t) ==
    /\ tab[t].at = "asking"
    /\ IF tokens[tab[t].of] = "mailed"
       THEN tokens' = [tokens EXCEPT ![tab[t].of] = "used"] /\ At(t, "marked")
       ELSE showError(t) /\ UNCHANGED tokens
    /\ UNCHANGED <<purpose, codes, seen, order, account, spent>>

\* ... and the code; when one of its writes fails the letter is used up.
CreateCode(t) ==
    /\ tab[t].at = "marked"
    /\ \/ codes' = [codes EXCEPT ![tab[t].of] = "new"] /\ At(t, "answered")
       \/ showError(t) /\ UNCHANGED codes
    /\ UNCHANGED <<purpose, tokens, seen, order, account, spent>>

\* showState: the code is on display.
ShowCode(t) ==
    /\ tab[t].at = "answered"
    /\ At(t, "success")
    /\ seen' = seen \cup {tab[t].of}
    /\ UNCHANGED <<tables, order, account, spent>>

\* The request or its answer is lost, or the user reloads: NO_TOKEN.  (A
\* reload between the server's two writes is as one after them.)
LoadFails(t) ==
    /\ tab[t].at \in {"asking", "answered", "success"}
    /\ showError(t)
    /\ UNCHANGED <<tables, seen, order, account, spent>>

CloseTab(t) ==
    /\ tab[t].at \in {"success", "error"}
    /\ tab' = [tab EXCEPT ![t] = NoTab]
    /\ UNCHANGED <<tables, seen, order, account, spent>>

(***************************************************************************)
(* A code is spent                                                         *)
(***************************************************************************)

Step(k, at) == order' = [order EXCEPT ![k].at = at]
Ends(k)     == order' = [order EXCEPT ![k] = Idle]
Is(k, op, at) == order[k].op = op /\ order[k].at = at
Counted(k)  == spent' = [spent EXCEPT ![order[k].of] = @ + 1]

\* The codes without those for these purposes.
Without(ps) == [l \in Letters |-> IF purpose[l] \in ps /\ codes[l] # "none" THEN "gone" ELSE codes[l]]

\* InvalidateCodeByEmail: nobody looks whether it failed.
Invalidate(ps) == codes' \in {codes, Without(ps)}

\* The deletion reads its account first, FindByUID.
Ask(k, op, l) ==
    /\ order[k] = Idle /\ l \in seen /\ (op = "delete" => member # 0)
    /\ order' = [order EXCEPT ![k] = [at |-> "asked", op |-> op, of |-> l,
                                      uid |-> IF op = "delete" THEN member ELSE 0]]
    /\ UNCHANGED <<tables, tab, seen, account, spent>>

\* VerifyCode up to its write.
FindByCode(k) ==
    /\ order[k].at = "asked"
    /\ LET l == order[k].of IN
       IF purpose[l] = order[k].op /\ codes[l] \in {"new", "verified"}
       THEN Step(k, IF codes[l] = "new" THEN "found" ELSE "passed")
       ELSE Ends(k)
    /\ UNCHANGED <<tables, tab, seen, account, spent>>

\* It passes when the row is gone by now, too.
UpdateVerification(k) ==
    /\ order[k].at = "found"
    /\ codes' = [codes EXCEPT ![order[k].of] = IF @ = "new" THEN "verified" ELSE @]
    /\ Step(k, "passed")
    /\ UNCHANGED <<purpose, tokens, tab, seen, account, spent>>

\* Register deletes the code without a look at the row.
RegisterInvalidates(k) ==
    /\ Is(k, "register", "passed")
    /\ Invalidate({"register"})
    /\ Step(k, "create")
    /\ UNCHANGED <<purpose, tokens, tab, seen, account, spent>>

\* An address has one account at a time.
CreateUser(k) ==
    /\ order[k].at = "create"
    /\ IF member = 0 /\ born < Accounts
       THEN member' = born + 1 /\ born' = born + 1 /\ Counted(k)
       ELSE UNCHANGED <<account, spent>>
    /\ Ends(k)
    /\ UNCHANGED <<tables, tab, seen>>

\* ResetPassword: FindByEmail.
FindUser(k) ==
    /\ Is(k, "reset", "passed")
    /\ IF member = 0 THEN Ends(k)
       ELSE order' = [order EXCEPT ![k].at = "known", ![k].uid = member]
    /\ UNCHANGED <<tables, tab, seen, account, spent>>

\* Mutant: the row is only read.
UseCodeReading(k) ==
    /\ order[k].at = "known"
    /\ IF codes[order[k].of] = "verified" THEN Step(k, "used") ELSE Ends(k)
    /\ UNCHANGED <<tables, tab, seen, account, spent>>

\* UseCode: one DELETE, and whoever deleted the row goes on.
UseCode(k) ==
    /\ order[k].at = "known"
    /\ IF codes[order[k].of] = "verified"
       THEN codes' = [codes EXCEPT ![order[k].of] = "gone"] /\ Step(k, "used")
       ELSE Ends(k) /\ UNCHANGED codes
    /\ UNCHANGED <<purpose, tokens, tab, seen, account, spent>>

UpdatePassword(k) ==
    /\ order[k].at = "used"
    /\ IF order[k].uid = member THEN Step(k, "changed") /\ Counted(k) ELSE Ends(k) /\ UNCHANGED spent
    /\ UNCHANGED <<tables, tab, seen, account>>

ResetInvalidates(k) ==
    /\ order[k].at = "changed"
    /\ Invalidate({"reset"})
    /\ Ends(k)
    /\ UNCHANGED <<purpose, tokens, tab, seen, account, spent>>

\* DeleteAccount deletes the account first and the codes after it.
DeleteUser(k) ==
    /\ Is(k, "delete", "passed")
    /\ IF order[k].uid = member
       THEN member' = 0 /\ Step(k, "deleted") /\ Counted(k)
       ELSE Ends(k) /\ UNCHANGED <<member, spent>>
    /\ UNCHANGED <<tables, tab, seen, born>>

DeleteInvalidates(k) ==
    /\ order[k].at = "deleted"
    /\ Invalidate(Purposes)
    /\ Ends(k)
    /\ UNCHANGED <<purpose, tokens, tab, seen, account, spent>>

\* A statement of the handler fails, and its request with it.
Abort(k) ==
    /\ order[k].at \in {"asked", "found", "passed", "create", "known", "used"}
    /\ Ends(k)
    /\ UNCHANGED <<tables, tab, seen, account, spent>>

Next ==
    \/ \E l \in Letters : ExpireToken(l) \/ ExpireCode(l) \/ \E p \in Purposes : CreateToken(l, p)
    \/ \E t \in Tabs :
          \/ LoadVerificationCode(t) \/ MarkUsedAndGet(t) \/ CreateCode(t)
          \/ ShowCode(t) \/ LoadFails(t) \/ CloseTab(t)
          \/ \E l \in Letters : OpenLetter(t, l)
    \/ \E k \in Calls :
          \/ FindByCode(k) \/ UpdateVerification(k) \/ RegisterInvalidates(k) \/ CreateUser(k)
          \/ FindUser(k) \/ UseCode(k) \/ UpdatePassword(k) \/ ResetInvalidates(k)
          \/ DeleteUser(k) \/ DeleteInvalidates(k) \/ Abort(k)
          \/ \E op \in Purposes, l \in Letters : Ask(k, op, l)

Spec == Init /\ [][Next]_vars

(***************************************************************************)
(* Properties                                                              *)
(***************************************************************************)

\* A link gives its code to one page, in however many tabs it is opened.
OnePage ==
    \A s, t \in Tabs :
        tab[s].at \in {"marked", "answered", "success"} /\ tab[t].at \in {"marked", "answered", "success"}
        /\ tab[s].of = tab[t].of => s = t

\* A code resets one password at most, although requests with it check it at
\* once, and fail or are repeated at any step.
OneReset == \A l \in Letters : purpose[l] = "reset" => spent[l] <= 1
=============================================================================
