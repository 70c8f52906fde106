----------------------------- MODULE PolicyPage -----------------------------
(***************************************************************************)
(* The page of the policies (modules/policy/assets/js/policy.ts): a route  *)
(* in the hash picks a policy and one of its versions, and the text comes  *)
(* in the page's language or, where that is missing, in another one.       *)
(*                                                                         *)
(* Versions are numbered by the day they take effect.  The text itself     *)
(* and scrolling are left out; a text is named by the file it came from.   *)
(***************************************************************************)
EXTENDS Naturals, Sequences, FiniteSets, SequencesExt

CONSTANTS
    Languages, DefaultLang,     \* DefaultLang: "zh-CN"
    Policies, Privacy,
    Manifest,               \* per policy: its versions, with languages and status
    Latest, Notice,         \* the routes without a version and "public-notice-period"
    NoText,                 \* the page 404
    Moves                   \* what the user does (bound)

VARIABLES
    startup,        \* "versions", "route", "first", "listening"
    known,          \* policyVersions has been loaded
    language,
    hash,           \* [policy, version]
    events,         \* hashchange events not handled yet
    policyCache,    \* the routes cached, each with its file
    currentRouteKey,
    content,        \* what the page shows: visible, its route, its file, the render it is of
    frame,          \* around it: the active policy, the notice's banner, the switcher
    versionInfo,    \* cachedVersionInfo
    lines,          \* calls of renderPolicy waiting for the server's version
    renders,        \* calls of renderPolicy waiting for a file
    asked,          \* routes rendered so far, which number the renders
    moves,
    missed          \* history: the hash changed before init listened

shown == <<content, frame, versionInfo, lines>>
vars  == <<startup, known, language, hash, events, policyCache, currentRouteKey, shown,
           renders, asked, moves, missed>>

NoRoute == [policy |-> Privacy, version |-> NoText, lang |-> DefaultLang, notice |-> FALSE]

Rest ==
    /\ startup = "versions" /\ known = FALSE
    /\ language = DefaultLang
    /\ hash = [policy |-> Privacy, version |-> Latest]
    /\ events = 0 /\ policyCache = {} /\ currentRouteKey = NoRoute
    /\ content = [visible |-> FALSE, route |-> NoRoute, file |-> NoText, id |-> 0,
                  line |-> "none"]
    /\ frame = [nav |-> Privacy, banner |-> NoText, behind |-> TRUE, switcher |-> {}, current |-> NoText]
    /\ versionInfo = FALSE /\ lines = 0
    /\ renders = {} /\ asked = 0 /\ moves = 0 /\ missed = FALSE

(***************************************************************************)
(* The manifest                                                            *)
(***************************************************************************)

\* Before loadPolicyVersions succeeded no policy has versions.
VersionsOf(p)   == IF known THEN DOMAIN Manifest[p] ELSE {}
HasStatus(p, s) == {v \in VersionsOf(p) : Manifest[p][v].status = s}
LanguagesOf(p, v) == Manifest[p][v].languages

Newest(vs) == CHOOSE v \in vs : \A w \in vs : w <= v

getAllVersions(p) == HasStatus(p, "effective")

\* A version, or NoText.
getLatestVersion(p) == IF getAllVersions(p) = {} THEN NoText ELSE Newest(getAllVersions(p))

getLatestEntryForLang(p, lang) ==
    LET vs == {v \in getAllVersions(p) : lang \in ToSet(LanguagesOf(p, v))} IN
    IF vs = {} THEN NoText ELSE Newest(vs)

getPublicNoticeVersion(p) ==
    LET vs == HasStatus(p, "public_notice") IN IF vs = {} THEN NoText ELSE CHOOSE v \in vs : TRUE

\* Those of seq that are not in set, in their order.
Without(seq, set) ==
    LET kept   == {i \in DOMAIN seq : seq[i] \notin set}
        Nth(n) == CHOOSE i \in kept : Cardinality({j \in kept : j < i}) = n - 1
    IN [n \in 1 .. Cardinality(kept) |-> seq[Nth(n)]]

File(p, lang, v) == [policy |-> p, lang |-> lang, version |-> v]

\* loadPolicyMarkdown: the files it tries for a route, one after the other.
Attempts(route) ==
    LET p      == route.policy
        first  == IF route.version = Latest THEN getLatestVersion(p) ELSE route.version
        langs  == IF first \in VersionsOf(p) THEN LanguagesOf(p, first) ELSE <<>>
        own    == IF route.lang \in ToSet(langs) THEN <<File(p, route.lang, first)>> ELSE <<>>
        zh     == IF route.version # Latest THEN (IF DefaultLang \in ToSet(langs) THEN first ELSE NoText)
                  ELSE getLatestEntryForLang(p, DefaultLang)
        others == Without(langs, {route.lang, DefaultLang})
    IN own \o (IF zh = NoText THEN <<>> ELSE <<File(p, DefaultLang, zh)>>)
           \o [i \in DOMAIN others |-> File(p, others[i], first)]

(***************************************************************************)
(* Routes                                                                  *)
(***************************************************************************)

\* handleRouteChange: the version a hash stands for; the notice of a version
\* that is published but not in effect yet has a route of its own.
Version(h) ==
    LET v == IF h.version = Notice THEN getPublicNoticeVersion(h.policy) ELSE h.version IN
    IF v = NoText \/ v = getLatestVersion(h.policy) THEN Latest ELSE v

Announced(h) == h.version = Notice /\ getPublicNoticeVersion(h.policy) # NoText

\* Mutant: the key names no language.
RouteKeyAnyLanguage(h, lang) ==
    [policy |-> h.policy, version |-> Version(h), lang |-> DefaultLang, notice |-> Announced(h)]

RouteKey(h, lang) ==
    [policy |-> h.policy, version |-> Version(h), lang |-> lang, notice |-> Announced(h)]

\* What the hash is replaced with when it names no version of its own.
Tidied(h) ==
    IF h.version # Latest /\ Version(h) = Latest THEN [h EXCEPT !.version = Latest] ELSE h

CacheKey(route) == [route EXCEPT !.notice = FALSE]
Cached(route)   == {c \in policyCache : c.key = CacheKey(route)}

\* A banner for the policy's notice, unless that notice is on display.
updateNoticeBanner(p, viewing) ==
    IF viewing \/ getPublicNoticeVersion(p) = NoText THEN NoText ELSE p

hideNoticeBanner(f) == [f EXCEPT !.behind = TRUE]

showNoticeBanner(f) == [f EXCEPT !.behind = FALSE]

\* updateNavActive, updateNoticeBanner and updateVersionSwitcher: a switcher
\* for two versions and more.
Frame(key) ==
    LET p == key.policy
        all == getAllVersions(p)
    IN [nav |-> p,
        banner |-> updateNoticeBanner(p, key.notice),
        behind |-> FALSE,
        switcher |-> IF Cardinality(all) > 1 THEN all ELSE {},
        current |-> IF key.version = Latest THEN getLatestVersion(p) ELSE key.version]

\* The latest privacy policy ends with the server's version.
EndsWithVersion(route, file) == route.policy = Privacy /\ route.version = Latest /\ file # NoText

\* The end of renderPolicy, which takes the banner out with the text.
Show(route, file, id) ==
    LET waits == EndsWithVersion(route, file) /\ ~versionInfo IN
    /\ content' = [visible |-> TRUE, route |-> route, file |-> file, id |-> id,
                   line |-> IF waits THEN "waiting"
                            ELSE IF EndsWithVersion(route, file) THEN "known" ELSE "none"]
    /\ lines' = IF waits THEN lines + 1 ELSE lines
    /\ UNCHANGED versionInfo

\* handleRouteChange and renderPolicy up to the await: nothing for the route on
\* display; a cached file at once; else the content goes and a file is asked for.
HandleRouteChange(h, lang) ==
    LET key   == RouteKey(h, lang)
        route == [key EXCEPT !.lang = lang]
    IN
    /\ hash' = Tidied(h)
    /\ currentRouteKey' = key
    /\ IF key = currentRouteKey /\ content.visible THEN UNCHANGED <<shown, renders, asked>>
       ELSE /\ asked' = asked + 1
            /\ IF Cached(route) # {}
               THEN /\ Show(route, (CHOOSE c \in Cached(route) : TRUE).file, asked')
                    /\ frame' = Frame(key)
                    /\ UNCHANGED renders
               ELSE IF Attempts(route) = <<>>
               THEN /\ Show(route, NoText, asked') /\ frame' = Frame(key)
                    /\ UNCHANGED renders
               ELSE /\ content' = [content EXCEPT !.visible = FALSE]
                    /\ frame' = hideNoticeBanner(Frame(key))
                    /\ UNCHANGED <<versionInfo, lines>>
                    /\ renders' = renders \cup
                          {[id |-> asked', route |-> route, left |-> Attempts(route)]}

(***************************************************************************)
(* The page                                                                *)
(***************************************************************************)

\* loadPolicyVersions: without an answer the page goes on with no versions.
LoadPolicyVersions ==
    /\ startup = "versions" /\ startup' = "route"
    /\ known' \in BOOLEAN
    /\ UNCHANGED <<language, hash, events, policyCache, currentRouteKey, shown, renders, asked,
                   moves, missed>>

FirstRoute ==
    /\ startup = "route" /\ startup' = "first"
    /\ HandleRouteChange(hash, language)
    /\ UNCHANGED <<known, language, events, policyCache, moves, missed>>

\* init waits for the first route, the server's version included, before it
\* attaches its listeners.
Listen ==
    /\ startup = "first" /\ renders = {} /\ lines = 0
    /\ startup' = "listening"
    /\ UNCHANGED <<known, language, hash, events, policyCache, currentRouteKey, shown, renders,
                   asked, moves, missed>>

Listening == startup = "listening"
Moving    == moves < Moves /\ moves' = moves + 1

\* navigateTo keeps the version; before init listens the link's own address
\* goes, and once the first route is read nobody hears of it.
NavigateTo(p) ==
    /\ Moving /\ hash.policy # p
    /\ hash' = [policy |-> p, version |-> IF Listening THEN hash.version ELSE Latest]
    /\ events' = IF Listening THEN events + 1 ELSE events
    /\ missed' = (missed \/ startup = "first")
    /\ UNCHANGED <<startup, known, language, policyCache, currentRouteKey, shown, renders, asked>>

\* The version switcher, the link to the notice, the address bar.
ChooseVersion(v) ==
    /\ Moving /\ Listening /\ hash.version # v
    /\ hash' = [hash EXCEPT !.version = v]
    /\ events' = events + 1
    /\ UNCHANGED <<startup, known, language, policyCache, currentRouteKey, shown, renders, asked,
                   missed>>

HashChange ==
    /\ events > 0 /\ events' = events - 1
    /\ HandleRouteChange(hash, language)
    /\ UNCHANGED <<startup, known, language, policyCache, moves, missed>>

\* The callback of the language switcher handles the route at once.
SwitchLanguage(lang) ==
    /\ Moving /\ Listening /\ lang # language
    /\ language' = lang
    /\ HandleRouteChange(hash, lang)
    /\ UNCHANGED <<startup, known, events, policyCache, missed>>

\* renderPolicy after its await does not look whether it is still wanted.
Rendered(r, file) ==
    /\ renders' = renders \ {r}
    /\ Show(r.route, file, r.id)
    /\ frame' = showNoticeBanner(frame)
    /\ UNCHANGED <<startup, known, language, hash, events, currentRouteKey, asked, moves, missed>>

TextArrives(r) ==
    /\ policyCache' = {c \in policyCache : c.key # CacheKey(r.route)}
                      \cup {[key |-> CacheKey(r.route), file |-> Head(r.left)]}
    /\ Rendered(r, Head(r.left))

\* A file that cannot be had: the next one, or the page 404.
TextFails(r) ==
    IF Tail(r.left) = <<>> THEN Rendered(r, NoText) /\ UNCHANGED policyCache
    ELSE /\ renders' = (renders \ {r}) \cup {[r EXCEPT !.left = Tail(@)]}
         /\ UNCHANGED <<startup, known, language, hash, events, policyCache, currentRouteKey,
                        shown, asked, moves, missed>>

\* fetchVersionInfo answers, or not: the place it has in the text by then.
VersionArrives ==
    /\ lines > 0 /\ lines' = lines - 1
    /\ \E served \in BOOLEAN :
          /\ versionInfo' = (versionInfo \/ served)
          /\ content' = IF content.line # "waiting" THEN content
                        ELSE [content EXCEPT !.line = IF served THEN "known" ELSE "none"]
    /\ UNCHANGED <<startup, known, language, hash, events, policyCache, currentRouteKey, frame,
                   renders, asked, moves, missed>>

Next ==
    \/ LoadPolicyVersions \/ FirstRoute \/ Listen \/ HashChange \/ VersionArrives
    \/ \E p \in Policies : NavigateTo(p)
    \/ \E v \in DOMAIN Manifest[hash.policy] \cup {Latest, Notice} : ChooseVersion(v)
    \/ \E lang \in Languages : SwitchLanguage(lang)
    \/ \E r \in renders : TextArrives(r) \/ TextFails(r)

Init == Rest

Spec == Init /\ [][Next]_vars

(***************************************************************************)
(* Properties                                                              *)
(***************************************************************************)

\* Once nothing is under way the page shows the route in its address, in its
\* language and with a file of that very policy and version; unless an older
\* route's file came after it, or a link was clicked before init listened.
\* The banner, the switcher and the active policy go with the address from the
\* moment it is read, and a place for the server's version is not left waiting.
RouteShown ==
    /\ content.line = "waiting" => lines > 0
    /\ Listening /\ events = 0 /\ ~missed =>
          frame = [Frame(RouteKey(hash, language)) EXCEPT !.behind = ~content.visible]
    /\ Listening /\ events = 0 /\ renders = {} /\ content.id = asked /\ ~missed =>
          /\ content.route =
                [policy |-> hash.policy, version |-> Version(hash), lang |-> language,
                 notice |-> Announced(hash)]
          /\ content.file # NoText =>
                /\ content.file.policy = hash.policy
                /\ Version(hash) # Latest => content.file.version = Version(hash)
=============================================================================
