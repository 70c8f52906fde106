\* Openings, providers, items and tabs never meet, so two model values stand for
\* all of them, and one permutation for all of theirs.
CONSTANTS
    Openings = {v1, v2}
    Entries = {e1, e2}
    Invalid = Invalid
    Requests = 3
    Codes = {c1, c2}
    NoCode = NoCode
    Junk = Junk
    Urls = {"typed", "microsoft"}
    Apps = {a1, a2}
    Pages = 3
    Tries = 3
    Providers = {v1, v2}
    NoProvider = NoProvider
    Changes = 2
    Links = {l1, l2}
    NoLink = NoLink
    Alerts = 2
    Clicks = 2
    Items = {v1, v2}
    NoItem = NoItem
    Calls = {k1, k2}
    Fetches = 3
    currentUserRole = 2
    Tabs = {v1, v2}
    Exports = 2
    Uploads = 2
    Guesses = 3
    otacMaxTries = 2
    Versions = 2
    Languages = {"zh", "en"}
    NoLang = NoLang
    DefaultLang = "zh"
    Visits = 3
    Letters = {l1}
    NoLetter = NoLetter
    Accounts = 2
    Policies = {"privacy", "terms"}
    Privacy = "privacy"
    Manifest <- Published
    Latest = Latest
    Notice = Notice
    NoText = NoText
    Moves = 2
SPECIFICATION Spec
SYMMETRY Symmetry
INVARIANTS
    CountdownHolds
    CaptchaServes
    ResetsCoded
    CameraReleased
    ConfirmsShown
    SavesPreview
    LogInOrder
    ProfileShown
    OpensLinkShown
    SpentOnce
    ConsentKept
    RouteShown
    DeletedStaysAway
CHECK_DEADLOCK FALSE
