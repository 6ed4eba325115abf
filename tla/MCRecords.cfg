SPECIFICATION RecordsSpec
CONSTANTS
    Readers = {r1, r2}
    Openers = {o1, o2}
    Transactions = {t1, t2}
    ReadAttempts = 2
    Missing = Missing
    None = None
    NoFile = NoFile
    MaxGeneration = 5
    Messages = {1}
    Size <- MCSize
    Direct = {1}
    ReplyOwed = {1}
    Sessions = {s1, s2}
    WakeSessions = {s2}
    IdStops = {}
    Routers = {w1}
    Hooks = {h1, h2}
    NoteSize = 1
    Budget = 3
    Adapters = {"claude", "codex", "kimi", "antigravity", "grok", "gemini"}
    MaxClients = 2
    MaxMishaps = 2
SYMMETRY HookSymmetry
INVARIANTS
    StableReadIsAuthority
    OfferCrossed
    OffersMatchEvents
    OneOwner
PROPERTIES
    AuthorityNeverRollsBack
    SettledStaysSettled
