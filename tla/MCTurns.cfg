SPECIFICATION TurnsSpec
CONSTANTS
    Messages = {1, 2}
    Direct = {1}
    ReplyOwed = {1}
    Sessions = {s1}
    WakeSessions = {}
    IdStops = {}
    Routers = {r1}
    Hooks = {h1}
    Size <- MCSize
    NoteSize = 1
    Budget = 3
    Adapters = {"antigravity", "kimi"}
    MaxClients = 2
    MaxMishaps = 1
    None = None
    NoFile = NoFile
PROPERTIES
    EventuallyShown
    TurnsRebind
