SPECIFICATION Spec
CONSTANTS
    Messages = {1}
    Direct = {1}
    ReplyOwed = {}
    Sessions = {s1}
    WakeSessions = {s1}
    IdStops = {s1}
    Routers = {r1}
    Hooks = {h1}
    Size <- MCSize
    NoteSize = 1
    Budget = 3
    None = None
INVARIANT
    NextTurnOfferShown
