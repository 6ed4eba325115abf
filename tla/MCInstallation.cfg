SPECIFICATION Spec
CONSTANTS
    Adapters = {"antigravity", "claude", "codex", "gemini", "grok", "kimi"}
    MaxCommands = 3
    MaxStops = 1
    MaxEdits = 1
    LIVE_POLICIES = {"off", "actionable"}
    MaxInstalls = 2
    MaxFaults = 1
    MaxSimple = 2
    MaxOps = 2
    None = None
INVARIANTS
    OwnershipKnown
    ConsentHolds
    GuardHonoursClaims
PROPERTIES
    TakesItsOwnOnly
    DownloadByConsent
\* The bounds on the commands and on the words of a call may be used up.
CHECK_DEADLOCK FALSE
