SPECIFICATION Spec
CONSTANTS
    Kinds = {"claude", "kimi", "codex", "desktop"}
    r1 = r1
    r2 = r2
    Routers <- Senders
    MaxEps = 2
    MaxInc = 2
    MaxFaults = 2
    None = None
SYMMETRY Symmetry
INVARIANTS
    RecordsAgree
    ArrivalsAsTold
PROPERTIES
    RetiredNeverRevived
CHECK_DEADLOCK FALSE
