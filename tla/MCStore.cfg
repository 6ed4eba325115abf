SPECIFICATION MCSpec
CONSTANTS
    message = message
    session = session
    Keys <- MCKeys
    DirectKeys <- MCDirectKeys
    WriteLists <- MCWriteLists
    EventCounts <- MCEventCounts
    MaxTx = 2
    MaxSeq = 3
    MaxCrashes = 1
    MaxTrims = 1
    MaxReads = 1
    PageLimit = 2
    None = None
    Receipts = {1, 2}
    Notes = {1}
    MaxGen = 4
    MaxPasses = 2
    MaxMishaps = 1
    Digits = {0, 1, 2}
    MaxDepth = 3
    PageEntries = 2
    InlineIds = 1
INVARIANTS
    NoSilentGap
    IndexServesStore
    TreeExact
PROPERTIES
    ImplementsAtomicStore
    OpenJournalCompleted
\* The bounds on transactions and pages may be used up.
CHECK_DEADLOCK FALSE
