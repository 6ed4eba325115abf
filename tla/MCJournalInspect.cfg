SPECIFICATION Spec
CONSTANTS
    message = message
    session = session
    Keys <- MCKeys
    DirectKeys <- MCDirectKeys
    WriteLists <- MCWriteLists
    EventCounts <- MCEventCounts
    MaxTx = 2
    MaxSeq = 3
    MaxCrashes = 0
    MaxTrims = 1
    MaxReads = 0
    PageLimit = 3
INVARIANTS
    NothingReportedCorrupt
\* The bounds on transactions and pages may be used up.
CHECK_DEADLOCK FALSE
