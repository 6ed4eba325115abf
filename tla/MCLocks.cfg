SPECIFICATION LocksSpec
CONSTANTS
    c1 = c1
    c2 = c2
    c3 = c3
    c4 = c4
    p1 = p1
    p2 = p2
    p3 = p3
    None = None
    Calls <- MCCalls
    Pids <- MCPids
    PidOf <- MCPidOf
    Writers <- MCWriters
    Processes <- MCPids
    WriterPid <- MCWriterPid
    NoWriter = NoWriter
INVARIANTS
    MutualExclusion
    StaleObserverFenced
    WriterSafe
PROPERTIES
    LiveOwnerKeepsLock
    LocksReclaimed
\* Every call may have ended and every process may have exited.
CHECK_DEADLOCK FALSE
