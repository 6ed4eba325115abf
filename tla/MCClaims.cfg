SPECIFICATION MCSpec
CONSTANTS
    Names <- MCNames
    SessionIds = {s1, s2}
    Claimable <- MCClaimable
    Leases = {2}
    MaxTime = 2
    MaxGen = 2
    MaxSegments = 4
    None = None
SYMMETRY Symmetries
INVARIANTS
    NoConflictingClaims
    HoldingUninterrupted
    NamesMeanPaths
\* Time, the generations and the segments run out.
CHECK_DEADLOCK FALSE
