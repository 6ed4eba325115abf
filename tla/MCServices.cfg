SPECIFICATION Spec
CONSTANTS
    MaxPid = 4
    MaxRecipe = 2
    MaxCli = 2
    MaxCrashes = 2
    Relays = {"r1", "r2"}
    Senders = {"s1", "s2"}
    MaxMishaps = 1
    None = None
    Nothing = Nothing
INVARIANTS
    InterruptedAsApproved
    RelayHonest
PROPERTIES
    ServiceRestored
CHECK_DEADLOCK FALSE
