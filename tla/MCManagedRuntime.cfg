SPECIFICATION Spec
CONSTANTS
    Clients = {c1}
    Hooks = {h1}
    Commands = {u1, u2}
    Background = {u2}
    Gens = {1, 2, 3}
    First = 1
    Pinnable = {2}
    Contract <- MCContract
    Uncollected = {c1}
    MaxSpawns = 0
    Removed = Removed
    None = None
INVARIANTS
    InUseKept
    ContractRespected
    ControlHolds
PROPERTIES
    PinnedKept
CHECK_DEADLOCK FALSE
