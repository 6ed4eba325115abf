SPECIFICATION Spec
CONSTANTS
    Clients = {c1, c2}
    Ids = {i1, i2}
    Hooks = {h1, h2}
    MaxGen = 2
    MaxOps = 5
    None = None
SYMMETRY Symmetries
INVARIANTS
    MoveIsSeamless
    LoneSessionLeavesNoTrace
    LastWordStands
PROPERTIES
    LiveOwnerNotReplaced
\* The operations may all have been started and ended.
CHECK_DEADLOCK FALSE
