SPECIFICATION Spec
CONSTANTS
    Executor = {e1, e2}
    Heap = {a1, a2}
    Part <- MCPart
    Input = {x, y}
    Cores = {1, 2}
    PartNum = 2
    Key <- MCKey
    Seed <- MCSeed
    MaxCacheNum = 1
    MayRepeat = TRUE
    MayRecord = TRUE
    MayFail = TRUE
    None = None
SYMMETRY Symmetry
CHECK_DEADLOCK FALSE
INVARIANTS
    OnlyMadeArgs
