SPECIFICATION MCSpec
CONSTANTS
    Executor = {e1, e2}
    Heap = {a1, a2, a3}
    Part <- MCPart
    Input = {x, y}
    Cores = {1, 2}
    PartNum = 2
    Key <- MCKey
    Seed <- MCSeed
    MaxCacheNum = 2
    MayRepeat = TRUE
    MayRecord = TRUE
    MayFail = TRUE
    None = None
SYMMETRY Symmetry
VIEW Readable
CHECK_DEADLOCK FALSE
INVARIANTS
    HeldAlive
    Exclusive
    
    Consistent
    KeepsTrack
