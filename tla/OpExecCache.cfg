SPECIFICATION LiveSpec
CONSTANTS
    Cache = {c1, c2, c3}
    Hash = {h1}
    Key = {k1, k2, k3}
    Limit = 2
    ShrinkNum = 1
    GcCapacity = 1
    MaxPending = 2
    None = None
INVARIANTS NoDangling Accounted WithinLimit
PROPERTIES ClearEnds EvictedIsCollected
