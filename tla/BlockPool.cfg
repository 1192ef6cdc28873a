SPECIFICATION LiveSpec
CONSTANTS
    Thread = {t1, t2}
    Block = {b1, b2}
    SysBlock = {s1}
    Batch = 2
    CacheMax = 1
    NoThread = NoThread
    NoBlock = NoBlock
INVARIANTS Exclusive Conserved
PROPERTIES GuardReleased
