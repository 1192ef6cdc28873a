\* Two streams, two executors, at most three launches.
SPECIFICATION Spec
CONSTANTS
    s1 = s1
    s2 = s2
    Stream = {s1, s2}
    Session <- MCSession
    Blocks = 2
    Capacity = 1
    SessionCacheNum = 0
    MaxDims = 2
    DimEnd = DimEnd
    Thread = {t1}
    Executor = {e1, e2}
    Kind = {k1, k3}
    Class3 = {k3}
    Foreign <- MCForeign
    HostSession = 0
    FirstKernelId = 10
    NoStream = NoStream
    Budgets <- MCBudgets
    MaxTask = 2
    MaxList = 1
INVARIANTS
    ComputeOwn
    NodeDefAlive
    CachesBounded
    BlocksTile
    OutputShapeRead
    TaskExclusive
SYMMETRY Symmetry
CHECK_DEADLOCK FALSE
