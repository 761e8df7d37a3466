SPECIFICATION FairSpec
CONSTANTS
    p1 = p1
    p2 = p2
    p3 = p3
    t1 = t1
    t2 = t2
    t3 = t3
    t4 = t4
    Processes = {p1, p2, p3}
    Threads = {t1, t2, t3, t4}
    ProcOf <- MCProcOf
    CacheKind <- MCCacheKind
    Lifetimes = {1}
    Margin = 1
    NoToken = NoToken
    Free = Free
    MaxTime = 2
    MaxCalls = 2
    MaxFaults = 1
INVARIANTS
    TypeOK
    OneWriterWins
    CachedTokenValid
    RefreshOnlyWhenNeeded
PROPERTIES
    EveryCallEnds
CHECK_DEADLOCK FALSE
