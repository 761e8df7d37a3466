SPECIFICATION Spec
CONSTANTS
    t1 = t1
    t2 = t2
    h1 = h1
    Threads = {t1, t2}
    Hosts = {h1}
    Ids <- MCIds
    IsSecure = TRUE
    NumRetries = 1
    CleanInterval = 1
    StaleDuration = 1
    IdleTimeout = 2
    NoConn = NoConn
    MaxTime = 2
    MaxRequests = 3
    MaxRedirects = 1
INVARIANTS
    TypeOK
    OneUser
    NeverStale
SYMMETRY MCSymmetry
CHECK_DEADLOCK FALSE
