SPECIFICATION Spec
CONSTANTS
    a = a
    b = b
    d1 = d1
    d2 = d2
    Dests = {d1}
    Contents <- MCContents
    Foreign <- MCForeign
    Byte <- MCByte
    NumRetries = 1
    EofCloses = {FALSE}
    NoEtag = NoEtag
    Torn = Torn
    NoResp = NoResp
    MaxRuns = 1
    MaxEdits = 0
INVARIANTS
    RetryAsksServer
CHECK_DEADLOCK FALSE
