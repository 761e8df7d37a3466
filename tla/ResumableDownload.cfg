SPECIFICATION FairSpec
CONSTANTS
    a = a
    b = b
    d1 = d1
    d2 = d2
    Dests = {d1, d2}
    Contents <- MCContents
    Foreign <- MCForeign
    Byte <- MCByte
    NumRetries = 1
    EofCloses = {TRUE, FALSE}
    NoEtag = NoEtag
    Torn = Torn
    NoResp = NoResp
    MaxRuns = 2
    MaxEdits = 1
INVARIANTS
    TypeOK
    OkIsOneVersion
    FailureHasCause
    KeepsBytes
PROPERTIES
    EveryRunEnds
CHECK_DEADLOCK FALSE
