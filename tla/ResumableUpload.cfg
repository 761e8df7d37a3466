SPECIFICATION FairSpec
CONSTANTS
    a = a
    b = b
    Byte <- MCByte
    Files <- MCFiles
    NumRetries = 1
    NoUri = NoUri
    Torn = Torn
    NoObject = NoObject
    NoStart = NoStart
    MaxRuns = 2
    MaxEdits = 1
    MaxSessions = 2
INVARIANTS
    TypeOK
    SuccessStoresHashedFile
    AbortHasCause
    UploadStartsOnce
PROPERTIES
    EveryRunEnds
CHECK_DEADLOCK FALSE
