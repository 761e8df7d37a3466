SPECIFICATION Spec
CONSTANTS
    Keys <- MCKeys
    Matches <- MCMatches
    Uris <- MCKeys
    Name <- MCName
    Configs <- MCConfigs
    MaxProcs = 2
    MaxThreads = 2
    PageSize = 2
    MaxChanges = 1
    IntSize = 4
    MaxKills = 1
    NoKey = NoKey
    Idle = Idle
    Exit = Exit
INVARIANTS
    TypeOK
    ListedOnce
    StayersListed
    NoLoss
    CalledOnce
    CountHonest
PROPERTY
    MoveEnds
CHECK_DEADLOCK FALSE
