SPECIFICATION FairSpec
CONSTANTS
    Instances = {i1}
    Buckets = {b1, b2}
    Users <- MCOneUser
    Pids = {p1}
    Contents <- MCContents
    Malformed = Malformed
    Absent = Absent
    AllBuckets = AllBuckets
    MaxWrites = 2
INVARIANTS
    TypeOK
    MainStatusIsWorst
    TotalsMatchLogs
    PercentageHonest
    CompleteUnlessSwallowed
PROPERTIES
    EveryQueryAnswered
