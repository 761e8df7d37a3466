SPECIFICATION Spec
CONSTANTS
    Clients = {c1, c2, c3}
    Creator = c1
    None = None
    GivenInits <- MCGivenInits
    MaxCalls = 3
    MaxFaults = 2
INVARIANT
    TypeOK
PROPERTIES
    IsCounter
    StrictlyRising
    EveryCallEnds
CHECK_DEADLOCK FALSE
