SPECIFICATION Spec
CONSTANTS
    Pollers = {p1}
    Msgs = {m1, m2, m3}
    NoMsg = NoMsg
    Hours <- MCThree
    Every = Every
    Never = Never
    Hour = 1
    HoursPerDay = 24
    Wait = 1
    VTimeout = 1
    Fresh = FALSE
    Verbose = FALSE
    Drift = 0
    MaxStale = 1
    MaxRun = 1
    MaxFaults = 0
PROPERTIES
    RunsDaily
