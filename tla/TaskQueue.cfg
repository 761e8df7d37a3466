SPECIFICATION Spec
CONSTANTS
    Pollers = {p1, p2}
    Msgs = {m1, m2, m3, m4}
    NoMsg = NoMsg
    Hours <- MCHours
    Every = Every
    Never = Never
    Hour = 2
    HoursPerDay = 3
    Wait = 1
    VTimeout = 1
    Fresh = FALSE
    Verbose = TRUE
    Drift = 1
    MaxStale = 1
    MaxRun = 1
    MaxFaults = 1
INVARIANTS
    TypeOK
    StaysQueued
    OneAtATime
PROPERTIES
    RunsApart
    KeepsRunning
