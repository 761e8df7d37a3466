SPECIFICATION Spec
CONSTANTS
    Pollers = {p1, p2}
    Msgs = {m1, m2, m3, m4, m5}
    NoMsg = NoMsg
    Hours <- MCHourly
    Every = Every
    Never = Never
    Hour = 2
    HoursPerDay = 2
    Wait = 1
    VTimeout = 2
    Fresh = TRUE
    Verbose = FALSE
    Drift = 0
    MaxStale = 1
    MaxRun = 3
    MaxFaults = 1
INVARIANTS
    StaysQueued
