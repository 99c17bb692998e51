SPECIFICATION MCSpec
CONSTANTS
    Drivers = {d1, d2}
    Updates = {u1, u2}
    Window = 2
    DriverRetries = 0
    AnalyzerRetries = 0
    Faults = FALSE
    None = None
    Few = {u1}
    Probes = {p1, p2}
    MaxLoads = 2
    MaxRuns = 2
    MaxCloses = 1
    MaxConfigs = 1
\* the manager may be left alone for ever
CHECK_DEADLOCK FALSE
INVARIANTS
    CalmTracks
    ManagerSound
PROPERTIES
    EverythingEnds
