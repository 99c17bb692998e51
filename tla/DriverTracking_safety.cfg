SPECIFICATION Spec
CONSTANTS
    Drivers = {d1}
    Updates = {u1, u2}
    Window = 2
    DriverRetries = 0
    AnalyzerRetries = 1
    Faults = TRUE
    None = None
SYMMETRY Symmetry
INVARIANTS
    TracksSound
PROPERTIES
    LogSafe
