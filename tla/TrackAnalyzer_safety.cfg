SPECIFICATION MCSpec
CONSTANTS
    Drivers = {d1}
    Saves = {s1, s2, s3}
    Window = 2
    MaxRetries = 1
    Faults = TRUE
    None = None
    Places <- MCPlaces
    Distance <- MCDistance
    Times = {0, 3995, 7200}
    MaxPoints = 3
    NaN = NaN
    PerKilometre = 1
    Points = {p1, p2}
    Numbers = {2, 3, 7, 40}
    MaxInt = 31
    Milli = 4
    NotInt = NotInt
    MaxSets = 3
SYMMETRY Symmetry
INVARIANTS
    TypeOK
    MissedOnlyByOverlap
    OwnPointLostOnlyToOverlap
    AnalysisSound
    DelaysSound
PROPERTIES
    RegressOnlyByOverlap
