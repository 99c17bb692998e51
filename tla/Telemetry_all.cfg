SPECIFICATION MCSpec
CONSTANTS
    N = 23
    Capacity = 4
    Batch = 3
    K = 3
    Processes = {p1, p2, p3}
    MaxValues = 2
    Messages = {m1, m2, m3}
    None = None
    NoSpan = NoSpan
    Pending = 2
    MaxMessages = 2
\* every program comes to its end
CHECK_DEADLOCK FALSE
INVARIANTS
    LinesSafe
    AggregatesSound
    ProducerSound
    StreamSound
PROPERTIES
    EveryProgramEnds
