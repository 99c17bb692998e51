SPECIFICATION Spec
CONSTANTS
    Drivers = {d1, d2}
    Updates = {u1, u2, u3}
    Removals = {x1}
    Queries = {q1}
    Nearby = {u1, u2}
    MaxFound = 1
    MaxRetries = 1
    Faults = TRUE
    None = None
SYMMETRY Symmetry
INVARIANTS
    TypeOK
    SettledAgree
    RecordWasHandedOver
    SteadyFoundNearby
