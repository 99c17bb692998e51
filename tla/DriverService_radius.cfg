SPECIFICATION Spec
CONSTANTS
    Drivers = {d1}
    Updates = {u1, u2}
    Removals = {}
    Queries = {q1}
    Nearby = {u1}
    MaxFound = 1
    MaxRetries = 0
    Faults = FALSE
    None = None
SYMMETRY Symmetry
INVARIANTS
    FindsWithinRadius
