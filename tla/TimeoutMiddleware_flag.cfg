SPECIFICATION MCSpec
CONSTANTS
    Requests = {r1}
    Failures = {500}
    NoStatus = NoStatus
    Programs = {"requests"}
INVARIANTS
    SilenceMeansAnswered
