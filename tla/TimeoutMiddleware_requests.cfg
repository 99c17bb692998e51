SPECIFICATION MCSpec
CONSTANTS
    Requests = {r1, r2}
    Failures = {500}
    NoStatus = NoStatus
    Programs = {"requests", "service"}
INVARIANTS
    AnswersTrue
    LossNeedsCause
PROPERTIES
    EveryWaitEnds
