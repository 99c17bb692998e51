SPECIFICATION MCSpec
CONSTANTS
    MinRate = 1
    MaxRate = 4
    InitialRate = 4
    Up = 150
    Down = 50
    MaxMinute = 1
    MaxVisits = 2
    Alerts = {a1, a2, a3}
    Calls = {c1, c2}
    Capacity = 2
    MaxQuota = 1
    Requests = {r1, r2}
    Operations = {"a", "b"}
    MaxOperations = 1
    Strategies <- MCStrategies
    MaxTime = 1
    MaxPolls = 2
    MaxFetches = 2
    Loop = 50
    Interval = 20
    Timeout = 20
    MaxRequests = 1
    MinRequests = 10
    Ratio = 30
    Pause = 40
\* alerts, calls and polls may come to an end
CHECK_DEADLOCK FALSE
INVARIANTS
    LimitKept
    AlertsSound
    XRaySound
    JaegerSound
PROPERTIES
    FollowsErrors
    BreakerSound
    JaegerCloses
