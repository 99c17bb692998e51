SPECIFICATION MCSpec
CONSTANTS
    Drivers = {d1, d2}
    Searches = {s1}
    close = close
    far = far
    across = across
    Places <- MCPlaces
    InBucket <- MCInBucket
    Distance <- MCDistance
    Limit = 1
    Stale = 1
    Interval = 2
    MaxTime = 5
    None = None
    Spans = {t1, t2, t3}
    Names = {n1, n2}
    Latencies = {"low"}
    Capacity = 2
    SamplePeriod = 1
    MaxSpanTime = 2
    Limits <- MCLimits
    AttributeLists <- MCAttributes
    StartLinks <- MCStartLinks
    Empty = Empty
    PZero = 4
    Depth = 6
    Fractions <- MCFractions
    TraceStates <- MCTraceStates
    Malformed = Malformed
    SizeLimit = 3
    MaxSpans = 3
\* spans and traces come to an end
CHECK_DEADLOCK FALSE
SYMMETRY Symmetry
INVARIANTS
    LocationsSound
    PagesSound
    SpanSound
    SamplingSound
