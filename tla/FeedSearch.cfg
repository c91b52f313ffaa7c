CONSTANTS
    Stream = {s1, s2}
    Feed = {f1, f2}
    Capacity = 1
    Limit = 2
    MaxItems = 2
    None = None
    Permits = 1
    Drained = {s1}
SPECIFICATION MCSpec
INVARIANTS StreamTruth ErrorsReported
PROPERTIES CancelSettles DrainedEnds
CHECK_DEADLOCK FALSE
