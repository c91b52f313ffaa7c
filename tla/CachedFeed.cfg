CONSTANTS
    Book = {b1}
    Item = {list}
    ChapterList = list
    UserTable = {}
    Url = {u1}
    Allowed = {u1}
    None = None
    Task = {t1, t2}
    InflightRetry = 1
    FailedRetry = 2
    ListTTL = 1
    StaleAge = 0
    MaxCache = 0
    EvictChunk = 1
    CleanupThrottle = 1
    MaxNow = 2
SYMMETRY Symmetry
SPECIFICATION Spec
INVARIANTS SingleFlight GateHolds
PROPERTIES UrlChangeDropsBytes
