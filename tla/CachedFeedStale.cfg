CONSTANTS
    Book = {b1}
    Item = {}
    ChapterList = list
    UserTable = {}
    Url = {u1, u2}
    Allowed = {u1, u2}
    None = None
    Task = {t1, t2}
    InflightRetry = 1
    FailedRetry = 1
    ListTTL = 0
    StaleAge = 0
    MaxCache = 0
    EvictChunk = 1
    CleanupThrottle = 1
    MaxNow = 1
SYMMETRY Symmetry
SPECIFICATION Spec
INVARIANTS NoStaleBytes
