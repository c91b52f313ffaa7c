CONSTANTS
    Book = {b1, b2}
    Item = {c1}
    ChapterList = list
    UserTable = {"reading_progress", "bookmarks"}
    Url = {}
    Allowed = {}
    None = None
    Task = {t1}
    InflightRetry = 1
    FailedRetry = 1
    ListTTL = 0
    StaleAge = 0
    MaxCache = 0
    EvictChunk = 1
    CleanupThrottle = 1
    MaxNow = 1
SYMMETRY Symmetry
SPECIFICATION Spec
INVARIANTS ReferentialIntegrity
PROPERTIES ShelfKept UserDataKept TraceHasCause
