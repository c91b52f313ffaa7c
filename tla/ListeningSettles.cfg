SPECIFICATION Spec
CONSTANTS
    Book = {b1}
    Task = {t1, t2}
    None = None
    NC = 2
    NP = 2
    Empty = {}
    Ops = {"start", "pause", "resume", "move", "configure", "atEnd", "read", "throw"}
    MaxOps = 4
PROPERTIES Settles ResumesAtProgress
CHECK_DEADLOCK FALSE
