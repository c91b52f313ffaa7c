SPECIFICATION Spec
CONSTANTS
    Book = {b1, b2}
    Task = {t1, t2, t3}
    None = None
    NC = 2
    NP = 2
    Empty = {1}
    Ops = {"start", "startHere", "pause", "resume", "stop", "move", "configure", "timer", "atEnd", "read", "open", "throw"}
    MaxOps = 4
SYMMETRY Symmetry
ACTION_CONSTRAINT Places
INVARIANTS ActiveIsDriven SpokenIsRecorded ContentOfChapter OneListening PauseIsKept
CHECK_DEADLOCK FALSE
