SPECIFICATION Spec
CONSTANTS
    Book = {b1, b2}
    Task = {t1, t2}
    None = None
    NC = 2
    NP = 2
    Empty = {}
    Ops = {"start", "pause"}
    MaxOps = 3
SYMMETRY Symmetry
INVARIANT HiddenIsSilent
CHECK_DEADLOCK FALSE
