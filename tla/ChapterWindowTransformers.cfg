CONSTANTS
    ChapterId = {1, 2, 3, 4, 5}
    Lists <- Five
    ReanchorDistance = 3
    KeepAdjacent = 1
    MaxWindow = 8
    CacheCap = 24
    Changes = {"transformers"}
    Refreshable = {1, 2, 3}
    MaxVersion = 1
    MaxSame = 2
SPECIFICATION Spec
INVARIANTS NoStaleParagraphs
