CONSTANTS
    ChapterId = {1, 2, 3}
    Lists <- Refreshed
    ReanchorDistance = 1
    KeepAdjacent = 0
    MaxWindow = 2
    CacheCap = 1
    Changes = {"chapters", "transformers", "refresh"}
    Refreshable = {1, 3}
    MaxVersion = 1
    MaxSame = 1
SPECIFICATION Spec
INVARIANTS WindowCovered FreshUnlessMissed
PROPERTIES TrimSpares LoadingSettles
