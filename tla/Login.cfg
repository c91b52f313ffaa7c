CONSTANTS
    Op = {"page", "comments", "status"}
    Verifier = "status"
    Kind <- Kinds
    None = None
    PromptCap = 1
    Id = {1, 2}
    CacheKey = {k1}
    Auth = {good, bad}
    Valid = {good}
    Inst = {1, 2}
    HasAuthStatus = {1}
    MaxSteps = 1
    MaxRetries = 1
    MaxCached = 1
    Casts <- AllCasts
SPECIFICATION MCFairSpec
INVARIANTS PromptsAnswered CachedOnce SessionKept
PROPERTIES OperationsEnd LoginEnds
