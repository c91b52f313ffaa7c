CONSTANTS
    Feed = {"f"}
    Script <- Scripts
    Key = {k1}
    Value = {v1}
    Url = {u1}
    None = None
    Slot = {1, 2}
    Runnable = {"plain", "early"}
    EarlyWriter = {"early"}
    Keep = 1
    PendingCap = 1
    MaxQueue = 2
    MaxAttempts = 2
SPECIFICATION Spec
INVARIANTS OneDatabase RegistryAgrees ActiveScriptKept CacheSettles
PROPERTIES UserStateKept WriteThroughImplemented
