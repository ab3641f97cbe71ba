SPECIFICATION SessionSpec
CONSTANTS
    Args = {a}
    CacheSize = 2
    MaxCalls = 2
    MaxTraces = 1
    MaxQueue = 1
    MaxStarts = 1
INVARIANT ResumesCaller
CHECK_DEADLOCK FALSE
