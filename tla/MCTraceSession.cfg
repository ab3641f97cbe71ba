SPECIFICATION SessionSpec
CONSTANTS
    Args = {a}
    CacheSize = 2
    MaxCalls = 3
    MaxTraces = 2
    MaxQueue = 1
    MaxStarts = 3
INVARIANTS
    SameBuffer CaughtSafely NothingLeft
    SameDecision MatchedOwn RobberExplained
CHECK_DEADLOCK FALSE
