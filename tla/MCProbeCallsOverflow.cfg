SPECIFICATION CallSpec
CONSTANTS
    Threads = {t1}
    Probes = {1, 2}
    ActionProbes = {1}
    Signals = FALSE
    Unwinds = FALSE
    MaxSaved = 2
    MaxDepth = 4
    MaxCalls = 4
INVARIANT Transparent
CHECK_DEADLOCK FALSE
