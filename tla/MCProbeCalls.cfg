SPECIFICATION CallSpec
CONSTANTS
    Threads = {t1}
    Probes = {1, 2}
    ActionProbes = {1}
    Signals = TRUE
    Unwinds = TRUE
    MaxSaved = 2
    MaxDepth = 5
    MaxCalls = 6
INVARIANTS StrayExplained ReturnPaired Balanced NoNestedAction
CHECK_DEADLOCK FALSE
