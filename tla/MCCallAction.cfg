SPECIFICATION ActionSpec
CONSTANTS
    Threads = {t1}
    Probes = {1, 3}
    Cap = 2
    OrderedLoads = TRUE
    MaxEpoch = 2
    MaxFailures = 1
INVARIANTS WholeAction Fresh Agreement
PROPERTY OthersUntouched
