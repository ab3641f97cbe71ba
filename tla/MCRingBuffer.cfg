SPECIFICATION FairSpec
CONSTANTS
    Producers = {p1, p2}
    Capacity = 2
    NWords = 1
    OrderedStores = TRUE
    MaxSeq = 4
    MaxReadErrors = 1
INVARIANTS Accounting IntactUnlessLapped OverwrittenIsLapped
PROPERTIES ImplementsEventLog EventuallyPassed
CHECK_DEADLOCK FALSE
