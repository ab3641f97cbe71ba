SPECIFICATION FairThreadSpec
CONSTANTS
    NThreads = 2
    Capacity = 2
    MaxPasses = 3
    MaxSignals = 0
PROPERTY WaitEnds
CHECK_DEADLOCK FALSE
