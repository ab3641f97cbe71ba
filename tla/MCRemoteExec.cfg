SPECIFICATION FairRemoteSpec
CONSTANTS
    NThreads = 3
    Capacity = 2
    MaxPasses = 3
    MaxSignals = 2
    Isas = {"x86_64", "aarch64"}
INVARIANTS MissedExplained MarkedStopped NoneForgotten SignalsKept ExitTrue DetachFrees GivenBack HarmExplained
PROPERTIES WaitEndsOrExited EventsNoticed
CHECK_DEADLOCK FALSE
