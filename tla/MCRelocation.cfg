SPECIFICATION RelocSpec
CONSTANTS
    X86PatchLen = 5
    A64PatchLen = 11
    DispMax = 48
    Half = 4
    TrampolineSize = 96
    Fn = 16
    TextEnd = 36
    Tr = 64
    Callee = 192
    EntryStub = 208
    Caller = 4
    ProbeId = 5
    MaxInsns = 4
    Near = 40
    Far = 240
    Programs <- MCPrograms
INVARIANTS SameMeaning ScratchKept InsideSlot
PROPERTIES ReportsEntry
CHECK_DEADLOCK FALSE
