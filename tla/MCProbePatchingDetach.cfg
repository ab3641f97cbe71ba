SPECIFICATION PatchSpec
CONSTANTS
    Functions = {f1, f2}
    Threads = {}
    NSlots = 2
    NPools = 2
    MaxDetaches = 1
    MaxFailures = 0
    Nowhere = Nowhere
INVARIANT DisabledRestored
SYMMETRY PatchSymmetry
