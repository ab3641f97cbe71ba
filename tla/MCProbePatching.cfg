SPECIFICATION PatchSpec
CONSTANTS
    Functions = {f1, f2}
    Threads = {t1}
    NSlots = 2
    NPools = 2
    MaxDetaches = 1
    MaxFailures = 1
    Nowhere = Nowhere
INVARIANTS PatchTypeOK DerailExplained TableTrue PoolExact
SYMMETRY PatchSymmetry
