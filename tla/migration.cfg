SPECIFICATION Spec
CONSTANTS
    Packs = {1, 2}
    Workers = {w1, w2}
    Batch = 2
    Faults = {"copy", "request", "timeout", "error", "restart"}
SYMMETRY WorkerSymmetry
INVARIANT TypeOK
INVARIANT LibraryKept
INVARIANT CappedUntilSeeding
INVARIANT OneInCharge
