SPECIFICATION Spec
CONSTANTS
    Torrents = {t1}
    Workers = {w1, w2}
    SeedFloor = 2
    MaxSeed = 2
SYMMETRY WorkerSymmetry
INVARIANT TypeOK
INVARIANT LibraryFilesSurvive
PROPERTY ObligationKept
PROPERTY KeepsPromise
INVARIANT CallsStayValid
