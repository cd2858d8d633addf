SPECIFICATION Spec
CONSTANTS
    Torrents = {t1}
    Superseders = {s1, s2}
    Removers = {"cleanup", "purge"}
    Bystander = TRUE
    RequestsFail = FALSE
    Hardlinks = TRUE
    SeedFloor = 1
    MaxSeed = 1
    PurgeQueuedMaxBatch = 5
SYMMETRY SupersederSymmetry
INVARIANT TypeOK
INVARIANT SupersededUncapped
