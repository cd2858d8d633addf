SPECIFICATION FairSpec
CONSTANTS
    Torrents = {t1}
    Superseders = {s1}
    Removers = {"cleanup"}
    Bystander = TRUE
    RequestsFail = TRUE
    Hardlinks = FALSE
    SeedFloor = 1
    MaxSeed = 1
    PurgeQueuedMaxBatch = 5
PROPERTY SupersededReaped
PROPERTY MovedAsRead
