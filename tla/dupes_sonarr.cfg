SPECIFICATION FairSpec
CONSTANTS
    r1 = r1
    r2 = r2
    r3 = r3
    Releases = {r1, r2, r3}
    Episodes = {1, 2, 3}
    Covers <- SeasonCovers
    Score <- SeasonScore
    Passes = {"grab", "daily"}
    KeeperGate = FALSE
    QueueLag = FALSE
    RequestsFail = FALSE
PROPERTY KeeperStays
PROPERTY DuplicateDropped
