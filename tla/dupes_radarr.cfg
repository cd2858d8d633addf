SPECIFICATION Spec
CONSTANTS
    r1 = r1
    r2 = r2
    r3 = r3
    Releases = {r1, r2}
    Episodes = {1}
    Covers <- MovieCovers
    Score <- MovieScore
    Passes = {"grab", "daily"}
    KeeperGate = TRUE
    QueueLag = TRUE
    RequestsFail = TRUE
INVARIANT TypeOK
PROPERTY KeeperStays
