SPECIFICATION Spec
CONSTANTS
    Grabs = 3
    Imports = 2
    Clients = {c1, c2}
    MaxCount = 3
    Changes = 1
    Queued = {1, 2, 3}
    Entries = 5
    Weeks = 3
    Ticks = 2
    Releases = {1, 2, 3, 4}
    Episodes = {1, 2, 3}
    Covers <- SeasonCovers
    Named <- SeasonNames
    PackCodec <- SeasonCodec
    Parts <- SeasonFiles
    Arrivals = 2
    Lookups = 1
    Zips = {1, 2, 3}
    Limits = {0, 2}
    Pollers = {1, 2}
    Wants = {{1}, {1, 2}}
    SNAPSHOT_TTL = 1
    SEED_WEEKS = 2
    MaxUpload = 1
    Routes = {"route"}
    Torrents = {1, 2}
    NoTorrent = 0
    Codec <- PairCodec
    Repack <- PairRepack
    Big = {2}
INVARIANT TypeOK
INVARIANT ReadyHasFile
INVARIANT LanesHold
INVARIANT EvidenceKept
PROPERTY CurrentKept
PROPERTY QuietForAWeek
PROPERTY FirstLeads
PROPERTY ServedIsCurrent
PROPERTY KeeperSpared
CHECK_DEADLOCK FALSE
