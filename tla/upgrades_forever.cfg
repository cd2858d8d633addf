SPECIFICATION Spec
CONSTANTS
    Size <- MoreSize
    HasFile <- MoreHasFile
    Recent <- RecentItems
    BATCH = 2
    QUOTA = 1
    WINDOW = 2
    Grabs = 2
    Manuals = 0
    Crashes = 1
INVARIANT Ledger
PROPERTY EveryItemSearched
