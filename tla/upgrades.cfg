SPECIFICATION Spec
CONSTANTS
    Size <- FewSize
    HasFile <- FewHasFile
    Recent <- RecentItems
    BATCH = 1
    QUOTA = 1
    WINDOW = 1
    Grabs = 1
    Manuals = 1
    Crashes = 0
INVARIANT TypeOK
PROPERTY NoResnatch
