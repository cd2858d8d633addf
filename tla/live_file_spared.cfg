SPECIFICATION Spec
CONSTANTS
    Releases = {1, 2, 3, 4}
    Episodes = {1, 2, 3}
    Covers <- SeasonCovers
    Named <- SeasonNames
    Codec <- SeasonCodec
    Files <- SeasonFiles
    Imports = 2
    Fails = 0
PROPERTY LiveFileSpared
CHECK_DEADLOCK FALSE
