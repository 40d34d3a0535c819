\* Two clips, of which one or both are stored at first; pages of one row.
CONSTANTS
    Clips = {1, 2}
    PageSize = 1
    MaxEpoch = 1
    MaxWrites = 1
    MaxActs = 2
    MaxLoads = 2
    MaxFails = 1
SPECIFICATION FairSpec
PROPERTIES UndoneStays DeletesReach LooksConverge
CHECK_DEADLOCK FALSE
