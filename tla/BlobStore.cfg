\* Two uploads of one file by one account, one of them of two chunks, with room
\* for one at a time; one is prompt, the other may be given up or swept while
\* it goes on; one deletion or statement fails.
CONSTANTS
    a1 = a1
    b1 = b1
    b2 = b2
    f1 = f1
    Accounts = {a1}
    Files = {f1}
    Blobs = {b1, b2}
    Owner <- PairOwner
    MaxChunks = 2
    Handler = Handler
    Cron = Cron
    Ceiling = 3
    Quota = 3
    PutBudget = 4
    PutLimit = 3
    MaxTries = 1
    MaxVictims = 1
    Prompt = {b1}
    MaxFailures = 1
SPECIFICATION FairSpec
CHECK_DEADLOCK FALSE
INVARIANTS
    WholeClips
    ObjectsHaveRows
    RoomHolds
PROPERTIES
    UploadsEnd
    OrphansSwept
