\* A device that joins with the key another one handed it, across a re-key.
SPECIFICATION Spec
CONSTANTS
    d1 = d1  d2 = d2  d3 = d3
    Devices = {d1, d2, d3}
    Enrolled = {d1, d2}
    Registered = {d1, d2}
    Passes = {p, q}
    Does <- OffersAndRekeys
    NoKey = NoKey  NoCopy = NoCopy  NoPass = NoPass
    NoWrap = NoWrap  NoRecovery = NoRecovery
    LostRacesCollide = TRUE
    OffersStayCurrent = FALSE
    MaxEpoch = 1
    MaxKeys = 2
    MaxPairs = 3
    MaxRecoveries = 0
    MaxTasks = 4
INVARIANTS
    RingsAgree
CHECK_DEADLOCK FALSE
