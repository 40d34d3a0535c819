\* A device that is revoked while it re-keys loses the race to another one, for
\* which it had no keypair to seal to.
SPECIFICATION Spec
CONSTANTS
    d1 = d1  d2 = d2  d3 = d3
    Devices = {d1, d2, d3}
    Enrolled = {d1, d2}
    Registered = {d1}
    Passes = {p, q}
    Does <- RekeysBoth
    NoKey = NoKey  NoCopy = NoCopy  NoPass = NoPass
    NoWrap = NoWrap  NoRecovery = NoRecovery
    LostRacesCollide = FALSE
    OffersStayCurrent = TRUE
    MaxEpoch = 1
    MaxKeys = 3
    MaxPairs = 3
    MaxRecoveries = 0
    MaxTasks = 4
PROPERTIES
    LostRaceWritesNothing
CHECK_DEADLOCK FALSE
