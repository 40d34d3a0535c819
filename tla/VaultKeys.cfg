SPECIFICATION Spec
CONSTANTS
    d1 = d1  d2 = d2  d3 = d3
    Devices = {d1, d2, d3}
    Enrolled = {d1, d2}
    Registered = {d1}
    Passes = {p, q}
    Does <- DoesAll
    NoKey = NoKey  NoCopy = NoCopy  NoPass = NoPass
    NoWrap = NoWrap  NoRecovery = NoRecovery
    LostRacesCollide = TRUE
    OffersStayCurrent = TRUE
    MaxEpoch = 1
    MaxKeys = 2
    MaxPairs = 2
    MaxRecoveries = 1
    MaxTasks = 3
INVARIANTS
    KeysAgree
    ProofOpensVault
PROPERTIES
    ImplementsVault
    RekeysReach
CHECK_DEADLOCK FALSE
