\* Two devices; one is revoked, the other's page may be closed.  Three
\* connections, so that one of a device may overlap the next.
CONSTANTS
    d1 = d1
    d2 = d2
    NoConn = NoConn
    Devices = {d1, d2}
    Conns = {1, 2, 3}
    owner <- TwoAndOne
    MaxDrops = 1
    MaxClips = 1
    Revocable = {d1}
    Closable = {d2}
SPECIFICATION FairSpec
INVARIANTS PresenceConverges RevokedIsCutOff
PROPERTIES RevokedLearns
CHECK_DEADLOCK FALSE
