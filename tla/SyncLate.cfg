\* One device, revoked while it connects.
CONSTANTS
    d1 = d1
    d2 = d2
    NoConn = NoConn
    Devices = {d1, d2}
    Conns = {1, 2, 3}
    owner <- TwoAndOne
    MaxDrops = 0
    MaxClips = 0
    Revocable = {d1}
    Closable = {}
SPECIFICATION Spec
INVARIANT CutOffWhenAnswered
CHECK_DEADLOCK FALSE
