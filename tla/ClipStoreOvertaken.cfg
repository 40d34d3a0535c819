\* Two devices copying two texts while one of them re-keys and re-encrypts.
CONSTANTS
    d1 = d1
    d2 = d2
    t1 = t1
    t2 = t2
    Devices = {d1, d2}
    Copiers = {d1, d2}
    Rekeyers = {d1}
    Texts = {t1, t2}
    ClipIds <- TwoIds
    NoCursor = NoCursor
    MaxPins = 0
    PageSize = 1
    MaxEpoch = 1
    MaxClock = 0
SPECIFICATION Spec
INVARIANTS
    KeyEpochNamesKey
