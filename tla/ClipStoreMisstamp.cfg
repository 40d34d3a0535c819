\* Two devices re-key one text's history in turn.
CONSTANTS
    d1 = d1
    d2 = d2
    t1 = t1
    Devices = {d1, d2}
    Copiers = {d1}
    Rekeyers = {d1, d2}
    Texts = {t1}
    ClipIds <- TwoIds
    NoCursor = NoCursor
    MaxPins = 0
    PageSize = 1
    MaxEpoch = 2
    MaxClock = 0
SPECIFICATION Spec
PROPERTIES
    ReencryptedUnderItsEpoch
