\* Two devices copying one text while one of them re-keys once; room for two
\* rows, one pin, two instants, pages of one row.
CONSTANTS
    d1 = d1
    d2 = d2
    t1 = t1
    Devices = {d1, d2}
    Copiers = {d1, d2}
    Rekeyers = {d1}
    Texts = {t1}
    ClipIds <- TwoIds
    NoCursor = NoCursor
    MaxPins = 1
    PageSize = 1
    MaxEpoch = 1
    MaxClock = 1
SPECIFICATION FairSpec
INVARIANTS
    OneRowPerKey
    KeysNeverRunAhead
PROPERTIES
    CopiesSettle
    WalksEnd
    ImplementsHistory
    OnlyOvertakenWritesSpoil
