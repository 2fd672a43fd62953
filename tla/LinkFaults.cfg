CONSTANTS
    SeqCount = 16
    TimeHalf = 8
    LastSecond = 4
    Tmax = 3
    Th = 1
    d1 = d1
    d2 = d2
    AppData <- MCAppData
    SntValues <- MCSntValues
    Script <- MCClientSends
    Lossy = TRUE
    Duplicating = TRUE
    Reordering = TRUE
    Boot = 4
    Lead = 1
    MaxClock = 1
    MaxOpens = 1
    MaxSends = 2
    Cap = 2
SPECIFICATION Spec
INVARIANTS
    TypeOK
PROPERTIES
    InOrderDelivery
    GapIsFatal
