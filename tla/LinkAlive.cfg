CONSTANTS
    SeqCount = 16
    TimeHalf = 8
    LastSecond = 4
    Tmax = 3
    Th = 1
    d1 = d1
    d2 = d2
    AppData <- MCAppData
    SntValues <- MCSntValues
    Script <- MCNobodySends
    Lossy = FALSE
    Duplicating = FALSE
    Reordering = FALSE
    Boot = 0
    Lead = 1
    MaxClock = 4
    MaxOpens = 1
    MaxSends = 0
    Cap = 3
SPECIFICATION Spec
PROPERTIES
    HeardIsAlive
