CONSTANTS
    SeqCount = 16
    TimeHalf = 8
    LastSecond = 4
    Tmax = 3
    Th = 1
    d1 = d1
    d2 = d2
    AppData <- MCAppData
    SntValues <- MCSntValues
    Script <- MCEitherSends
    Lossy = FALSE
    Duplicating = FALSE
    Reordering = FALSE
    Boot = 4
    Lead = 1
    MaxClock = 1
    MaxOpens = 2
    MaxSends = 1
    Cap = 4
SPECIFICATION DeliveringSpec
INVARIANTS
    NoNeedlessRequest
    NumbersAgree
PROPERTIES
    HandshakeCompletes
