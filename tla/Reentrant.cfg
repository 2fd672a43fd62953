CONSTANTS
    SeqCount = 3
    TimeHalf = 6
    LastSecond = 3
    Tmax = 2
    Th = 2
    AppData = {d1}
    SntValues = {2}
    MaxDepth = 3
    Arriving <- MCArriving
SPECIFICATION Spec
INVARIANTS
    HandlerOfState
    CloseCloses
