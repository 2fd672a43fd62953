CONSTANTS
    SeqCount = 3
    TimeHalf = 6
    LastSecond = 3
    Tmax = 2
    Th = 2
    d1 = d1
    AppData = {d1}
    SntValues = {2}
    CtsValues = {1, 2}
    Arriving <- MCArriving
SPECIFICATION IntakeSpec
INVARIANTS
    VersionPresent
