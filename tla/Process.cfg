CONSTANTS
    MAX_CONNECTIONS = 2
    SeqCount = 2
    TimeHalf = 4
    LastSecond = 1
    Tmax = 2
    Th = 2
    a1 = a1
    a2 = a2
    d1 = d1
    NULL = NULL
    AppData = {d1}
    SntValues = {1}
    Instance = {"Rass", "Sic"}
    Array = {a1, a2}
    Configs <- MCConfigs
    Arriving <- MCArriving
SPECIFICATION Spec
CHECK_DEADLOCK FALSE
INVARIANTS
    NoNullCall
    OpenOpens
PROPERTIES
    InitKeepsOpen
