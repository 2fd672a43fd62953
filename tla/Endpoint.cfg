CONSTANTS
    SeqCount = 3
    TimeHalf = 6
    LastSecond = 3
    Tmax = 2
    Th = 2
    AppData = {d1}
    SntValues = {2}
    CtsValues = {1, 3}
    Arriving <- MCArriving
SPECIFICATION FairSpec
INVARIANTS
    TypeOK
    TiBalanced
    ConfirmsLastTaken
PROPERTIES
    NumbersStepByOne
    CtsNeverRegresses
    WaitingEnds
    SilenceCloses
