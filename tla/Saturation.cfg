CONSTANTS
    WorkerCount = 2
    AggressiveSweeps = {TRUE, FALSE}
    MaxSweeps = 3
SPECIFICATION FairSpec
INVARIANTS
    TypeOK
PROPERTIES
    ImplementsBag
    PlainSaturationEnds
    ShutdownCompletes
CHECK_DEADLOCK FALSE
