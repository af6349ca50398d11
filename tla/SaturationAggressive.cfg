CONSTANTS
    WorkerCount = 1
    AggressiveSweeps = {TRUE}
    MaxSweeps = 2
SPECIFICATION FairSpec
PROPERTIES
    SaturationEnds
CHECK_DEADLOCK FALSE
