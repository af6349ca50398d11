CONSTANTS
    a = a
    b = b
    Jobs = {a, b}
    NoJob = NoJob
    WorkerCount = 1
    MaxRetries <- MCMaxRetries
    Unresolvable = {}
    AggressiveSweep = TRUE
    MaxSweeps = 1
    MaxAsks = 2
    Faults = {"lostFetch", "dropInProgress", "dropOutcome"}
SPECIFICATION FairSpec
INVARIANTS
    Backpressure
    PendingIsInFlight
PROPERTIES
    ShutdownCompletes
CHECK_DEADLOCK FALSE
