CONSTANTS
    a = a
    b = b
    Jobs = {a, b}
    NoJob = NoJob
    WorkerCount = 2
    MaxRetries <- MCMaxRetries
    Unresolvable = {}
    AggressiveSweep = FALSE
    MaxSweeps = 1
    MaxAsks = 1
    Faults = {}
SPECIFICATION Spec
INVARIANTS
    CompletedJobsMarked
CHECK_DEADLOCK FALSE
