CONSTANTS
    a = a
    b = b
    Jobs = {a, b, c}
    NoJob = NoJob
    Node = Node
    NoNode = NoNode
    WorkerCount = 2
    MaxRetries <- MCMaxRetries
    Unresolvable = {b}
    AggressiveSweep = FALSE
    MaxSweeps = 1
    MaxAsks = 1
    Faults = {"lostFetch", "giveUp"}
SPECIFICATION Spec
INVARIANTS
    TypeOK
    PendingIsInFlight
    NoJobTwice
    DrainedStoreIsCurrent
    QuietAfterAnswer
PROPERTIES
    OutcomeFollowsInProgress
    ImplementsLifecycle
CHECK_DEADLOCK FALSE
