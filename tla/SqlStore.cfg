CONSTANTS
    a = a
    b = b
    Jobs = {a, b}
    Nodes = {n1, n2}
    NoNode = NoNode
    LockGuids = {g1, g2, g3}
    NoLock = NoLock
    FetchSize = 2
    LeaseTimeout = 1
    MaxRetries <- MCMaxRetries
    MinRetryWait = 1
    DoNotExecuteBefore <- MCDoNotExecuteBefore
    Children <- MCChildren
    Unresolvable = {b}
    PurgeStates = {"Failed"}
    Faults = {"crash", "lostFetch", "dropOutcome"}
    MaxTime = 3
SPECIFICATION Spec
INVARIANTS
    TypeOK
    ExclusiveHolder
    HeldAgreesWithStore
    RetryBudget
PROPERTIES
    TerminalIsFinal
    NoEarlyHandOut
    FetchedComplete
    ImplementsLifecycle
SYMMETRY Symmetry
CHECK_DEADLOCK FALSE
