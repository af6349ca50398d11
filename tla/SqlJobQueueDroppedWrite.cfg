CONSTANTS
    a = a
    b = b
    Jobs = {a}
    Nodes = {n1}
    LockGuids = {g1, g2, g3, g4}
    NoLock = NoLock
    FetchSize = 1
    LeaseTimeout = 1
    MaxRetries <- MCMaxRetries
    MinRetryWait = 1
    DoNotExecuteBefore <- MCDoNotExecuteBefore
    Children <- MCChildren
    Unresolvable = {}
    PurgeStates = {}
    Faults = {"dropInProgress"}
    MaxTime = 6
SPECIFICATION Spec
PROPERTIES
    SucceededNotPickedUpAgain
SYMMETRY Symmetry
CHECK_DEADLOCK FALSE
