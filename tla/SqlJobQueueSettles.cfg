CONSTANTS
    a = a
    b = b
    Jobs = {a, b}
    Nodes = {n1}
    LockGuids = {g1, g2, g3}
    NoLock = NoLock
    FetchSize = 1
    LeaseTimeout = 1
    MaxRetries <- MCMaxRetries
    MinRetryWait = 0
    DoNotExecuteBefore <- MCDoNotExecuteBefore
    Children <- MCChildren
    Unresolvable = {}
    PurgeStates = {}
    Faults = {"lostFetch"}
    MaxTime = 4
SPECIFICATION FairSpec
PROPERTIES
    EveryJobSettles
CHECK_DEADLOCK FALSE
