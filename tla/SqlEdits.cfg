CONSTANTS
    a = a
    Jobs = {a}
    Nodes = {n1, n2}
    LockGuids = {g1, g2, g3}
    NoLock = NoLock
    FetchSize = 1
    LeaseTimeout = 0
    MaxRetries <- MCMaxRetries
    MinRetryWait = 0
    DoNotExecuteBefore <- MCDoNotExecuteBefore
    Children <- MCChildren
    Unresolvable = {}
    PurgeStates = {"Failed"}
    Faults = {"crash"}
    MaxTime = 2
    NoStatus = NoStatus
    OldStatuses = {NoStatus, "Failed"}
    NewStatuses = {NoStatus, "New", "Failed"}
    RowPiece = RowPiece
    Ordinals <- MCOrdinals
    EditedOrdinals = {1}
    MaxEdits = 2
SPECIFICATION EditSpec
INVARIANTS
    EditsKeepExclusiveHolder
PROPERTIES
    RequeuedIsWhole
SYMMETRY Symmetry
CHECK_DEADLOCK FALSE
