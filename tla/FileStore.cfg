CONSTANTS
    a = a
    b = b
    Jobs = {a, b, c}
    Nodes = {n1, n2}
    NoNode = NoNode
    FetchSize = 2
    MaxRetries <- MCMaxRetries
    MinRetryWait = 0
    Unresolvable = {b}
    Faults = {"crash", "lostFetch", "torn", "ioError"}
    MaxTime = 2
SPECIFICATION Spec
INVARIANTS
    TypeOK
PROPERTIES
    ImplementsLifecycle
    OnlyHolderMoves
    DamageIsNoticed
CHECK_DEADLOCK FALSE
