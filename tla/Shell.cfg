CONSTANTS
    Queues = {q1, q2}
    NoQueue = NoQueue
    Faults = {"configureTimeout", "shutdownTimeout"}
SPECIFICATION Spec
INVARIANTS
    TypeOK
    PulsesAreControlled
    PooledIsAlive
    TerminatesDrained
    StrandedOnlyByThrow
CHECK_DEADLOCK FALSE
