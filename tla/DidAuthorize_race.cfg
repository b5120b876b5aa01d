SPECIFICATION Spec
CONSTANTS
    Task = {t1, t2}
    NoTask = NoTask
    MaxNonce = 6
    StartCounters = {0, 6}
    GivenNonces = {2}
    MaxGroups = 2
    BatchFunctions = {"batch", "batchAll", "forceBatch"}
    TxValidity = 0
    MaxHeight = 1
    MaxSubmissions = 2
SYMMETRY TaskSymmetry
INVARIANTS TypeOK StaleNonceForCause ExecutesInOrder AtomicSuccessMeansExecuted BatchNoncesFollow
CHECK_DEADLOCK FALSE
