SPECIFICATION Spec
CONSTANTS
    Task = {t1}
    NoTask = NoTask
    MaxNonce = 6
    StartCounters = {0}
    GivenNonces = {2}
    MaxGroups = 2
    BatchFunctions = {"batch"}
    TxValidity = 0
    MaxHeight = 1
    MaxSubmissions = 2
INVARIANT SuccessMeansExecuted
CHECK_DEADLOCK FALSE
