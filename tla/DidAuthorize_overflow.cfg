SPECIFICATION Spec
CONSTANTS
    Task = {t1}
    NoTask = NoTask
    MaxNonce = 6
    StartCounters = {5}
    GivenNonces = {}
    MaxGroups = 2
    BatchFunctions = {"batch"}
    TxValidity = 1
    MaxHeight = 0
    MaxSubmissions = 1
INVARIANT BatchNoncesFollow
CHECK_DEADLOCK FALSE
