SPECIFICATION Spec
CONSTANTS
    Call = {c1, c2}
    ResolveOn = "IS_FINALIZED"
    Timeouts = {FALSE}
    MaxDrops = 1
    MaxRetracts = 1
SYMMETRY CallSymmetry
INVARIANT ResolvedIsFinal
PROPERTY ImplementsTxPromise
CHECK_DEADLOCK FALSE
