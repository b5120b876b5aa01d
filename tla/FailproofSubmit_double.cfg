SPECIFICATION FailproofSpec
CONSTANTS
    Job <- MCJob
    Call <- MCCall
    ResolveOn = "IS_FINALIZED"
    Timeouts = {FALSE}
    MaxDrops = 1
    MaxRetracts = 1
INVARIANT TransfersOnce
CHECK_DEADLOCK FALSE
