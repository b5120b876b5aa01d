SPECIFICATION FairSpec
CONSTANTS
    Call = {c1}
    ResolveOn = "IS_FINALIZED"
    Timeouts = {TRUE, FALSE}
    MaxDrops = 2
    MaxRetracts = 2
PROPERTIES TimeoutBoundsWait FinalityEndsWait
CHECK_DEADLOCK FALSE
