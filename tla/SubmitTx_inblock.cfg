SPECIFICATION Spec
CONSTANTS
    Call = {c1, c2}
    ResolveOn = "IS_IN_BLOCK"
    Timeouts = {TRUE}
    MaxDrops = 1
    MaxRetracts = 0
SYMMETRY CallSymmetry
INVARIANTS RejectionTakesPrecedent WaitHearsDisconnect NothingLeaks FailureIsReal
CHECK_DEADLOCK FALSE
