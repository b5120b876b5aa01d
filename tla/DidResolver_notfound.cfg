SPECIFICATION Spec
CONSTANTS
    Caller = {r1}
    Resource = {k1, k2}
    MaxChanges = 3
INVARIANT UnregisteredIsReported
CHECK_DEADLOCK FALSE
