SPECIFICATION Spec
CONSTANTS
    Connection = {c1, c2, c3}
    Disconnection = {d1, d2}
    Level <- MCLevel
    DefaultLevel = 4
    NoApi = NoApi
    NoLevel = NoLevel
SYMMETRY CallSymmetry
INVARIANTS ClosedOnce LoggersFollow
PROPERTY ActsAsOneSlot
CHECK_DEADLOCK FALSE
