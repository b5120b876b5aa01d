SPECIFICATION Spec
CONSTANTS
    Caller = {r1, r2}
    Resource = {k1}
    MaxChanges = 2
SYMMETRY CallerSymmetry
INVARIANTS PositiveAnswersWereTrue UnregisteredWasAbsent DeactivationIsFinal
CHECK_DEADLOCK FALSE
