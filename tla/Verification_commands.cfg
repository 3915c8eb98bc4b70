SPECIFICATION Spec
CONSTANTS
    NoSession = NoSession
    Sessions = {s1, s2}
    Checkers = {c}
    Starters = {a}
    Attempts = 2
    FetchLimit = 2
    Pause = 1
    Budget = 2
    Policies <- BothKinds
SYMMETRY Symmetry
INVARIANT VerdictIsMeasured
INVARIANT NegativeIsContained
INVARIANT StartSuccessIsCurrent
INVARIANT ArmingIsReported
CHECK_DEADLOCK FALSE
