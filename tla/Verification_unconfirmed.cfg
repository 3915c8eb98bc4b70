SPECIFICATION Spec
CONSTANTS
    NoSession = NoSession
    Sessions = {s1, s2}
    Checkers = {c}
    Starters = {a}
    Attempts = 2
    FetchLimit = 2
    Pause = 1
    Budget = 2
    Policies <- BothKinds
SYMMETRY Symmetry
INVARIANT CheckSuccessIsConfirmed
CHECK_DEADLOCK FALSE
