SPECIFICATION Spec
CONSTANTS
    NoSession = NoSession
    NoProc = NoProc
    AnySession = AnySession
    Sessions = {s1}
    Starters = {a}
    Stoppers = {o}
    Forcers = {o}
    Restarters = {o}
    Workers = {}
    Handlers = {h}
    MaxCrashes = 0
    MaxDamage = 1
SYMMETRY Symmetry
INVARIANT MutualExclusion
INVARIANT StopIntentRespected
INVARIANT VerifiedIsLatched
PROPERTY LossIsAnswered
CHECK_DEADLOCK FALSE
