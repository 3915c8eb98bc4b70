SPECIFICATION Spec
CONSTANTS
    NoSession = NoSession
    NoProc = NoProc
    AnySession = AnySession
    Sessions = {s1, s2}
    Starters = {a}
    Stoppers = {o}
    Forcers = {}
    Restarters = {}
    Workers = {w}
    Handlers = {}
    MaxCrashes = 1
    MaxDamage = 0
SYMMETRY Symmetry
INVARIANT FailClosed
INVARIANT VerdictIsCurrent
PROPERTY LatchBeforeArming
PROPERTY StaleNeverRearms
PROPERTY KeepsPromise
CHECK_DEADLOCK FALSE
