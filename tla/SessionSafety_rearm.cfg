SPECIFICATION Spec
CONSTANTS
    NoSession = NoSession
    NoProc = NoProc
    AnySession = AnySession
    Sessions = {s1}
    Starters = {a}
    Stoppers = {o}
    Forcers = {}
    Restarters = {}
    Workers = {}
    Handlers = {h}
    MaxCrashes = 0
    MaxDamage = 0
SYMMETRY Symmetry
PROPERTY HandlerNeverRearms
CHECK_DEADLOCK FALSE
