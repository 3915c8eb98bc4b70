SPECIFICATION Spec
CONSTANTS
    Publishers = {p1, p2}
    Events = {"emergency_verified", "recovered"}
    Attempts = 2
    Backlog = 1
    MaxCalls = 2
    MaxStarts = 2
INVARIANT AcceptedIsTrue
INVARIANT FailedIsHonest
CHECK_DEADLOCK FALSE
