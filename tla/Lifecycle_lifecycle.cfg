SPECIFICATION Spec
CONSTANTS
    Targets = {"etc", "stub"}
    Faults = {"fail", "kill", "signal", "loss", "repoint", "toggle", "reboot"}
    MaxFaults = 4
INVARIANT StopRestores
INVARIANT FailedStartIsClean
INVARIANT LockGoesWithTable
PROPERTY TorLeavesBehindRules
CHECK_DEADLOCK FALSE
