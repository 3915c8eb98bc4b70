SPECIFICATION FairSpec
CONSTANTS
    MaxChanges = 2
    StartLimitBurst = 2
PROPERTY FaultsAreContained
PROPERTY EmergencyIsHeld
INVARIANT EventsAreNotLost
INVARIANT NeverSleepsUnevaluated
INVARIANT NoSilentEnd
CHECK_DEADLOCK FALSE
