SPECIFICATION MCSpec
CONSTANTS
    Options = {"ipv6", "root", "lan", "cgroup", "foreign"}
    Services <- MCServices
    TransPort = 9041
    DNSPort = 9054
INVARIANT NoCleartext
INVARIANT RedirectReachesTor
INVARIANT EmergencyIsClosed
INVARIANT LockdownHolds
INVARIANT RejectionIsHeard
INVARIANT NoFalseAlarm
PROPERTY CoarseTableAgrees
CHECK_DEADLOCK FALSE
