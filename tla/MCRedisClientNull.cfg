CONSTANTS
    Requests = {r1, r2}
    NScripts = 2
    QueueSize = 2
    PingInterval = 1
    PingTimeout = 3
    CheckInterval = 3
    MaxLate = 2
    MaxPending = 4
    MaxPings = 2
    None = None
SPECIFICATION Spec
INVARIANT NullReplySurvived
CHECK_DEADLOCK FALSE
