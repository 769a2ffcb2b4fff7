CONSTANTS
    Requests = {r1, r2}
    NScripts = 2
    QueueSize = 1
    PingInterval = 1
    PingTimeout = 2
    CheckInterval = 2
    MaxLate = 2
    MaxPending = 4
    MaxPings = 3
    None = None
SPECIFICATION FairSpec
INVARIANTS StatTellsContext  ScriptsAreCurrent
PROPERTIES Recovers ScriptsLoaded 
CHECK_DEADLOCK FALSE
