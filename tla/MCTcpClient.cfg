CONSTANTS
    Threads = {t1}
    MaxConns = 2
    MaxCalls = 3
    Retry = TRUE
SPECIFICATION FairSpec
INVARIANTS NoAbort ClosedOnce  Whole OneAttempt
PROPERTIES StopSticks CloseEnds Reconnected
CHECK_DEADLOCK FALSE
