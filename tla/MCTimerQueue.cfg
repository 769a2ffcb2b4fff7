CONSTANTS
    Threads = {t1}
    Addrs = {1, 2}
    MaxTimers = 2
    MaxTime = 2
    MaxPending = 2
    Interval = 1
SPECIFICATION FairSpec
INVARIANTS NoDangling AlarmCovers 
PROPERTIES TimerRuns
CHECK_DEADLOCK FALSE
