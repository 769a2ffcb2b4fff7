CONSTANTS
    Workers = {w1, w2}
    Callers = {c1, c2}
    MaxQueueSize = 2
    MaxTasks = 6
SPECIFICATION FairSpec
INVARIANTS TakenInOrder NoLostNotify
PROPERTIES TaskRuns RunReturns StopReturns
CHECK_DEADLOCK FALSE
