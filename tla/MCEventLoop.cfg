CONSTANTS
    Others = {t1, t2}
    MaxQueued = 4
SPECIFICATION LoopFairSpec
INVARIANTS NoSleepWithWork QueuedOrder
PROPERTIES FunctorRuns QuitStops
CHECK_DEADLOCK FALSE
