CONSTANTS
    Names = {n1, n2}
    Users = {c1}
    Loops = {l1, l2}
    Delays = {1, 2}
    MaxLag = 1
    MaxRegs = 2
    None = None
SPECIFICATION TimerFairSpec
INVARIANTS NeverLost NotEarlyOnce
PROPERTIES EventFires StopEnds
