CONSTANTS
    Names = {n1, n2}
    Users = {c1}
    Loops = {l1, l2}
    Delays = {1, 2}
    MaxLag = 2
    MaxRegs = 2
    None = None
SPECIFICATION TimerSpec
INVARIANT NotEarly
