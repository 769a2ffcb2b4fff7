CONSTANTS
    Size <- MCSize
    UintMod <- MCUintMod
    Producers = {redisThread, caller}
    Values = {v1, v2, v3}
    None = None
SPECIFICATION RingSpec
PROPERTY ImplementsQueue
