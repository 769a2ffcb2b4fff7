CONSTANTS
    Size <- MCSize
    UintMod <- MCUintMod
    Producers = {redisThread}
    Values = {v1, v2, v3}
    None = None
SPECIFICATION RingSpec
INVARIANT NoSlotRace
PROPERTY ImplementsQueue
