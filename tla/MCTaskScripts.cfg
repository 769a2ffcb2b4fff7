CONSTANTS
    Tms = {t1, t2}
    NoTm = NoTm
    Names = {n1, n2}
    NoTask = NoTask
    Saps = {s1}
    NoSap = NoSap
    PreStops = {1}
    MaxOptVer = 2
    MaxVer = 3
SPECIFICATION FairSpec
INVARIANTS StoppedExpires QueryIsExact OwnerListed
PROPERTIES VersionsGrow DeadManagerDrained
