\* A thread is deleted and acquired again.
CONSTANTS
    t1 = t1
    r1 = r1
    r2 = r2
    c1 = c1
    c2 = c2
    NoRun = NoRun
    Threads = {t1}
    Runs = {r1, r2}
    TTLs <- MCOneTick
    MaxEpoch = 2
    Clients = {c1}
    Agents = {}
    MaxID = 1
    Keep = {0}
    MaxKeep = 1
    Fencing = FALSE
    PruneAlone = TRUE
SPECIFICATION MySQLFairSpec
PROPERTY EpochHasOneOwner
CHECK_DEADLOCK FALSE
