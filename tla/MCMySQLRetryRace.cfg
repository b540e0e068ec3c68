\* A CommitStep is retried while the first call is still under way.
CONSTANTS
    t1 = t1
    r1 = r1
    r2 = r2
    c1 = c1
    c2 = c2
    NoRun = NoRun
    Threads = {t1}
    Runs = {r1}
    TTLs <- MCOneTick
    MaxEpoch = 2
    Clients = {c1, c2}
    Agents = {}
    MaxID = 2
    Keep = {}
    MaxKeep = 1
    Fencing = FALSE
    PruneAlone = TRUE
SPECIFICATION MySQLFairSpec
INVARIANT RetryNeverConflicts
CHECK_DEADLOCK FALSE
