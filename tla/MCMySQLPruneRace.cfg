\* A Prune overlaps with a CommitStep of another connection.
CONSTANTS
    t1 = t1
    r1 = r1
    r2 = r2
    c1 = c1
    c2 = c2
    NoRun = NoRun
    Threads = {t1}
    Runs = {r1}
    TTLs <- MCOneTick
    MaxEpoch = 2
    Clients = {c1, c2}
    Agents = {}
    MaxID = 3
    Keep = {1}
    MaxKeep = 1
    Fencing = FALSE
    PruneAlone = FALSE
SPECIFICATION MySQLFairSpec
INVARIANT PointerIsNewest
CHECK_DEADLOCK FALSE
