\* Two connections commit, retry, read and delete at once, under leases that
\* come and go; Prune runs alone.
CONSTANTS
    t1 = t1
    r1 = r1
    r2 = r2
    c1 = c1
    c2 = c2
    NoRun = NoRun
    Threads = {t1}
    Runs = {r1}
    TTLs <- MCOneTick
    MaxEpoch = 2
    Clients = {c1, c2}
    Agents = {"coder"}
    MaxID = 3
    Keep = {0, 1, 2}
    MaxKeep = 2
    Fencing = TRUE
    PruneAlone = TRUE
SPECIFICATION MySQLSpec
INVARIANTS
    MySQLTypeOK
    PointerIsNewest
    ReadIsCurrent
PROPERTY ImplementsStore
SYMMETRY Perms
CHECK_DEADLOCK FALSE
