\* One thread, two agents, five submissions delivered at any time.
CONSTANTS
    t1 = t1
    a1 = a1
    a2 = a2
    Threads = {t1}
    Agents = {a1, a2}
    MaxID = 5
    MaxKeep = 2
SPECIFICATION StoreSpec
INVARIANTS
    StoreTypeOK
    LatestIsNewest
    ChainIntact
    SessionsReferenced
    SessionsInherited
    AckedIsDurable
PROPERTIES
    CheckpointsImmutable
    NoResurrection
SYMMETRY Perms
