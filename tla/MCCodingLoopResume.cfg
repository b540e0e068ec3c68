\* A call continues the loop of one that has crashed.
CONSTANTS
    r1 = r1
    r2 = r2
    r3 = r3
    NoRun = NoRun
    Threads = {"durable"}
    StoreOf <- MCStoreOf
    Runs = {r1, r2}
    TTLs <- MCOneTick
    MaxEpoch = 1
    MaxIter = 2
    Nodes <- MCNodes
    END = "END"
    Entry = "implementer"
    Succ <- MCSucc
    Gated = {}
    Agents = {"implementer"}
    AgentsOf <- MCAgentsOf
    BeforeGate <- MCBeforeGate
    Commands <- MCResume
    MaxSteps = 10
    Keep = {}
    Faults = {"crash"}
    Timely = FALSE
    MaxID = 6
SPECIFICATION LoopSpec
INVARIANT ChatIsComplete
CHECK_DEADLOCK FALSE
