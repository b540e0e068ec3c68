\* Two calls of RunCodingLoop on one thread; the second may continue the first.
CONSTANTS
    r1 = r1
    r2 = r2
    r3 = r3
    NoRun = NoRun
    Threads = {"fenced"}
    StoreOf <- MCStoreOf
    Runs = {r1, r2}
    TTLs <- MCOneTick
    MaxEpoch = 2
    MaxIter = 3
    Nodes <- MCNodes
    END = "END"
    Entry = "implementer"
    Succ <- MCSucc
    Gated = {}
    Agents = {"implementer"}
    AgentsOf <- MCAgentsOf
    BeforeGate <- MCBeforeGate
    Commands <- MCResume
    MaxSteps = 14
    Keep = {1}
    Faults = {"crash", "cancel"}
    Timely = TRUE
    MaxID = 10
SPECIFICATION LoopSpec
INVARIANTS
    ChatHasNoGap
    LoopFitsCap
SYMMETRY Perms
CHECK_DEADLOCK FALSE
