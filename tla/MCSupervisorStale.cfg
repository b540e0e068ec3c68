\* Two calls of RunSupervisor have stopped at the same interrupt of a thread.
CONSTANTS
    s1 = s1
    s2 = s2
    NoRun = NoRun
    Threads = {"fenced"}
    StoreOf <- MCStoreOf
    Runs = {s1, s2}
    TTLs <- MCOneTick
    MaxEpoch = 6
    Workers <- MCWorkers
    Nodes <- MCNodes
    END = "END"
    Entry = "supervisor"
    Succ <- MCSucc
    Gated = {"deployer"}
    Agents <- MCWorkers
    AgentsOf <- MCAgentsOf
    BeforeGate <- MCBeforeGate
    Commands = {}
    Hops = 2
    MaxSteps = 6
    Exclusive = FALSE
    Keep = {}
    Faults = {}
    Timely = TRUE
    MaxID = 14
SPECIFICATION SupFairSpec
INVARIANT GatedWorkIsApproved
SYMMETRY Perms
CHECK_DEADLOCK FALSE
