\* Two calls of RunSupervisor, one after the other, on any of the four stores.
CONSTANTS
    s1 = s1
    s2 = s2
    NoRun = NoRun
    Threads <- MCEveryStore
    StoreOf <- MCStoreOf
    Runs = {s1, s2}
    TTLs <- MCOneTick
    MaxEpoch = 6
    Workers <- MCWorkers
    Nodes <- MCNodes
    END = "END"
    Entry = "supervisor"
    Succ <- MCSucc
    Gated = {"deployer"}
    Agents <- MCWorkers
    AgentsOf <- MCAgentsOf
    BeforeGate <- MCBeforeGate
    Commands = {}
    Hops = 2
    MaxSteps = 6
    Exclusive = TRUE
    Keep = {}
    Faults = {"crash", "node", "cancel"}
    Timely = TRUE
    MaxID = 14
SPECIFICATION SupFairSpec
INVARIANTS
    GatedWorkIsApproved
    HumanSeesLatest
    CapNeverBites
PROPERTY SupervisorReturns
CHECK_DEADLOCK FALSE
