\* Three runs of one thread without leases: the parent compare-and-swap alone.
CONSTANTS
    t1 = t1
    r1 = r1
    r2 = r2
    r3 = r3
    NoRun = NoRun
    Threads = {t1}
    Runs = {r1, r2, r3}
    TTLs <- MCOneTick
    MaxEpoch = 3
    Nodes <- MCNodes
    END = "END"
    Entry = "plan"
    Succ <- MCSucc
    Gated = {"ask"}
    Agents = {"coder", "writer"}
    AgentsOf <- MCAgentsOf
    BeforeGate <- MCBeforeGate
    Commands <- MCPatchCommands
    StoreOf <- MCDurable
    MaxSteps = 0
    Keep = {0, 1}
    Faults = {"node", "commit", "cancel"}
    Timely = FALSE
    MaxID = 5
SPECIFICATION RuntimeSpec
INVARIANTS
    OneChain
    SessionMatchesHistory
    OneKeyPerOperation
PROPERTY ImplementsExecution
SYMMETRY Perms
CHECK_DEADLOCK FALSE
