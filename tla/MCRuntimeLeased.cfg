\* Three runs of one thread under leases that may run out at any time.
CONSTANTS
    t1 = t1
    r1 = r1
    r2 = r2
    r3 = r3
    NoRun = NoRun
    Threads = {t1}
    Runs = {r1, r2, r3}
    TTLs <- MCOneTick
    MaxEpoch = 3
    Nodes <- MCNodes
    END = "END"
    Entry = "plan"
    Succ <- MCSucc
    Gated = {"ask"}
    Agents = {"writer"}
    AgentsOf <- MCAgentsOf
    BeforeGate <- MCBeforeGate
    Commands <- MCCommands
    StoreOf <- MCFenced
    MaxSteps = 0
    Keep = {0, 1}
    Faults = {"crash"}
    Timely = FALSE
    MaxID = 5
SPECIFICATION RuntimeSpec
INVARIANTS
    RuntimeTypeOK
    HistoryIsExecution
    HistoryStartsAtEntry
    GateNotBypassed
    ApprovalOpensWhatWasSeen
    OwnerSeesLatest
    OutcomeIsDurable
    StaleToolsAreFenced
PROPERTIES
    LeaseEndsByOwner
    LostIsForever
    EpochHasOneOwner
    NoSteal
SYMMETRY Perms
CHECK_DEADLOCK FALSE
