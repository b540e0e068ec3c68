\* Two runs whose heartbeats are in time: leases end by Release, by crashes and by
\* cancelled runs only, every call returns, and the thread becomes free.
CONSTANTS
    t1 = t1
    r1 = r1
    r2 = r2
    r3 = r3
    NoRun = NoRun
    Threads = {t1}
    Runs = {r1, r2}
    TTLs <- MCTwoTicks
    MaxEpoch = 3
    Nodes <- MCNodes
    END = "END"
    Entry = "plan"
    Succ <- MCSucc
    Gated = {"ask"}
    Agents = {"writer"}
    AgentsOf <- MCAgentsOf
    BeforeGate <- MCBeforeGate
    Commands <- MCCommands
    StoreOf <- MCFenced
    MaxSteps = 2
    Keep = {}
    Faults = {"crash", "cancel", "node", "renew", "release"}
    Timely = TRUE
    MaxID = 8
SPECIFICATION FairSpec
INVARIANT HealthyRunOwnsThread
PROPERTIES
    EveryRunEnds
    ThreadBecomesFree
CHECK_DEADLOCK FALSE
