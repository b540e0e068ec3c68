# marspi-graph in TLA+

marspi-graph runs agent workflows as graphs: a run applies one node after the
other to a shared state, writes a checkpoint after each, pauses at human gates,
and is continued later, maybe by another process. This directory specifies what
has to hold when runs race, crash, lose their lease or are repeated, checks it
with TLC on small instances, and proves it with TLAPS for instances of any size:
for the lease, the stores (in memory and on MySQL), the builder, the runtime, the
supervisor and the coding loop.

## The system

| component | source | state | operations |
|---|---|---|---|
| Execution lease | `graph/lease.go`, `checkpoint/lease_memory.go` | per thread: owner, fencing epoch, expiry | Acquire, Renew, Release |
| Durable store | `graph/durable.go`, `checkpoint/durable_memory.go` | per thread: latest id, revision, history, sessions, references from checkpoints to sessions | CommitStep, GetLatest, GetByID, List, Prune, DeleteThread, GetAgentSession, Put |
| Fenced store | `checkpoint/lease_memory.go` | the two above | CommitStepFenced |
| MySQL store and lease | `checkpoint/mysql.go`, `mysql_lease.go` | four tables | the same, as transactions |
| Graph runtime | `graph/builder.go`, `interrupt.go`, `artifacts.go`, `state.go`, `command.go` | locals of each call and of its heartbeat goroutine | Invoke, Resume |
| Builder | `graph/builder.go` | nodes, edges, routes | AddNode, AddEdge, AddConditionalEdges, Compile |
| Events | `graph/events.go` | none | emit, EmitCustom |
| Tool execution | `graph/tool_execution.go` | none | IdempotencyKey, FenceToken |
| Agent sessions | `agentspec/spec.go` | message list of an instance | RunOnce (load, loop, register) |
| Supervisor | `orchestrator/supervisor.go` | locals of the approval loop | RunSupervisor |
| Coding loop | `orchestrator/coding_loop.go` | a long-lived implementer | RunCodingLoop |
| Handoff, pipeline | `orchestrator/handoff*.go`, `pipeline.go` | none | parsing, linear graphs |
| Legacy stores | `checkpoint/memory.go`, `sqlite.go` | latest snapshot per thread | Put, Get |

How they interact. A call of `Invoke` or `Resume` draws a run id, acquires the
lease of its thread (`withLease`), starts a heartbeat goroutine that renews it,
and runs the body. The body reads the latest checkpoint, applies nodes and
commits each step with `CommitStepFenced`, which checks the lease and the
parent of the checkpoint under the locks of both stores. The heartbeat and the
body share one context: a failed renewal cancels it with `ErrLeaseLost`, which
the body looks at before a node, after a node and before a commit; the end of
the body cancels it too, and `withLease` waits for the heartbeat before it
releases. Agents read their session from the parent checkpoint and register the
new one as an artifact of the step; a human gate is a node that calls
`InterruptOrResume`. Supervisor and coding loop are callers of the runtime.

What is hard about it, and what makes each part correct:

* **Lease.** Calls arrive late, twice and after the thread was handed on. One
  owner per epoch, epochs that never go back, no lease taken from its owner, no
  lost grant that becomes valid again.
* **Store.** Writers race, retry what already succeeded, and write on top of
  checkpoints that were pruned. One chain, a latest pointer at its end,
  immutable checkpoints, and exactly the sessions that are referred to.
* **MySQL.** Each method is a transaction that partly reads from a snapshot.
  It should do nothing the memory store could not do.
* **Builder.** It is filled in any order and used on after `Compile`. What was
  compiled can be run and stays as it is.
* **Runtime.** Body, heartbeat, other runs, crashes, cancellation and
  maintenance interleave. Still every thread must be one execution of the
  graph, gates must hold, sessions must match the history, what the caller is
  told must be in the store, every call must return, and a thread must become
  free again. Tool calls of repeated or overtaken steps must be recognisable.
* **Supervisor.** A loop that waits for a human, around a thread others may
  move on. A human's approval must open the gate it was given for, and no other.
* **Coding loop.** One agent outlives its node: its messages are in memory, in
  the store, or in both, and the updater writes to them from another node. The
  stored conversation must be that of the stored execution.

## Modules

| module | models |
|---|---|
| `ExecutionLease` | `MemoryLease`: `leases`, with `ExtendLease` and `TakeLease` (the two successes of `Acquire`), `Renew`, `Release` and `Tick` |
| `Checkpoints` | one thread of a store as a record, and what `commitStepLocked`, `Prune` and the reads do to it, as operators |
| `CheckpointStore` | `DurableMemory` with any number of clients: `Submit` builds a snapshot, `CommitAppends` and `CommitRetried` deliver it, as often and as late as they like, `Prune`, `DeleteThread` |
| `MySQLStore` | the MySQL store and lease: transactions cut where they read without a lock |
| `GraphExecution` | the promise: each thread is one sequential execution with gates |
| `GraphRuntime` | `Invoke`, `Resume`, `withLease`, `leaseHeartbeat`, `run` and `persist`, over `ExecutionLease` and `Checkpoints`, or over a latest-only store; the keys and tokens of tool calls |
| `Supervisor` | `RunSupervisor`: its graph and its loop of interrupts and approvals, over `GraphRuntime` |
| `CodingLoop` | `RunCodingLoop`: its graph and the implementer's messages, over `GraphRuntime` |
| `GraphBuilder` | `Builder`: registration in any order, `Compile`, and `next` of what it compiled |
| `ExecutionLeaseProofs`, `CheckpointProofs`, `MySQLProofs`, `GraphBuilderProofs`, `GraphRuntimeProofs`, `SupervisorProofs`, `CodingLoopProofs` | theorems and proofs, see "Proofs" |
| `CheckpointLemmas` | what an append and a prune do to one thread of a store; the three stores are proved with it |
| `MC*` | the instances for TLC |

`ExecutionLease` and `Checkpoints` are the parts the others are built of:
`GraphRuntime` and `MySQLStore` extend both, so the lease and store operators
that are checked alone are those the runs use. `Supervisor` and `CodingLoop`
extend `GraphRuntime`: they take its engine (`EngineStep`, `LeaseStep`,
`HeartbeatStep`) as it is and supply the node functions and the callers.
`MySQLStore` refines `CheckpointStore` (`ImplementsStore`), and `GraphRuntime`
refines `GraphExecution` (`ImplementsExecution`): the current point of a thread
is the body of its latest checkpoint, and everything else is a stutter.

### Correspondence to the code

* **Time.** An expiry is kept as the ticks that remain, counted down by `Tick`
  to zero. The code compares expiries with now only, so this loses nothing.
  Ticks are coarse: a lifetime of one tick lets a lease run out between any two
  steps, which is the worst case.
* **Atomicity.** The memory stores hold their mutex for the whole of a method,
  so each is one action; `CommitStepFenced` holds both. Steps of a run that
  touch its locals only are joined with the next one that can be observed.
  `persist` is two actions, because the heartbeat can report a loss between its
  test and the commit.
* **Runs.** `run[r]` holds the locals of a call: `pc`, the parent id, the node,
  the state, the step count, the resume value in the context (`approved`), the
  cause of the cancellation and whether the heartbeat lives. A crash ends a run
  and its heartbeat and leaves lease and store as they are. A run that is over
  keeps only its outcome.
* **State.** The graph state is the sequence of nodes that were applied, with
  `"update"` for the patch of a `Command`; a session is the number of turns its
  agent has taken. Both make a lost, repeated or reordered step visible.
* **Turns before a gate.** `BeforeGate[n]` are the agents of a gated node that take
  their turn before it calls `InterruptOrResume`. `NodePauses` registers their
  sessions, and the commit of the interrupt stores them (`arts` of `NodeInterrupts`;
  builder.go:599-600, p1-durable-runtime.md:83). The node that is entered again with
  the answer starts from these sessions and all of its agents take their turn, those
  before the gate for the second time: `TurnsAt` counts both, as the store does.
* **Nodes** are external in `GraphRuntime`: they pause, fail, or return and route
  to any of their successors. An error of a route function is a failure of the
  node here. `Supervisor` and `CodingLoop` give their nodes the code they have.
* **Stores.** `StoreOf[t]` says what the graph of a thread was compiled with:
  `"fenced"` (durable, with a lease), `"durable"`, or one of the checkpointers
  that keep one snapshot per thread, `"memory"` and `"sqlite"`. A `Put` of these
  two replaces what was there, whoever wrote it. SQLite returns no checkpoint
  id, so a resumed run has no parent and an expected id never matches. A crash
  would take `"memory"` along, so its runs do not crash.
* **Tool calls.** `IdempotencyKey` is the tuple that the code hashes, without the
  tool name and the operation id: they are the same whenever a node repeats
  itself. `FenceToken` is the epoch.
* **Ids.** `NewID` never repeats: checkpoints are numbered, and a session id is
  the checkpoint and the agent it was made for. `RegisterStepArtifact` admits
  one session per agent and step, so the artifacts are a function.
* **Errors that change nothing** (a refused `CommitStep` in `CheckpointStore`, a
  refused `Renew`) are disabled actions; those a caller acts upon are actions of
  their own (`AcquireDenied`, `CommitFenced`, `CommitConflicts`, `HeartbeatLoses`).
* **MySQL.** `commitStep` is cut after its idempotency check and `Prune` after
  the list of ids, which fixes its snapshot. Behind the cut `commitStep` holds
  the row lock of the thread. `Prune` takes the row lock only for the pointer at
  its end, but a commit between its deletes and that pointer has the same
  effect as one before the deletes: it adds to rows Prune does not touch. InnoDB
  may abort a transaction (deadlock, foreign key); then nothing happens.
  `GetLatest` is two queries on the pool, the id and then the row: `seen` records
  which states were the latest since the first, and `ReadIsCurrent` says the
  answer is one of them. `Put` is a `GetLatest` whose id becomes the parent.
  `PruneAlone` keeps `Prune` from overlapping with the others.
* **Supervisor.** A call of `RunSupervisor` makes its runs one after the other
  and `run[s]` is the current one: the code draws a new run id each time, but
  the lease of the one before is over by then. The supervisor's decision is any
  worker or END until `Hops` decisions are made. What a human is shown is the
  worker and the execution behind the handoff. `Exclusive` is the assumption
  that calls on one thread do not overlap; nothing in the code enforces it
  while a human is asked, since no lease is held then.
* **Coding loop.** The state is the sequence of updates its nodes return, and the
  iteration is one more than the updaters in it. `chat[r]` are the messages of
  the implementer instance of call `r`: system prompt, one `Turn` per iteration,
  `Refined` prompts. They are gone when the call returns or crashes.

## Runs

The bounds of all runs count what is written or granted: `MaxID` checkpoints,
`MaxEpoch` epochs of a thread. Behaviours simply stop there; deadlock is checked
only in `store`, because in the others calls that are all over leave nothing to do.

| run | what it shows | bounds |
|---|---|---|
| `store` | `StoreTypeOK`, `LatestIsNewest`, `ChainIntact`, `SessionsReferenced`, `SessionsInherited`, `AckedIsDurable`, `CheckpointsImmutable`, `NoResurrection` | five submissions, two agents, Prune to one or two: enough for a fork, a shared session, a pruned parent and a retry after both |
| `runtime_leased` | `RuntimeTypeOK`, `HistoryIsExecution`, `HistoryStartsAtEntry`, `GateNotBypassed`, `ApprovalOpensWhatWasSeen`, `OwnerSeesLatest`, `OutcomeIsDurable`, `StaleToolsAreFenced`, `LeaseEndsByOwner`, and of the lease `LostIsForever`, `EpochHasOneOwner`, `NoSteal` | three runs, leases that run out at any time, crashes, Prune and DeleteThread, answers that name the checkpoint their caller saw, one agent with a turn before the gate, five checkpoints, three epochs |
| `runtime_unleased` | `OneChain`, `SessionMatchesHistory`, `OneKeyPerOperation`, `ImplementsExecution` | three runs without leases, two agents of which one has a turn before the gate, cancellation, failing nodes, a store whose answer is lost, Update commands |
| `runtime_timely` | `HealthyRunOwnsThread`, `EveryRunEnds`, `ThreadBecomesFree` | two runs, all faults but late heartbeats, a step limit of two; eight checkpoints are more than two runs can write |
| `mysql` | `MySQLTypeOK`, `PointerIsNewest`, `ReadIsCurrent`, `ImplementsStore` with overlapping commits, retries, reads and deletions, fenced commits and changing leases | two connections, three snapshots, Prune to one or two with nothing else under way |
| `supervisor` | `GatedWorkIsApproved`, `HumanSeesLatest`, `CapNeverBites`, `SupervisorReturns` | two calls one after the other, each of the four stores, two workers of which one is gated, two decisions, crashes, cancellation and failing nodes; fourteen checkpoints and six epochs are more than they use |
| `coding_loop` | `ChatHasNoGap`, `LoopFitsCap` | two leased calls that race or follow one another, three iterations, Prune to one, crashes and cancellation; ten checkpoints are a whole loop and more |

The graph of the runtime runs is `plan -> ask -> END`, with an edge from `ask`
back to `plan`: `ask` is gated, and the way back meets the same gate again. The
agent `coder` takes a turn in `plan` only, so the checkpoints of `ask` must carry its
session along; `writer` takes one in both, in `ask` before the gate, so the
interrupt stores a turn of its own. `runtime_leased` has `writer` alone,
`runtime_unleased` both.
Three runs are enough for an owner, one that lost the thread and one that
approves in between; five checkpoints take the graph once around. Two decisions
of the supervisor are two handoffs, maybe to the same gated worker, so an
approval could be carried over from one to the other. Three iterations are the
fewest in which a conversation can lose its beginning and still have a middle.

Five runs show where code and documentation disagree:

* `mysql_prune_race`: `Prune` (mysql.go:553-572) reads the newest checkpoint from
  the snapshot of its transaction, without a lock, and writes it to the row of
  the thread. A commit in between disappears from `latest_checkpoint_id`, which
  the schema calls the current latest (mysql.go:63); the next commit computes a
  revision that exists and fails on `uq_thread_revision`. Hence `PruneAlone` in
  the run `mysql`.
* `mysql_retry_race`: `commitStep` (mysql.go:222-240) looks for the id before it
  locks the row. p1-durable-runtime.md:61-62 has it the other way round. A retry
  that overlaps with the first call is told there was a conflict.
* `mysql_epoch_reset`: `DeleteThread` (mysql.go:492) deletes the row with the
  epoch that mysql.go:67 calls monotonic. `MemoryLease` keeps it.
* `supervisor_stale`: two calls stop at the same interrupt and both ask. When the
  second human answers late, `Resume` (supervisor.go:356) takes whatever
  checkpoint is the latest by then, without `WithExpectedCheckpointID`, and
  opens a gate nobody was asked about. README.md:160 says that what is approved
  is the handoff, and builder.go:749 that the option closes such windows. Hence
  `Exclusive` in the run `supervisor`.
* `coding_loop_resume`: a call that resumes at the updater appends its prompt
  (coding_loop.go:213) to an implementer that has not loaded anything yet, so
  `ensureSession` (spec.go:156) takes the instance for loaded: system prompt and
  earlier turns are gone, and the next checkpoint stores it so. ADR 0005:31 has
  "empty manager -> load -> append system only if unloaded". `ChatHasNoGap` is
  what remains true: only the beginning can be missing, and only so.

Limits that are known and that no run states:

* A turn before a gate is taken again when the node is entered with the answer, and
  the session keeps both; a tool call before the gate has another idempotency key
  then, since the interrupt is its parent. `SessionMatchesHistory` and
  `OneKeyPerOperation` say so much and no more.
* A caller that answers an interrupt and goes to another node leaves the turn before
  that gate in the session although the state does not show the node.
  `SessionMatchesHistory` holds without this combination.
* `CapNeverBites` and `LoopFitsCap` are about calls on a thread with the same
  `MaxSteps` and `MaxIter`. The counts are kept in the state, the limits come with the
  call: a call with a smaller limit may find it exceeded.
* `Resume` with both `Resume` and `Goto` (builder.go:304-320) hands the approval to
  the target of the `Goto`. The runs leave this combination out, and
  `GateNotBypassed` holds without it.
* `WithMaxSteps(n)` fails a graph that ends with exactly its n-th step
  (builder.go:655); `AfterCommit` models it.
* A `Prune` that overlaps with `GetLatest` on MySQL can remove the row between its
  two queries; a live thread then looks empty.
* A prompt the updater has refined is lost if the process dies after the
  updater's checkpoint: it is part of no artifact. `ChatHasNoGap` and `ChatIsComplete`
  both allow for it.
* On SQLite a retried tool call has another key than the first attempt when a
  checkpoint lies in between, since the parent is empty after a resume.
  `OneKeyPerOperation` is stated for the durable stores.

### Fairness

`GraphRuntime!Fairness` is weak fairness of each started run, of a heartbeat
whose context is done, and of time. The Go scheduler runs every goroutine that
can run; that node functions return is assumed of the user's code. Nothing
obliges anybody to start, cancel, crash or prune, and heartbeats may but need
not renew. `SupFairness` adds that a human answers when asked, one way or the
other: `OnInterrupt` is called without a timeout, and `SupervisorReturns` could
not hold otherwise. `Timely` is assumed in `runtime_timely` and in the
runs of the two orchestrators: a renewal reaches
the lease before it runs out, which is what an interval of a third of the
lifetime (`heartbeatInterval`) is for. `MySQLFairSpec` lets begun transactions go
on.

## Proofs

`tlapm` checks eight modules, with no step left out. Assumed are the six
assumptions on constants that the components declare: `LeaseAssumption` (the
empty run id is not a run id, lifetimes are positive), `StoreAssumption`,
`RuntimeAssumption` (what `Compile` guarantees of a graph, see
`CompiledGraphsRun`, and that bounds are numbers), `MySQLAssumption`,
`SupervisorAssumption` and `LoopAssumption` (the graphs `RunSupervisor` and
`RunCodingLoop` build, with their step limits, and that a loop is continued with
a `Resume` without a `Command`).
Some theorems have a hypothesis on how the system is used; it is named
with each of them, and it is a condition the runs use as well.

| theorem | of run | property | needs |
|---|---|---|---|
| `LostGrantsStayLost`, `EpochsIdentifyOwners`, `ActiveLeaseIsNotStolen` | (the lease alone) | `LostIsForever`, `EpochHasOneOwner`, `NoSteal` | |
| `StoreTypeCorrect`, `LatestIsAlwaysNewest`, `ChainStaysIntact`, `SessionsStayReferenced`, `SessionsStayInherited`, `AcceptedIsDurable`, `PrunedStaysPruned`, `CheckpointsStayTheSame` | `store` | every one of it | |
| `MySQLIsTyped`, `PointersAreNewest`, `ReadsAreCurrent`, `MySQLImplementsStore` | `mysql` | every one of it | `PruneAlone` |
| `CompiledGraphsRun`, `OneWayOut` | | `WellFormed` graphs, one way out of a node | |
| `RuntimeIsTyped`, `RunsKeepOneChain`, `OwnersSeeTheLatest`, `StaleRunsHaveSmallerTokens`, `LeasesEndByTheirOwner`, `LostRunsStayLost`, `RunsHaveTheirEpoch`, `RunsDoNotSteal`, `HistoriesStartAtEntry`, `OperationsHaveOneKey` | `runtime_*` | as named | |
| `HistoryIsOneExecution` | `runtime_leased` | `HistoryIsExecution` | `NoJumps` |
| `GatesAreNotBypassed`, `ApprovalsOpenWhatWasSeen` | `runtime_leased` | `GateNotBypassed`, `ApprovalOpensWhatWasSeen` | `InPlace` |
| `SessionsMatchTheHistory` | `runtime_unleased` | `SessionMatchesHistory` | `NoTurnLeft` |
| `OutcomesAreDurable` | `runtime_leased` | `OutcomeIsDurable` | `NeverToEnd` |
| `HealthyRunsHoldTheirLease` | `runtime_timely` | `HealthyRunOwnsThread` | `Timely` |
| `RunsImplementExecution` | `runtime_unleased` | `ImplementsExecution` | `NoJumps`, every store durable |
| `StepLimitIsNotReached` | `supervisor` | `CapNeverBites` | |
| `GatedWorkNeedsApproval`, `HumansSeeTheLatest` | `supervisor` | `GatedWorkIsApproved`, `HumanSeesLatest` | `Exclusive` |
| `ChatsHaveNoGap`, `LoopsEndByThemselves` | `coding_loop` | `ChatHasNoGap`, `LoopFitsCap` | |
| `RuntimeUsesLease` | | the runtime refines `ExecutionLease` | |

The hypotheses. `NoJumps`, `InPlace` and `NeverToEnd` speak of the commands
callers pass to `Resume`: no `Goto` at all, no `Goto` together with an
answer, none to END; `NoTurnLeft` is `InPlace`, or a graph whose nodes take no turn
before their gate. Where they fail the code does what the properties exclude,
by design: a `Goto` leaves the order of the graph, hands the answer on and
leaves a turn behind (limits named above), or completes a thread without a checkpoint. `Timely`,
`PruneAlone` and `Exclusive` are explained under "Fairness" and "Correspondence";
the run `supervisor_stale` shows that the approvals need `Exclusive`. Properties of a
history are stated for `DurableThreads`, since the latest-only stores have none;
a thread of theirs may be overwritten by whoever raced.

### The lease

`LeaseTypeOK` is inductive as it stands, and each step either keeps the epoch and
its owner, clears the owner, or counts the epoch up. A grant that does not
hold can only hold again if its own epoch is taken, which is over by then.

### The store

None of the invariants is inductive alone. `StoreInv` joins for each thread its
type, the chain, the latest pointer and the sessions (`ThreadInv`, defined in
`CheckpointLemmas`), with `ThreadIdsOrdered` in it: ids grow along the chain and a
parent is smaller than its child, so the parent of a kept checkpoint is
never an id that is still to come. `FreshIDs` makes it so: no id in a history is
larger than the number of snapshots submitted, and each snapshot names a smaller
parent. `AppendKeepsChain`, `AppendKeepsSessions` and `PruneKeepsInv` are about one thread and know no
clients: the runtime and MySQL use them unchanged. In the second, `NewestIsTop` says
that what is kept is closed upwards in the revisions and still has the latest
checkpoint; a history is finite (`ThreadShape`), so there is one.

`AckedIsDurable`, `NoResurrection` and `CheckpointsImmutable` speak of the past, of
which `StoreInv` says nothing. `PastInv` adds it: the sessions stored and the ids
accepted are not beyond the latest checkpoint, and an accepted id that is gone is
below everything kept. An append draws an id beyond the latest, so it neither
brings back an old id nor writes over an old session.

### MySQL

`MySQLInv` has the tables (each thread is a `ThreadInv` of ids drawn so far), the
foreign keys (`RowsOK`: nothing of a thread without its row), the snapshots
submitted, and the calls under way. The argument follows the locks. A
`commitStep` that got past its idempotency check compares the parent under the row
lock, so what it inserts is an append (`InsertAppends`). A `Prune` holds a list from
its snapshot; while nothing overlaps with it the list stays true (`ListingIsTrue`),
so what it writes is what Prune under one lock would write (`PruneLeaves`). A
`GetLatest` between its two queries holds an id that was the latest, and either
that row is still there or the thread has been deleted meanwhile (`CallOK`); both answers
are a state of the interval. The refinement then maps each transaction to one
action of `CheckpointStore` at the moment it has the lock, and all else to a
stutter. It needs `SentOK` besides: `CheckpointStore` counts what was submitted as a
set of snapshots and has no grants, so no two entries of `submitted` may differ
in the grant alone.

### The builder

For any names, with no assumption: `BuilderInv` adds what no method undoes, that
reserved names are never nodes and that edges and routes stay apart, in the builder
and in each copy. The checks of `Compile` supply the rest. The builder has no run
of its own: the two theorems are all it promises.

### The runtime

The lemmas are about `AnyStep(Cmds)`: the steps of `RuntimeNext` with
node functions that return any update, any route and any artifacts, and callers that
pass any of the commands `Cmds`. `Supervisor` and `CodingLoop` take no other steps
of the engine, so the lemmas hold for them too. Only what depends on the updates
(`HistoryInv`, `CountInv`) or on the agents' turns (`SessionInv`) is proved for the
nodes of `GraphRuntime`.

`RuntimeInv` is the part about lease and locals:

* `ThreadsOK`: a thread of a durable store satisfies `ThreadInv`, one of a latest-only
  store has at most its latest snapshot, and no id is larger than `lastID`. An append
  draws `lastID + 1`, so `FreshIDs` of the store becomes a fact of the counter.
* `LeasesOK` ties each call to the lease of its thread (`Tied`): its epoch is not
  larger than the lease's, and if they are equal nobody else is the owner; a call
  that does not run has no epoch and no heartbeat; a call whose context is not done has a
  heartbeat, and with `Timely` its lease. This is what makes the lease properties of
  a call inductive: that other calls do not disturb it (`OthersKeepRunLease`) is
  exactly that they are not owners of its epoch.

From it follow `OneChain`, `StaleToolsAreFenced`, `LeaseEndsByOwner`,
`HealthyRunOwnsThread`, and that what the runtime does to a lease is a behaviour of
`ExecutionLease` (`RuntimeUsesLease`), whose three action properties it inherits.

The part about the work of a run relates its locals to its parent checkpoint:

* `WorkInv`. Before its node returns, a run works on what it started from
  (`StartedFrom`): node, state, step count and answer are those of its parent, patched
  perhaps. This can only be said while the parent is kept: Prune and DeleteThread may
  take it away, and a run that lost it continues on its own copy. That is harmless, since
  its commit would need the parent to be the latest. And while a run owns
  its thread, the latest checkpoint is its parent (`LatestOK`), for the others cannot
  commit without the lease (`OwnerKeepsLatest`); after the body, the latest
  is the one its outcome speaks of (`OutcomeOK`).
* `SeenInv`. A run that works with an answer for an expected checkpoint has it as
  its parent, since the id was compared with that of the snapshot it starts from, and
  its first commit uses the answer up. With `WorkInv` the node and the state are those
  of that checkpoint. `GateNotBypassed` and the history would not notice if the
  comparison were left out: an answer to another interrupt opens that one, legally.
* `HistoryInv`. What is about to be committed follows its parent (`PendOK`), and so does
  every checkpoint whose parent is still there (`LinkOK`), in the same sense,
  `Follows`: one node, the next one, was applied and routed along an edge, or asked for a
  human. A commit turns the first into the second, since it is only accepted on top of
  its parent. `HistoryIsExecution`, `HistoryStartsAtEntry`, `GateNotBypassed` and the refinement
  of `GraphExecution` are read off.
* `TypesInv` and `SessionInv`. An agent's turns that a run carries are those of its
  parent checkpoint (`TurnsAt`), plus the one its node has just taken, up to its
  interrupt or to its end (`TurnsOK`, `StepTurns`); an append with these artifacts gives
  the checkpoint the sessions its state demands (`CommitMatches`). A step adds one turn to
  the agents that take one in it (`TurnsOfStep`): a turn before a gate counts for the
  pause, and after the gate as the node's first. This is where `NoTurnLeft` is needed,
  for the node behind the gate must be the one that stopped there. `SessionsStay` says what every proof about
  sessions needs: a step leaves the sessions of a checkpoint it keeps as they are.
* `CountInv`. The key of a tool call names the parent checkpoint, `OneKeyPerOperation`
  the point of the execution, which is the trace without its patches. They agree
  because a step count is the number of nodes applied (`Counted`) and the
  checkpoints of a thread lie in one order (`InOrder`): of two of them, the later one has
  the longer trace without patches, or the same and is the pause at a gate. So no
  two parents stand for the same operation. `InOrder` is kept by an append, as
  what is appended comes after the latest.

`WithoutPatches` is a recursive function, so what it returns for a longer trace needs
an induction. The prover cannot instantiate the library's induction rules, which take
a predicate; `NatSetInduction` takes a set, and is proved from the well-foundedness of
strict inclusion on finite sets, applied to the intervals `0..n`.

### The supervisor

`EngineInv` is the runtime's invariant for callers that pass an answer at most. `SupInv`
adds what the loop around the runs relies on, on any store, for latest-only ones
too: it speaks of states, not of histories.

* Every state that is stored, worked on or about to be committed is in step with the
  decisions made in it (`Paced`). A handoff is two steps, so k decisions are 2k steps at
  the supervisor and 2k - 1 at a worker or END, and the supervisor decides at
  most `Hops` times before it must end. So every step count is below the limit.
* Every gated worker in such a state has its approval (`TraceApproved`). A worker
  behind its gate works with an answer, and the answer was for the handoff at hand:
  an approval under way is for the latest checkpoint (`AnswerIsForLatest`), and a run
  begins at the latest checkpoint.
* What is shown is the interrupt to be committed, then the one committed, then the
  latest (`PauseIsShown`, `ShownIsLatest`). The two last need that nobody else
  moves the thread on, so these parts are stated under `Exclusive`.

### The coding loop

The engine's `RuntimeInv` and `WorkInv` hold for the calls of `RunCodingLoop` as well,
since `LoopNext` takes steps of `AnyStep` only. `Progress` then says in a few lines what
any step does to one call and its messages, and the two invariants follow it.

* `PaceInv`. State, step count and next node go together (`InLoop`): the loop goes round
  in three steps, iteration k begins at step 3(k - 1), and the implementer has taken
  k - 1 turns by then. The verifier's route lets no iteration start beyond `MaxIter`,
  and 3 MaxIter is below the step limit.
* `ChatInv`. In memory (`Talk`) are the turns of the last iterations, each once and in
  order, and what the updater has said since; in the store (`StoredTalk`) is the same up
  to the last turn. A call has no messages before its implementer's first turn but
  what the updater said, and then starts late, which is the gap at the beginning that
  `ChatHasNoGap` allows. The messages fit the state a run works on as long as its
  parent is kept (`ChatOK`): a call that was overtaken goes on talking to itself, and
  what it says is never stored. A verifier's or updater's checkpoint inherits
  the conversation of its parent, which still fits, as neither takes a turn.

`Conversation` is recursive too; `ConversationGoesOn` says by `NatSetInduction` that
another turn is appended to it, and that it does not look at what is said later.

### Checked by TLC only

* Liveness (`EveryRunEnds`, `ThreadBecomesFree`, `SupervisorReturns`): fairness is out of the
  prover's reach.

## Not modelled, and the plan

In this order:

1. Events as a trace of a run: one `run_end`, statuses that agree between body
   and heartbeat.
2. One agent instance used by several runs at once (`AsNode`).
3. The coding loop without a Durable store, which keeps no conversation, and its
   list of changed files. After a resume at the updater that list loses the files
   of earlier iterations.
4. The state reducers and `AddReducer` as operators.

Left out for good: prompts and LLM calls, formatting and logging, schema
migration, `List` (it reads history under the same lock), runs without a store,
and the handoff and pipeline helpers, which parse text and build linear graphs.
Panics of node functions take the process down, which is a crash.
