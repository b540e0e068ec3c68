---------------------------- MODULE GraphRuntime ----------------------------
(***************************************************************************)
(* Compiled.Invoke and Compiled.Resume (graph/builder.go): runs that       *)
(* execute a graph node by node, write a checkpoint after every node, stop *)
(* at human gates and continue later, in this process or another one.      *)
(*                                                                         *)
(* A run is one call of Invoke or Resume, with the heartbeat goroutine     *)
(* withLease starts for it.  Runs interleave at every call of the lease    *)
(* and of the store and whenever a node function is entered or left; the   *)
(* lease is that of ExecutionLease, a thread of the store that of          *)
(* Checkpoints (DurableMemory, with Fenced when a lease is used) or the    *)
(* single snapshot the checkpointers Memory and SQLite keep.               *)
(*                                                                         *)
(* The state a graph carries is the sequence of the nodes that were        *)
(* applied to it (a channel with the AppendSlice reducer), so a node       *)
(* applied twice, dropped or reordered is visible.  An agent's session is  *)
(* the number of turns it has taken.  Node functions are external: they    *)
(* take a turn with each of their agents, starting from the session of the *)
(* parent checkpoint; the gated ones call InterruptOrResume, after a turn  *)
(* of some of their agents (BeforeGate) and before that of the others.     *)
(***************************************************************************)
EXTENDS ExecutionLease, Checkpoints, Sequences

CONSTANTS
    Nodes, END, Entry,
    Succ,       \* Succ[n]: what edge or route of n may lead to
    Gated,      \* nodes that call InterruptOrResume
    Agents,
    AgentsOf,   \* AgentsOf[n]: agents that take a turn in n
    BeforeGate, \* BeforeGate[n]: those that take it before n interrupts
    Commands,   \* what callers pass to Resume
    StoreOf,    \* StoreOf[t]: what the graph of thread t was compiled with
    MaxSteps,   \* WithMaxSteps
    Keep,       \* keepLast of the Prune calls somebody makes (0: DeleteThread)
    Faults,     \* what may go wrong: "crash", "cancel", "node", "renew",
                \* "release", "commit"
    Timely,     \* a live heartbeat renews before its lease runs out
    MaxID       \* bound: checkpoints written

NoGoto == "none"

\* WithDurableCheckpointer and WithExecutionLease; WithDurableCheckpointer
\* alone; WithCheckpointer and one of the latest-only stores.  Compile refuses
\* a lease with the last two.
Stores == {"fenced", "durable", "memory", "sqlite"}

Command == [resume : BOOLEAN, update : BOOLEAN, expect : BOOLEAN,
            goto : Nodes \cup {END, NoGoto}]

NoCommand == [resume |-> FALSE, update |-> FALSE, expect |-> FALSE, goto |-> NoGoto]

ASSUME RuntimeAssumption ==
    /\ Threads # {}
    /\ END \notin Nodes
    /\ NoGoto \notin Nodes \cup {END}
    /\ "update" \notin Nodes
    /\ Entry \in Nodes
    /\ Succ \in [Nodes -> SUBSET (Nodes \cup {END})]
    /\ Gated \subseteq Nodes
    /\ AgentsOf \in [Nodes -> SUBSET Agents]
    /\ BeforeGate \in [Nodes -> SUBSET Agents]
    /\ \A n \in Nodes : BeforeGate[n] \subseteq IF n \in Gated THEN AgentsOf[n] ELSE {}
    /\ Commands \subseteq Command
    /\ StoreOf \in [Threads -> Stores]
    /\ Timely \in BOOLEAN
    /\ MaxSteps \in Nat /\ MaxID \in Nat
    /\ Keep \subseteq Nat

VARIABLES
    threads,    \* DurableMemory.threads
    lastID,     \* number of ids drawn by NewID
    run         \* run[r]: the locals of Invoke or Resume and of its heartbeat

vars == <<leases, threads, lastID, run>>

\* The locals of one call.  pc says where it is:
\*   idle, acquire (before Acquire), begin (body called), loop (head of run's
\*   loop), node (in the node function), persist (before leaseLostFrom of
\*   persist), commit (before CommitStep), exit (body returned, heartbeat
\*   still to join), release (before Release), done.
\* cause is context.Cause(runCtx); hb the heartbeat goroutine; approved the
\* resume value in ctx; pend the snapshot under way.
NoPend == [node |-> END, interrupt |-> FALSE]

Idle(t) ==
    [pc |-> "idle", op |-> "none", thread |-> t, cmd |-> NoCommand,
     expected |-> NoID, ttl |-> 0, epoch |-> 0, hb |-> FALSE, cause |-> "none",
     parent |-> NoID, node |-> END, trace |-> <<>>, step |-> 0,
     approved |-> FALSE, turns |-> NoEntries,
     pend |-> NoPend, outcome |-> "none"]

RuntimeInit ==
    /\ LeaseInit
    /\ threads = [t \in Threads |-> EmptyThread]
    /\ lastID = 0
    /\ run = [r \in Runs |-> Idle(CHOOSE t \in Threads : TRUE)]

ThreadOf(r) == threads[run[r].thread]

UseLease(t) == StoreOf[t] = "fenced"
LatestOnly(t) == StoreOf[t] \in {"memory", "sqlite"}

\* Apply with the AppendSlice reducer: the state with an update merged in.
Applied(trace, update) == Append(trace, update)
GrantOf(r) == Grant(run[r].thread, r, run[r].epoch)
HoldsLease(r) == Holds(GrantOf(r))

\* The run changes its own locals only.
Local(r, rec) ==
    /\ run' = [run EXCEPT ![r] = rec]
    /\ UNCHANGED <<leases, threads, lastID>>

At(r, pc) == run[r].pc = pc

-----------------------------------------------------------------------------
(* Invoke, Resume and withLease up to the body. *)

\* A caller decides to start a run; an approver who passes
\* WithExpectedCheckpointID has just looked at the latest checkpoint.
Start(r, t, op, cmd) ==
    /\ At(r, "idle")
    /\ op = "invoke" => cmd = NoCommand
    /\ cmd.expect => threads[t].latestID # NoID
    /\ Local(r, [Idle(t) EXCEPT
                   !.pc = IF UseLease(t) THEN "acquire" ELSE "begin",
                   !.op = op, !.cmd = cmd,
                   !.expected = IF cmd.expect THEN threads[t].latestID ELSE NoID])

\* Acquire succeeds; the heartbeat goroutine is started.
AcquireGranted(r, ttl) ==
    /\ At(r, "acquire")
    /\ Acquire(run[r].thread, r, ttl)
    /\ run' = [run EXCEPT ![r].pc = "begin", ![r].ttl = ttl, ![r].hb = TRUE,
                          ![r].epoch = leases'[run[r].thread].epoch]
    /\ UNCHANGED <<threads, lastID>>

\* A run that is over keeps nothing but its outcome.
Finished(r, outcome) ==
    [Idle(run[r].thread) EXCEPT !.pc = "done", !.outcome = outcome]

\* ErrLeaseHeld: the call returns before the body.
AcquireDenied(r) ==
    /\ At(r, "acquire")
    /\ LeaseHeld(run[r].thread, r)
    /\ Local(r, Finished(r, "held"))

\* Mutant of Exit: the join waits for a heartbeat nobody has cancelled.
MutExitWithoutCancel(rec, outcome) ==
    [rec EXCEPT !.pc = "exit", !.outcome = outcome, !.pend = NoPend,
                !.turns = NoEntries]

\* The body returns; withLease cancels runCtx.
Exit(rec, outcome) ==
    [rec EXCEPT !.pc = "exit", !.outcome = outcome, !.pend = NoPend,
                !.turns = NoEntries,
                !.cause = IF @ = "none" THEN "canceled" ELSE @]

\* Invoke starts at the entry without a parent.
BeginInvoke(r) ==
    /\ At(r, "begin")
    /\ run[r].op = "invoke"
    /\ Local(r, [run[r] EXCEPT !.pc = "loop", !.node = Entry])

Latest(r) == ThreadOf(r).history[ThreadOf(r).latestID].body

\* The id of the snapshot that was loaded: SQLite keeps none.
LoadedID(r) ==
    IF StoreOf[run[r].thread] = "sqlite" THEN NoID ELSE ThreadOf(r).latestID

Target(r) == IF run[r].cmd.goto # NoGoto THEN run[r].cmd.goto ELSE Latest(r).node

\* Mutant of Expected: the option is not compared.
MutExpectedIgnored(r) == TRUE

\* WithExpectedCheckpointID, compared after Acquire.
Expected(r) == run[r].expected \in {NoID, LoadedID(r)}

Resuming(r) == At(r, "begin") /\ run[r].op = "resume"

\* No checkpoint, or not the expected one.
ResumeRefused(r) ==
    /\ Resuming(r)
    /\ ~HasLatest(ThreadOf(r)) \/ ~Expected(r)
    /\ Local(r, Exit(run[r], "refused"))

\* Nothing is left to run: Resume of a completed thread completes again.
ResumeCompleted(r) ==
    /\ Resuming(r)
    /\ HasLatest(ThreadOf(r)) /\ Expected(r)
    /\ Target(r) = END
    /\ Local(r, Exit(run[r], "completed"))

\* At a gate, and the command brings no resume value.
ResumeNeedsValue(r) ==
    /\ Resuming(r)
    /\ HasLatest(ThreadOf(r)) /\ Expected(r)
    /\ Target(r) # END
    /\ Latest(r).interrupt /\ ~run[r].cmd.resume
    /\ Local(r, Exit(run[r], "refused"))

\* Mutant of Resumed: the step count of the snapshot is not passed to run.
MutResumedAtStepZero(r) ==
    LET snap == Latest(r) IN
    [run[r] EXCEPT !.pc = "loop", !.node = Target(r), !.trace = snap.trace,
                   !.approved = snap.interrupt, !.parent = ThreadOf(r).latestID]

\* Mutant of Resumed: the id of the snapshot is not passed to run.
MutResumedWithoutParent(r) ==
    LET snap == Latest(r) IN
    [run[r] EXCEPT !.pc = "loop", !.node = Target(r), !.trace = snap.trace,
                   !.step = snap.step, !.approved = snap.interrupt]

\* The locals with which Resume calls run: the state patched by Update, the
\* node replaced by Goto, the resume value in ctx only after an interrupt.
Resumed(r) ==
    LET snap == Latest(r) IN
    [run[r] EXCEPT !.pc = "loop", !.node = Target(r),
                   !.trace = IF run[r].cmd.update THEN Applied(snap.trace, "update")
                                                  ELSE snap.trace,
                   !.step = snap.step,
                   !.approved = snap.interrupt,
                   !.parent = LoadedID(r)]

ResumeContinues(r) ==
    /\ Resuming(r)
    /\ HasLatest(ThreadOf(r)) /\ Expected(r)
    /\ Target(r) # END
    /\ Latest(r).interrupt => run[r].cmd.resume
    /\ Local(r, Resumed(r))

-----------------------------------------------------------------------------
(* run: the loop over the nodes. *)

RunCompletes(r) ==
    /\ At(r, "loop")
    /\ run[r].node = END
    /\ Local(r, Exit(run[r], "completed"))

\* leaseLostFrom and ctx.Err at the head of the loop.
RunStops(r) ==
    /\ At(r, "loop")
    /\ run[r].node # END
    /\ run[r].cause # "none"
    /\ Local(r, Exit(run[r], run[r].cause))

\* Turns the agents of the node had taken at the parent checkpoint.
Turns(r) ==
    [a \in AgentsOf[run[r].node] |->
        IF HasSession(ThreadOf(r), run[r].parent, a)
        THEN AgentSession(ThreadOf(r), run[r].parent, a) ELSE 0]

\* The node function is called.
NodeStarts(r) ==
    /\ At(r, "loop")
    /\ run[r].node # END
    /\ run[r].cause = "none"
    /\ Local(r, [run[r] EXCEPT !.pc = "node", !.turns = Turns(r)])

\* Its result is discarded once the heartbeat has lost the lease.
NodeDiscarded(r) ==
    /\ At(r, "node")
    /\ run[r].cause = "lost"
    /\ Local(r, Exit(run[r], "lost"))

AtGate(r) == run[r].node \in Gated /\ ~run[r].approved

\* Mutant of NodeInterrupts: the interrupt is returned before it is persisted.
MutInterruptsUnsaved(r, arts) ==
    /\ At(r, "node")
    /\ run[r].cause # "lost"
    /\ AtGate(r)
    /\ Local(r, Exit(run[r], "paused"))

\* Mutant of NodeInterrupts: persist is called without the artifacts.
MutInterruptsWithoutArtifacts(r, arts) ==
    /\ At(r, "node")
    /\ run[r].cause # "lost"
    /\ AtGate(r)
    /\ Local(r, [run[r] EXCEPT !.pc = "persist", !.turns = NoEntries,
                   !.pend = [node |-> run[r].node, interrupt |-> TRUE]])

\* InterruptOrResume without a resume value, the node having registered
\* artifacts: re-enter the same node later, with the same state.
NodeInterrupts(r, arts) ==
    /\ At(r, "node")
    /\ run[r].cause # "lost"
    /\ AtGate(r)
    /\ Local(r, [run[r] EXCEPT !.pc = "persist", !.turns = arts,
                   !.pend = [node |-> run[r].node, interrupt |-> TRUE]])

\* The node returns an error, for reasons of its own or because of ctx.
NodeFails(r) ==
    /\ At(r, "node")
    /\ run[r].cause # "lost"
    /\ "node" \in Faults \/ run[r].cause = "canceled"
    /\ Local(r, Exit(run[r], "error"))

\* RunOnce of each of these agents of the node: one more turn than the session
\* had, registered as the artifact of this step.
TurnsTaken(turns, agents) == [a \in agents |-> turns[a] + 1]

\* A gated node whose agents in BeforeGate took a turn before it asked.  They
\* take it again when the node is entered again.
NodePauses(r) == NodeInterrupts(r, TurnsTaken(run[r].turns, BeforeGate[run[r].node]))

\* The fixed edge or the route of the node.
Routes(r) == Succ[run[r].node]

\* Mutant of NodeReturns: the resume value stays in ctx for the nodes after.
MutNodeReturnsKeepsApproval(r, update, next, arts) ==
    /\ At(r, "node")
    /\ run[r].cause # "lost"
    /\ ~AtGate(r)
    /\ next \in Routes(r)
    /\ Local(r, [run[r] EXCEPT !.pc = "persist",
                   !.trace = Applied(@, update), !.step = @ + 1,
                   !.turns = arts,
                   !.pend = [node |-> next, interrupt |-> FALSE]])

\* The node returns an update, having registered artifacts: apply the update,
\* count the step, clear the one-shot resume value, and route.
NodeReturns(r, update, next, arts) ==
    /\ At(r, "node")
    /\ run[r].cause # "lost"
    /\ ~AtGate(r)
    /\ next \in Routes(r)
    /\ Local(r, [run[r] EXCEPT !.pc = "persist",
                   !.trace = Applied(@, update), !.step = @ + 1,
                   !.approved = FALSE,
                   !.turns = arts,
                   !.pend = [node |-> next, interrupt |-> FALSE]])

\* A node whose update is its own name, and each of whose agents took a turn.
NodeSucceeds(r) ==
    \E next \in Nodes \cup {END} :
        NodeReturns(r, run[r].node, next, TurnsTaken(run[r].turns, AgentsOf[run[r].node]))

\* Mutant of IdempotencyKey: the run id is part of it.
MutKeyOfRun(r) == <<run[r].thread, r, run[r].parent, run[r].node>>

\* ToolExecution.IdempotencyKey of the tool calls of a node, without the tool
\* and the operation id, which are the same whenever the node repeats itself.
IdempotencyKey(r) == <<run[r].thread, run[r].parent, run[r].node>>

\* ToolExecution.FenceToken
FenceToken(r) == run[r].epoch

-----------------------------------------------------------------------------
(* persist and the commit it makes. *)

PersistRefused(r) ==
    /\ At(r, "persist")
    /\ run[r].cause = "lost"
    /\ Local(r, Exit(run[r], "lost"))

PersistChecked(r) ==
    /\ At(r, "persist")
    /\ run[r].cause # "lost"
    /\ Local(r, [run[r] EXCEPT !.pc = "commit"])

Snap(r) ==
    [id |-> lastID + 1, parent |-> run[r].parent,
     body |-> [node |-> run[r].pend.node, trace |-> run[r].trace,
               step |-> run[r].step, interrupt |-> run[r].pend.interrupt]]

\* Mutant of Fenced: persist calls CommitStep although there is a lease.
MutNotFenced(r) == TRUE

\* CommitStepFenced validates the lease, CommitStep does not.
Fenced(r) == UseLease(run[r].thread) => HoldsLease(r)

\* What the collector of the step has registered: a session of each agent that
\* took a turn.
Artifacts(r) == run[r].turns

\* Mutant of Overwritten: the interrupt column is left out of the upsert.
MutOverwrittenKeepsInterrupt(th, snap) ==
    LET was == IF HasLatest(th) THEN th.history[th.latestID].body.interrupt
                                ELSE snap.body.interrupt
    IN  [EmptyThread EXCEPT
            !.latestID = snap.id,
            !.history = [c \in {snap.id} |->
                [parent |-> snap.parent, revision |-> 0,
                 body |-> [snap.body EXCEPT !.interrupt = was]]]]

\* Put of a latest-only store: the snapshot replaces whatever was there.
Overwritten(th, snap) ==
    [EmptyThread EXCEPT
        !.latestID = snap.id,
        !.history = [c \in {snap.id} |->
            [parent |-> snap.parent, revision |-> 0, body |-> snap.body]]]

\* A latest-only store takes any snapshot.
CanStore(r) == LatestOnly(run[r].thread) \/ CanAppend(ThreadOf(r), Snap(r))

\* The store takes the snapshot, and the artifacts if it keeps sessions.
AppendsSnap(r) ==
    /\ lastID < MaxID
    /\ CanStore(r)
    /\ threads' = [threads EXCEPT ![run[r].thread] =
                     IF LatestOnly(run[r].thread) THEN Overwritten(@, Snap(r))
                     ELSE Appended(@, Snap(r), Artifacts(r))]
    /\ lastID' = lastID + 1
    /\ UNCHANGED leases

\* Where run is after a commit: paused at the gate, at its step limit, or at
\* the head of the loop.
AfterCommit(r) ==
    LET next == [run[r] EXCEPT !.parent = lastID + 1, !.node = run[r].pend.node,
                               !.turns = NoEntries, !.pend = NoPend]
    IN  IF run[r].pend.interrupt THEN Exit(next, "paused")
        ELSE IF MaxSteps > 0 /\ next.step >= MaxSteps THEN Exit(next, "maxsteps")
        ELSE [next EXCEPT !.pc = "loop"]

CommitSucceeds(r) ==
    /\ At(r, "commit")
    /\ Fenced(r)
    /\ AppendsSnap(r)
    /\ run' = [run EXCEPT ![r] = AfterCommit(r)]

\* ErrLeaseLost from the store: the lease is another's, or has run out.
CommitFenced(r) ==
    /\ At(r, "commit")
    /\ ~Fenced(r)
    /\ Local(r, Exit(run[r], "lost"))

\* ErrCheckpointConflict: another run has appended, or there was a history.
CommitConflicts(r) ==
    /\ At(r, "commit")
    /\ Fenced(r)
    /\ ~CanStore(r)
    /\ Local(r, Exit(run[r], "conflict"))

\* The store reports an error of its own, having appended the snapshot or not.
CommitUnknown(r) ==
    /\ "commit" \in Faults
    /\ At(r, "commit")
    /\ \/ /\ Fenced(r)
          /\ AppendsSnap(r)
          /\ run' = [run EXCEPT ![r] = Exit(@, "error")]
       \/ Local(r, Exit(run[r], "error"))

-----------------------------------------------------------------------------
(* withLease after the body. *)

\* The heartbeat goroutine has ended; lease_released is emitted.
HeartbeatJoined(r) ==
    /\ UseLease(run[r].thread)
    /\ At(r, "exit")
    /\ ~run[r].hb
    /\ Local(r, [run[r] EXCEPT !.pc = "release"])

\* Mutant of Releases: the thread's lease is freed, whoever owns it.
MutReleasesAny(r) ==
    /\ At(r, "release")
    /\ leases' = [leases EXCEPT ![run[r].thread].runID = NoRun,
                                ![run[r].thread].remaining = 0]
    /\ run' = [run EXCEPT ![r] = Finished(r, run[r].outcome)]
    /\ UNCHANGED <<threads, lastID>>

\* Release is called with the last grant; its error is ignored.
Releases(r) ==
    /\ At(r, "release")
    /\ IF leases[run[r].thread].runID = r /\ leases[run[r].thread].epoch = run[r].epoch
       THEN Release(GrantOf(r))
       ELSE UNCHANGED leases
    /\ run' = [run EXCEPT ![r] = Finished(r, run[r].outcome)]
    /\ UNCHANGED <<threads, lastID>>

ReleaseFails(r) ==
    /\ "release" \in Faults
    /\ At(r, "release")
    /\ Local(r, Finished(r, run[r].outcome))

\* Without a lease there is nothing to do after the body.
Returns(r) ==
    /\ ~UseLease(run[r].thread)
    /\ At(r, "exit")
    /\ Local(r, Finished(r, run[r].outcome))

-----------------------------------------------------------------------------
(* leaseHeartbeat *)

Beating(r) == run[r].hb /\ run[r].cause = "none"

HeartbeatRenews(r) ==
    /\ Beating(r)
    /\ Renew(GrantOf(r), run[r].ttl)
    /\ UNCHANGED <<threads, lastID, run>>

\* Renew fails, because the lease is lost or for any other reason: the run is
\* cancelled with ErrLeaseLost.
HeartbeatLoses(r) ==
    /\ Beating(r)
    /\ ~HoldsLease(r) \/ "renew" \in Faults
    /\ Local(r, [run[r] EXCEPT !.hb = FALSE, !.cause = "lost"])

\* runCtx is done.
HeartbeatStops(r) ==
    /\ run[r].hb
    /\ run[r].cause # "none"
    /\ Local(r, [run[r] EXCEPT !.hb = FALSE])

-----------------------------------------------------------------------------
(* The surroundings: callers that cancel, processes that die, maintenance, *)
(* and the clock.                                                          *)

InBody(r) == run[r].pc \in {"begin", "loop", "node", "persist", "commit"}

Cancel(r) ==
    /\ "cancel" \in Faults
    /\ InBody(r)
    /\ run[r].cause = "none"
    /\ Local(r, [run[r] EXCEPT !.cause = "canceled"])

\* The process of the run dies; its lease stays until it runs out.  The
\* Memory checkpointer would die with it.
Crash(r) ==
    /\ "crash" \in Faults
    /\ StoreOf[run[r].thread] # "memory"
    /\ InBody(r) \/ run[r].pc \in {"exit", "release"}
    /\ Local(r, Finished(r, "crashed"))

Prune(t, k) ==
    /\ k > 0
    /\ Cardinality(DOMAIN threads[t].history) > k
    /\ threads' = [threads EXCEPT ![t] = Pruned(@, k)]
    /\ UNCHANGED <<leases, lastID, run>>

\* DeleteThread, and Prune with keepLast = 0; Fenced has no lease to delete.
DeleteThread(t) ==
    /\ 0 \in Keep
    /\ threads[t] # EmptyThread
    /\ threads' = [threads EXCEPT ![t] = EmptyThread]
    /\ UNCHANGED <<leases, lastID, run>>

\* With Timely, time waits for a heartbeat that is about to be too late: the
\* ticker fires every third of the lifetime, and a renewal is assumed to
\* reach the lease within the other two.
Clock ==
    /\ Tick
    /\ Timely => \A r \in Runs :
                   ~(Beating(r) /\ leases[run[r].thread].remaining = 1)
    /\ UNCHANGED <<threads, lastID, run>>

-----------------------------------------------------------------------------
\* The steps of a run that go on by themselves once it is started, but for
\* what the node functions of a particular graph do.
EngineStep(r) ==
    \/ BeginInvoke(r) \/ ResumeRefused(r) \/ ResumeCompleted(r)
    \/ ResumeNeedsValue(r) \/ ResumeContinues(r)
    \/ RunCompletes(r) \/ RunStops(r) \/ NodeStarts(r)
    \/ NodeDiscarded(r) \/ NodeFails(r)
    \/ PersistRefused(r) \/ PersistChecked(r)
    \/ CommitSucceeds(r) \/ CommitFenced(r) \/ CommitConflicts(r) \/ CommitUnknown(r)

BodyStep(r) == EngineStep(r) \/ NodePauses(r) \/ NodeSucceeds(r)

LeaseStep(r) ==
    \/ \E ttl \in TTLs : AcquireGranted(r, ttl)
    \/ AcquireDenied(r)
    \/ HeartbeatJoined(r) \/ Releases(r) \/ ReleaseFails(r)
    \/ Returns(r)

HeartbeatStep(r) == HeartbeatRenews(r) \/ HeartbeatLoses(r) \/ HeartbeatStops(r)

RunStep(r) == BodyStep(r) \/ LeaseStep(r)

\* Invoke and Resume of any thread with any of the RunOptions.
Starts(r) == \E t \in Threads :
    \/ Start(r, t, "invoke", NoCommand)
    \/ \E cmd \in Commands : Start(r, t, "resume", cmd)

RuntimeNext ==
    \/ \E r \in Runs : Starts(r)
    \/ \E r \in Runs : RunStep(r)
    \/ \E r \in Runs : HeartbeatStep(r)
    \/ \E r \in Runs : Cancel(r)
    \/ \E r \in Runs : Crash(r)
    \/ \E t \in Threads, k \in Keep : Prune(t, k)
    \/ \E t \in Threads : DeleteThread(t)
    \/ Clock

RuntimeSpec == RuntimeInit /\ [][RuntimeNext]_vars

-----------------------------------------------------------------------------
(***************************************************************************)
(* Properties.                                                             *)
(***************************************************************************)

PCs == {"idle", "acquire", "begin", "loop", "node", "persist", "commit",
        "exit", "release", "done"}

Outcomes == {"none", "held", "refused", "completed", "paused", "maxsteps",
             "lost", "canceled", "conflict", "error", "crashed"}

RunFields == DOMAIN Idle(CHOOSE t \in Threads : TRUE)

RunTypeOK(x) ==
    /\ DOMAIN x = RunFields
    /\ x.pc \in PCs
    /\ x.op \in {"none", "invoke", "resume"}
    /\ x.thread \in Threads
    /\ x.cmd \in Commands \cup {NoCommand}
    /\ x.expected \in 0..lastID
    /\ x.ttl \in TTLs \cup {0}
    /\ x.epoch \in 0..leases[x.thread].epoch
    /\ x.hb \in BOOLEAN
    /\ x.cause \in {"none", "lost", "canceled"}
    /\ x.parent \in 0..lastID
    /\ x.node \in Nodes \cup {END}
    /\ x.trace \in Seq(Nodes \cup {"update"})
    /\ x.step \in Nat
    /\ x.approved \in BOOLEAN
    /\ DOMAIN x.turns \subseteq Agents /\ \A a \in DOMAIN x.turns : x.turns[a] \in Nat
    /\ x.pend.node \in Nodes \cup {END} /\ x.pend.interrupt \in BOOLEAN
    /\ x.outcome \in Outcomes

\* The store, the lease and the locals of every run are well formed; the
\* lease epoch a run was granted is one the lease has reached.
RuntimeTypeOK ==
    /\ LeaseTypeOK
    /\ lastID \in 0..MaxID
    /\ \A t \in Threads : /\ threads[t].latestID \in 0..lastID
                          /\ DOMAIN threads[t].history \subseteq 1..lastID
    /\ \A r \in Runs : RunTypeOK(run[r])

\* What ran after p's snapshot, possibly after an Update, to make c's.
Applies(p, c, n) ==
    \/ c.trace = Append(p.trace, n)
    \/ c.trace = Append(Append(p.trace, "update"), n)

History(t) == threads[t].history

\* The threads whose store keeps a history.
DurableThreads == {t \in Threads : ~LatestOnly(t)}

\* The checkpoints of a thread and their parents, where both are kept.
Links(t) ==
    {c \in DOMAIN History(t) : History(t)[c].parent \in DOMAIN History(t)}

Body(t, c) == History(t)[c].body
ParentBody(t, c) == Body(t, History(t)[c].parent)

\* The history of a thread is one execution of the graph, whoever ran its
\* parts and however often runs crashed, lost their lease or collided: every
\* checkpoint adds exactly one node to its parent, the one the parent says
\* is next, counts it, and is followed along an edge; a checkpoint at a gate
\* adds none (run, Resume and the parent compare-and-swap of the store).
HistoryIsExecution ==
    \A t \in DurableThreads : \A c \in Links(t) :
        LET p == ParentBody(t, c)  b == Body(t, c) IN
        IF b.interrupt
        THEN /\ b.node = p.node
             /\ b.step = p.step
             /\ b.trace \in {p.trace, Append(p.trace, "update")}
        ELSE /\ Applies(p, b, p.node)
             /\ b.step = p.step + 1
             /\ b.node \in Succ[p.node]

\* The first checkpoint of a thread is that of a fresh Invoke: a run never
\* starts a second history on top of one, nor continues one that was deleted.
HistoryStartsAtEntry ==
    \A t \in DurableThreads : \A c \in DOMAIN History(t) :
        History(t)[c].parent = NoID =>
            LET b == Body(t, c) IN
            IF b.interrupt THEN b.node = Entry /\ b.trace = <<>>
                           ELSE b.trace = <<Entry>> /\ b.step = 1

\* A gated node is applied only by a run that resumed from the interrupt of
\* this very node (InterruptOrResume, and the resume value that is cleared
\* after the node and injected only after an interrupt).  Callers do not
\* combine Resume with Goto: the value would go to the node they name.
GateNotBypassed ==
    \A t \in DurableThreads : \A c \in DOMAIN History(t) :
        LET b == Body(t, c) IN
        (~b.interrupt /\ b.trace[Len(b.trace)] \in Gated) =>
            /\ History(t)[c].parent # NoID
            /\ c \in Links(t) =>
                 /\ ParentBody(t, c).interrupt
                 /\ ParentBody(t, c).node = b.trace[Len(b.trace)]

\* The store keeps one chain of checkpoints with its newest at the end, no
\* matter how many runs race with or without a lease: of those that start
\* from the same checkpoint at most one appends to it.
OneChain ==
    \A t \in DurableThreads : ThreadLatestIsNewest(threads[t]) /\ ThreadChainIntact(threads[t])

\* An approval that names the checkpoint its caller looked at opens that gate
\* and no other: the node that runs with it is the one that interrupted there,
\* on the state it had there, whoever else has continued the thread in between
\* (WithExpectedCheckpointID).  As above, without Resume and Goto at once.
ApprovalOpensWhatWasSeen ==
    \A r \in Runs : LET t == run[r].thread  seen == run[r].expected IN
        (/\ At(r, "node") /\ run[r].approved
         /\ t \in DurableThreads /\ seen \in DOMAIN History(t)) =>
            /\ Body(t, seen).interrupt
            /\ run[r].node = Body(t, seen).node
            /\ run[r].trace \in {Body(t, seen).trace, Append(Body(t, seen).trace, "update")}

\* How many nodes of a state gave agent a a turn, if Of says which do.
TurnsBy(Of, a, trace) ==
    Cardinality({i \in DOMAIN trace : trace[i] \in Nodes /\ a \in Of[trace[i]]})

\* The turns an agent has taken when a checkpoint says how far its thread is.
\* A turn before a gate is taken twice: it is committed with the interrupt, and
\* taken again by the node that is re-entered with the approval.
TurnsAt(a, b) ==
    TurnsBy(AgentsOf, a, b.trace) + TurnsBy(BeforeGate, a, b.trace)
        + (IF b.interrupt /\ a \in BeforeGate[b.node] THEN 1 ELSE 0)

\* The sessions a checkpoint refers to are those of the graph state in it:
\* an agent's session has exactly the turns that the nodes in the trace gave
\* it, one more for each time a node of the trace, or the one that waits now,
\* stopped at its gate after the agent's turn; none is lost with an interrupt
\* or a refused commit, and none is counted for a node that failed, crashed or
\* was overtaken (step artifacts are committed with the step or its interrupt,
\* or discarded).  Without Resume and Goto at once, as above: a node that was
\* left at its gate keeps the turn it took there.
SessionMatchesHistory ==
    \A t \in DurableThreads : \A c \in DOMAIN History(t), a \in Agents :
        LET turns == TurnsAt(a, Body(t, c))
        IN  IF turns = 0 THEN ~HasSession(threads[t], c, a)
            ELSE /\ HasSession(threads[t], c, a)
                 /\ AgentSession(threads[t], c, a) = turns

\* A run that is continuing a thread and holds its lease works on the latest
\* checkpoint: nobody else's commit gets in between, so it can only
\* be refused by the store if the thread is deleted meanwhile.
OwnerSeesLatest ==
    \A r \in Runs :
        (InBody(r) /\ HoldsLease(r) /\ run[r].parent # NoID) =>
            ThreadOf(r).latestID \in {run[r].parent, NoID}

\* What the caller is told is in the store, as long as its run owns the
\* thread: a paused run left the interrupt as the latest checkpoint, a
\* completed one a checkpoint at END.
OutcomeIsDurable ==
    \A r \in Runs :
        (/\ HoldsLease(r) /\ run[r].pc \in {"exit", "release"}
         /\ ThreadOf(r).latestID # NoID) =>
            /\ run[r].outcome = "paused" =>
                 Latest(r).interrupt /\ Latest(r).node \in Gated
            /\ run[r].outcome = "completed" =>
                 ~Latest(r).interrupt /\ Latest(r).node = END

\* As long as heartbeats are in time, a run that nobody cancelled holds the
\* lease it was granted from Acquire to the return of its body, so no two of
\* them ever execute one thread, not even a node each.
HealthyRunOwnsThread ==
    \A r \in Runs :
        (UseLease(run[r].thread) /\ InBody(r) /\ run[r].cause = "none") => HoldsLease(r)

\* A state without the updates that were merged in by a Command.
WithoutPatches(trace) ==
    LET f[i \in 0..Len(trace)] ==
          IF i = 0 THEN <<>>
          ELSE IF trace[i] = "update" THEN f[i - 1] ELSE Append(f[i - 1], trace[i])
    IN  f[Len(trace)]

\* The logical operation a running node performs: at which point of the
\* execution, apart from patches, and on which side of its gate.
Operation(r) == <<WithoutPatches(run[r].trace), run[r].node, run[r].approved>>

\* Tool calls of a node that is repeated, by a retry or by another run that
\* took the thread over while the first still works, have the key of the first
\* attempt; tool calls of any other step have another one (ADR 0009, items 1
\* and 2).  Two runs in a node at once stand for the attempt before and the
\* attempt after a crash as well.  A turn before the gate is another operation
\* when the node is re-entered: its tool calls have a new key.  With SQLite, which keeps no ids, the key of
\* a run that is resumed has no parent, and says less.
OneKeyPerOperation ==
    \A r, s \in Runs :
        (/\ At(r, "node") /\ At(s, "node") /\ run[r].thread = run[s].thread
         /\ run[r].thread \in DurableThreads
         /\ {run[r].parent, run[s].parent} \subseteq
               DOMAIN History(run[r].thread) \cup {NoID}) =>
            ((IdempotencyKey(r) = IdempotencyKey(s)) <=> (Operation(r) = Operation(s)))

\* A downstream system that has seen the token of the thread's owner can tell
\* every run that lost the thread, however late its tools call: its token is
\* smaller (FenceToken, and the epoch that grows with every new owner).
StaleToolsAreFenced ==
    \A r, s \in Runs :
        (/\ r # s /\ At(r, "node") /\ At(s, "node")
         /\ run[r].thread = run[s].thread /\ HoldsLease(r)) =>
            FenceToken(s) < FenceToken(r)

\* A lease that is active ends in two ways only: it runs out, or its owner
\* has left the body, joined its heartbeat and releases it.  A late Release
\* of a run that lost the thread never frees the lease of its successor.
LeaseEndsByOwner ==
    [][\A t \in Threads :
        LET r == leases[t].runID IN
        (Active(t) /\ ~(Active(t)' /\ leases'[t].runID = r)) =>
            \/ leases[t].remaining = 1 /\ leases'[t].runID = r
            \/ At(r, "release") /\ run'[r].pc = "done"]_vars

-----------------------------------------------------------------------------
(***************************************************************************)
(* Liveness.  The Go scheduler runs every goroutine that can run, node     *)
(* functions are assumed to return, and time goes on.  Nobody is obliged   *)
(* to start a run, to prune, to cancel or to crash, and a heartbeat only   *)
(* has to notice that its run is over.                                     *)
(***************************************************************************)

Fairness ==
    /\ \A r \in Runs : WF_vars(RunStep(r)) /\ WF_vars(HeartbeatStops(r))
    /\ WF_vars(Clock)

FairSpec == RuntimeSpec /\ Fairness

\* Every call of Invoke and Resume returns: no order of the body, the
\* heartbeat and their cancellation leaves withLease waiting (<-done).
EveryRunEnds == \A r \in Runs : ~At(r, "idle") ~> At(r, "done")

\* A thread becomes available again, also after its owner has died or its
\* Release was lost.
ThreadBecomesFree == \A t \in Threads : []<>~Active(t)

-----------------------------------------------------------------------------
(***************************************************************************)
(* Refinement: together, the runs of a thread are one sequential           *)
(* execution of the graph, whose current point is the latest checkpoint.   *)
(***************************************************************************)

Fresh == [node |-> Entry, trace |-> <<>>, step |-> 0, interrupt |-> FALSE]

Execution == INSTANCE GraphExecution WITH
    point <- [t \in Threads |->
                IF HasLatest(threads[t])
                THEN threads[t].history[threads[t].latestID].body ELSE Fresh]

\* Runs that race, crash, lose their lease or are refused never make the
\* thread do anything but the next step of one execution.
ImplementsExecution == Execution!ExecutionSpec
=============================================================================
