------------------------------ MODULE Supervisor ------------------------------
(***************************************************************************)
(* RunSupervisor (orchestrator/supervisor.go): a supervisor node hands     *)
(* work to worker nodes and gets it back, some workers wait for a human's  *)
(* approval, and RunSupervisor itself is a loop around Invoke and Resume   *)
(* that asks the human and continues.                                      *)
(*                                                                         *)
(* A call s of RunSupervisor makes its runs one after the other; the       *)
(* current one is run[s] of GraphRuntime.  The code draws a new run id for *)
(* each, but the lease of the one before is released or lost by then, and  *)
(* nothing of it is kept, so the name can be used again.                   *)
(*                                                                         *)
(* The graph state is the sequence of the nodes that were applied: it      *)
(* gives the number of decisions ("step"), the present handoff, and what   *)
(* a human is shown of it (worker, task, reason).                          *)
(***************************************************************************)
EXTENDS GraphRuntime

CONSTANTS
    Workers,
    Hops,       \* SupervisorConfig.MaxSteps
    Exclusive   \* one call of RunSupervisor at a time on a thread

supervisor == Entry

\* The graph RunSupervisor builds: a star, RequireApprovalFor = Gated, and
\* WithMaxSteps(2 * Hops + 2).
ASSUME SupervisorAssumption ==
    /\ Hops \in Nat \ {0}
    /\ Exclusive \in BOOLEAN
    /\ supervisor \notin Workers
    /\ Nodes = Workers \cup {supervisor}
    /\ Succ = [n \in Nodes |-> IF n = supervisor THEN Workers \cup {END}
                                                 ELSE {supervisor}]
    /\ Gated \subseteq Workers
    /\ MaxSteps = 2 * Hops + 2

VARIABLES
    sup,        \* sup[s]: the locals of a call of RunSupervisor
    approvals   \* the handoffs humans have approved (history)

supVars == <<vars, sup, approvals>>

\* What an interrupt shows: the worker and the execution that led to it.
Payload(t, node, trace) == [thread |-> t, node |-> node, trace |-> trace]

\* pc: idle, running (inside Invoke or Resume), asking (inside OnInterrupt),
\* done.  hook says whether OnInterrupt is set, shown is the payload of the
\* last interrupt, result what the caller is told.
SupIdle(t) ==
    [pc |-> "idle", thread |-> t, hook |-> FALSE,
     shown |-> Payload(t, END, <<>>), result |-> "none"]

SupInit ==
    /\ RuntimeInit
    /\ \E t \in Threads : sup = [s \in Runs |-> SupIdle(t)]
    /\ approvals = {}

SupAt(s, pc) == sup[s].pc = pc

ThreadOfSup(s) == threads[sup[s].thread]
LatestOfSup(s) == ThreadOfSup(s).history[ThreadOfSup(s).latestID].body

-----------------------------------------------------------------------------
(* The node functions. *)

\* State["step"]: the decisions the supervisor has made so far.
Step(trace) == Cardinality({i \in DOMAIN trace : trace[i] = supervisor})

\* Mutant of MustEnd: one decision more.
MutMustEndLate(trace) == Step(trace) > Hops

\* step >= max_steps: the supervisor does not decide, and ends.
MustEnd(trace) == Step(trace) >= Hops

\* The supervisor names a worker or END.
Decides(s) ==
    /\ run[s].node = supervisor
    /\ \E next \in IF MustEnd(run[s].trace) THEN {END} ELSE Routes(s) :
         NodeReturns(s, supervisor, next, NoEntries)
    /\ UNCHANGED <<sup, approvals>>

\* A worker has done its task, and its agent has taken a turn.
Works(s) ==
    /\ run[s].node \in Workers
    /\ NodeReturns(s, run[s].node, supervisor, TurnsTaken(run[s].turns, AgentsOf[run[s].node]))
    /\ UNCHANGED <<sup, approvals>>

\* A gated worker interrupts with a payload, before its agent takes its turn.
Interrupts(s) ==
    /\ NodeInterrupts(s, NoEntries)
    /\ sup' = [sup EXCEPT ![s].shown =
                 Payload(run[s].thread, run[s].node, run[s].trace)]
    /\ UNCHANGED approvals

-----------------------------------------------------------------------------
(* RunSupervisor. *)

Done(s, result) ==
    sup' = [sup EXCEPT ![s] = [SupIdle(@.thread) EXCEPT
              !.pc = "done", !.result = result]]

\* RunSupervisor is called.
MayStart(s) ==
    /\ SupAt(s, "idle")
    /\ Exclusive => \A o \in Runs \ {s} : sup[o].pc \in {"idle", "done"}

\* Without ResumeFromCheckpoint: Invoke.
SupInvokes(s, hook) ==
    /\ MayStart(s)
    /\ Start(s, sup[s].thread, "invoke", NoCommand)
    /\ sup' = [sup EXCEPT ![s].pc = "running", ![s].hook = hook]
    /\ UNCHANGED approvals

\* ResumeFromCheckpoint, and the latest snapshot is no interrupt: Resume.
SupResumes(s, hook) ==
    /\ MayStart(s)
    /\ HasLatest(ThreadOfSup(s)) /\ ~LatestOfSup(s).interrupt
    /\ Start(s, sup[s].thread, "resume", NoCommand)
    /\ sup' = [sup EXCEPT ![s].pc = "running", ![s].hook = hook]
    /\ UNCHANGED approvals

\* ResumeFromCheckpoint of an interrupted thread: ask first.
SupResumesByAsking(s) ==
    /\ MayStart(s)
    /\ HasLatest(ThreadOfSup(s)) /\ LatestOfSup(s).interrupt
    /\ sup' = [sup EXCEPT ![s].pc = "asking", ![s].hook = TRUE,
                          ![s].shown = Payload(sup[s].thread, LatestOfSup(s).node,
                                                              LatestOfSup(s).trace)]
    /\ UNCHANGED <<vars, approvals>>

\* ResumeFromCheckpoint without a checkpoint, or of an interrupted thread
\* without anybody to ask.
SupCannotResume(s) ==
    /\ MayStart(s)
    /\ \/ ~HasLatest(ThreadOfSup(s)) /\ Done(s, "error")
       \/ /\ HasLatest(ThreadOfSup(s)) /\ LatestOfSup(s).interrupt
          /\ Done(s, "interrupted")
    /\ UNCHANGED <<vars, approvals>>

RunOver(s) == SupAt(s, "running") /\ At(s, "done")

\* The loop: the run was interrupted, and the human is asked.
AsksHuman(s) ==
    /\ RunOver(s)
    /\ run[s].outcome = "paused"
    /\ sup[s].hook
    /\ Local(s, Idle(sup[s].thread))
    /\ sup' = [sup EXCEPT ![s].pc = "asking"]
    /\ UNCHANGED approvals

ApproveCommand == [NoCommand EXCEPT !.resume = TRUE]

\* OnInterrupt returns true: Resume whatever is the latest checkpoint now.
HumanApproves(s) ==
    /\ SupAt(s, "asking")
    /\ approvals' = approvals \cup {sup[s].shown}
    /\ Start(s, sup[s].thread, "resume", ApproveCommand)
    /\ sup' = [sup EXCEPT ![s].pc = "running"]

\* OnInterrupt returns false or an error.
HumanRefuses(s) ==
    /\ SupAt(s, "asking")
    /\ Done(s, "denied")
    /\ UNCHANGED <<vars, approvals>>

\* The context is cancelled before or after the human is asked.
SupCancelled(s) ==
    /\ "cancel" \in Faults
    /\ SupAt(s, "asking") \/ (RunOver(s) /\ run[s].outcome = "paused")
    /\ Done(s, "canceled")
    /\ UNCHANGED <<vars, approvals>>

\* RunSupervisor returns what its last run returned; without OnInterrupt, an
\* interrupt too.
SupReturns(s) ==
    /\ RunOver(s)
    /\ run[s].outcome = "paused" => ~sup[s].hook
    /\ Done(s, run[s].outcome)
    /\ UNCHANGED <<vars, approvals>>

\* The process dies in the run or while the human is thinking.
SupCrashes(s) ==
    /\ \/ SupAt(s, "running") /\ Crash(s)
       \/ /\ "crash" \in Faults /\ StoreOf[sup[s].thread] # "memory"
          /\ SupAt(s, "asking")
          /\ UNCHANGED vars
    /\ Done(s, "crashed")
    /\ UNCHANGED approvals

-----------------------------------------------------------------------------
\* What a call does by itself once it has started.
RunProceeds(s) ==
    \/ (EngineStep(s) \/ LeaseStep(s)) /\ UNCHANGED <<sup, approvals>>
    \/ Decides(s) \/ Works(s) \/ Interrupts(s)
    \/ AsksHuman(s) \/ SupReturns(s)

HumanAnswers(s) == HumanApproves(s) \/ HumanRefuses(s)

Surroundings ==
    /\ \/ \E s \in Runs : HeartbeatStep(s)
       \/ \E s \in Runs : Cancel(s)
       \/ Clock
    /\ UNCHANGED <<sup, approvals>>

SupNext ==
    \/ \E s \in Runs, hook \in BOOLEAN : SupInvokes(s, hook) \/ SupResumes(s, hook)
    \/ \E s \in Runs : SupResumesByAsking(s) \/ SupCannotResume(s)
    \/ \E s \in Runs : RunProceeds(s)
    \/ \E s \in Runs : HumanAnswers(s)
    \/ \E s \in Runs : SupCancelled(s)
    \/ \E s \in Runs : SupCrashes(s)
    \/ Surroundings

SupSpec == SupInit /\ [][SupNext]_supVars

\* The scheduler runs what can run, nodes return, humans answer, time passes.
SupFairness ==
    /\ \A s \in Runs :
         /\ WF_supVars(RunProceeds(s)) /\ WF_supVars(HumanAnswers(s))
         /\ WF_supVars(HeartbeatStops(s) /\ UNCHANGED <<sup, approvals>>)
    /\ WF_supVars(Clock /\ UNCHANGED <<sup, approvals>>)

SupFairSpec == SupSpec /\ SupFairness

-----------------------------------------------------------------------------
(***************************************************************************)
(* Properties.                                                             *)
(***************************************************************************)

\* RequireApprovalFor: before a gated worker does its task, a human has been
\* shown this very handoff (worker, task and the execution behind it) and has
\* approved it, however many runs, processes and approvals the thread has
\* seen.  An approval is never carried over to another handoff, not even to
\* the same worker.
GatedWorkIsApproved ==
    \A s \in Runs : \A i \in DOMAIN run[s].trace :
        run[s].trace[i] \in Gated =>
            Payload(run[s].thread, run[s].trace[i], SubSeq(run[s].trace, 1, i - 1))
                \in approvals

\* While a human decides, the thread waits at the interrupt the human is
\* looking at: it is the latest snapshot of any of the stores, so that whoever
\* resumes after a crash or a refusal asks for the same thing again.
HumanSeesLatest ==
    \A s \in Runs : SupAt(s, "asking") =>
        /\ HasLatest(ThreadOfSup(s))
        /\ LatestOfSup(s).interrupt
        /\ sup[s].shown = Payload(sup[s].thread, LatestOfSup(s).node,
                                                 LatestOfSup(s).trace)

\* WithMaxSteps(2 * MaxSteps + 2) is a safety net only: the supervisor itself
\* ends in time, and interrupts, refusals and resumed runs use up none of the
\* steps, so that no call ends with "max steps exceeded".  All calls on a thread
\* have the same MaxSteps: the state has the count, and the call its limit.
CapNeverBites == \A s \in Runs : sup[s].result # "maxsteps"

\* Every call of RunSupervisor returns, if the human answers when asked: the
\* loop of interrupts and approvals comes to an end, and no run it makes is
\* left waiting for its heartbeat.
SupervisorReturns == \A s \in Runs : ~SupAt(s, "idle") ~> SupAt(s, "done")
=============================================================================
