-------------------------- MODULE SupervisorProofs --------------------------
(***************************************************************************)
(* What RunSupervisor promises, for any number of workers, decisions and   *)
(* calls, on any store: gated work is approved, a human sees where the     *)
(* thread stands, and the step limit is never reached.                     *)
(*                                                                         *)
(* The engine is that of GraphRuntime and the lemmas about AnyStep apply.  *)
(* The invariant adds what the loop around it relies on: every state that  *)
(* is stored or worked on has its approvals and is in step with the number *)
(* of decisions made, and an approval under way is one for the latest      *)
(* checkpoint, which nobody else moves on.                                 *)
(***************************************************************************)
EXTENDS Supervisor, GraphRuntimeProofs

-----------------------------------------------------------------------------
(* The engine under the supervisor. *)

SupCommands == {NoCommand, ApproveCommand}

\* What RunSupervisor passes to Resume: an answer at most.
LEMMA SupCommandsAreTyped ==
    /\ SupCommands \subseteq Command /\ NoCommand \in SupCommands
    /\ \A cmd \in SupCommands : cmd.goto = NoGoto /\ ~cmd.update
<1>1. /\ NoCommand \in Command /\ NoCommand.goto = NoGoto /\ ~NoCommand.update
  BY DEF NoCommand, Command
<1>2. /\ ApproveCommand \in Command /\ ApproveCommand.goto = NoGoto /\ ~ApproveCommand.update
  BY DEF ApproveCommand, NoCommand, Command
<1> QED
  BY <1>1, <1>2 DEF SupCommands

SupOK ==
    /\ DOMAIN sup = Runs
    /\ \A s \in Runs : /\ DOMAIN sup[s] = {"pc", "thread", "hook", "shown", "result"}
                       /\ sup[s].pc \in {"idle", "running", "asking", "done"}
                       /\ sup[s].thread \in Threads

\* What a call does to the engine is one of its steps.
LEMMA SupNextIsAnyStep ==
  ASSUME SupOK, SupNext
  PROVE  AnyStep(SupCommands) \/ UNCHANGED vars
<1>1. ASSUME NEW s \in Runs, NEW op \in {"invoke", "resume"}, NEW cmd \in SupCommands,
             Start(s, sup[s].thread, op, cmd)
      PROVE  AnyStep(SupCommands)
  BY <1>1 DEF SupOK, AnyStep, RunMove, Called
<1>2. ASSUME NEW s \in Runs, NEW hook, SupInvokes(s, hook) \/ SupResumes(s, hook)
      PROVE  AnyStep(SupCommands)
  BY <1>1, <1>2 DEF SupInvokes, SupResumes, SupCommands
<1>3. ASSUME NEW s \in Runs, HumanApproves(s) PROVE AnyStep(SupCommands)
  BY <1>1, <1>3 DEF HumanApproves, SupCommands
<1>4. ASSUME NEW s \in Runs, \/ SupResumesByAsking(s) \/ SupCannotResume(s)
                             \/ HumanRefuses(s) \/ SupCancelled(s) \/ SupReturns(s)
      PROVE  UNCHANGED vars
  BY <1>4 DEF SupResumesByAsking, SupCannotResume, HumanRefuses, SupCancelled, SupReturns
<1>5. ASSUME NEW s \in Runs, \/ EngineStep(s) \/ LeaseStep(s) \/ Decides(s) \/ Works(s)
                             \/ Interrupts(s) \/ HeartbeatStep(s) \/ Cancel(s) \/ Crash(s)
      PROVE  AnyStep(SupCommands)
  BY <1>5 DEF Decides, Works, Interrupts, AnyStep, RunMove, BodyMove
<1>6. ASSUME NEW s \in Runs, AsksHuman(s) PROVE AnyStep(SupCommands)
  BY <1>6 DEF AsksHuman, RunOver, SupOK, AnyStep, RunMove, Forgotten
<1>7. Clock => AnyStep(SupCommands)
  BY DEF AnyStep
<1> QED
  BY <1>2, <1>3, <1>4, <1>5, <1>6, <1>7
     DEF SupNext, RunProceeds, HumanAnswers, SupCrashes, Surroundings

-----------------------------------------------------------------------------
(* Approvals and decisions of an execution. *)

TraceApproved(t, trace, approved) ==
    /\ trace \in Seq(Nodes)
    /\ Exclusive => \A i \in DOMAIN trace : trace[i] \in Gated =>
         Payload(t, trace[i], SubSeq(trace, 1, i - 1)) \in approved

\* A handoff is two steps, one of the supervisor and one of the worker.
Paced(node, trace, step) ==
    LET k == Step(trace) IN
    /\ node = supervisor => step = 2 * k /\ k <= Hops
    /\ node \in Workers => step = 2 * k - 1 /\ k <= Hops
    /\ node = END => step = 2 * k - 1 /\ k <= Hops + 1

\* One more node, approved if it must be.
LEMMA TraceGrows ==
  ASSUME NEW t, NEW trace, NEW approved, TraceApproved(t, trace, approved),
         NEW n \in Nodes, (Exclusive /\ n \in Gated) => Payload(t, n, trace) \in approved
  PROVE  TraceApproved(t, Append(trace, n), approved)
<1> DEFINE longer == Append(trace, n)
           k == Len(trace)
<1>1. /\ trace \in Seq(Nodes) /\ longer \in Seq(Nodes) /\ k \in Nat
      /\ Len(longer) = k + 1 /\ longer[k + 1] = n
      /\ \A i \in 1..k : longer[i] = trace[i]
      /\ DOMAIN trace = 1..k /\ DOMAIN longer = 1..(k + 1)
  BY DEF TraceApproved
<1>2. ASSUME NEW i \in 1..(k + 1) PROVE SubSeq(longer, 1, i - 1) = SubSeq(trace, 1, i - 1)
  <2>1. i - 1 \in 0..k /\ \A j \in 1..(i - 1) : j \in 1..k
    BY <1>1
  <2>2. \A j \in 1..(i - 1) : longer[j] = trace[j]
    BY <1>1, <2>1
  <2> HIDE DEF longer
  <2> QED
    BY <1>1, <2>1, <2>2
<1>3. SubSeq(trace, 1, k) = trace
  BY <1>1
<1> HIDE DEF longer, k
<1>4. ASSUME Exclusive, NEW i \in 1..(k + 1), longer[i] \in Gated
      PROVE  Payload(t, longer[i], SubSeq(longer, 1, i - 1)) \in approved
  <2>1. CASE i = k + 1
    <3>1. i - 1 = k
      BY <1>1, <2>1
    <3> QED
      BY <1>1, <1>2, <1>3, <1>4, <2>1, <3>1
  <2>2. CASE i # k + 1
    <3>1. i \in 1..k
      BY <1>1, <2>2
    <3> QED
      BY <1>1, <1>2, <1>4, <3>1 DEF TraceApproved
  <2> QED
    BY <2>1, <2>2
<1> QED
  BY <1>1, <1>4 DEF TraceApproved, longer

\* More approvals do no harm.
LEMMA ApprovalsStay ==
  ASSUME NEW t, NEW trace, NEW approved, NEW more, approved \subseteq more,
         TraceApproved(t, trace, approved)
  PROVE  TraceApproved(t, trace, more)
BY DEF TraceApproved

\* The supervisor counts its decisions.
LEMMA StepGrows ==
  ASSUME NEW trace \in Seq(Nodes), NEW n \in Nodes
  PROVE  /\ Step(trace) \in Nat
         /\ Step(Append(trace, n)) = IF n = supervisor THEN Step(trace) + 1 ELSE Step(trace)
<1> DEFINE S == {i \in DOMAIN trace : trace[i] = supervisor}
           longer == Append(trace, n)
           T == {i \in DOMAIN longer : longer[i] = supervisor}
           k == Len(trace) + 1
<1>1. /\ DOMAIN trace = 1..Len(trace) /\ Len(trace) \in Nat
      /\ DOMAIN longer = 1..k /\ longer[k] = n
      /\ \A i \in 1..Len(trace) : longer[i] = trace[i]
  OBVIOUS
<1>2. IsFiniteSet(S) /\ Cardinality(S) \in Nat
  <2>1. IsFiniteSet(1..Len(trace))
    <3>1. Len(trace) \in Int /\ 1 \in Int
      BY <1>1
    <3> QED
      BY <3>1, FS_Interval
  <2>2. S \subseteq 1..Len(trace)
    BY <1>1
  <2> QED
    BY <2>1, <2>2, FS_Subset, FS_CardinalityType
<1>3. T = IF n = supervisor THEN S \cup {k} ELSE S
  <2>1. \A i : i \in 1..k <=> i = k \/ i \in 1..Len(trace)
    BY <1>1
  <2> HIDE DEF longer, k
  <2>2. \A i : i \in T <=> (i = k \/ i \in 1..Len(trace)) /\ longer[i] = supervisor
    BY <1>1, <2>1
  <2>3. \A i : i \in S <=> i \in 1..Len(trace) /\ longer[i] = supervisor
    BY <1>1
  <2>4. longer[k] = n
    BY <1>1
  <2> HIDE DEF S, T
  <2> QED
    BY <2>2, <2>3, <2>4
<1>4. k \notin S
  BY <1>1
<1>5. Cardinality(T) = IF n = supervisor THEN Cardinality(S) + 1 ELSE Cardinality(S)
  <2> HIDE DEF S, T
  <2> QED
    BY <1>2, <1>3, <1>4, FS_AddElement
<1> QED
  BY <1>2, <1>5 DEF Step

\* A fresh execution is at the supervisor's first decision.
LEMMA FreshIsPaced ==
  ASSUME NEW t, NEW approved
  PROVE  /\ TraceApproved(t, <<>>, approved)
         /\ Paced(Entry, <<>>, 0)
<1>1. {i \in DOMAIN <<>> : <<>>[i] = supervisor} = {} /\ <<>> \in Seq(Nodes)
  OBVIOUS
<1>2. Step(<<>>) = 0
  BY <1>1, FS_EmptySet DEF Step
<1>3. supervisor \notin Workers /\ Hops \in Nat /\ Entry # END
  BY SupervisorAssumption, RuntimeAssumption
<1> QED
  BY <1>1, <1>2, <1>3 DEF TraceApproved, Paced, supervisor
-----------------------------------------------------------------------------
(* The invariant. *)

\* The human has been shown what is the latest checkpoint of the thread.
ShownIsLatest(c, th) ==
    Exclusive =>
      /\ HasLatest(th)
      /\ LET b == th.history[th.latestID].body IN
           b.interrupt /\ c.shown = Payload(c.thread, b.node, b.trace)

\* The locals of the current run of a call, x, those of the call itself, c, and
\* the thread, between the steps of both.
RunApproved(x, approved) ==
    /\ TraceApproved(x.thread, x.trace, approved)
    /\ x.pc \in {"loop", "node"} =>
         /\ Paced(x.node, x.trace, x.step)
         /\ (Exclusive /\ x.approved) => Payload(x.thread, x.node, x.trace) \in approved
    /\ x.pc \in {"persist", "commit"} => Paced(x.pend.node, x.trace, x.step)

AnswerIsForLatest(x, th, approved) ==
    (Exclusive /\ x.pc \in {"acquire", "begin"} /\ x.cmd.resume) =>
        /\ HasLatest(th)
        /\ LET b == th.history[th.latestID].body IN
             Payload(x.thread, b.node, b.trace) \in approved

PauseIsShown(x, c, th) ==
    /\ (x.pc \in {"persist", "commit"} /\ x.pend.interrupt) =>
         c.shown = Payload(x.thread, x.pend.node, x.trace)
    /\ x.pc \in {"exit", "release", "done"} =>
         /\ x.outcome # "maxsteps"
         /\ x.outcome = "paused" => ShownIsLatest(c, th)

CallApproved(x, c, th, approved) ==
    /\ RunApproved(x, approved)
    /\ IF c.pc = "running"
       THEN /\ x.thread = c.thread
            /\ x.pc # "idle"
            /\ AnswerIsForLatest(x, th, approved)
            /\ PauseIsShown(x, c, th)
       ELSE x.pc \in {"idle", "done"}
    /\ c.pc = "asking" => ShownIsLatest(c, th)
    /\ c.result # "maxsteps"

Engaged(s) == sup[s].pc \in {"running", "asking"}

\* One call at a time, and no state without its approvals and out of pace.
SupInv ==
    /\ SupOK
    /\ Exclusive => \A s \in Runs : \A o \in Runs \ {s} : ~(Engaged(s) /\ Engaged(o))
    /\ \A t \in Threads : \A c \in DOMAIN threads[t].history :
         LET b == threads[t].history[c].body IN
         TraceApproved(t, b.trace, approvals) /\ Paced(b.node, b.trace, b.step)
    /\ \A s \in Runs : CallApproved(run[s], sup[s], ThreadOfSup(s), approvals)

\* The engine's part of the invariant.
EngineInv == RuntimeInv(SupCommands) /\ WorkInv(SupCommands)

\* It is kept by whatever the supervisor does with the engine.
LEMMA EngineInvStep ==
  ASSUME EngineInv, SupOK, SupNext
  PROVE  EngineInv'
<1>1. AnyStep(SupCommands) \/ UNCHANGED vars
  BY SupNextIsAnyStep
<1> QED
  BY <1>1, RuntimeInvStep, WorkInvStep, SupCommandsAreTyped DEF EngineInv

\* A call that is not under way says nothing of its thread.
LEMMA RestingCall ==
  ASSUME NEW x, NEW c, NEW th, NEW approved,
         c.pc \in {"idle", "done"}, c.result # "maxsteps",
         x.pc \in {"idle", "done"}, TraceApproved(x.thread, x.trace, approved)
  PROVE  CallApproved(x, c, th, approved)
BY DEF CallApproved, RunApproved

\* A call is not disturbed by more approvals, nor by what happens to the thread
\* while it is not under way.
LEMMA CallStays ==
  ASSUME NEW x, NEW c, NEW th, NEW approved, NEW new, NEW more,
         approved \subseteq more,
         CallApproved(x, c, th, approved),
         Exclusive => new = th \/ c.pc \notin {"running", "asking"}
  PROVE  CallApproved(x, c, new, more)
<1>1. RunApproved(x, more)
  BY ApprovalsStay DEF CallApproved, RunApproved
<1>2. CASE new = th
  BY <1>1, <1>2 DEF CallApproved, AnswerIsForLatest
<1>3. CASE c.pc \notin {"running", "asking"}
  BY <1>1, <1>3 DEF CallApproved
<1>4. CASE ~Exclusive
  BY <1>1, <1>4 DEF CallApproved, AnswerIsForLatest, PauseIsShown, ShownIsLatest
<1> QED
  BY <1>2, <1>3, <1>4
-----------------------------------------------------------------------------
(* What the steps of a call do. *)

OnlyCall(s) ==
    /\ DOMAIN sup' = Runs
    /\ \A o \in Runs \ {s} : sup'[o] = sup[o]

SupEffect(s) ==
    /\ OnlyRun(s)
    /\ OnlyCall(s)
    /\ approvals \subseteq approvals'
    /\ UNCHANGED threads \/ At(s, "commit")
    /\ DOMAIN sup'[s] = {"pc", "thread", "hook", "shown", "result"}
    /\ sup'[s].pc \in {"idle", "running", "asking", "done"}
    /\ sup'[s].thread = sup[s].thread
    /\ (Exclusive /\ Engaged(s)') => Engaged(s) \/ \A o \in Runs \ {s} : ~Engaged(o)
    /\ CallApproved(run'[s], sup'[s], threads'[sup'[s].thread], approvals')

\* What is known of a call and its run.
LEMMA CallFacts ==
  ASSUME EngineInv, SupInv, NEW s \in Runs
  PROVE  /\ RunShape(run[s], SupCommands) /\ LocalsOK(run[s])
         /\ DOMAIN run[s] = {"pc", "op", "thread", "cmd", "expected", "ttl", "epoch", "hb",
                "cause", "parent", "node", "trace", "step", "approved", "turns", "pend",
                "outcome"}
         /\ DOMAIN run = Runs /\ DOMAIN sup = Runs
         /\ DOMAIN sup[s] = {"pc", "thread", "hook", "shown", "result"}
         /\ sup[s].pc \in {"idle", "running", "asking", "done"}
         /\ sup[s].thread \in Threads
         /\ CallApproved(run[s], sup[s], threads[sup[s].thread], approvals)
         /\ run[s].trace \in Seq(Nodes)
BY DEF EngineInv, RuntimeInv, RunsOK, RunShape, RunFields, Idle, WorkInv, SupInv, SupOK,
       ThreadOfSup, CallApproved, RunApproved, TraceApproved

\* As long as a call makes a run, it is the one under way.
LEMMA RunningCall ==
  ASSUME EngineInv, SupInv, NEW s \in Runs, run[s].pc \notin {"idle", "done"}
  PROVE  /\ sup[s].pc = "running" /\ Engaged(s)
         /\ run[s].thread = sup[s].thread
         /\ RunApproved(run[s], approvals)
         /\ AnswerIsForLatest(run[s], threads[sup[s].thread], approvals)
         /\ PauseIsShown(run[s], sup[s], threads[sup[s].thread])
         /\ sup[s].result # "maxsteps"
<1>1. CallApproved(run[s], sup[s], threads[sup[s].thread], approvals)
  BY CallFacts
<1>2. sup[s].pc = "running"
  BY <1>1 DEF CallApproved
<1> QED
  BY <1>1, <1>2 DEF CallApproved, Engaged

\* The latest checkpoint of a thread has its approvals and is in pace.
LEMMA LatestApproved ==
  ASSUME EngineInv, SupInv, NEW t \in Threads, HasLatest(threads[t])
  PROVE  LET b == threads[t].history[threads[t].latestID].body IN
         TraceApproved(t, b.trace, approvals) /\ Paced(b.node, b.trace, b.step)
<1>1. threads[t].latestID \in DOMAIN threads[t].history
  BY DEF EngineInv, RuntimeInv, ThreadsOK, ThreadOK, HasLatest, NoID
<1> QED
  BY <1>1 DEF SupInv

\* The engine by itself leaves a node only with an error.
LEMMA EngineLeavesNode ==
  ASSUME EngineInv, NEW s \in Runs, EngineStep(s) \/ Cancel(s),
         run[s].pc = "node", run'[s].pc = "persist"
  PROVE  FALSE
<1> DEFINE x == run[s]
<1>1. /\ RunShape(x, SupCommands) /\ s \in DOMAIN run
      /\ DOMAIN x = {"pc", "op", "thread", "cmd", "expected", "ttl", "epoch", "hb", "cause",
                     "parent", "node", "trace", "step", "approved", "turns", "pend", "outcome"}
  BY DEF EngineInv, RuntimeInv, RunsOK, RunShape, RunFields, Idle
<1>2. ASSUME NEW o \in Outcomes, Local(s, Exit(x, o)) PROVE FALSE
  BY <1>1, <1>2, ExitShape DEF Local
<1>3. \/ \E o \in Outcomes : Local(s, Exit(x, o))
      \/ Local(s, [x EXCEPT !.cause = "canceled"])
  BY DEF EngineStep, Cancel, BeginInvoke, ResumeRefused, ResumeCompleted,
     ResumeNeedsValue, ResumeContinues, Resuming, RunCompletes, RunStops, NodeStarts,
     NodeDiscarded, NodeFails, PersistRefused, PersistChecked, CommitSucceeds, CommitFenced,
     CommitConflicts, CommitUnknown, At, Outcomes
<1> QED
  BY <1>1, <1>2, <1>3 DEF Local

\* An execution in pace is below the step limit.
LEMMA PacedIsShort ==
  ASSUME NEW node \in Nodes \cup {END}, NEW trace \in Seq(Nodes), NEW step,
         Paced(node, trace, step)
  PROVE  step < MaxSteps
<1>1. Step(trace) \in Nat
  BY StepGrows, RuntimeAssumption
<1>2. node \in Workers \/ node = supervisor \/ node = END
  BY SupervisorAssumption
<1>3. Hops \in Nat /\ MaxSteps = 2 * Hops + 2
  BY SupervisorAssumption
<1> QED
  BY <1>1, <1>2, <1>3 DEF Paced

\* A step of the body keeps the work of the run approved and in pace.
LEMMA EngineKeepsWork ==
  ASSUME EngineInv, SupInv, NEW s \in Runs, EngineStep(s) \/ Cancel(s)
  PROVE  RunApproved(run'[s], approvals)
<1> DEFINE x == run[s]
           y == run'[s]
           th == threads[x.thread]
<1> SUFFICES RunApproved(y, approvals)
  OBVIOUS
<1>1. BodyEffect(s, SupCommands) /\ Advances(s, x, y)
  BY BodyMoveEffect, BodyAdvances, SupCommandsAreTyped DEF EngineInv, RuntimeInv, BodyMove
<1>2. /\ x.pc \notin {"idle", "done"} /\ y.thread = x.thread
      /\ y.pc \in {"begin", "loop", "node", "persist", "commit", "exit"}
  BY <1>1 DEF BodyEffect, InBody, CallKept
<1>3. /\ RunApproved(x, approvals) /\ AnswerIsForLatest(x, th, approvals)
      /\ LocalsOK(x) /\ x.cmd \in SupCommands /\ x.thread \in Threads
  BY <1>2, CallFacts, RunningCall DEF RunShape
<1>4. ~(x.pc = "node" /\ y.pc = "persist")
  BY EngineLeavesNode
<1>5. ASSUME BeginsAtLatest(s, x, y) PROVE RunApproved(y, approvals)
  <2> DEFINE b == th.history[th.latestID].body
  <2>1. HasLatest(th) /\ Latest(s) = b
    BY <1>5 DEF BeginsAtLatest, ThreadOf, Latest
  <2>2. TraceApproved(x.thread, b.trace, approvals) /\ Paced(b.node, b.trace, b.step)
    BY <1>3, <2>1, LatestApproved
  <2>3. x.cmd.goto = NoGoto /\ ~x.cmd.update
    BY <1>3, SupCommandsAreTyped
  <2>4. /\ y.pc = "loop" /\ y.node = b.node /\ y.trace = b.trace /\ y.step = b.step
        /\ y.approved => b.interrupt
        /\ b.interrupt => x.cmd.resume
        /\ x.pc = "begin"
    BY <1>5, <2>1, <2>3 DEF BeginsAtLatest, Target
  <2>5. (Exclusive /\ y.approved) => Payload(x.thread, b.node, b.trace) \in approvals
    BY <1>3, <2>4 DEF AnswerIsForLatest
  <2> HIDE DEF b, y
  <2> QED
    BY <1>2, <2>2, <2>4, <2>5 DEF RunApproved
<1>6. ASSUME BeginsFresh(x, y) PROVE RunApproved(y, approvals)
  <2>1. /\ y.pc = "loop" /\ y.node = Entry /\ y.trace = <<>> /\ y.step = 0 /\ ~y.approved
    BY <1>3, <1>6 DEF BeginsFresh, LocalsOK, Fresh_PCs
  <2> HIDE DEF y
  <2> QED
    BY <2>1, FreshIsPaced DEF RunApproved
<1>7. ASSUME Commits(s, x, y) PROVE RunApproved(y, approvals)
  <2>1. /\ x.pc = "commit" /\ y.pc = "loop" /\ ~y.approved /\ y.trace = x.trace
        /\ y.node = x.pend.node /\ y.step = x.step
    BY <1>3, <1>7 DEF Commits, LocalsOK
  <2> HIDE DEF x, y
  <2> QED
    BY <1>2, <1>3, <2>1 DEF RunApproved
<1>8. ASSUME \/ Leaves(s, x, y) \/ Stays(x, y) \/ EntersNode(s, x, y) \/ GoesToCommit(x, y)
      PROVE  RunApproved(y, approvals)
  <2> HIDE DEF x, y
  <2> QED
    BY <1>2, <1>3, <1>8 DEF RunApproved, Leaves, Stays, EntersNode, GoesToCommit, SameWork,
       SameStep
<1> QED
  BY <1>1, <1>4, <1>5, <1>6, <1>7, <1>8 DEF Advances, Pauses, Routed
\* And what the caller is about to be shown or told true.
LEMMA EngineKeepsPause ==
  ASSUME EngineInv, SupInv, NEW s \in Runs, EngineStep(s) \/ Cancel(s),
         UNCHANGED <<sup, approvals>>
  PROVE  LET th == threads'[sup[s].thread] IN
         /\ AnswerIsForLatest(run'[s], th, approvals)
         /\ PauseIsShown(run'[s], sup[s], th)
<1> DEFINE x == run[s]
           y == run'[s]
           c == sup[s]
           th == threads[c.thread]
           new == threads'[c.thread]
<1> SUFFICES AnswerIsForLatest(y, new, approvals) /\ PauseIsShown(y, c, new)
  OBVIOUS
<1>1. BodyEffect(s, SupCommands) /\ Advances(s, x, y)
  BY BodyMoveEffect, BodyAdvances, SupCommandsAreTyped DEF EngineInv, RuntimeInv, BodyMove
<1>2. /\ x.pc \notin {"idle", "done", "exit", "release", "acquire"}
      /\ y.thread = x.thread /\ y.cmd = x.cmd
      /\ y.pc \in {"begin", "loop", "node", "persist", "commit", "exit"}
  BY <1>1 DEF BodyEffect, InBody, CallKept
<1>3. /\ x.thread = c.thread /\ x.thread \in Threads
      /\ AnswerIsForLatest(x, th, approvals) /\ PauseIsShown(x, c, th)
      /\ RunApproved(x, approvals)
  BY <1>2, CallFacts, RunningCall DEF RunShape
<1>4. ~(x.pc = "node" /\ y.pc = "persist")
  BY EngineLeavesNode
<1>5. ASSUME Leaves(s, x, y) PROVE AnswerIsForLatest(y, new, approvals) /\ PauseIsShown(y, c, new)
  <2>1. y.pc = "exit"
    BY <1>5 DEF Leaves
  <2>2. y.outcome # "maxsteps"
    <3>1. ASSUME x.pc = "commit", x.step >= MaxSteps PROVE FALSE
      <4>1. /\ x.pend.node \in Nodes \cup {END} /\ x.trace \in Seq(Nodes) /\ x.step \in Nat
            /\ Paced(x.pend.node, x.trace, x.step)
        BY <1>3, <3>1, CallFacts DEF RunShape, RunApproved
      <4>2. x.step < MaxSteps
        BY <4>1, PacedIsShort
      <4> QED
        BY <3>1, <4>1, <4>2, RuntimeAssumption
    <3> QED
      BY <1>5, <3>1 DEF Leaves, At
  <2>3. ASSUME y.outcome = "paused" PROVE ShownIsLatest(c, new)
    <3>1. x.pc = "commit" /\ x.pend.interrupt /\ AppendsSnap(s)
      BY <1>5, <2>3 DEF Leaves, At
    <3>2. /\ new.latestID = lastID + 1 /\ lastID \in Nat
          /\ new.history[lastID + 1].body = Snap(s).body
      BY <1>3, <3>1, AppendEffect DEF EngineInv, RuntimeInv, ThreadsOK
    <3>3. c.shown = Payload(x.thread, x.pend.node, x.trace)
      BY <1>3, <3>1 DEF PauseIsShown
    <3> QED
      BY <1>3, <3>1, <3>2, <3>3 DEF ShownIsLatest, HasLatest, NoID, Snap
  <2> HIDE DEF y, new
  <2> QED
    BY <2>1, <2>2, <2>3 DEF AnswerIsForLatest, PauseIsShown
<1>6. ASSUME Stays(x, y), UNCHANGED threads
      PROVE  AnswerIsForLatest(y, new, approvals) /\ PauseIsShown(y, c, new)
  <2>1. new = th
    BY <1>6
  <2> HIDE DEF x, y, new
  <2> QED
    BY <1>2, <1>3, <1>6, <2>1 DEF Stays, SameWork, SameStep, AnswerIsForLatest, PauseIsShown
<1>7. ASSUME GoesToCommit(x, y)
      PROVE  AnswerIsForLatest(y, new, approvals) /\ PauseIsShown(y, c, new)
  <2> HIDE DEF x, y
  <2> QED
    BY <1>2, <1>3, <1>7 DEF GoesToCommit, SameWork, SameStep, AnswerIsForLatest, PauseIsShown
<1>8. ASSUME y.pc \in {"loop", "node"}
      PROVE  AnswerIsForLatest(y, new, approvals) /\ PauseIsShown(y, c, new)
  BY <1>8 DEF AnswerIsForLatest, PauseIsShown
<1> QED
  BY <1>1, <1>4, <1>5, <1>6, <1>7, <1>8
     DEF Advances, Pauses, Routed, BeginsFresh, BeginsAtLatest, EntersNode, Commits

\* The engine's own steps and a cancellation.
LEMMA EngineEffect ==
  ASSUME EngineInv, SupInv, NEW s \in Runs, EngineStep(s) \/ Cancel(s),
         UNCHANGED <<sup, approvals>>
  PROVE  SupEffect(s)
<1>1. BodyEffect(s, SupCommands)
  BY BodyMoveEffect, SupCommandsAreTyped DEF EngineInv, RuntimeInv, BodyMove
<1>2. run[s].pc \notin {"idle", "done"} /\ run'[s].pc # "idle"
      /\ run'[s].thread = run[s].thread
  BY <1>1 DEF BodyEffect, InBody, CallKept
<1>3. sup[s].pc = "running" /\ run[s].thread = sup[s].thread /\ sup[s].result # "maxsteps"
  BY <1>2, RunningCall
<1>4. CallApproved(run'[s], sup[s], threads'[sup[s].thread], approvals)
  BY <1>2, <1>3, EngineKeepsWork, EngineKeepsPause DEF CallApproved
<1> QED
  BY <1>1, <1>3, <1>4, CallFacts DEF SupEffect, BodyEffect, OnlyCall, Engaged

\* The supervisor decides, or a worker works: the state has one more node, the
\* approved one if it is gated, and stays in pace.
LEMMA NodeEffect ==
  ASSUME EngineInv, SupInv, NEW s \in Runs, Decides(s) \/ Works(s)
  PROVE  SupEffect(s)
<1> DEFINE x == run[s]
           y == run'[s]
<1>1. PICK next, arts : /\ NodeReturns(s, x.node, next, arts)
                        /\ x.node = supervisor =>
                             next \in Workers \cup {END} /\ (MustEnd(x.trace) => next = END)
                        /\ x.node # supervisor => next = supervisor
                        /\ x.node \in Workers \cup {supervisor}
  <2>1. CASE Decides(s)
    <3>1. PICK next \in IF MustEnd(x.trace) THEN {END} ELSE Routes(s) :
                 NodeReturns(s, supervisor, next, NoEntries)
      BY <2>1 DEF Decides
    <3>2. x.node = supervisor /\ x.node \in Nodes
      BY <2>1, SupervisorAssumption DEF Decides
    <3>3. Routes(s) = Workers \cup {END}
      BY <3>2, SupervisorAssumption DEF Routes
    <3> QED
      BY <3>1, <3>2, <3>3
  <2>2. CASE Works(s)
    BY <2>2, SupervisorAssumption DEF Works
  <2> QED
    BY <2>1, <2>2
<1>2. BodyEffect(s, SupCommands)
  BY <1>1, BodyMoveEffect, SupCommandsAreTyped DEF EngineInv, RuntimeInv, BodyMove
<1>3. /\ x.pc = "node" /\ y.pc = "persist" /\ ~AtGate(s) /\ y.thread = x.thread
      /\ y.trace = Append(x.trace, x.node) /\ y.step = x.step + 1
      /\ y.pend.node = next /\ ~y.pend.interrupt
      /\ UNCHANGED threads
  <2>1. Local(s, [x EXCEPT !.pc = "persist", !.trace = Append(@, x.node), !.step = @ + 1,
                           !.approved = FALSE, !.turns = arts,
                           !.pend = [node |-> next, interrupt |-> FALSE]])
        /\ x.pc = "node" /\ ~AtGate(s)
    BY <1>1 DEF NodeReturns, Applied, At
  <2> QED
    BY <2>1, CallFacts DEF Local
<1>4. UNCHANGED <<sup, approvals>>
  BY DEF Decides, Works
<1>5. /\ sup[s].pc = "running" /\ x.thread = sup[s].thread
      /\ sup[s].result # "maxsteps"
      /\ RunApproved(x, approvals)
      /\ x.trace \in Seq(Nodes) /\ x.step \in Nat
  BY <1>3, RunningCall, CallFacts DEF RunShape
<1>6. /\ x.node \in Nodes
      /\ (Exclusive /\ x.node \in Gated) => Payload(x.thread, x.node, x.trace) \in approvals
  BY <1>1, <1>3, <1>5, SupervisorAssumption DEF AtGate, RunApproved
<1>7. TraceApproved(y.thread, y.trace, approvals)
  BY <1>3, <1>5, <1>6, TraceGrows DEF RunApproved
<1>8. Paced(next, y.trace, y.step)
  <2>1. Step(x.trace) \in Nat
        /\ Step(y.trace) = IF x.node = supervisor THEN Step(x.trace) + 1 ELSE Step(x.trace)
    BY <1>3, <1>5, <1>6, StepGrows
  <2>2. Paced(x.node, x.trace, x.step)
    BY <1>3, <1>5 DEF RunApproved
  <2>3. supervisor \notin Workers /\ END \notin Workers /\ END # supervisor /\ Hops \in Nat
    BY SupervisorAssumption, RuntimeAssumption
  <2>4. CASE x.node = supervisor
    <3>1. x.step = 2 * Step(x.trace) /\ Step(x.trace) <= Hops
      BY <2>2, <2>4 DEF Paced
    <3>2. next \in Workers => Step(x.trace) < Hops
      BY <1>1, <2>1, <2>3, <2>4, <3>1 DEF MustEnd
    <3>3. next \in Workers \/ next = END
      BY <1>1, <2>4
    <3>4. /\ y.step = 2 * Step(y.trace) - 1 /\ Step(y.trace) <= Hops + 1
          /\ Step(x.trace) < Hops => Step(y.trace) <= Hops
      <4>1. y.step = x.step + 1 /\ Step(y.trace) = Step(x.trace) + 1
        BY <1>3, <2>1, <2>4
      <4> QED
        BY <2>1, <2>3, <3>1, <4>1
    <3> HIDE DEF x, y
    <3> QED
      BY <2>3, <3>2, <3>3, <3>4 DEF Paced
  <2>5. CASE x.node # supervisor
    <3>1. x.step = 2 * Step(x.trace) - 1 /\ Step(x.trace) <= Hops /\ next = supervisor
      BY <1>1, <2>2, <2>5 DEF Paced
    <3> HIDE DEF x, y
    <3> QED
      BY <1>3, <2>1, <2>3, <2>5, <3>1 DEF Paced
  <2> QED
    BY <2>4, <2>5
<1>9. CallApproved(y, sup[s], threads[sup[s].thread], approvals)
  BY <1>3, <1>5, <1>7, <1>8 DEF CallApproved, RunApproved, AnswerIsForLatest, PauseIsShown
<1> QED
  BY <1>2, <1>3, <1>4, <1>5, <1>9, CallFacts DEF SupEffect, BodyEffect, OnlyCall, Engaged

\* A gated worker asks: what is shown is what will be committed.
LEMMA InterruptEffect ==
  ASSUME EngineInv, SupInv, NEW s \in Runs, Interrupts(s)
  PROVE  SupEffect(s)
<1> DEFINE x == run[s]
           y == run'[s]
           d == sup'[s]
<1>1. BodyEffect(s, SupCommands)
  BY BodyMoveEffect, SupCommandsAreTyped DEF Interrupts, EngineInv, RuntimeInv, BodyMove
<1>2. /\ x.pc = "node" /\ y.pc = "persist" /\ y.thread = x.thread /\ y.trace = x.trace
      /\ y.step = x.step /\ y.pend.node = x.node /\ y.pend.interrupt
      /\ UNCHANGED threads
  <2>1. Local(s, [x EXCEPT !.pc = "persist", !.turns = NoEntries,
                           !.pend = [node |-> x.node, interrupt |-> TRUE]])
        /\ x.pc = "node"
    BY DEF Interrupts, NodeInterrupts, At
  <2> QED
    BY <2>1, CallFacts DEF Local
<1>3. /\ sup[s].pc = "running" /\ x.thread = sup[s].thread /\ sup[s].result # "maxsteps"
      /\ RunApproved(x, approvals)
  BY <1>2, RunningCall
<1>4. /\ d.pc = "running" /\ d.thread = sup[s].thread /\ d.result = sup[s].result
      /\ d.shown = Payload(x.thread, x.node, x.trace)
      /\ DOMAIN d = DOMAIN sup[s] /\ OnlyCall(s) /\ UNCHANGED approvals
  BY <1>3, CallFacts DEF Interrupts, OnlyCall
<1>5. CallApproved(y, d, threads[d.thread], approvals)
  <2> HIDE DEF x, y, d
  <2> QED
    BY <1>2, <1>3, <1>4 DEF CallApproved, RunApproved, AnswerIsForLatest, PauseIsShown
<1> QED
  BY <1>1, <1>2, <1>3, <1>4, <1>5, CallFacts DEF SupEffect, BodyEffect, Engaged
\* Around the body: withLease and its heartbeat change nothing of the work, and
\* what they leave of a run that is over is what its caller is told.
LEMMA AroundEffect ==
  ASSUME EngineInv, SupInv, NEW s \in Runs, LeaseStep(s) \/ HeartbeatStep(s),
         UNCHANGED <<sup, approvals>>
  PROVE  SupEffect(s)
<1> DEFINE x == run[s]
           y == run'[s]
           c == sup[s]
           th == threads[c.thread]
<1>1. OnlyRun(s) /\ UNCHANGED threads
  <2>1. AnyStep(SupCommands) /\ OutsideMove(s, SupCommands)
    BY DEF AnyStep, RunMove, OutsideMove
  <2> QED
    BY <2>1, OutsideMoveEffect, SupCommandsAreTyped DEF OutsideEffect, EngineInv, RuntimeInv
<1>2. CallApproved(x, c, th, approvals) /\ x.thread \in Threads /\ x.outcome \in Outcomes
  BY CallFacts DEF RunShape
<1>3. CASE AcquireDenied(s) \/ Releases(s) \/ ReleaseFails(s) \/ Returns(s)
  <2>1. PICK o \in Outcomes : /\ y = Finished(s, o)
                              /\ x.pc \in {"acquire", "exit", "release"}
                              /\ \/ o = "held"
                                 \/ o = x.outcome /\ x.pc \in {"exit", "release"}
    BY <1>2, <1>3, CallFacts DEF AcquireDenied, Releases, ReleaseFails, Returns, Local, At, Outcomes
  <2>2. y.pc = "done" /\ y.outcome = o /\ y.thread = x.thread /\ y.trace = <<>>
    BY <2>1, CallFacts, FinishedShape, SupCommandsAreTyped
  <2>3. /\ c.pc = "running" /\ x.thread = c.thread /\ PauseIsShown(x, c, th)
        /\ c.result # "maxsteps"
    BY <2>1, RunningCall
  <2>4. TraceApproved(y.thread, y.trace, approvals)
    BY <2>2, FreshIsPaced
  <2>5. o # "maxsteps" /\ (o = "paused" => ShownIsLatest(c, th))
    BY <2>1, <2>3 DEF PauseIsShown
  <2>6. CallApproved(y, c, th, approvals)
    <3> HIDE DEF x, y, c, th
    <3> QED
      BY <2>2, <2>3, <2>4, <2>5 DEF CallApproved, RunApproved, AnswerIsForLatest, PauseIsShown
  <2> QED
    BY <1>1, <2>6, CallFacts DEF SupEffect, OnlyCall, Engaged
<1>4. CASE HeartbeatStep(s) \/ HeartbeatJoined(s) \/ \E ttl \in TTLs : AcquireGranted(s, ttl)
  <2>1. /\ y.thread = x.thread /\ y.cmd = x.cmd /\ y.node = x.node /\ y.trace = x.trace
        /\ y.step = x.step /\ y.approved = x.approved /\ y.pend = x.pend
        /\ y.outcome = x.outcome
        /\ \/ y.pc = x.pc
           \/ x.pc = "exit" /\ y.pc = "release"
           \/ x.pc = "acquire" /\ y.pc = "begin"
    <3>1. ASSUME NEW ttl, AcquireGranted(s, ttl)
          PROVE  y = [x EXCEPT !.pc = "begin", !.ttl = ttl, !.hb = TRUE,
                               !.epoch = leases'[x.thread].epoch]
                 /\ x.pc = "acquire"
      BY <3>1, CallFacts DEF AcquireGranted, At
    <3>2. ASSUME HeartbeatJoined(s) PROVE y = [x EXCEPT !.pc = "release"] /\ x.pc = "exit"
      BY <3>2, CallFacts DEF HeartbeatJoined, At, Local
    <3>3. ASSUME HeartbeatStep(s)
          PROVE  \/ y = x
                 \/ y = [x EXCEPT !.hb = FALSE, !.cause = "lost"]
                 \/ y = [x EXCEPT !.hb = FALSE]
      BY <3>3, CallFacts DEF HeartbeatStep, HeartbeatRenews, HeartbeatLoses, HeartbeatStops, Local
    <3> QED
      BY <1>4, <3>1, <3>2, <3>3, CallFacts
  <2>2. CallApproved(y, c, th, approvals)
    <3> HIDE DEF x, y, c, th
    <3> QED
      BY <1>2, <2>1 DEF CallApproved, RunApproved, AnswerIsForLatest, PauseIsShown
  <2> QED
    BY <1>1, <2>2, CallFacts DEF SupEffect, OnlyCall, Engaged
<1> QED
  BY <1>3, <1>4 DEF LeaseStep

\* A run that has just been started.
LEMMA StartedRun ==
  ASSUME EngineInv, SupInv, NEW s \in Runs, NEW op, NEW cmd,
         Start(s, sup[s].thread, op, cmd)
  PROVE  /\ OnlyRun(s) /\ UNCHANGED threads
         /\ run'[s].pc \in {"acquire", "begin"}
         /\ run'[s].thread = sup[s].thread /\ run'[s].cmd = cmd
         /\ run'[s].trace = <<>>
<1> DEFINE t == sup[s].thread
           y == [Idle(t) EXCEPT
                   !.pc = IF UseLease(t) THEN "acquire" ELSE "begin",
                   !.op = op, !.cmd = cmd,
                   !.expected = IF cmd.expect THEN threads[t].latestID ELSE NoID]
<1>1. Local(s, y)
  BY DEF Start
<1>2. /\ y.pc \in {"acquire", "begin"} /\ y.thread = t /\ y.cmd = cmd /\ y.trace = <<>>
  BY DEF Idle
<1> HIDE DEF y
<1>3. OnlyRun(s) /\ run'[s] = y /\ UNCHANGED threads
  BY <1>1, LocalStep DEF EngineInv, RuntimeInv
<1> QED
  BY <1>2, <1>3

\* A call begins with a run: nobody else is under way, and no answer is given.
LEMMA CallEffect ==
  ASSUME EngineInv, SupInv, NEW s \in Runs, NEW hook \in BOOLEAN,
         SupInvokes(s, hook) \/ SupResumes(s, hook)
  PROVE  SupEffect(s)
<1> DEFINE y == run'[s]
           d == sup'[s]
           th == threads[sup[s].thread]
<1>1. PICK op : Start(s, sup[s].thread, op, NoCommand)
  BY DEF SupInvokes, SupResumes
<1>2. /\ OnlyRun(s) /\ UNCHANGED threads
      /\ y.pc \in {"acquire", "begin"} /\ y.thread = sup[s].thread /\ y.cmd = NoCommand
      /\ y.trace = <<>>
  BY <1>1, StartedRun
<1>3. /\ sup[s].pc = "idle" /\ sup[s].result # "maxsteps"
      /\ Exclusive => \A o \in Runs \ {s} : ~Engaged(o)
  BY CallFacts DEF SupInvokes, SupResumes, MayStart, SupAt, Engaged, CallApproved
<1>4. /\ d.pc = "running" /\ d.thread = sup[s].thread /\ d.result = sup[s].result
      /\ DOMAIN d = DOMAIN sup[s] /\ OnlyCall(s) /\ UNCHANGED approvals
  BY CallFacts DEF SupInvokes, SupResumes, OnlyCall
<1>5. TraceApproved(y.thread, y.trace, approvals) /\ ~NoCommand.resume
  BY <1>2, FreshIsPaced DEF NoCommand
<1>6. CallApproved(y, d, th, approvals)
  <2> HIDE DEF y, d, th
  <2> QED
    BY <1>2, <1>3, <1>4, <1>5 DEF CallApproved, RunApproved, AnswerIsForLatest, PauseIsShown
<1> QED
  BY <1>2, <1>3, <1>4, <1>6, CallFacts DEF SupEffect

\* The human approves what is still the latest checkpoint: Resume loads the
\* handoff the answer was given for.
LEMMA ApproveEffect ==
  ASSUME EngineInv, SupInv, NEW s \in Runs, HumanApproves(s)
  PROVE  SupEffect(s)
<1> DEFINE y == run'[s]
           d == sup'[s]
           th == threads[sup[s].thread]
           b == th.history[th.latestID].body
<1>1. /\ OnlyRun(s) /\ UNCHANGED threads
      /\ y.pc \in {"acquire", "begin"} /\ y.thread = sup[s].thread
      /\ y.trace = <<>>
  BY StartedRun DEF HumanApproves
<1>2. /\ sup[s].pc = "asking" /\ Engaged(s) /\ sup[s].result # "maxsteps"
      /\ ShownIsLatest(sup[s], th)
  BY CallFacts DEF HumanApproves, SupAt, CallApproved, Engaged
<1>3. /\ d.pc = "running" /\ d.thread = sup[s].thread /\ d.result = sup[s].result
      /\ DOMAIN d = DOMAIN sup[s] /\ OnlyCall(s)
  BY CallFacts DEF HumanApproves, OnlyCall
<1>4. /\ approvals \subseteq approvals'
      /\ Exclusive => HasLatest(th) /\ Payload(sup[s].thread, b.node, b.trace) \in approvals'
  BY <1>2 DEF HumanApproves, ShownIsLatest
<1>5. TraceApproved(y.thread, y.trace, approvals')
  BY <1>1, FreshIsPaced
<1>6. CallApproved(y, d, th, approvals')
  <2> DEFINE more == approvals'
  <2> SUFFICES CallApproved(y, d, th, more)
    OBVIOUS
  <2>1. AnswerIsForLatest(y, th, more)
    BY <1>1, <1>4 DEF AnswerIsForLatest
  <2>2. TraceApproved(y.thread, y.trace, more)
    BY <1>5
  <2> HIDE DEF y, d, th, more
  <2> QED
    BY <1>1, <1>2, <1>3, <2>1, <2>2 DEF CallApproved, RunApproved, PauseIsShown
<1> QED
  BY <1>1, <1>2, <1>3, <1>4, <1>6, CallFacts DEF SupEffect
\* A human is asked: by the loop, after a run that was paused, or by a call that
\* finds the thread interrupted.  What is shown is the latest checkpoint.
LEMMA AskEffect ==
  ASSUME EngineInv, SupInv, NEW s \in Runs,
         SupResumesByAsking(s) \/ AsksHuman(s)
  PROVE  SupEffect(s)
<1> DEFINE x == run[s]
           y == run'[s]
           d == sup'[s]
           th == threads[sup[s].thread]
<1>1. CASE SupResumesByAsking(s)
  <2>1. /\ sup[s].pc = "idle" /\ sup[s].result # "maxsteps" /\ x.pc \in {"idle", "done"}
        /\ TraceApproved(x.thread, x.trace, approvals)
        /\ Exclusive => \A o \in Runs \ {s} : ~Engaged(o)
    BY <1>1, CallFacts DEF SupResumesByAsking, MayStart, SupAt, Engaged, CallApproved, RunApproved
  <2>2. /\ d.pc = "asking" /\ d.thread = sup[s].thread /\ d.result = sup[s].result
        /\ DOMAIN d = DOMAIN sup[s] /\ OnlyCall(s) /\ UNCHANGED approvals
        /\ d.shown = Payload(sup[s].thread, LatestOfSup(s).node, LatestOfSup(s).trace)
    BY <1>1, CallFacts DEF SupResumesByAsking, OnlyCall
  <2>3. HasLatest(th) /\ LatestOfSup(s).interrupt
        /\ LatestOfSup(s) = th.history[th.latestID].body
    BY <1>1 DEF SupResumesByAsking, ThreadOfSup, LatestOfSup
  <2>4. ShownIsLatest(d, th)
    BY <2>2, <2>3 DEF ShownIsLatest
  <2>5. OnlyRun(s) /\ UNCHANGED threads /\ y = x
    BY <1>1, CallFacts DEF SupResumesByAsking, vars, OnlyRun
  <2>6. CallApproved(x, d, th, approvals)
    <3> HIDE DEF x, d, th
    <3> QED
      BY <2>1, <2>2, <2>4 DEF CallApproved, RunApproved
  <2> QED
    BY <2>1, <2>2, <2>5, <2>6, CallFacts DEF SupEffect
<1>2. CASE AsksHuman(s)
  <2>1. /\ x.pc = "done" /\ x.outcome = "paused" /\ sup[s].pc = "running" /\ Engaged(s)
        /\ sup[s].result # "maxsteps" /\ ShownIsLatest(sup[s], th)
    BY <1>2, CallFacts DEF AsksHuman, RunOver, SupAt, At, Engaged, CallApproved, PauseIsShown
  <2>2. /\ d.pc = "asking" /\ d.thread = sup[s].thread /\ d.result = sup[s].result
        /\ d.shown = sup[s].shown
        /\ DOMAIN d = DOMAIN sup[s] /\ OnlyCall(s) /\ UNCHANGED approvals
    BY <1>2, CallFacts DEF AsksHuman, OnlyCall
  <2>3. OnlyRun(s) /\ UNCHANGED threads /\ y = Idle(sup[s].thread)
    BY <1>2, LocalStep DEF AsksHuman, EngineInv, RuntimeInv
  <2>4. y.pc = "idle" /\ y.trace = <<>>
    BY <2>3 DEF Idle
  <2>5. TraceApproved(y.thread, y.trace, approvals)
    BY <2>4, FreshIsPaced
  <2>6. ShownIsLatest(d, th)
    BY <2>1, <2>2 DEF ShownIsLatest
  <2>7. CallApproved(y, d, th, approvals)
    <3> HIDE DEF y, d, th
    <3> QED
      BY <2>1, <2>2, <2>4, <2>5, <2>6 DEF CallApproved, RunApproved
  <2> QED
    BY <2>1, <2>2, <2>3, <2>7, CallFacts DEF SupEffect
<1> QED
  BY <1>1, <1>2

\* A call ends.
LEMMA DoneEffect ==
  ASSUME EngineInv, SupInv, NEW s \in Runs, NEW result, Done(s, result),
         result # "maxsteps",
         OnlyRun(s), UNCHANGED <<threads, approvals>>,
         run'[s].pc \in {"idle", "done"},
         TraceApproved(run'[s].thread, run'[s].trace, approvals)
  PROVE  SupEffect(s)
<1> DEFINE d == sup'[s]
<1>1. /\ d.pc = "done" /\ d.thread = sup[s].thread /\ d.result = result
      /\ DOMAIN d = DOMAIN sup[s] /\ OnlyCall(s)
  BY CallFacts DEF Done, SupIdle, OnlyCall
<1> HIDE DEF d
<1>2. CallApproved(run'[s], d, threads[d.thread], approvals)
  BY <1>1, RestingCall
<1> QED
  BY <1>1, <1>2, CallFacts DEF SupEffect, Engaged, d

\* The ways a call ends: it returns, cannot resume, is refused or cancelled, or
\* its process dies.
LEMMA EndEffect ==
  ASSUME EngineInv, SupInv, NEW s \in Runs,
         \/ SupCannotResume(s) \/ HumanRefuses(s) \/ SupCancelled(s) \/ SupReturns(s)
         \/ SupCrashes(s)
  PROVE  SupEffect(s)
<1> DEFINE x == run[s]
<1>1. CallApproved(x, sup[s], threads[sup[s].thread], approvals)
  BY CallFacts
<1>2. UNCHANGED approvals
  BY DEF SupCannotResume, HumanRefuses, SupCancelled, SupReturns, SupCrashes
<1>3. ASSUME UNCHANGED vars, x.pc \in {"idle", "done"}, NEW result, Done(s, result),
             result # "maxsteps"
      PROVE  SupEffect(s)
  <2>1. /\ OnlyRun(s) /\ UNCHANGED threads /\ run'[s] = x
    BY <1>3, CallFacts DEF vars, OnlyRun
  <2>2. TraceApproved(x.thread, x.trace, approvals)
    BY <1>1 DEF CallApproved, RunApproved
  <2> QED
    BY <1>2, <1>3, <2>1, <2>2, DoneEffect
<1>4. CASE SupCannotResume(s)
  <2>1. x.pc \in {"idle", "done"}
    BY <1>1, <1>4 DEF SupCannotResume, MayStart, SupAt, CallApproved
  <2> QED
    BY <1>3, <1>4, <2>1 DEF SupCannotResume
<1>5. CASE HumanRefuses(s)
  <2>1. x.pc \in {"idle", "done"}
    BY <1>1, <1>5 DEF HumanRefuses, SupAt, CallApproved
  <2> QED
    BY <1>3, <1>5, <2>1 DEF HumanRefuses
<1>6. CASE SupCancelled(s)
  <2>1. x.pc \in {"idle", "done"}
    BY <1>1, <1>6 DEF SupCancelled, RunOver, At, SupAt, CallApproved
  <2> QED
    BY <1>3, <1>6, <2>1 DEF SupCancelled
<1>7. CASE SupReturns(s)
  <2>1. x.pc = "done" /\ x.outcome # "maxsteps"
    BY <1>1, <1>7 DEF SupReturns, RunOver, At, SupAt, CallApproved, PauseIsShown
  <2> QED
    BY <1>3, <1>7, <2>1 DEF SupReturns
<1>8. CASE SupCrashes(s)
  <2>1. CASE SupAt(s, "asking") /\ UNCHANGED vars
    <3>1. x.pc \in {"idle", "done"}
      BY <1>1, <2>1 DEF SupAt, CallApproved
    <3> QED
      BY <1>3, <1>8, <2>1, <3>1 DEF SupCrashes
  <2>2. CASE Crash(s)
    <3>1. OnlyRun(s) /\ UNCHANGED threads /\ run'[s] = Finished(s, "crashed")
      BY <2>2, LocalStep DEF Crash, EngineInv, RuntimeInv
    <3>2. run'[s].pc = "done" /\ run'[s].trace = <<>>
      BY <3>1, CallFacts, FinishedShape, SupCommandsAreTyped DEF Outcomes
    <3>3. TraceApproved(run'[s].thread, run'[s].trace, approvals)
      BY <3>2, FreshIsPaced
    <3> QED
      BY <1>2, <1>8, <3>1, <3>2, <3>3, DoneEffect DEF SupCrashes
  <2> QED
    BY <1>8, <2>1, <2>2 DEF SupCrashes
<1> QED
  BY <1>4, <1>5, <1>6, <1>7, <1>8

\* Every step is one of a call, or of the clock.
LEMMA SupStepKinds ==
  ASSUME EngineInv, SupInv, SupNext
  PROVE  \/ \E s \in Runs : SupEffect(s)
         \/ UNCHANGED <<threads, run, sup, approvals>>
<1>1. ASSUME NEW s \in Runs, NEW hook \in BOOLEAN, SupInvokes(s, hook) \/ SupResumes(s, hook)
      PROVE  SupEffect(s)
  BY <1>1, CallEffect
<1>2. ASSUME NEW s \in Runs, SupResumesByAsking(s) \/ SupCannotResume(s)
      PROVE  SupEffect(s)
  BY <1>2, AskEffect, EndEffect
<1>3. ASSUME NEW s \in Runs, RunProceeds(s)
      PROVE  SupEffect(s)
  BY <1>3, EngineEffect, AroundEffect, NodeEffect, InterruptEffect, AskEffect, EndEffect
     DEF RunProceeds
<1>4. ASSUME NEW s \in Runs, HumanAnswers(s) \/ SupCancelled(s) \/ SupCrashes(s)
      PROVE  SupEffect(s)
  BY <1>4, ApproveEffect, EndEffect DEF HumanAnswers
<1>5. ASSUME Surroundings
      PROVE  \/ \E s \in Runs : SupEffect(s)
             \/ UNCHANGED <<threads, run, sup, approvals>>
  BY <1>5, EngineEffect, AroundEffect DEF Surroundings, Clock
<1> QED
  BY <1>1, <1>2, <1>3, <1>4, <1>5 DEF SupNext

\* What is stored was worked on: it has its approvals and is in pace.
LEMMA BodiesStep ==
  ASSUME EngineInv, SupInv, SupNext, approvals \subseteq approvals',
         NEW t \in Threads, NEW c \in DOMAIN threads'[t].history
  PROVE  LET b == threads'[t].history[c].body IN
         TraceApproved(t, b.trace, approvals') /\ Paced(b.node, b.trace, b.step)
<1> DEFINE b == threads'[t].history[c].body
           more == approvals'
<1> SUFFICES TraceApproved(t, b.trace, approvals) /\ Paced(b.node, b.trace, b.step)
  BY ApprovalsStay
<1>1. CASE c \in DOMAIN threads[t].history /\ threads'[t].history[c] = threads[t].history[c]
  BY <1>1 DEF SupInv
<1>2. ASSUME NEW s \in Runs, At(s, "commit"), run[s].thread = t, b = SnapBody(run[s])
      PROVE  TraceApproved(t, b.trace, approvals) /\ Paced(b.node, b.trace, b.step)
  <2>1. RunApproved(run[s], approvals)
    BY <1>2, RunningCall DEF At
  <2> QED
    BY <1>2, <2>1 DEF RunApproved, SnapBody, At
<1>3. CASE UNCHANGED vars
  BY <1>1, <1>3 DEF vars
<1>4. CASE AnyStep(SupCommands)
  BY <1>1, <1>2, <1>4, NewOrOld, SupCommandsAreTyped DEF EngineInv
<1> QED
  BY <1>3, <1>4, SupNextIsAnyStep DEF SupInv

\* The invariant is inductive.
LEMMA SupInvStep ==
  ASSUME EngineInv, SupInv, [SupNext]_supVars
  PROVE  SupInv'
<1>1. ASSUME UNCHANGED <<threads, run, sup, approvals>> PROVE SupInv'
  BY <1>1 DEF SupInv, SupOK, Engaged, ThreadOfSup
<1>2. ASSUME SupNext, NEW s \in Runs, SupEffect(s) PROVE SupInv'
  <2>1. SupOK'
    BY <1>2 DEF SupEffect, OnlyCall, SupOK, SupInv
  <2>2. ASSUME Exclusive, NEW o \in Runs, NEW p \in Runs \ {o}, Engaged(o)', Engaged(p)' PROVE FALSE
    <3>1. \A q \in Runs \ {s} : Engaged(q)' <=> Engaged(q)
      BY <1>2 DEF SupEffect, OnlyCall, Engaged
    <3> QED
      BY <1>2, <2>2, <3>1 DEF SupEffect, SupInv
  <2>3. ASSUME NEW o \in Runs
        PROVE  CallApproved(run'[o], sup'[o], threads'[sup'[o].thread], approvals')
    <3>1. CASE o = s
      BY <1>2, <3>1 DEF SupEffect
    <3>2. CASE o # s
      <4>1. run'[o] = run[o] /\ sup'[o] = sup[o] /\ approvals \subseteq approvals'
        BY <1>2, <3>2 DEF SupEffect, OnlyRun, OnlyCall
      <4>2. CallApproved(run[o], sup[o], threads[sup[o].thread], approvals)
        BY CallFacts
      <4>3. Exclusive => threads' = threads \/ sup[o].pc \notin {"running", "asking"}
        <5>1. At(s, "commit") => Engaged(s)
          BY RunningCall DEF At
        <5> QED
          BY <1>2, <3>2, <5>1 DEF SupEffect, SupInv, Engaged
      <4> QED
        BY <4>1, <4>2, <4>3, CallStays
    <3> QED
      BY <3>1, <3>2
  <2>4. approvals \subseteq approvals'
    BY <1>2 DEF SupEffect
  <2> QED
    BY <1>2, <2>1, <2>2, <2>3, <2>4, BodiesStep DEF SupInv, ThreadOfSup
<1> QED
  BY <1>1, <1>2, SupStepKinds DEF supVars, vars

\* Nothing is stored, approved or under way at first.
LEMMA SupInvInit == SupInit => EngineInv /\ SupInv
<1> SUFFICES ASSUME SupInit PROVE EngineInv /\ SupInv
  OBVIOUS
<1>1. EngineInv
  BY RuntimeInvInit, WorkInvInit, SupCommandsAreTyped DEF SupInit, EngineInv
<1>2. PICK u \in Threads : sup = [s \in Runs |-> SupIdle(u)]
  BY DEF SupInit
<1>3. /\ \A s \in Runs : run[s] = Idle(CHOOSE t \in Threads : TRUE)
      /\ \A t \in Threads : DOMAIN threads[t].history = {}
  BY DEF SupInit, RuntimeInit, EmptyThread, NoEntries
<1>4. /\ SupIdle(u).pc = "idle" /\ SupIdle(u).thread = u /\ SupIdle(u).result = "none"
      /\ DOMAIN SupIdle(u) = {"pc", "thread", "hook", "shown", "result"}
  BY DEF SupIdle
<1>5. ASSUME NEW s \in Runs
      PROVE  CallApproved(run[s], sup[s], ThreadOfSup(s), approvals)
  <2>1. run[s].pc = "idle" /\ run[s].trace = <<>>
    <3>1. \A t : Idle(t).pc = "idle" /\ Idle(t).trace = <<>>
      BY DEF Idle
    <3> QED
      BY <1>3, <3>1
  <2>2. TraceApproved(run[s].thread, run[s].trace, approvals)
    BY <2>1, FreshIsPaced
  <2> QED
    BY <1>2, <1>4, <2>1, <2>2, RestingCall
<1> QED
  BY <1>1, <1>2, <1>3, <1>4, <1>5 DEF SupInv, SupOK, Engaged

-----------------------------------------------------------------------------
(* Theorems. *)

\* Everything stored and worked on is in pace with the decisions made, and, as
\* long as calls of RunSupervisor on a thread do not overlap, approved.
THEOREM SupervisorInvariant == SupSpec => [](EngineInv /\ SupInv)
<1>1. EngineInv /\ SupInv /\ [SupNext]_supVars => EngineInv'
  <2>1. ASSUME EngineInv, UNCHANGED supVars PROVE EngineInv'
    BY <2>1, RuntimeInvStep, WorkInvStep, SupCommandsAreTyped DEF EngineInv, supVars
  <2> QED
    BY <2>1, EngineInvStep DEF SupInv
<1>2. EngineInv /\ SupInv /\ [SupNext]_supVars => SupInv'
  BY SupInvStep
<1> QED
  BY <1>1, <1>2, SupInvInit, PTL DEF SupSpec

\* No gated worker has done its task without a human's approval of this very
\* handoff.
THEOREM GatedWorkNeedsApproval ==
  ASSUME Exclusive
  PROVE  SupSpec => []GatedWorkIsApproved
<1>1. SupInv => GatedWorkIsApproved
  BY DEF SupInv, CallApproved, RunApproved, TraceApproved, GatedWorkIsApproved
<1> QED
  BY <1>1, SupervisorInvariant, PTL

\* The human who is asked looks at where the thread stands.
THEOREM HumansSeeTheLatest ==
  ASSUME Exclusive
  PROVE  SupSpec => []HumanSeesLatest
<1>1. SupInv => HumanSeesLatest
  BY DEF SupInv, CallApproved, ShownIsLatest, HumanSeesLatest, SupAt, ThreadOfSup, LatestOfSup
<1> QED
  BY <1>1, SupervisorInvariant, PTL

\* No call ends at the step limit, however often it is interrupted and resumed
\* and whichever call, with the same MaxSteps, resumes the thread.
THEOREM StepLimitIsNotReached == SupSpec => []CapNeverBites
<1>1. SupInv => CapNeverBites
  BY DEF SupInv, CallApproved, CapNeverBites
<1> QED
  BY <1>1, SupervisorInvariant, PTL
=============================================================================
