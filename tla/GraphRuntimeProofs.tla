-------------------------- MODULE GraphRuntimeProofs --------------------------
(***************************************************************************)
(* What the runs of a graph do to their lease and to their store, and what *)
(* the checkpoints of a thread say of the graph: that they are one         *)
(* execution of it, with its gates and its sessions, whoever ran the parts *)
(* of it; for any number of runs, any graph and any faults.                *)
(*                                                                         *)
(* A run carries its work from node to node: the node it is at, the state, *)
(* the step count, whether a human has answered.  The invariants relate it *)
(* to the checkpoint the run started from, its parent, for as long as the  *)
(* store keeps that one; a commit can only be accepted while it does.      *)
(*                                                                         *)
(* The lemmas are about AnyStep, which is RuntimeNext for node functions   *)
(* that return anything and callers that pass any of the commands Cmds, so *)
(* that they hold as well for what is built on top of Invoke and Resume.   *)
(***************************************************************************)
EXTENDS GraphRuntime, ExecutionLeaseProofs, CheckpointLemmas, WellFoundedInduction

-----------------------------------------------------------------------------
(* Steps and locals. *)

Body_PCs == {"begin", "loop", "node", "persist", "commit"}

\* A step of the body of run r.
BodyMove(r) ==
    \/ EngineStep(r) \/ Cancel(r)
    \/ \E arts : NodeInterrupts(r, arts)
    \/ \E update, next, arts : NodeReturns(r, update, next, arts)

\* A call of Invoke or Resume, and the end of what is known of one.
Called(r, Cmds) ==
    \E t \in Threads, op \in {"invoke", "resume"}, cmd \in Cmds : Start(r, t, op, cmd)

Forgotten(r) == At(r, "done") /\ \E t \in Threads : Local(r, Idle(t))

RunMove(r, Cmds) ==
    \/ BodyMove(r) \/ LeaseStep(r) \/ HeartbeatStep(r) \/ Crash(r)
    \/ Called(r, Cmds) \/ Forgotten(r)

AnyStep(Cmds) ==
    \/ \E r \in Runs : RunMove(r, Cmds)
    \/ \E t \in Threads, k \in Nat : Prune(t, k)
    \/ \E t \in Threads : DeleteThread(t)
    \/ Clock

\* The locals of a call but for what only the graph gives a meaning to.
RunShape(x, Cmds) ==
    /\ DOMAIN x = RunFields
    /\ x.pc \in PCs
    /\ x.op \in {"none", "invoke", "resume"}
    /\ x.thread \in Threads
    /\ x.cmd \in Cmds
    /\ x.expected \in Nat
    /\ x.ttl \in TTLs \cup {0}
    /\ x.epoch \in Nat
    /\ x.hb \in BOOLEAN
    /\ x.cause \in {"none", "lost", "canceled"}
    /\ x.parent \in Nat
    /\ x.node \in Nodes \cup {END}
    /\ x.step \in Nat
    /\ x.approved \in BOOLEAN
    /\ x.pend.node \in Nodes \cup {END}
    /\ x.pend.interrupt \in BOOLEAN
    /\ x.outcome \in Outcomes
    /\ x.pc = "node" => x.node # END

\* Nothing of the call and of its lease differs.
CallKept(x, y) ==
    /\ y.op = x.op /\ y.thread = x.thread /\ y.cmd = x.cmd
    /\ y.expected = x.expected
    /\ y.ttl = x.ttl /\ y.epoch = x.epoch /\ y.hb = x.hb

\* A call that has not begun or is over is as good as idle.
LEMMA IdleShape ==
  ASSUME NEW t \in Threads, NEW Cmds, NoCommand \in Cmds
  PROVE  /\ RunShape(Idle(t), Cmds)
         /\ Idle(t).pc = "idle" /\ Idle(t).thread = t /\ Idle(t).epoch = 0
         /\ ~Idle(t).hb /\ Idle(t).cause = "none"
         /\ Idle(t).parent = NoID /\ Idle(t).ttl = 0 /\ Idle(t).expected = NoID
         /\ Idle(t).turns = NoEntries /\ Idle(t).trace = <<>>
<1>1. DOMAIN Idle(t) = RunFields
  BY DEF Idle, RunFields
<1> QED
  BY <1>1 DEF Idle, RunShape, PCs, Outcomes, NoPend, NoID

\* The body returns: only the outcome, the cancellation and what belonged to
\* the step change.
LEMMA ExitShape ==
  ASSUME NEW Cmds, NEW x, RunShape(x, Cmds), NEW o \in Outcomes
  PROVE  /\ RunShape(Exit(x, o), Cmds)
         /\ Exit(x, o).pc = "exit" /\ Exit(x, o).outcome = o
         /\ Exit(x, o).turns = NoEntries
         /\ Exit(x, o).cause = IF x.cause = "none" THEN "canceled" ELSE x.cause
         /\ CallKept(x, Exit(x, o))
         /\ Exit(x, o).parent = x.parent /\ Exit(x, o).node = x.node
         /\ Exit(x, o).trace = x.trace /\ Exit(x, o).step = x.step
         /\ Exit(x, o).approved = x.approved
<1>1. DOMAIN x = {"pc", "op", "thread", "cmd", "expected", "ttl", "epoch", "hb", "cause",
                  "parent", "node", "trace", "step", "approved", "turns", "pend", "outcome"}
  BY DEF RunShape, RunFields, Idle
<1> QED
  BY <1>1 DEF Exit, RunShape, CallKept, PCs, NoPend

\* What is left of a call that is over.
LEMMA FinishedShape ==
  ASSUME NEW Cmds, NoCommand \in Cmds, NEW r \in Runs, RunShape(run[r], Cmds),
         NEW o \in Outcomes
  PROVE  LET y == Finished(r, o) IN
         /\ RunShape(y, Cmds)
         /\ y.pc = "done" /\ y.outcome = o /\ y.thread = run[r].thread
         /\ y.epoch = 0 /\ ~y.hb /\ y.cause = "none" /\ y.parent = NoID
         /\ y.ttl = 0 /\ y.turns = NoEntries /\ y.trace = <<>> /\ y.expected = NoID
<1>1. run[r].thread \in Threads
  BY DEF RunShape
<1>2. DOMAIN Idle(run[r].thread) = RunFields
  BY DEF Idle, RunFields
<1> QED
  BY <1>1, <1>2, IdleShape DEF Idle, RunShape, PCs, Finished, NoPend, NoID

-----------------------------------------------------------------------------
(* The type invariant. *)

BodyOK(b) ==
    /\ b.node \in Nodes \cup {END}
    /\ b.step \in Nat
    /\ b.interrupt \in BOOLEAN

\* A thread of any store: ids are those drawn so far, and the latest one is
\* there; a durable store keeps a chain, a latest-only one nothing else.
ThreadOK(t) ==
    /\ threads[t].latestID \in 0..lastID
    /\ threads[t].latestID # NoID => threads[t].latestID \in DOMAIN threads[t].history
    /\ \A c \in DOMAIN threads[t].history :
         /\ c \in 1..lastID
         /\ BodyOK(threads[t].history[c].body)
    /\ IF LatestOnly(t)
       THEN \A c \in DOMAIN threads[t].history : c = threads[t].latestID
       ELSE ThreadInv(threads[t])

ThreadsOK ==
    /\ lastID \in Nat
    /\ DOMAIN threads = Threads
    /\ \A t \in Threads : ThreadOK(t)

RunsOK(Cmds) ==
    /\ DOMAIN run = Runs
    /\ \A r \in Runs : /\ RunShape(run[r], Cmds)
                       /\ run[r].parent <= lastID
                       /\ run[r].expected <= lastID

\* Only the locals of r change.
OnlyRun(r) ==
    /\ DOMAIN run' = Runs
    /\ \A s \in Runs \ {r} : run'[s] = run[s]

\* What a local step does.
LEMMA LocalStep ==
  ASSUME NEW Cmds, RunsOK(Cmds), NEW r \in Runs, NEW y, Local(r, y)
  PROVE  OnlyRun(r) /\ run'[r] = y /\ UNCHANGED <<leases, threads, lastID>>
BY DEF Local, OnlyRun, RunsOK

\* The checkpoint Resume loads.
LEMMA LatestBody ==
  ASSUME ThreadsOK, NEW r \in Runs, run[r].thread \in Threads, HasLatest(ThreadOf(r))
  PROVE  BodyOK(Latest(r)) /\ LoadedID(r) \in 0..lastID
BY DEF ThreadsOK, ThreadOK, HasLatest, ThreadOf, Latest, LoadedID, NoID

\* A step of the body leaves the call, its lease and the other runs alone; it
\* goes on in the body, or leaves it with runCtx done.
BodyEffect(r, Cmds) ==
    /\ InBody(r)
    /\ OnlyRun(r)
    /\ UNCHANGED leases
    /\ RunShape(run'[r], Cmds)
    /\ CallKept(run[r], run'[r])
    /\ \/ InBody(r)'
       \/ run'[r].pc = "exit" /\ run'[r].cause # "none"
    /\ run'[r].cause = run[r].cause \/ run[r].cause = "none"
    /\ \/ /\ UNCHANGED <<threads, lastID>>
          /\ run'[r].parent \in 0..lastID
       \/ /\ AppendsSnap(r)
          /\ At(r, "commit") /\ Fenced(r)
          /\ run'[r].parent \in {run[r].parent, lastID + 1}

\* Every step of the body has this effect.
LEMMA BodyMoveEffect ==
  ASSUME NEW Cmds, Cmds \subseteq Command, ThreadsOK, RunsOK(Cmds),
         NEW r \in Runs, BodyMove(r)
  PROVE  BodyEffect(r, Cmds)
<1> DEFINE x == run[r]
<1>1. /\ RunShape(x, Cmds) /\ x.thread \in Threads
      /\ x.parent \in 0..lastID /\ x.expected \in 0..lastID
      /\ DOMAIN x = {"pc", "op", "thread", "cmd", "expected", "ttl", "epoch", "hb", "cause",
                     "parent", "node", "trace", "step", "approved", "turns", "pend", "outcome"}
  BY DEF RunsOK, RunShape, RunFields, Idle, ThreadsOK
\* Every way out of the body.
<1>2. ASSUME NEW o \in Outcomes, InBody(r), Local(r, Exit(x, o))
      PROVE  BodyEffect(r, Cmds)
  <2>1. OnlyRun(r) /\ run'[r] = Exit(x, o) /\ UNCHANGED <<leases, threads, lastID>>
    BY <1>2, LocalStep
  <2> QED
    BY <2>1, <1>1, <1>2, ExitShape DEF BodyEffect
<1>3. ASSUME \/ ResumeRefused(r) \/ ResumeCompleted(r) \/ ResumeNeedsValue(r)
             \/ RunCompletes(r) \/ NodeDiscarded(r) \/ NodeFails(r) \/ RunStops(r)
             \/ PersistRefused(r) \/ CommitFenced(r) \/ CommitConflicts(r)
      PROVE  \E o \in Outcomes : InBody(r) /\ Local(r, Exit(x, o))
  <2>1. x.cause \in {"none", "lost", "canceled"}
    BY <1>1 DEF RunShape
  <2> QED
    BY <1>3, <2>1 DEF ResumeRefused, ResumeCompleted, ResumeNeedsValue, Resuming, RunCompletes,
       NodeDiscarded, NodeFails, RunStops, PersistRefused, CommitFenced, CommitConflicts,
       InBody, At, Outcomes
\* Steps within it.
<1>4. ASSUME NEW y, InBody(r), Local(r, y), RunShape(y, Cmds), y.pc \in Body_PCs,
             CallKept(x, y),
             y.cause = x.cause \/ x.cause = "none", y.parent \in 0..lastID
      PROVE  BodyEffect(r, Cmds)
  BY <1>4, LocalStep DEF BodyEffect, InBody, Body_PCs
<1>5. CASE BeginInvoke(r)
  <2> DEFINE y == [x EXCEPT !.pc = "loop", !.node = Entry]
  <2>1. RunShape(y, Cmds)
    BY <1>1, RuntimeAssumption DEF RunShape, PCs
  <2>2. y.pc \in Body_PCs /\ y.cause = x.cause /\ y.parent = x.parent
        /\ CallKept(x, y)
    BY <1>1 DEF CallKept, Body_PCs
  <2>3. InBody(r) /\ Local(r, y)
    BY <1>5 DEF BeginInvoke, At, InBody
  <2> HIDE DEF y
  <2> QED
    BY <2>1, <2>2, <2>3, <1>1, <1>4
<1>6. CASE ResumeContinues(r)
  <2> DEFINE y == Resumed(r)
  <2>1. BodyOK(Latest(r)) /\ LoadedID(r) \in 0..lastID
    BY <1>1, <1>6, LatestBody DEF ResumeContinues
  <2>2. Target(r) \in Nodes \cup {END}
    BY <2>1, <1>1 DEF Target, BodyOK, RunShape, Command
  <2>3. RunShape(y, Cmds)
    BY <1>1, <2>1, <2>2 DEF Resumed, RunShape, PCs, BodyOK, ThreadsOK
  <2>4. /\ y.pc = "loop" /\ y.cause = x.cause /\ y.parent = LoadedID(r)
        /\ CallKept(x, y)
    BY <1>1 DEF Resumed, CallKept
  <2>5. InBody(r) /\ Local(r, y)
    BY <1>6 DEF ResumeContinues, Resuming, At, InBody
  <2> HIDE DEF y
  <2> QED
    BY <2>1, <2>3, <2>4, <2>5, <1>4 DEF Body_PCs
<1>7. CASE NodeStarts(r)
  <2> DEFINE y == [x EXCEPT !.pc = "node", !.turns = Turns(r)]
  <2>1. RunShape(y, Cmds)
    BY <1>1, <1>7 DEF RunShape, PCs, NodeStarts
  <2>2. y.pc \in Body_PCs /\ y.cause = x.cause /\ y.parent = x.parent
        /\ CallKept(x, y)
    BY <1>1 DEF CallKept, Body_PCs
  <2>3. InBody(r) /\ Local(r, y)
    BY <1>7 DEF NodeStarts, At, InBody
  <2> HIDE DEF y
  <2> QED
    BY <2>1, <2>2, <2>3, <1>1, <1>4
<1>8. ASSUME NEW arts, NodeInterrupts(r, arts) PROVE BodyEffect(r, Cmds)
  <2> DEFINE y == [x EXCEPT !.pc = "persist", !.turns = arts,
                            !.pend = [node |-> x.node, interrupt |-> TRUE]]
  <2>1. RunShape(y, Cmds)
    BY <1>1 DEF RunShape, PCs
  <2>2. y.pc \in Body_PCs /\ y.cause = x.cause /\ y.parent = x.parent
        /\ CallKept(x, y)
    BY <1>1 DEF CallKept, Body_PCs
  <2>3. InBody(r) /\ Local(r, y)
    BY <1>8 DEF NodeInterrupts, At, InBody
  <2> HIDE DEF y
  <2> QED
    BY <2>1, <2>2, <2>3, <1>1, <1>4
<1>9. ASSUME NEW update, NEW next, NEW arts, NodeReturns(r, update, next, arts)
      PROVE  BodyEffect(r, Cmds)
  <2> DEFINE y == [x EXCEPT !.pc = "persist", !.trace = Applied(@, update), !.step = @ + 1,
                            !.approved = FALSE, !.turns = arts,
                            !.pend = [node |-> next, interrupt |-> FALSE]]
  <2>1. next \in Nodes \cup {END}
    <3>1. x.node \in Nodes
      BY <1>9, <1>1 DEF NodeReturns, RunShape, At
    <3> QED
      BY <3>1, <1>9, RuntimeAssumption DEF NodeReturns, Routes
  <2>2. /\ y.pc = "persist" /\ y.step = x.step + 1 /\ y.approved \in BOOLEAN
        /\ y.pend.node = next /\ y.pend.interrupt \in BOOLEAN
        /\ DOMAIN y = DOMAIN x /\ y.outcome = x.outcome /\ y.node = x.node
        /\ y.cause = x.cause /\ y.parent = x.parent
        /\ CallKept(x, y)
    BY <1>1 DEF CallKept
  <2>3. InBody(r) /\ Local(r, y)
    BY <1>9 DEF NodeReturns, At, InBody
  <2> HIDE DEF y
  <2>4. RunShape(y, Cmds)
    <3>1. x.step \in Nat
      BY <1>1 DEF RunShape
    <3> QED
      BY <1>1, <2>1, <2>2, <3>1 DEF RunShape, CallKept, PCs
  <2> QED
    BY <2>2, <2>3, <2>4, <1>1, <1>4 DEF Body_PCs
<1>10. CASE PersistChecked(r)
  <2> DEFINE y == [x EXCEPT !.pc = "commit"]
  <2>1. RunShape(y, Cmds)
    BY <1>1 DEF RunShape, PCs
  <2>2. y.pc \in Body_PCs /\ y.cause = x.cause /\ y.parent = x.parent
        /\ CallKept(x, y)
    BY <1>1 DEF CallKept, Body_PCs
  <2>3. InBody(r) /\ Local(r, y)
    BY <1>10 DEF PersistChecked, At, InBody
  <2> HIDE DEF y
  <2> QED
    BY <2>1, <2>2, <2>3, <1>1, <1>4
<1>11. CASE Cancel(r)
  <2> DEFINE y == [x EXCEPT !.cause = "canceled"]
  <2>1. RunShape(y, Cmds)
    BY <1>1 DEF RunShape
  <2>2. y.pc = x.pc /\ x.cause = "none" /\ y.parent = x.parent
        /\ CallKept(x, y)
    BY <1>1, <1>11 DEF Cancel, CallKept
  <2>3. InBody(r) /\ Local(r, y)
    BY <1>11 DEF Cancel
  <2> HIDE DEF y
  <2>4. y.pc \in Body_PCs
    BY <2>2, <2>3 DEF InBody, Body_PCs
  <2> QED
    BY <2>1, <2>2, <2>3, <2>4, <1>1, <1>4
\* The commit.
<1>12. ASSUME NEW y, At(r, "commit"), Fenced(r), AppendsSnap(r),
              run' = [run EXCEPT ![r] = y], RunShape(y, Cmds),
              CallKept(x, y),
              y.cause = x.cause \/ x.cause = "none", y.parent \in {x.parent, lastID + 1},
              y.pc = "loop" \/ (y.pc = "exit" /\ y.cause # "none")
       PROVE  BodyEffect(r, Cmds)
  <2>1. OnlyRun(r) /\ run'[r] = y
    BY <1>12 DEF OnlyRun, RunsOK
  <2> QED
    BY <2>1, <1>12 DEF BodyEffect, InBody, At, AppendsSnap
<1>13. CASE CommitSucceeds(r)
  <2> DEFINE z == [x EXCEPT !.parent = lastID + 1, !.node = x.pend.node,
                            !.turns = NoEntries, !.pend = NoPend]
             y == AfterCommit(r)
  <2>1. RunShape(z, Cmds)
    <3>1. x.pc = "commit" /\ lastID + 1 \in Nat /\ NoPend.node = END /\ NoPend.interrupt = FALSE
      BY <1>13 DEF CommitSucceeds, At, ThreadsOK, NoPend
    <3> QED
      BY <3>1, <1>1 DEF RunShape
  <2>2. /\ z.cause = x.cause /\ z.parent = lastID + 1
        /\ CallKept(x, z)
        /\ DOMAIN z = DOMAIN x
    BY <1>1 DEF CallKept
  <2>3. \/ \E o \in Outcomes : y = Exit(z, o)
        \/ y = [z EXCEPT !.pc = "loop"]
    BY DEF AfterCommit, Outcomes
  <2> HIDE DEF z
  <2>4. ASSUME NEW o \in Outcomes
        PROVE  LET e == Exit(z, o) IN
               /\ RunShape(e, Cmds)
               /\ e.pc = "exit" /\ e.cause # "none" /\ e.parent = lastID + 1
               /\ e.cause = x.cause \/ x.cause = "none"
               /\ CallKept(x, e)
    BY <2>1, <2>2, ExitShape DEF CallKept
  <2>5. LET e == [z EXCEPT !.pc = "loop"] IN
               /\ RunShape(e, Cmds)
               /\ e.pc = "loop" /\ e.parent = lastID + 1 /\ e.cause = x.cause
               /\ CallKept(x, e)
    BY <2>1, <2>2, <1>1 DEF RunShape, CallKept, PCs
  <2>6. At(r, "commit") /\ Fenced(r) /\ AppendsSnap(r) /\ run' = [run EXCEPT ![r] = y]
    BY <1>13 DEF CommitSucceeds
  <2> HIDE DEF y
  <2> QED
    BY <2>3, <2>4, <2>5, <2>6, <1>12
<1>14. CASE CommitUnknown(r)
  <2>1. "error" \in Outcomes
    BY DEF Outcomes
  <2>2. CASE Local(r, Exit(x, "error"))
    <3>1. InBody(r)
      BY <1>14 DEF CommitUnknown, At, InBody
    <3> QED
      BY <3>1, <2>1, <2>2, <1>2
  <2>3. CASE Fenced(r) /\ AppendsSnap(r) /\ run' = [run EXCEPT ![r] = Exit(@, "error")]
    <3> DEFINE y == Exit(x, "error")
    <3>1. /\ RunShape(y, Cmds) /\ y.pc = "exit" /\ y.cause # "none" /\ y.parent = x.parent
          /\ y.cause = x.cause \/ x.cause = "none"
          /\ CallKept(x, y)
      BY <2>1, <1>1, ExitShape
    <3>2. At(r, "commit") /\ run' = [run EXCEPT ![r] = y]
      BY <1>14, <2>3 DEF CommitUnknown
    <3> HIDE DEF y
    <3> QED
      BY <3>1, <3>2, <2>3, <1>12
  <2> QED
    BY <2>2, <2>3, <1>14 DEF CommitUnknown
<1> QED
  BY <1>2, <1>3, <1>5, <1>6, <1>7, <1>8, <1>9, <1>10, <1>11, <1>13, <1>14
     DEF BodyMove, EngineStep

-----------------------------------------------------------------------------
(* What happens to the store. *)

\* What a commit that is accepted does to the store.
LEMMA AppendEffect ==
  ASSUME ThreadsOK, NEW r \in Runs, run[r].thread \in Threads, AppendsSnap(r)
  PROVE  LET t == run[r].thread  new == threads'[t] IN
         /\ lastID' = lastID + 1
         /\ DOMAIN threads' = Threads
         /\ \A u \in Threads \ {t} : threads'[u] = threads[u]
         /\ new.latestID = lastID + 1
         /\ new.history[lastID + 1].parent = run[r].parent
         /\ new.history[lastID + 1].body = Snap(r).body
         /\ LatestOnly(t) => DOMAIN new.history = {lastID + 1}
         /\ ~LatestOnly(t) =>
              /\ CanAppend(threads[t], Snap(r))
              /\ threads[t].latestID = run[r].parent
              /\ new = Appended(threads[t], Snap(r), Artifacts(r))
              /\ DOMAIN new.history = DOMAIN threads[t].history \cup {lastID + 1}
              /\ \A c \in DOMAIN threads[t].history :
                   c # lastID + 1 /\ new.history[c] = threads[t].history[c]
<1> DEFINE t == run[r].thread
           new == threads'[t]
<1>1. /\ lastID' = lastID + 1
      /\ DOMAIN threads' = Threads
      /\ \A u \in Threads \ {t} : threads'[u] = threads[u]
      /\ new = IF LatestOnly(t) THEN Overwritten(threads[t], Snap(r))
               ELSE Appended(threads[t], Snap(r), Artifacts(r))
  BY DEF AppendsSnap, ThreadsOK
<1>2. Snap(r).id = lastID + 1 /\ Snap(r).parent = run[r].parent
  BY DEF Snap
<1>3. ASSUME LatestOnly(t)
      PROVE  /\ new.latestID = lastID + 1
             /\ DOMAIN new.history = {lastID + 1}
             /\ new.history[lastID + 1].parent = run[r].parent
             /\ new.history[lastID + 1].body = Snap(r).body
  BY <1>1, <1>2, <1>3 DEF Overwritten, EmptyThread
<1>4. ASSUME ~LatestOnly(t)
      PROVE  /\ CanAppend(threads[t], Snap(r))
             /\ threads[t].latestID = run[r].parent
             /\ new.latestID = lastID + 1
             /\ DOMAIN new.history = DOMAIN threads[t].history \cup {lastID + 1}
             /\ new.history[lastID + 1].parent = run[r].parent
             /\ new.history[lastID + 1].body = Snap(r).body
             /\ \A c \in DOMAIN threads[t].history :
                  c # lastID + 1 /\ new.history[c] = threads[t].history[c]
  <2>1. CanAppend(threads[t], Snap(r))
    BY <1>4 DEF AppendsSnap, CanStore, ThreadOf
  <2>2. threads[t].latestID = run[r].parent /\ lastID + 1 \notin DOMAIN threads[t].history
    BY <2>1, <1>2 DEF CanAppend
  <2> QED
    BY <2>1, <2>2, <1>1, <1>2, <1>4 DEF Appended
<1> QED
  BY <1>1, <1>3, <1>4

\* A commit that is accepted leaves the threads well formed.
LEMMA AppendKeepsThreads ==
  ASSUME NEW Cmds, ThreadsOK, RunsOK(Cmds), NEW r \in Runs, AppendsSnap(r)
  PROVE  ThreadsOK'
<1>0. run[r].thread \in Threads
  BY DEF RunsOK, RunShape
<1> PICK t \in Threads : t = run[r].thread
  BY <1>0
<1> DEFINE new == threads'[t]
           snap == Snap(r)
<1>1. t \in Threads /\ run[r].parent \in 0..lastID /\ BodyOK(snap.body)
  BY DEF RunsOK, RunShape, BodyOK, Snap, ThreadsOK
<1>2. ThreadOK(t) /\ lastID \in Nat
  BY <1>1 DEF ThreadsOK
<1>3. ASSUME NEW u \in Threads \ {t} PROVE ThreadOK(u)'
  <2>1. threads'[u] = threads[u] /\ lastID' = lastID + 1
    BY <1>1, AppendEffect
  <2>2. ThreadOK(u)
    BY DEF ThreadsOK
  <2> QED
    BY <2>1, <2>2, <1>2 DEF ThreadOK
<1>4. ASSUME LatestOnly(t) PROVE ThreadOK(t)'
  <2>1. /\ lastID' = lastID + 1 /\ new.latestID = lastID + 1
        /\ DOMAIN new.history = {lastID + 1}
        /\ new.history[lastID + 1].body = snap.body
    BY <1>1, <1>4, AppendEffect
  <2> QED
    <3>1. new.latestID \in 0..lastID' /\ lastID + 1 \in 1..lastID'
      BY <2>1, <1>2
    <3>2. BodyOK(new.history[lastID + 1].body)
      BY <2>1, <1>1
    <3>3. \A c \in DOMAIN new.history :
            c \in 1..lastID' /\ c = new.latestID /\ BodyOK(new.history[c].body)
      BY <2>1, <3>1, <3>2
    <3> QED
      BY <2>1, <3>1, <3>3, <1>4 DEF ThreadOK, BodyOK, LatestOnly
<1>5. ASSUME ~LatestOnly(t) PROVE ThreadOK(t)'
  <2>1. /\ lastID' = lastID + 1 /\ new.latestID = lastID + 1
        /\ CanAppend(threads[t], snap)
        /\ new = Appended(threads[t], snap, Artifacts(r))
        /\ DOMAIN new.history = DOMAIN threads[t].history \cup {lastID + 1}
        /\ new.history[lastID + 1].body = snap.body
        /\ \A c \in DOMAIN threads[t].history : new.history[c] = threads[t].history[c]
    BY <1>1, <1>5, AppendEffect
  <2>2. ThreadInv(threads[t])
    BY <1>2, <1>5 DEF ThreadOK
  <2>3. snap.id \in Nat \ {NoID} /\ snap.parent < snap.id
    BY <1>1, <1>2 DEF Snap, NoID
  <2>4. ThreadInv(new)
    BY <2>1, <2>2, <2>3, AppendKeepsChain, AppendKeepsSessions DEF ThreadInv
  <2> QED
    <3>1. new.latestID \in 0..lastID' /\ lastID + 1 \in 1..lastID'
      BY <2>1, <1>2
    <3>2. BodyOK(new.history[lastID + 1].body)
      BY <2>1, <1>1
    <3>3. ASSUME NEW c \in DOMAIN threads[t].history
          PROVE  c \in 1..lastID' /\ BodyOK(new.history[c].body)
      BY <2>1, <1>2 DEF ThreadOK
    <3> QED
      BY <2>1, <2>4, <3>1, <3>2, <3>3, <1>5 DEF ThreadOK, BodyOK, LatestOnly
<1> QED
  BY <1>3, <1>4, <1>5, <1>1, <1>2, AppendEffect DEF ThreadsOK

\* What Prune does to a thread of any store.
LEMMA PruneEffect ==
  ASSUME ThreadsOK, NEW t \in Threads, NEW k \in Nat, Prune(t, k)
  PROVE  LET new == threads'[t] IN
         /\ ~LatestOnly(t) /\ k > 0
         /\ DOMAIN threads' = Threads /\ lastID' = lastID
         /\ \A u \in Threads \ {t} : threads'[u] = threads[u]
         /\ new = Pruned(threads[t], k)
         /\ ThreadInv(new)
         /\ new.latestID = threads[t].latestID /\ new.latestID # NoID
         /\ DOMAIN new.history = Newest(threads[t], k)
         /\ DOMAIN new.history \subseteq DOMAIN threads[t].history
         /\ \A c \in DOMAIN new.history : new.history[c] = threads[t].history[c]
<1> DEFINE th == threads[t]
           new == threads'[t]
<1>1. /\ k > 0 /\ Cardinality(DOMAIN th.history) > k
      /\ DOMAIN threads' = Threads /\ lastID' = lastID
      /\ \A u \in Threads \ {t} : threads'[u] = threads[u]
      /\ new = Pruned(th, k)
      /\ ThreadOK(t)
  BY DEF Prune, ThreadsOK
<1>2. ~LatestOnly(t)
  <2> SUFFICES ASSUME LatestOnly(t) PROVE FALSE
    OBVIOUS
  <2>1. DOMAIN th.history \subseteq {th.latestID}
    BY <1>1 DEF ThreadOK
  <2>2. IsFiniteSet({th.latestID}) /\ Cardinality({th.latestID}) = 1
    BY FS_Singleton
  <2>3. Cardinality(DOMAIN th.history) <= 1 /\ Cardinality(DOMAIN th.history) \in Nat
    BY <2>1, <2>2, FS_Subset, FS_CardinalityType
  <2> QED
    BY <2>3, <1>1
<1>3. ThreadInv(th)
  BY <1>1, <1>2 DEF ThreadOK
<1>4. th.latestID # NoID
  <2>1. DOMAIN th.history # {}
    BY <1>1, FS_EmptySet
  <2> QED
    BY <2>1, <1>3 DEF ThreadInv, ThreadLatestIsNewest
<1>5. k \in Nat \ {0}
  BY <1>1
<1>6. ThreadInv(new)
  BY <1>1, <1>3, <1>4, <1>5, PruneKeepsInv
<1>7. new.latestID = th.latestID /\ Newest(th, k) \subseteq DOMAIN th.history
  BY <1>1, <1>3, <1>4, <1>5, NewestIsTop DEF ThreadInv
<1>8. new.history = [c \in Newest(th, k) |-> th.history[c]]
  BY <1>1 DEF Pruned, Restrict
<1> QED
  BY <1>1, <1>2, <1>4, <1>6, <1>7, <1>8

\* So does Prune.
LEMMA PruneKeepsThreads ==
  ASSUME ThreadsOK, NEW t \in Threads, NEW k \in Nat, Prune(t, k)
  PROVE  ThreadsOK'
<1>1. ASSUME NEW u \in Threads \ {t} PROVE ThreadOK(u)'
  <2>1. threads'[u] = threads[u] /\ lastID' = lastID
    BY PruneEffect
  <2> QED
    BY <2>1 DEF ThreadsOK, ThreadOK
<1>2. ThreadOK(t)'
  <2> DEFINE new == threads'[t]
  <2>1. /\ ~LatestOnly(t) /\ lastID' = lastID
        /\ ThreadInv(new)
        /\ new.latestID = threads[t].latestID
        /\ DOMAIN new.history \subseteq DOMAIN threads[t].history
        /\ \A c \in DOMAIN new.history : new.history[c] = threads[t].history[c]
    BY PruneEffect
  <2>2. ThreadOK(t)
    BY DEF ThreadsOK
  <2>3. new.latestID # NoID => new.latestID \in DOMAIN new.history
    BY <2>1 DEF ThreadInv, ThreadLatestIsNewest
  <2> QED
    BY <2>1, <2>2, <2>3 DEF ThreadOK
<1> QED
  BY <1>1, <1>2, PruneEffect DEF ThreadsOK

\* The empty thread is one of any store.
LEMMA EmptyIsOK ==
  ASSUME lastID \in Nat, NEW t \in Threads, threads[t] = EmptyThread
  PROVE  ThreadOK(t)
<1>1. DOMAIN EmptyThread.history = {} /\ EmptyThread.latestID = NoID
  BY DEF EmptyThread, NoEntries
<1> QED
  BY <1>1, EmptyThreadInv DEF ThreadOK, NoID

\* So does DeleteThread.
LEMMA DeleteKeepsThreads ==
  ASSUME ThreadsOK, NEW t \in Threads, DeleteThread(t)
  PROVE  ThreadsOK'
<1>1. /\ DOMAIN threads' = Threads /\ lastID' = lastID /\ lastID' \in Nat
      /\ threads'[t] = EmptyThread
      /\ \A u \in Threads \ {t} : threads'[u] = threads[u]
  BY DEF DeleteThread, ThreadsOK
<1>2. ThreadOK(t)'
  <2>1. DOMAIN EmptyThread.history = {} /\ EmptyThread.latestID = NoID
    BY DEF EmptyThread, NoEntries
  <2> QED
    BY <1>1, <2>1, EmptyThreadInv DEF ThreadOK, NoID
<1>3. ASSUME NEW u \in Threads \ {t} PROVE ThreadOK(u)'
  BY <1>1 DEF ThreadsOK, ThreadOK
<1> QED
  BY <1>1, <1>2, <1>3 DEF ThreadsOK

-----------------------------------------------------------------------------
(* The lease. *)

NotStarted == {"idle", "acquire", "done"}

\* What ties the locals of a call to the lease of its thread.  An epoch is the
\* call's own: should it be the lease's present one, nobody else is its owner.
\* As long as runCtx is not done the heartbeat runs, and is in time if Timely.
Owned(r, x, l) == l.runID = r /\ l.epoch = x.epoch /\ l.remaining > 0

Tied(r, x, l) ==
    /\ x.epoch <= l.epoch
    /\ x.pc \in NotStarted =>
         x.epoch = 0 /\ ~x.hb /\ x.cause = "none" /\ x.parent = NoID
    /\ (UseLease(x.thread) /\ x.pc \notin NotStarted) => x.epoch > 0 /\ x.ttl \in TTLs
    /\ ~UseLease(x.thread) => x.epoch = 0 /\ ~x.hb /\ x.pc \notin {"acquire", "release"}
    /\ (x.epoch > 0 /\ l.epoch = x.epoch) => l.runID \in {r, NoRun}
    /\ x.pc \in {"exit", "release"} => x.cause # "none"
    /\ x.pc = "release" => ~x.hb
    /\ (UseLease(x.thread) /\ x.pc \in Body_PCs /\ x.cause = "none") => x.hb
    /\ (Timely /\ x.hb /\ x.cause = "none") => Owned(r, x, l)

RunLease(r) == Tied(r, run[r], leases[run[r].thread])

\* Leases are those of MemoryLease; a graph without one never acquires it.
LeasesOK ==
    /\ LeaseTypeOK
    /\ \A t \in Threads : ~UseLease(t) => leases[t].runID = NoRun
    /\ \A r \in Runs : RunLease(r)

\* A step of anything that happens to a run is one of the lease, or none: each
\* call the runtime makes is one of Acquire, Renew and Release of a grant that
\* was issued to it.
LEMMA LeaseSimulated ==
  ASSUME NEW Cmds, Cmds \subseteq Command, ThreadsOK, RunsOK(Cmds), LeasesOK,
         AnyStep(Cmds)
  PROVE  [LeaseNext]_leases
<1>1. ASSUME NEW r \in Runs, BodyMove(r) PROVE UNCHANGED leases
  BY <1>1, BodyMoveEffect DEF BodyEffect
<1>2. ASSUME NEW r \in Runs, LeaseStep(r) PROVE [LeaseNext]_leases
  <2>1. run[r].thread \in Threads
    BY DEF RunsOK, RunShape
  <2>2. ASSUME NEW ttl \in TTLs, AcquireGranted(r, ttl) PROVE LeaseNext
    BY <2>1, <2>2 DEF AcquireGranted, LeaseNext
  <2>3. CASE Releases(r)
    <3>1. run[r].epoch \in Nat
      BY DEF RunsOK, RunShape
    <3>2. run[r].epoch \in 1..leases[run[r].thread].epoch
      BY <2>1, <2>3, <3>1 DEF Releases, LeasesOK, RunLease, Tied, At, NotStarted, LeaseTypeOK, Lease
    <3>3. GrantOf(r) \in Grants
      BY <2>1, <3>2, LeaseAssumption DEF GrantOf, Grant, Grants, LeasesOK, LeaseTypeOK, Lease
    <3> QED
      BY <2>3, <3>3 DEF Releases, LeaseNext
  <2> QED
    BY <1>2, <2>2, <2>3 DEF LeaseStep, AcquireDenied, HeartbeatJoined, ReleaseFails, Returns,
       Local
<1>3. ASSUME NEW r \in Runs, HeartbeatStep(r) PROVE [LeaseNext]_leases
  <2>1. run[r].thread \in Threads /\ run[r].epoch \in Nat /\ run[r].hb \in BOOLEAN
    BY DEF RunsOK, RunShape
  <2>2. CASE HeartbeatRenews(r)
    <3>1. RunLease(r)
      BY DEF LeasesOK
    <3>2. run[r].hb
      BY <2>2 DEF HeartbeatRenews, Beating
    <3>3. run[r].ttl \in TTLs /\ run[r].epoch \in 1..leases[run[r].thread].epoch
      BY <2>1, <3>1, <3>2 DEF RunLease, Tied, LeasesOK, LeaseTypeOK, Lease
    <3>4. GrantOf(r) \in Grants
      BY <2>1, <3>3, LeaseAssumption DEF GrantOf, Grant, Grants, LeasesOK, LeaseTypeOK, Lease
    <3> QED
      BY <2>2, <3>3, <3>4 DEF HeartbeatRenews, LeaseNext
  <2> QED
    BY <1>3, <2>2 DEF HeartbeatStep, HeartbeatLoses, HeartbeatStops, Local
<1> QED
  BY <1>1, <1>2, <1>3 DEF AnyStep, RunMove, Crash, Called, Start, Forgotten, Local, Prune,
     DeleteThread, Clock, LeaseNext

\* The lease of a graph without one stays unused.
LEMMA UnusedStaysUnused ==
  ASSUME NEW Cmds, Cmds \subseteq Command, ThreadsOK, RunsOK(Cmds), LeasesOK,
         AnyStep(Cmds), NEW t \in Threads, ~UseLease(t)
  PROVE  leases'[t].runID = NoRun
<1> USE DEF LeaseTypeOK, Lease
<1>1. leases \in [Threads -> Lease] /\ leases[t].runID = NoRun
  BY DEF LeasesOK
<1>2. ASSUME NEW r \in Runs, BodyMove(r) PROVE leases' = leases
  BY <1>2, BodyMoveEffect DEF BodyEffect
<1>3. ASSUME NEW r \in Runs, LeaseStep(r) PROVE leases'[t].runID = NoRun
  <2>1. RunLease(r) /\ run[r].thread \in Threads
    BY DEF LeasesOK, RunsOK, RunShape
  <2>2. ASSUME NEW ttl \in TTLs, AcquireGranted(r, ttl) PROVE leases'[t].runID = NoRun
    <3>1. run[r].thread # t
      BY <2>1, <2>2 DEF AcquireGranted, At, RunLease, Tied
    <3> QED
      BY <1>1, <2>1, <2>2, <3>1 DEF AcquireGranted, Acquire, ExtendLease, TakeLease
  <2>3. CASE Releases(r)
    BY <1>1, <2>1, <2>3 DEF Releases, Release, GrantOf, Grant
  <2> QED
    BY <1>1, <1>3, <2>2, <2>3
       DEF LeaseStep, AcquireDenied, HeartbeatJoined, ReleaseFails, Returns, Local
<1>4. ASSUME NEW r \in Runs, HeartbeatStep(r) PROVE leases'[t].runID = NoRun
  <2>1. run[r].thread \in Threads
    BY DEF RunsOK, RunShape
  <2> QED
    BY <1>1, <1>4, <2>1 DEF HeartbeatStep, HeartbeatRenews, HeartbeatLoses, HeartbeatStops,
       Renew, Holds, GrantOf, Grant, Local
<1>5. CASE Clock
  BY <1>1, <1>5 DEF Clock, Tick
<1> QED
  BY <1>1, <1>2, <1>3, <1>4, <1>5 DEF AnyStep, RunMove, Crash, Called, Start, Forgotten, Local,
     Prune, DeleteThread

\* What the steps of others leave of a run's hold of its lease: they cannot
\* extend, take or release it, and time does not run out on a timely heartbeat.
LEMMA OthersLetHold ==
  ASSUME NEW Cmds, Cmds \subseteq Command, ThreadsOK, RunsOK(Cmds), LeasesOK,
         NEW s \in Runs, Timely, Beating(s),
         \/ \E r \in Runs \ {s} : RunMove(r, Cmds)
         \/ \E t \in Threads, k \in Nat : Prune(t, k)
         \/ \E t \in Threads : DeleteThread(t)
         \/ Clock
  PROVE  LET t == run[s].thread IN
         /\ leases'[t].runID = leases[t].runID /\ leases'[t].epoch = leases[t].epoch
         /\ leases'[t].remaining > 0
<1> USE DEF LeaseTypeOK, Lease
<1>1. /\ leases \in [Threads -> Lease] /\ run[s].thread \in Threads
      /\ leases[run[s].thread].runID = s /\ leases[run[s].thread].remaining > 0
  BY DEF LeasesOK, RunLease, Tied, Owned, Beating, RunsOK, RunShape
<1>2. ASSUME NEW r \in Runs \ {s}, BodyMove(r) PROVE leases' = leases
  BY <1>2, BodyMoveEffect DEF BodyEffect
<1>3. ASSUME NEW r \in Runs \ {s}, LeaseStep(r)
      PROVE  leases'[run[s].thread] = leases[run[s].thread]
  <2>1. run[r].thread \in Threads /\ s # NoRun
    BY LeaseAssumption DEF RunsOK, RunShape
  <2>2. ASSUME NEW ttl \in TTLs, AcquireGranted(r, ttl)
        PROVE  leases'[run[s].thread] = leases[run[s].thread]
    BY <1>1, <2>1, <2>2 DEF AcquireGranted, Acquire, ExtendLease, TakeLease, Active
  <2>3. CASE Releases(r)
    BY <1>1, <2>1, <2>3 DEF Releases, Release, GrantOf, Grant
  <2> QED
    BY <1>3, <2>2, <2>3
       DEF LeaseStep, AcquireDenied, HeartbeatJoined, ReleaseFails, Returns, Local
<1>4. ASSUME NEW r \in Runs \ {s}, HeartbeatStep(r)
      PROVE  leases'[run[s].thread] = leases[run[s].thread]
  <2>1. run[r].thread \in Threads
    BY DEF RunsOK, RunShape
  <2> QED
    BY <1>1, <1>4, <2>1 DEF HeartbeatStep, HeartbeatRenews, HeartbeatLoses, HeartbeatStops,
       Renew, Holds, GrantOf, Grant, Local
<1>5. ASSUME Clock
      PROVE  LET t == run[s].thread IN
             /\ leases'[t].runID = leases[t].runID /\ leases'[t].epoch = leases[t].epoch
             /\ leases'[t].remaining > 0
  BY <1>1, <1>5 DEF Clock, Tick
<1> QED
  BY <1>1, <1>2, <1>3, <1>4, <1>5 DEF RunMove, Crash, Called, Start, Forgotten, Local,
     Prune, DeleteThread

\* A run that does not move keeps its ties to the lease.
LEMMA OthersKeepRunLease ==
  ASSUME NEW Cmds, Cmds \subseteq Command, ThreadsOK, RunsOK(Cmds), LeasesOK,
         NEW s \in Runs, run'[s] = run[s], AnyStep(Cmds),
         \/ \E r \in Runs \ {s} : RunMove(r, Cmds)
         \/ \E t \in Threads, k \in Nat : Prune(t, k)
         \/ \E t \in Threads : DeleteThread(t)
         \/ Clock
  PROVE  RunLease(s)'
<1> DEFINE t == run[s].thread
<1>1. /\ t \in Threads /\ run[s].epoch \in Nat
      /\ leases \in [Threads -> Lease] /\ leases' \in [Threads -> Lease]
      /\ RunLease(s)
  <2>1. LeaseTypeOK'
    \* A step of the lease keeps it well formed.
    <3>1. LeaseTypeOK /\ [LeaseNext]_leases
      BY LeaseSimulated DEF LeasesOK
    <3> QED
      BY <3>1, LeaseTypeStep
  <2> QED
    BY <2>1 DEF LeasesOK, LeaseTypeOK, RunsOK, RunShape
<1>2. EpochKept(t)
  BY <1>1, LeaseSimulated, EpochStep DEF LeasesOK
<1>3. run[s].epoch <= leases'[t].epoch
  BY <1>1, <1>2 DEF EpochKept, RunLease, Tied, Lease
<1>4. (run[s].epoch > 0 /\ leases'[t].epoch = run[s].epoch) => leases'[t].runID \in {s, NoRun}
  BY <1>1, <1>2 DEF EpochKept, RunLease, Tied, Lease
<1>5. (Timely /\ Beating(s)) => Owned(s, run[s], leases'[t])
  <2> SUFFICES ASSUME Timely, Beating(s) PROVE Owned(s, run[s], leases'[t])
    OBVIOUS
  <2>1. Owned(s, run[s], leases[t])
    BY <1>1 DEF RunLease, Tied, Beating
  <2>2. /\ leases'[t].runID = leases[t].runID /\ leases'[t].epoch = leases[t].epoch
        /\ leases'[t].remaining > 0
    BY OthersLetHold
  <2> QED
    BY <2>1, <2>2 DEF Owned
<1> QED
  BY <1>1, <1>3, <1>4, <1>5 DEF RunLease, Tied, Beating

-----------------------------------------------------------------------------
(* The steps outside the body. *)

\* A call that has not begun, or is over, is tied to nothing.
LEMMA RestingIsTied ==
  ASSUME NEW r \in Runs, NEW x, NEW l \in Lease,
         x.epoch = 0, ~x.hb, x.cause = "none", x.parent = NoID,
         \/ x.pc \in {"idle", "done"}
         \/ x.pc = "acquire" /\ UseLease(x.thread)
         \/ x.pc = "begin" /\ ~UseLease(x.thread)
  PROVE  Tied(r, x, l)
BY DEF Tied, Lease, NotStarted, Body_PCs

\* The steps that begin a call, end it or forget it, and those of the heartbeat
\* and of withLease.
OutsideMove(r, Cmds) ==
    LeaseStep(r) \/ HeartbeatStep(r) \/ Crash(r) \/ Called(r, Cmds) \/ Forgotten(r)

OutsideEffect(r, Cmds) ==
    /\ OnlyRun(r)
    /\ UNCHANGED <<threads, lastID>>
    /\ RunShape(run'[r], Cmds)
    /\ run'[r].parent \in {NoID, run[r].parent}
    /\ run'[r].expected <= lastID
    /\ RunLease(r)'

\* Every step around the body has this effect.
LEMMA OutsideMoveEffect ==
  ASSUME NEW Cmds, Cmds \subseteq Command, NoCommand \in Cmds,
         ThreadsOK, RunsOK(Cmds), LeasesOK, AnyStep(Cmds),
         NEW r \in Runs, OutsideMove(r, Cmds)
  PROVE  OutsideEffect(r, Cmds)
<1> DEFINE x == run[r]
<1>1. /\ RunShape(x, Cmds) /\ x.thread \in Threads /\ x.epoch \in Nat
      /\ x.parent \in 0..lastID /\ x.expected \in 0..lastID
      /\ RunLease(r) /\ LeaseTypeOK
      /\ DOMAIN x = {"pc", "op", "thread", "cmd", "expected", "ttl", "epoch", "hb", "cause",
                     "parent", "node", "trace", "step", "approved", "turns", "pend", "outcome"}
  BY DEF RunsOK, RunShape, RunFields, Idle, ThreadsOK, LeasesOK
<1>2. \A t \in Threads : leases'[t] \in Lease /\ leases[t] \in Lease
  BY <1>1, LeaseSimulated, LeaseTypeStep DEF LeaseTypeOK
<1>3. Tied(r, x, leases[x.thread])
  BY <1>1 DEF RunLease
\* The call is over.
<1>4. ASSUME NEW o \in Outcomes, OnlyRun(r), run'[r] = Finished(r, o),
             UNCHANGED <<threads, lastID>>
      PROVE  OutsideEffect(r, Cmds)
  <2>1. LET y == run'[r] IN
        /\ RunShape(y, Cmds) /\ y.pc = "done" /\ y.epoch = 0 /\ ~y.hb /\ y.cause = "none"
        /\ y.parent = NoID /\ y.expected = NoID /\ y.thread \in Threads
    BY <1>1, <1>4, FinishedShape
  <2>2. leases'[run'[r].thread] \in Lease
    BY <1>2, <2>1 DEF Lease
  <2>3. Tied(r, run'[r], leases'[run'[r].thread])
    BY <2>1, <2>2, RestingIsTied
  <2> QED
    BY <1>4, <2>1, <2>3 DEF OutsideEffect, RunLease, NoID, ThreadsOK
<1>5. ASSUME \/ AcquireDenied(r) \/ ReleaseFails(r) \/ Returns(r) \/ Crash(r)
      PROVE  OutsideEffect(r, Cmds)
  <2>1. x.outcome \in Outcomes
    BY <1>1 DEF RunShape
  <2>2. PICK o \in Outcomes : Local(r, Finished(r, o))
    BY <1>5, <2>1 DEF AcquireDenied, ReleaseFails, Returns, Crash, Outcomes
  <2> QED
    BY <2>2, <1>4, LocalStep
<1>6. CASE Releases(r)
  <2>1. OnlyRun(r) /\ run'[r] = Finished(r, x.outcome) /\ UNCHANGED <<threads, lastID>>
    BY <1>6 DEF Releases, OnlyRun, RunsOK
  <2>2. x.outcome \in Outcomes
    BY <1>1 DEF RunShape
  <2> QED
    BY <2>1, <2>2, <1>4
\* Steps that leave the lease alone and nothing of it to the run.
<1>7. ASSUME NEW y, Local(r, y), RunShape(y, Cmds), Tied(r, y, leases[y.thread]),
             y.parent \in {NoID, x.parent}, y.expected <= lastID
      PROVE  OutsideEffect(r, Cmds)
  <2>1. OnlyRun(r) /\ run'[r] = y /\ UNCHANGED <<leases, threads, lastID>>
    BY <1>7, LocalStep
  <2> QED
    BY <2>1, <1>7 DEF OutsideEffect, RunLease
<1>8. CASE HeartbeatJoined(r)
  <2> DEFINE y == [x EXCEPT !.pc = "release"]
  <2>1. RunShape(y, Cmds)
    BY <1>1 DEF RunShape, PCs
  <2>2. /\ CallKept(x, y) /\ y.pc = "release" /\ y.cause = x.cause /\ y.parent = x.parent
        /\ x.pc = "exit" /\ ~x.hb /\ UseLease(x.thread)
        /\ Local(r, y)
    BY <1>1, <1>8 DEF HeartbeatJoined, At, CallKept
  <2> HIDE DEF y
  <2>3. Tied(r, y, leases[y.thread])
    BY <1>3, <2>2 DEF Tied, CallKept, NotStarted, Body_PCs
  <2> QED
    BY <2>1, <2>2, <2>3, <1>1, <1>7 DEF CallKept
<1>9. CASE HeartbeatLoses(r) \/ HeartbeatStops(r)
  <2>1. PICK cause \in {"lost", "canceled"} :
          x.hb /\ Local(r, [x EXCEPT !.hb = FALSE, !.cause = cause])
    <3>1. CASE HeartbeatLoses(r)
      BY <3>1 DEF HeartbeatLoses, Beating
    <3>2. CASE HeartbeatStops(r)
      <4>1. x.cause \in {"lost", "canceled"} /\ x.hb /\ Local(r, [x EXCEPT !.hb = FALSE])
        BY <1>1, <3>2 DEF HeartbeatStops, RunShape
      <4>2. [x EXCEPT !.hb = FALSE] = [x EXCEPT !.hb = FALSE, !.cause = x.cause]
        BY <1>1
      <4> QED
        BY <4>1, <4>2
    <3> QED
      BY <1>9, <3>1, <3>2
  <2> DEFINE y == [x EXCEPT !.hb = FALSE, !.cause = cause]
  <2>2. RunShape(y, Cmds)
    BY <1>1 DEF RunShape
  <2>3. /\ ~y.hb /\ y.cause # "none" /\ y.pc = x.pc /\ y.thread = x.thread
        /\ y.epoch = x.epoch /\ y.ttl = x.ttl /\ y.parent = x.parent
        /\ y.expected = x.expected
    BY <1>1
  <2>4. Local(r, y)
    BY <2>1
  <2> HIDE DEF y
  <2>5. x.pc \notin NotStarted
    BY <1>3, <2>1 DEF Tied
  <2>6. Tied(r, y, leases[y.thread])
    BY <1>3, <2>3, <2>5 DEF Tied
  <2> QED
    BY <2>2, <2>3, <2>4, <2>6, <1>1, <1>7
<1>10. CASE HeartbeatRenews(r)
  <2>1. run' = run /\ UNCHANGED <<threads, lastID>> /\ x.hb /\ x.cause = "none"
        /\ x.ttl \in TTLs
        /\ Owned(r, x, leases[x.thread])
        /\ leases'[x.thread] = [leases[x.thread] EXCEPT !.remaining = x.ttl]
    <3>1. x.hb /\ x.cause = "none" /\ run' = run /\ UNCHANGED <<threads, lastID>>
          /\ Renew(GrantOf(r), x.ttl)
      BY <1>10 DEF HeartbeatRenews, Beating
    <3>2. x.ttl \in TTLs
      BY <1>3, <3>1 DEF Tied
    <3>3. Owned(r, x, leases[x.thread])
          /\ leases'[x.thread] = [leases[x.thread] EXCEPT !.remaining = x.ttl]
      BY <1>1, <3>1 DEF Renew, Holds, GrantOf, Grant, Owned, LeaseTypeOK
    <3> QED
      BY <3>1, <3>2, <3>3
  <2>2. leases[x.thread] \in Lease /\ x.ttl > 0
    BY <1>1, <1>2, <2>1, LeaseAssumption
  <2>3. /\ leases'[x.thread].epoch = leases[x.thread].epoch
        /\ leases'[x.thread].runID = leases[x.thread].runID
        /\ leases'[x.thread].remaining > 0
    BY <2>1, <2>2 DEF Lease
  <2>4. Tied(r, x, leases'[x.thread])
    BY <1>3, <2>1, <2>3 DEF Tied, Owned
  <2> QED
    BY <1>1, <2>1, <2>4 DEF OutsideEffect, OnlyRun, RunsOK, RunLease
<1>11. ASSUME NEW ttl \in TTLs, AcquireGranted(r, ttl) PROVE OutsideEffect(r, Cmds)
  <2> DEFINE l == leases'[x.thread]
             y == [x EXCEPT !.pc = "begin", !.ttl = ttl, !.hb = TRUE, !.epoch = l.epoch]
  <2>1. l \in Lease /\ l.epoch \in Nat
    BY <1>1, <1>2 DEF Lease
  <2>2. OnlyRun(r) /\ run'[r] = y /\ UNCHANGED <<threads, lastID>> /\ x.pc = "acquire"
    BY <1>11 DEF AcquireGranted, OnlyRun, RunsOK, At
  <2>3. RunShape(y, Cmds)
    <3> HIDE DEF l
    <3> QED
      BY <1>1, <2>1 DEF RunShape, PCs
  <2>4. l.runID = r /\ l.epoch > 0 /\ l.remaining > 0
    <3>1. Acquire(x.thread, r, ttl)
      BY <1>11 DEF AcquireGranted
    <3> QED
      BY <1>1, <3>1, LeaseAssumption
         DEF Acquire, ExtendLease, TakeLease, Active, LeaseTypeOK, Lease
  <2>5. /\ y.pc = "begin" /\ y.cause = x.cause /\ y.thread = x.thread /\ y.ttl = ttl
        /\ y.hb /\ y.parent = x.parent /\ y.expected = x.expected
        /\ y.epoch = l.epoch /\ x.cause = "none"
    BY <1>1, <1>3, <2>2 DEF Tied, NotStarted
  <2> HIDE DEF y, l
  <2>6. Tied(r, y, l)
    BY <1>3, <2>1, <2>2, <2>4, <2>5 DEF Tied, Owned, NotStarted, Body_PCs
  <2> QED
    BY <1>1, <2>2, <2>3, <2>5, <2>6 DEF OutsideEffect, RunLease, l
<1>12. CASE Called(r, Cmds)
  <2>1. PICK t \in Threads, op \in {"invoke", "resume"}, cmd \in Cmds : Start(r, t, op, cmd)
    BY <1>12 DEF Called
  <2> DEFINE y == [Idle(t) EXCEPT
                     !.pc = IF UseLease(t) THEN "acquire" ELSE "begin",
                     !.op = op, !.cmd = cmd,
                     !.expected = IF cmd.expect THEN threads[t].latestID ELSE NoID]
  <2>2. Local(r, y)
    BY <2>1 DEF Start
  <2>3. threads[t].latestID \in 0..lastID
    BY DEF ThreadsOK, ThreadOK
  <2>4. RunShape(Idle(t), Cmds) /\ DOMAIN Idle(t) = DOMAIN x
    BY <1>1, IdleShape DEF RunShape
  <2>5. RunShape(y, Cmds)
    BY <1>1, <2>3, <2>4 DEF RunShape, PCs, NoID
  <2>6. /\ y.epoch = 0 /\ ~y.hb /\ y.cause = "none" /\ y.parent = NoID /\ y.thread = t
        /\ y.pc = IF UseLease(t) THEN "acquire" ELSE "begin"
        /\ y.expected <= lastID
    BY <1>1, <2>3, <2>4, IdleShape DEF NoID, ThreadsOK
  <2> HIDE DEF y
  <2>7. Tied(r, y, leases[y.thread])
    BY <1>2, <2>6, RestingIsTied
  <2> QED
    BY <2>2, <2>5, <2>6, <2>7, <1>7
<1>13. CASE Forgotten(r)
  <2>1. PICK t \in Threads : Local(r, Idle(t))
    BY <1>13 DEF Forgotten
  <2> DEFINE y == Idle(t)
  <2>2. /\ RunShape(y, Cmds) /\ y.pc = "idle"
        /\ y.epoch = 0 /\ ~y.hb /\ y.cause = "none" /\ y.parent = NoID /\ y.thread = t
        /\ y.expected = NoID
    BY IdleShape
  <2> HIDE DEF y
  <2>3. Tied(r, y, leases[y.thread])
    BY <1>2, <2>2, RestingIsTied
  <2>4. Local(r, y)
    BY <2>1 DEF y
  <2> QED
    BY <2>2, <2>3, <2>4, <1>7 DEF NoID, ThreadsOK
<1> QED
  BY <1>5, <1>6, <1>8, <1>9, <1>10, <1>11, <1>12, <1>13
     DEF OutsideMove, LeaseStep, HeartbeatStep

\* A step of the body keeps its run tied to the lease.
LEMMA BodyKeepsRunLease ==
  ASSUME NEW Cmds, NEW r \in Runs, RunLease(r), BodyEffect(r, Cmds)
  PROVE  RunLease(r)'
<1>1. /\ CallKept(run[r], run'[r]) /\ UNCHANGED leases
      /\ run[r].pc \in Body_PCs
      /\ \/ run'[r].pc \in Body_PCs
         \/ run'[r].pc = "exit" /\ run'[r].cause # "none"
      /\ run'[r].cause = run[r].cause \/ run[r].cause = "none"
  BY DEF BodyEffect, InBody, Body_PCs
<1>2. run'[r].hb = run[r].hb /\ run'[r].epoch = run[r].epoch /\ run'[r].ttl = run[r].ttl
      /\ run'[r].thread = run[r].thread
  BY <1>1 DEF CallKept
<1> QED
  BY <1>1, <1>2 DEF RunLease, Tied, Owned, NotStarted, Body_PCs

-----------------------------------------------------------------------------
(* The inductive invariant. *)

RuntimeInv(Cmds) == ThreadsOK /\ RunsOK(Cmds) /\ LeasesOK

\* What a step does to the locals of all runs.
LEMMA RunsStep ==
  ASSUME NEW Cmds, Cmds \subseteq Command, NoCommand \in Cmds,
         RuntimeInv(Cmds), AnyStep(Cmds)
  PROVE  RunsOK(Cmds)' /\ \A r \in Runs : RunLease(r)'
<1> USE DEF RuntimeInv
<1>1. ASSUME NEW r \in Runs, BodyMove(r)
      PROVE  RunsOK(Cmds)' /\ \A s \in Runs : RunLease(s)'
  <2>1. BodyEffect(r, Cmds)
    BY <1>1, BodyMoveEffect
  <2>2. lastID \in Nat /\ lastID' \in {lastID, lastID + 1}
        /\ run'[r].parent \in 0..lastID'
        /\ run'[r].expected <= lastID'
        /\ RunShape(run'[r], Cmds) /\ OnlyRun(r)
    <3>1. run[r].parent \in 0..lastID /\ run[r].expected \in 0..lastID /\ lastID \in Nat
      BY DEF RunsOK, RunShape, ThreadsOK
    <3> QED
      BY <2>1, <3>1 DEF BodyEffect, AppendsSnap, CallKept
  <2>3. RunsOK(Cmds)'
    BY <2>2 DEF RunsOK, OnlyRun, RunShape
  <2>4. ASSUME NEW s \in Runs \ {r} PROVE RunLease(s)'
    BY <1>1, <2>2, OthersKeepRunLease DEF OnlyRun, RunMove
  <2>5. RunLease(r)'
    BY <2>1, BodyKeepsRunLease DEF LeasesOK
  <2> QED
    BY <2>3, <2>4, <2>5
<1>2. ASSUME NEW r \in Runs, OutsideMove(r, Cmds)
      PROVE  RunsOK(Cmds)' /\ \A s \in Runs : RunLease(s)'
  <2>1. OutsideEffect(r, Cmds)
    BY <1>2, OutsideMoveEffect
  <2>2. lastID \in Nat /\ lastID' = lastID
        /\ run'[r].parent \in 0..lastID'
        /\ run'[r].expected <= lastID'
        /\ RunShape(run'[r], Cmds) /\ OnlyRun(r)
    <3>1. run[r].parent \in 0..lastID /\ lastID \in Nat
      BY DEF RunsOK, RunShape, ThreadsOK
    <3> QED
      BY <2>1, <3>1 DEF OutsideEffect, NoID
  <2>3. RunsOK(Cmds)'
    BY <2>2 DEF RunsOK, OnlyRun, RunShape
  <2>4. ASSUME NEW s \in Runs \ {r} PROVE RunLease(s)'
    BY <1>2, <2>2, OthersKeepRunLease DEF OnlyRun, RunMove, OutsideMove
  <2> QED
    BY <2>1, <2>3, <2>4 DEF OutsideEffect
<1>3. ASSUME \/ \E t \in Threads, k \in Nat : Prune(t, k)
             \/ \E t \in Threads : DeleteThread(t)
             \/ Clock
      PROVE  RunsOK(Cmds)' /\ \A s \in Runs : RunLease(s)'
  <2>1. run' = run /\ lastID' = lastID
    BY <1>3 DEF Prune, DeleteThread, Clock
  <2>2. ASSUME NEW s \in Runs PROVE RunLease(s)'
    BY <1>3, <2>1, OthersKeepRunLease
  <2> QED
    BY <2>1, <2>2 DEF RunsOK
<1> QED
  BY <1>1, <1>2, <1>3 DEF AnyStep, RunMove, OutsideMove

\* What a step does to the store.
LEMMA ThreadsStep ==
  ASSUME NEW Cmds, Cmds \subseteq Command, NoCommand \in Cmds,
         RuntimeInv(Cmds), AnyStep(Cmds)
  PROVE  ThreadsOK'
<1> USE DEF RuntimeInv
<1>1. ASSUME NEW r \in Runs, BodyMove(r) PROVE ThreadsOK'
  <2>1. CASE UNCHANGED <<threads, lastID>>
    BY <2>1 DEF ThreadsOK, ThreadOK
  <2>2. CASE AppendsSnap(r)
    BY <2>2, AppendKeepsThreads
  <2> QED
    BY <1>1, <2>1, <2>2, BodyMoveEffect DEF BodyEffect
<1>2. ASSUME NEW r \in Runs, OutsideMove(r, Cmds) PROVE ThreadsOK'
  BY <1>2, OutsideMoveEffect DEF OutsideEffect, ThreadsOK, ThreadOK
<1>3. CASE Clock
  BY <1>3 DEF Clock, ThreadsOK, ThreadOK
<1> QED
  BY <1>1, <1>2, <1>3, PruneKeepsThreads, DeleteKeepsThreads DEF AnyStep, RunMove, OutsideMove

\* The invariant of the runtime is inductive.
LEMMA RuntimeInvStep ==
  ASSUME NEW Cmds, Cmds \subseteq Command, NoCommand \in Cmds,
         RuntimeInv(Cmds), AnyStep(Cmds) \/ UNCHANGED vars
  PROVE  RuntimeInv(Cmds)'
<1>1. CASE AnyStep(Cmds)
  <2>1. LeaseTypeOK'
    BY <1>1, LeaseSimulated, LeaseTypeStep DEF RuntimeInv, LeasesOK
  <2>2. \A t \in Threads : ~UseLease(t) => leases'[t].runID = NoRun
    BY <1>1, UnusedStaysUnused DEF RuntimeInv
  <2> QED
    BY <1>1, <2>1, <2>2, RunsStep, ThreadsStep DEF RuntimeInv, LeasesOK, UseLease
<1>2. CASE UNCHANGED vars
  BY <1>2 DEF vars, RuntimeInv, ThreadsOK, ThreadOK, RunsOK, LeasesOK, LeaseTypeOK, RunLease
<1> QED
  BY <1>1, <1>2

\* The commands of a run: those that callers pass to Resume, and that of Invoke.
Cs == Commands \cup {NoCommand}

\* They are Commands in the sense of the code.
LEMMA CommandsAreTyped == Cs \subseteq Command /\ NoCommand \in Cs
<1>1. NoCommand \in Command
  BY DEF NoCommand, Command
<1>2. Commands \subseteq Command
  BY RuntimeAssumption
<1> QED
  BY <1>1, <1>2 DEF Cs

\* The steps of GraphRuntime are among those of AnyStep.
LEMMA RuntimeNextIsAnyStep == RuntimeNext => AnyStep(Cs)
<1>1. ASSUME NEW r \in Runs, Starts(r) PROVE AnyStep(Cs)
  BY <1>1 DEF Starts, AnyStep, RunMove, Called, Cs
<1>2. ASSUME NEW r \in Runs, RunStep(r) PROVE AnyStep(Cs)
  BY <1>2 DEF RunStep, BodyStep, NodeSucceeds, NodePauses, BodyMove, RunMove, AnyStep
<1>3. ASSUME NEW t \in Threads, NEW k \in Keep, Prune(t, k) PROVE AnyStep(Cs)
  BY <1>3, RuntimeAssumption DEF AnyStep
<1>4. ASSUME NEW r \in Runs, HeartbeatStep(r) \/ Cancel(r) \/ Crash(r) PROVE AnyStep(Cs)
  BY <1>4 DEF AnyStep, RunMove, BodyMove
<1> QED
  BY <1>1, <1>2, <1>3, <1>4 DEF RuntimeNext, AnyStep

\* It holds before anything has happened.
LEMMA RuntimeInvInit ==
  ASSUME NEW Cmds, NoCommand \in Cmds, RuntimeInit
  PROVE  RuntimeInv(Cmds)
<1> DEFINE u == CHOOSE t \in Threads : TRUE
<1>1. u \in Threads
  BY RuntimeAssumption
<1>2. LeaseTypeOK /\ \A t \in Threads : leases[t] \in Lease /\ leases[t].runID = NoRun
  <2>1. LeaseInit
    BY DEF RuntimeInit
  <2>2. \A t \in Threads : leases[t] = [runID |-> NoRun, epoch |-> 0, remaining |-> 0]
    BY <2>1 DEF LeaseInit
  <2>3. LeaseTypeOK
    BY <2>1, LeaseAssumption DEF LeaseInit, LeaseTypeOK, Lease
  <2> QED
    BY <2>2, <2>3 DEF LeaseTypeOK
<1>3. lastID = 0 /\ DOMAIN threads = Threads /\ \A t \in Threads : threads[t] = EmptyThread
  BY DEF RuntimeInit
<1>4. ThreadsOK
  BY <1>3, EmptyIsOK DEF ThreadsOK
<1>5. DOMAIN run = Runs /\ \A r \in Runs : run[r] = Idle(u)
  BY DEF RuntimeInit
<1> HIDE DEF u
<1>6. RunsOK(Cmds)
  BY <1>1, <1>3, <1>5, IdleShape DEF RunsOK, NoID
<1>7. ASSUME NEW r \in Runs PROVE RunLease(r)
  BY <1>1, <1>2, <1>5, IdleShape, RestingIsTied DEF RunLease
<1> QED
  BY <1>2, <1>4, <1>6, <1>7 DEF RuntimeInv, LeasesOK

\* The invariant holds of everything Invoke and Resume do.
THEOREM RuntimeInvariant == RuntimeSpec => []RuntimeInv(Cs)
<1>1. RuntimeInv(Cs) /\ [RuntimeNext]_vars => RuntimeInv(Cs)'
  BY RuntimeInvStep, RuntimeNextIsAnyStep, CommandsAreTyped
<1>2. RuntimeInit => RuntimeInv(Cs)
  BY RuntimeInvInit, CommandsAreTyped
<1> QED
  BY <1>1, <1>2, PTL DEF RuntimeSpec

-----------------------------------------------------------------------------
(* Theorems. *)

\* However runs are interleaved, cancelled or killed, what they do to the lease
\* of a thread is a behaviour of the lease: withLease and leaseHeartbeat use no
\* grant but the one Acquire gave them.
THEOREM RuntimeUsesLease == RuntimeSpec => LeaseSpec
<1>1. RuntimeInit => LeaseInit
  BY DEF RuntimeInit
<1>2. RuntimeInv(Cs) /\ [RuntimeNext]_vars => [LeaseNext]_leases
  <2> SUFFICES ASSUME RuntimeInv(Cs), [RuntimeNext]_vars PROVE [LeaseNext]_leases
    OBVIOUS
  <2>1. CASE RuntimeNext
    BY <2>1, LeaseSimulated, RuntimeNextIsAnyStep, CommandsAreTyped DEF RuntimeInv
  <2>2. CASE UNCHANGED vars
    BY <2>2 DEF vars
  <2> QED
    BY <2>1, <2>2
<1> QED
  BY <1>1, <1>2, RuntimeInvariant, PTL DEF RuntimeSpec, LeaseSpec

\* So what the lease promises holds of every graph that uses it: a run that
\* lost its lease has lost it for ever.
THEOREM LostRunsStayLost == RuntimeSpec => LostIsForever
BY RuntimeUsesLease, LostGrantsStayLost, PTL

\* No two runs ever execute a thread in one epoch.
THEOREM RunsHaveTheirEpoch == RuntimeSpec => EpochHasOneOwner
BY RuntimeUsesLease, EpochsIdentifyOwners, PTL

\* No run takes a thread over while the lease of another one is active.
THEOREM RunsDoNotSteal == RuntimeSpec => NoSteal
BY RuntimeUsesLease, ActiveLeaseIsNotStolen, PTL

\* The runs of a thread append to one chain of checkpoints.
THEOREM RunsKeepOneChain == RuntimeSpec => []OneChain
<1>1. RuntimeInv(Cs) => OneChain
  BY DEF RuntimeInv, ThreadsOK, ThreadOK, ThreadInv, OneChain, DurableThreads
<1> QED
  BY <1>1, RuntimeInvariant, PTL

\* The fence token of a run that still works in a node, but has lost its thread,
\* is smaller than that of the thread's owner.
THEOREM StaleRunsHaveSmallerTokens == RuntimeSpec => []StaleToolsAreFenced
<1>1. RuntimeInv(Cs) => StaleToolsAreFenced
  <2> SUFFICES ASSUME RuntimeInv(Cs), NEW r \in Runs, NEW s \in Runs,
                      r # s, At(r, "node"), At(s, "node"),
                      run[r].thread = run[s].thread, HoldsLease(r)
               PROVE  FenceToken(s) < FenceToken(r)
    BY DEF StaleToolsAreFenced
  <2> DEFINE t == run[r].thread
  <2>1. /\ leases[t].runID = r /\ leases[t].epoch = run[r].epoch
        /\ r # NoRun
    BY LeaseAssumption DEF HoldsLease, Holds, GrantOf, Grant
  <2>2. /\ Tied(s, run[s], leases[t])
        /\ t \in Threads /\ run[s].epoch \in Nat /\ leases[t].epoch \in Nat
        /\ UseLease(t)
    <3>1. t \in Threads /\ run[s].epoch \in Nat
      BY DEF RuntimeInv, RunsOK, RunShape
    <3>2. leases[t] \in Lease
      BY <3>1 DEF RuntimeInv, LeasesOK, LeaseTypeOK
    <3> QED
      BY <2>1, <3>1, <3>2 DEF RuntimeInv, LeasesOK, RunLease, Lease
  <2>3. run[s].epoch # leases[t].epoch /\ run[s].epoch <= leases[t].epoch
    BY <2>1, <2>2 DEF Tied, At, NotStarted
  <2> QED
    BY <2>1, <2>2, <2>3 DEF FenceToken
<1> QED
  BY <1>1, RuntimeInvariant, PTL

\* If renewals are in time, a run whose ctx is not done holds its lease.
THEOREM HealthyRunsHoldTheirLease ==
  ASSUME Timely
  PROVE  RuntimeSpec => []HealthyRunOwnsThread
<1>1. RuntimeInv(Cs) => HealthyRunOwnsThread
  BY Timely DEF RuntimeInv, LeasesOK, RunLease, Tied, Owned, HealthyRunOwnsThread, InBody,
     Body_PCs, HoldsLease, Holds, GrantOf, Grant
<1> QED
  BY <1>1, RuntimeInvariant, PTL

\* An active lease only ends by running out, or by the Release of its owner.
THEOREM LeasesEndByTheirOwner == RuntimeSpec => LeaseEndsByOwner
<1> DEFINE Ends(t) ==
      LET r == leases[t].runID IN
        (Active(t) /\ ~(Active(t)' /\ leases'[t].runID = r)) =>
            \/ leases[t].remaining = 1 /\ leases'[t].runID = r
            \/ At(r, "release") /\ run'[r].pc = "done"
<1>1. RuntimeInv(Cs) /\ [RuntimeNext]_vars => [\A t \in Threads : Ends(t)]_vars
  <2> SUFFICES ASSUME RuntimeInv(Cs), RuntimeNext, NEW t \in Threads, Active(t)
               PROVE  Ends(t)
    OBVIOUS
  <2> USE DEF Active
  <2>1. AnyStep(Cs)
    BY RuntimeNextIsAnyStep
  <2>2. leases \in [Threads -> Lease]
    BY DEF RuntimeInv, LeasesOK, LeaseTypeOK
  <2>3. ASSUME NEW r \in Runs, BodyMove(r) PROVE Ends(t)
    BY <2>3, BodyMoveEffect, CommandsAreTyped DEF BodyEffect, RuntimeInv
  <2>4. ASSUME NEW r \in Runs, LeaseStep(r) PROVE Ends(t)
    <3>1. run[r].thread \in Threads /\ DOMAIN run = Runs
      BY DEF RuntimeInv, RunsOK, RunShape
    <3>2. ASSUME NEW ttl \in TTLs, AcquireGranted(r, ttl) PROVE Ends(t)
      BY <2>2, <3>1, <3>2, LeaseAssumption
         DEF AcquireGranted, Acquire, ExtendLease, TakeLease, Lease
    <3>3. CASE Releases(r)
      BY <2>2, <3>1, <3>3 DEF Releases, Release, GrantOf, Grant, Finished, Idle
    <3> QED
      BY <2>4, <3>2, <3>3
         DEF LeaseStep, AcquireDenied, HeartbeatJoined, ReleaseFails, Returns, Local
  <2>5. ASSUME NEW r \in Runs, HeartbeatStep(r) PROVE Ends(t)
    <3>1. CASE HeartbeatRenews(r)
      <4>1. run[r].thread \in Threads /\ Tied(r, run[r], leases[run[r].thread])
        BY DEF RuntimeInv, RunsOK, RunShape, LeasesOK, RunLease
      <4>2. run[r].ttl \in TTLs
        BY <3>1, <4>1 DEF HeartbeatRenews, Beating, Tied
      <4> QED
        BY <2>2, <3>1, <4>1, <4>2, LeaseAssumption
           DEF HeartbeatRenews, Renew, Holds, GrantOf, Grant, Lease
    <3> QED
      BY <2>5, <3>1 DEF HeartbeatStep, HeartbeatLoses, HeartbeatStops, Local
  <2>6. CASE Clock
    BY <2>2, <2>6 DEF Clock, Tick, Lease
  <2> QED
    BY <2>1, <2>3, <2>4, <2>5, <2>6 DEF AnyStep, RunMove, Crash, Called, Start, Forgotten, Local,
       Prune, DeleteThread
<1> QED
  BY <1>1, RuntimeInvariant, PTL DEF RuntimeSpec, LeaseEndsByOwner

-----------------------------------------------------------------------------
(* What a step does to the work of a run. *)

SameWork(x, y) ==
    /\ y.parent = x.parent /\ y.node = x.node /\ y.trace = x.trace
    /\ y.step = x.step /\ y.approved = x.approved

\* The fields of one node's step.
SameStep(x, y) == y.turns = x.turns /\ y.pend = x.pend

\* The body returns: paused after the commit of the pause, completed at END, and
\* at the step limit after the commit that reaches it.
Leaves(r, x, y) ==
    /\ y.pc = "exit" /\ y.trace = x.trace /\ y.step = x.step /\ y.turns = NoEntries
    /\ y.outcome = "paused" => /\ At(r, "commit") /\ x.pend.interrupt
                               /\ AppendsSnap(r)
    /\ y.outcome = "completed" =>
         /\ UNCHANGED threads
         /\ \/ At(r, "loop") /\ x.node = END
            \/ At(r, "begin") /\ HasLatest(ThreadOf(r)) /\ Target(r) = END
    /\ y.outcome = "maxsteps" => /\ At(r, "commit") /\ ~x.pend.interrupt
                                 /\ x.step >= MaxSteps

Stays(x, y) == y.pc = x.pc /\ SameWork(x, y) /\ SameStep(x, y)

BeginsFresh(x, y) ==
    /\ x.pc = "begin" /\ y.pc = "loop"
    /\ y.node = Entry /\ y.parent = x.parent /\ y.trace = x.trace
    /\ y.step = x.step /\ y.approved = x.approved /\ y.turns = x.turns

BeginsAtLatest(r, x, y) ==
    /\ x.pc = "begin" /\ y.pc = "loop"
    /\ HasLatest(ThreadOf(r))
    /\ Latest(r).interrupt => x.cmd.resume
    /\ x.expected \in {NoID, LoadedID(r)}
    /\ Target(r) # END
    /\ y.node = Target(r) /\ y.parent = LoadedID(r) /\ y.step = Latest(r).step
    /\ y.approved = Latest(r).interrupt /\ y.turns = x.turns
    /\ y.trace = IF x.cmd.update THEN Append(Latest(r).trace, "update")
                                 ELSE Latest(r).trace

EntersNode(r, x, y) ==
    /\ x.pc = "loop" /\ y.pc = "node" /\ x.node # END
    /\ SameWork(x, y) /\ y.turns = Turns(r)

Pauses(r, x, y) ==
    /\ x.pc = "node" /\ y.pc = "persist"
    /\ AtGate(r)
    /\ SameWork(x, y)
    /\ y.pend.node = x.node /\ y.pend.interrupt

Routed(r, x, y) ==
    /\ x.pc = "node" /\ y.pc = "persist"
    /\ ~AtGate(r)
    /\ y.parent = x.parent /\ y.node = x.node /\ y.step = x.step + 1
    /\ \E update : y.trace = Append(x.trace, update)
    /\ ~y.approved
    /\ y.pend.node \in Routes(r) /\ ~y.pend.interrupt

GoesToCommit(x, y) ==
    x.pc = "persist" /\ y.pc = "commit" /\ SameWork(x, y) /\ SameStep(x, y)

Commits(r, x, y) ==
    /\ x.pc = "commit" /\ y.pc = "loop"
    /\ AppendsSnap(r) /\ Fenced(r)
    /\ ~x.pend.interrupt
    /\ y.parent = lastID + 1 /\ y.node = x.pend.node /\ y.trace = x.trace
    /\ y.step = x.step /\ y.approved = x.approved /\ y.turns = NoEntries

Advances(r, x, y) ==
    \/ Leaves(r, x, y) \/ BeginsFresh(x, y) \/ BeginsAtLatest(r, x, y)
    \/ Stays(x, y) /\ UNCHANGED threads
    \/ EntersNode(r, x, y) \/ Pauses(r, x, y) \/ Routed(r, x, y)
    \/ GoesToCommit(x, y) \/ Commits(r, x, y)

\* A step of the body in terms of the work, for any node function.
LEMMA BodyAdvances ==
  ASSUME NEW Cmds, Cmds \subseteq Command, ThreadsOK, RunsOK(Cmds),
         NEW r \in Runs, BodyMove(r)
  PROVE  Advances(r, run[r], run'[r])
<1> DEFINE x == run[r]
<1>1. /\ RunShape(x, Cmds)
      /\ DOMAIN x = {"pc", "op", "thread", "cmd", "expected", "ttl", "epoch", "hb", "cause",
                     "parent", "node", "trace", "step", "approved", "turns", "pend", "outcome"}
      /\ r \in DOMAIN run
  BY DEF RunsOK, RunShape, RunFields, Idle
<1>2. ASSUME NEW y, Local(r, y) PROVE run'[r] = y /\ UNCHANGED threads
  BY <1>1, <1>2 DEF Local
\* Every way out of the body but those that say more.
<1>3. ASSUME NEW o \in Outcomes \ {"paused", "completed", "maxsteps"}, run'[r] = Exit(x, o)
      PROVE  Leaves(r, x, run'[r])
  BY <1>1, <1>3, ExitShape DEF Leaves
<1>4. ASSUME \/ ResumeRefused(r) \/ ResumeNeedsValue(r)
             \/ NodeDiscarded(r) \/ NodeFails(r) \/ RunStops(r)
             \/ PersistRefused(r) \/ CommitFenced(r) \/ CommitConflicts(r) \/ CommitUnknown(r)
      PROVE  \E o \in Outcomes \ {"paused", "completed", "maxsteps"} : run'[r] = Exit(x, o)
  <2>1. x.cause \in {"none", "lost", "canceled"}
    BY <1>1 DEF RunShape
  <2>2. CASE CommitUnknown(r)
    BY <2>2, <1>1, <1>2 DEF CommitUnknown, Outcomes
  <2>3. ASSUME ~CommitUnknown(r)
        PROVE  \E o \in Outcomes \ {"paused", "completed", "maxsteps"} : Local(r, Exit(x, o))
    BY <1>4, <2>1, <2>3 DEF ResumeRefused, ResumeNeedsValue,
       NodeDiscarded, NodeFails, RunStops, PersistRefused, CommitFenced, CommitConflicts,
       Outcomes
  <2> QED
    BY <2>2, <2>3, <1>2
<1>5. ASSUME RunCompletes(r) \/ ResumeCompleted(r) PROVE Leaves(r, x, run'[r])
  <2>1. Local(r, Exit(x, "completed")) /\ "completed" \in Outcomes
    BY <1>5 DEF RunCompletes, ResumeCompleted, Outcomes
  <2>2. run'[r] = Exit(x, "completed") /\ UNCHANGED threads
    BY <2>1, <1>2
  <2> QED
    BY <1>1, <1>5, <2>1, <2>2, ExitShape DEF Leaves, RunCompletes, ResumeCompleted, Resuming
<1>6. CASE BeginInvoke(r)
  <2> DEFINE y == [x EXCEPT !.pc = "loop", !.node = Entry]
  <2>1. /\ y.pc = "loop" /\ y.node = Entry /\ y.parent = x.parent /\ y.trace = x.trace
        /\ y.step = x.step /\ y.approved = x.approved /\ y.turns = x.turns
    BY <1>1
  <2>2. Local(r, y) /\ x.pc = "begin"
    BY <1>6 DEF BeginInvoke, At
  <2> HIDE DEF y
  <2> QED
    BY <2>1, <2>2, <1>2 DEF Advances, BeginsFresh
<1>7. CASE ResumeContinues(r)
  <2> DEFINE y == Resumed(r)
  <2>1. /\ y.pc = "loop" /\ y.node = Target(r) /\ y.parent = LoadedID(r)
        /\ y.step = Latest(r).step /\ y.turns = x.turns
        /\ y.trace = IF x.cmd.update THEN Append(Latest(r).trace, "update")
                                     ELSE Latest(r).trace
    BY <1>1 DEF Resumed, Applied
  <2>2. y.approved = Latest(r).interrupt
    BY <1>1 DEF Resumed
  <2>3. Local(r, y) /\ x.pc = "begin" /\ HasLatest(ThreadOf(r)) /\ Target(r) # END
        /\ (Latest(r).interrupt => x.cmd.resume)
        /\ x.expected \in {NoID, LoadedID(r)}
    BY <1>7 DEF ResumeContinues, Resuming, Expected, At
  <2> HIDE DEF y
  <2> QED
    BY <2>1, <2>2, <2>3, <1>2 DEF Advances, BeginsAtLatest
<1>8. CASE NodeStarts(r)
  <2> DEFINE y == [x EXCEPT !.pc = "node", !.turns = Turns(r)]
  <2>1. y.pc = "node" /\ y.turns = Turns(r) /\ SameWork(x, y)
    BY <1>1 DEF SameWork
  <2>2. Local(r, y) /\ x.pc = "loop" /\ x.node # END
    BY <1>8 DEF NodeStarts, At
  <2> HIDE DEF y
  <2> QED
    BY <2>1, <2>2, <1>2 DEF Advances, EntersNode
<1>9. ASSUME NEW arts, NodeInterrupts(r, arts) PROVE Advances(r, x, run'[r])
  <2> DEFINE y == [x EXCEPT !.pc = "persist", !.turns = arts,
                            !.pend = [node |-> x.node, interrupt |-> TRUE]]
  <2>1. /\ y.pc = "persist" /\ SameWork(x, y)
        /\ y.pend.node = x.node /\ y.pend.interrupt
    BY <1>1 DEF SameWork
  <2>2. Local(r, y) /\ x.pc = "node" /\ AtGate(r)
    BY <1>9 DEF NodeInterrupts, At
  <2> HIDE DEF y
  <2> QED
    BY <2>1, <2>2, <1>2 DEF Advances, Pauses
<1>10. ASSUME NEW update, NEW next, NEW arts, NodeReturns(r, update, next, arts)
       PROVE  Advances(r, x, run'[r])
  <2> DEFINE y == [x EXCEPT !.pc = "persist", !.trace = Applied(@, update), !.step = @ + 1,
                            !.approved = FALSE, !.turns = arts,
                            !.pend = [node |-> next, interrupt |-> FALSE]]
  <2>1. /\ y.pc = "persist" /\ y.trace = Append(x.trace, update) /\ y.step = x.step + 1
        /\ ~y.approved /\ y.pend.node = next /\ ~y.pend.interrupt
        /\ y.parent = x.parent /\ y.node = x.node
    BY <1>1 DEF Applied
  <2>2. Local(r, y) /\ x.pc = "node" /\ ~AtGate(r) /\ next \in Routes(r)
    BY <1>10 DEF NodeReturns, At
  <2> HIDE DEF y
  <2> QED
    BY <2>1, <2>2, <1>2 DEF Advances, Routed
<1>11. CASE PersistChecked(r)
  BY <1>1, <1>2, <1>11 DEF PersistChecked, At, Advances, GoesToCommit, SameWork, SameStep
<1>12. CASE Cancel(r)
  BY <1>1, <1>2, <1>12 DEF Cancel, Advances, Stays, SameWork, SameStep
<1>13. CASE CommitSucceeds(r)
  <2> DEFINE z == [x EXCEPT !.parent = lastID + 1, !.node = x.pend.node,
                            !.turns = NoEntries, !.pend = NoPend]
  <2>1. /\ At(r, "commit") /\ Fenced(r) /\ AppendsSnap(r) /\ run'[r] = AfterCommit(r)
    BY <1>1, <1>13 DEF CommitSucceeds
  <2>2. RunShape(z, Cmds)
    <3>1. x.pc = "commit" /\ lastID + 1 \in Nat /\ NoPend.node = END /\ ~NoPend.interrupt
      BY <2>1 DEF At, ThreadsOK, NoPend
    <3> QED
      BY <3>1, <1>1 DEF RunShape, NoPend
  <2>3. /\ z.parent = lastID + 1 /\ z.node = x.pend.node /\ z.trace = x.trace
        /\ z.step = x.step /\ z.approved = x.approved /\ z.turns = NoEntries
        /\ DOMAIN z = DOMAIN x
    BY <1>1
  <2>4. AfterCommit(r) = IF x.pend.interrupt THEN Exit(z, "paused")
                         ELSE IF MaxSteps > 0 /\ z.step >= MaxSteps THEN Exit(z, "maxsteps")
                         ELSE [z EXCEPT !.pc = "loop"]
    BY DEF AfterCommit
  <2> HIDE DEF z
  <2>5. ASSUME NEW o \in {"paused", "maxsteps"}, run'[r] = Exit(z, o),
               o = "paused" => x.pend.interrupt,
               o = "maxsteps" => ~x.pend.interrupt /\ x.step >= MaxSteps
        PROVE  Leaves(r, x, run'[r])
    <3>1. o \in Outcomes
      BY DEF Outcomes
    <3> QED
      BY <3>1, <2>1, <2>2, <2>3, <2>5, ExitShape DEF Leaves
  <2>6. ASSUME run'[r] = [z EXCEPT !.pc = "loop"], ~x.pend.interrupt
        PROVE  Commits(r, x, run'[r])
    BY <2>1, <2>3, <2>6, <1>1 DEF Commits, At
  <2>7. CASE x.pend.interrupt
    BY <2>1, <2>4, <2>5, <2>7 DEF Advances
  <2>8. CASE ~x.pend.interrupt /\ MaxSteps > 0 /\ z.step >= MaxSteps
    <3>1. run'[r] = Exit(z, "maxsteps") /\ x.step >= MaxSteps
      BY <2>1, <2>3, <2>4, <2>8
    <3> QED
      BY <3>1, <2>5, <2>8 DEF Advances
  <2>9. CASE ~x.pend.interrupt /\ ~(MaxSteps > 0 /\ z.step >= MaxSteps)
    BY <2>1, <2>4, <2>6, <2>9 DEF Advances
  <2> QED
    BY <2>7, <2>8, <2>9
<1> QED
  BY <1>3, <1>4, <1>5, <1>6, <1>7, <1>8, <1>9, <1>10, <1>11, <1>12, <1>13
     DEF BodyMove, EngineStep, Advances

\* A call that has not begun has done no work.
Fresh_PCs == {"idle", "acquire", "begin"}

NoWork(x) == x.parent = NoID /\ x.trace = <<>> /\ x.step = 0 /\ ~x.approved
             /\ x.turns = NoEntries

\* Around the body a call is begun, ended or waited for.
Waits(x, y) ==
    \/ y.pc \in {"idle", "acquire", "begin", "done"} /\ NoWork(y)
    \/ x.pc = "acquire" /\ y.pc = "begin" /\ SameWork(x, y) /\ SameStep(x, y)
    \/ /\ Stays(x, y) /\ y.thread = x.thread /\ y.expected = x.expected
       /\ y.epoch = x.epoch /\ y.outcome = x.outcome
    \/ /\ x.pc = "exit" /\ y.pc = "release" /\ SameWork(x, y) /\ SameStep(x, y)
       /\ y.thread = x.thread /\ y.epoch = x.epoch /\ y.outcome = x.outcome

\* No step around the body does any work.
LEMMA OutsideWaits ==
  ASSUME NEW Cmds, NoCommand \in Cmds, ThreadsOK, RunsOK(Cmds),
         NEW r \in Runs, OutsideMove(r, Cmds)
  PROVE  Waits(run[r], run'[r])
<1> DEFINE x == run[r]
<1>1. /\ RunShape(x, Cmds) /\ x.thread \in Threads
      /\ DOMAIN x = {"pc", "op", "thread", "cmd", "expected", "ttl", "epoch", "hb", "cause",
                     "parent", "node", "trace", "step", "approved", "turns", "pend", "outcome"}
      /\ r \in DOMAIN run
  BY DEF RunsOK, RunShape, RunFields, Idle
<1>2. ASSUME NEW t \in Threads
      PROVE  /\ NoWork(Idle(t)) /\ Idle(t).pc = "idle"
             /\ DOMAIN Idle(t) = DOMAIN x
  BY <1>1 DEF Idle, NoWork
<1>3. ASSUME NEW o, run'[r] = Finished(r, o) PROVE Waits(x, run'[r])
  <2> DEFINE z == Idle(x.thread)
             y == [z EXCEPT !.pc = "done", !.outcome = o]
  <2>1. NoWork(z) /\ DOMAIN z = DOMAIN x
    BY <1>1, <1>2
  <2> HIDE DEF z
  <2>2. NoWork(y) /\ y.pc = "done"
    BY <2>1, <1>1 DEF NoWork
  <2>3. run'[r] = y
    BY <1>3 DEF Finished, z
  <2> HIDE DEF y
  <2> QED
    BY <2>2, <2>3 DEF Waits
<1>4. ASSUME AcquireDenied(r) \/ Releases(r) \/ ReleaseFails(r) \/ Returns(r) \/ Crash(r)
      PROVE  \E o : run'[r] = Finished(r, o)
  BY <1>1, <1>4 DEF AcquireDenied, Releases, ReleaseFails, Returns, Crash, Local
<1>5. ASSUME NEW ttl, AcquireGranted(r, ttl) PROVE Waits(x, run'[r])
  <2> DEFINE e == leases'[x.thread].epoch
             y == [x EXCEPT !.pc = "begin", !.ttl = ttl, !.hb = TRUE, !.epoch = e]
  <2> HIDE DEF e
  <2>1. y.pc = "begin" /\ SameWork(x, y) /\ SameStep(x, y)
    BY <1>1 DEF SameWork, SameStep
  <2>2. run'[r] = y /\ x.pc = "acquire"
    BY <1>1, <1>5 DEF AcquireGranted, At, e
  <2> HIDE DEF y
  <2> QED
    BY <2>1, <2>2 DEF Waits
<1>6. CASE HeartbeatJoined(r)
  <2> DEFINE y == [x EXCEPT !.pc = "release"]
  <2>1. /\ y.pc = "release" /\ SameWork(x, y) /\ SameStep(x, y)
        /\ y.thread = x.thread /\ y.epoch = x.epoch /\ y.outcome = x.outcome
    BY <1>1 DEF SameWork, SameStep
  <2>2. run'[r] = y /\ x.pc = "exit"
    BY <1>1, <1>6 DEF HeartbeatJoined, At, Local
  <2> HIDE DEF y
  <2> QED
    BY <2>1, <2>2 DEF Waits
<1>7. CASE HeartbeatStep(r)
  <2>1. PICK cause : \/ run'[r] = x
                     \/ run'[r] = [x EXCEPT !.hb = FALSE, !.cause = cause]
                     \/ run'[r] = [x EXCEPT !.hb = FALSE]
    BY <1>1, <1>7 DEF HeartbeatStep, HeartbeatRenews, HeartbeatLoses, HeartbeatStops, Local
  <2> DEFINE y == run'[r]
  <2>2. /\ y.pc = x.pc /\ SameWork(x, y) /\ SameStep(x, y)
        /\ y.thread = x.thread /\ y.expected = x.expected
        /\ y.epoch = x.epoch /\ y.outcome = x.outcome
    BY <1>1, <2>1 DEF SameWork, SameStep
  <2> QED
    BY <2>2 DEF Waits, Stays
<1>8. CASE Called(r, Cmds)
  <2>1. PICK t \in Threads, op \in {"invoke", "resume"}, cmd \in Cmds : Start(r, t, op, cmd)
    BY <1>8 DEF Called
  <2> DEFINE z == Idle(t)
             y == [z EXCEPT
                     !.pc = IF UseLease(t) THEN "acquire" ELSE "begin",
                     !.op = op, !.cmd = cmd,
                     !.expected = IF cmd.expect THEN threads[t].latestID ELSE NoID]
  <2>2. run'[r] = y
    BY <2>1, <1>1 DEF Start, Local
  <2>3. NoWork(z) /\ DOMAIN z = DOMAIN x
    BY <1>2
  <2> HIDE DEF z
  <2>4. NoWork(y) /\ y.pc \in {"acquire", "begin"}
    BY <2>3, <1>1 DEF NoWork
  <2> HIDE DEF y
  <2> QED
    BY <2>2, <2>4 DEF Waits
<1>9. CASE Forgotten(r)
  <2>1. PICK t \in Threads : Local(r, Idle(t))
    BY <1>9 DEF Forgotten
  <2>2. run'[r] = Idle(t)
    BY <2>1, <1>1 DEF Local
  <2> QED
    BY <2>2, <1>2 DEF Waits
<1> QED
  BY <1>3, <1>4, <1>5, <1>6, <1>7, <1>8, <1>9 DEF OutsideMove, LeaseStep

-----------------------------------------------------------------------------
(* What a step leaves of the past. *)

\* Nothing happens to the store but by others than r, or by maintenance.
StoreByOthers(r) ==
    \/ UNCHANGED threads
    \/ \E s \in Runs \ {r} : At(s, "commit") /\ AppendsSnap(s) /\ Fenced(s)
    \/ \E t \in Threads, k \in Nat : Prune(t, k)
    \/ \E t \in Threads : DeleteThread(t)

\* A step is one of the body of r, one around it, or none of r at all.
LEMMA StepOf ==
  ASSUME NEW Cmds, Cmds \subseteq Command, NoCommand \in Cmds,
         RuntimeInv(Cmds), AnyStep(Cmds), NEW r \in Runs
  PROVE  \/ BodyMove(r)
         \/ OutsideMove(r, Cmds)
         \/ run'[r] = run[r] /\ StoreByOthers(r)
<1> USE DEF RuntimeInv
<1>1. ASSUME NEW s \in Runs \ {r}, BodyMove(s) PROVE run'[r] = run[r] /\ StoreByOthers(r)
  <2>1. BodyEffect(s, Cmds)
    BY <1>1, BodyMoveEffect
  <2> QED
    BY <2>1 DEF BodyEffect, OnlyRun, StoreByOthers
<1>2. ASSUME NEW s \in Runs \ {r}, OutsideMove(s, Cmds)
      PROVE  run'[r] = run[r] /\ StoreByOthers(r)
  <2>1. OutsideEffect(s, Cmds)
    BY <1>2, OutsideMoveEffect
  <2> QED
    BY <2>1 DEF OutsideEffect, OnlyRun, StoreByOthers
<1>3. ASSUME \/ \E t \in Threads, k \in Nat : Prune(t, k)
             \/ \E t \in Threads : DeleteThread(t)
             \/ Clock
      PROVE  run'[r] = run[r] /\ StoreByOthers(r)
  BY <1>3 DEF Prune, DeleteThread, Clock, StoreByOthers
<1> QED
  BY <1>1, <1>2, <1>3 DEF AnyStep, RunMove, OutsideMove

\* The store has the checkpoint a run started from, or it started from none.
Kept(th, id) == id = NoID \/ id \in DOMAIN th.history

\* What a run that has it as its parent started from.
Base(th, id) == IF id = NoID THEN Fresh ELSE th.history[id].body

\* What happens to the store in one step.
LEMMA StoreStep ==
  ASSUME NEW Cmds, Cmds \subseteq Command, NoCommand \in Cmds,
         RuntimeInv(Cmds), AnyStep(Cmds)
  PROVE  \/ UNCHANGED <<threads, lastID>>
         \/ \E s \in Runs : At(s, "commit") /\ AppendsSnap(s) /\ Fenced(s)
         \/ \E t \in Threads, k \in Nat : Prune(t, k)
         \/ \E t \in Threads : DeleteThread(t)
<1> USE DEF RuntimeInv
<1>1. ASSUME NEW s \in Runs, BodyMove(s), ~UNCHANGED <<threads, lastID>>
      PROVE  At(s, "commit") /\ AppendsSnap(s) /\ Fenced(s)
  BY <1>1, BodyMoveEffect DEF BodyEffect
<1>2. ASSUME NEW s \in Runs, OutsideMove(s, Cmds) PROVE UNCHANGED <<threads, lastID>>
  BY <1>2, OutsideMoveEffect DEF OutsideEffect
<1> QED
  BY <1>1, <1>2 DEF AnyStep, RunMove, OutsideMove, Clock

\* The past of a thread is not rewritten: ids are drawn once, so that one that
\* was pruned or deleted never comes back, and a checkpoint stays what it was.
LEMMA PastStays ==
  ASSUME NEW Cmds, Cmds \subseteq Command, NoCommand \in Cmds,
         RuntimeInv(Cmds), AnyStep(Cmds),
         NEW t \in Threads, ~LatestOnly(t), NEW id \in 0..lastID,
         Kept(threads'[t], id)
  PROVE  Kept(threads[t], id) /\ Base(threads'[t], id) = Base(threads[t], id)
<1> USE DEF RuntimeInv, Kept, Base
<1>0. ThreadsOK /\ lastID \in Nat
  BY DEF ThreadsOK
<1>1. ASSUME NEW s \in Runs, AppendsSnap(s)
      PROVE  Kept(threads[t], id) /\ Base(threads'[t], id) = Base(threads[t], id)
  <2>1. run[s].thread \in Threads
    BY DEF RunsOK, RunShape
  <2>2. CASE run[s].thread # t
    <3>1. threads'[t] = threads[t]
      BY <2>1, <2>2, <1>0, <1>1, AppendEffect
    <3> QED
      BY <3>1
  <2>3. CASE run[s].thread = t
    <3>1. /\ DOMAIN threads'[t].history = DOMAIN threads[t].history \cup {lastID + 1}
          /\ \A c \in DOMAIN threads[t].history :
               threads'[t].history[c] = threads[t].history[c]
      BY <2>3, <1>0, <1>1, AppendEffect
    <3> QED
      BY <3>1, <1>0
  <2> QED
    BY <2>2, <2>3
<1>2. ASSUME NEW u \in Threads, NEW k \in Nat, Prune(u, k)
      PROVE  Kept(threads[t], id) /\ Base(threads'[t], id) = Base(threads[t], id)
  <2>1. CASE u # t
    <3>1. threads'[t] = threads[t]
      BY <2>1, <1>0, <1>2, PruneEffect
    <3> QED
      BY <3>1
  <2>2. CASE u = t
    <3>1. /\ DOMAIN threads'[t].history \subseteq DOMAIN threads[t].history
          /\ \A c \in DOMAIN threads'[t].history :
               threads'[t].history[c] = threads[t].history[c]
      BY <2>2, <1>0, <1>2, PruneEffect
    <3> QED
      BY <3>1
  <2> QED
    BY <2>1, <2>2
<1>3. ASSUME NEW u \in Threads, DeleteThread(u)
      PROVE  Kept(threads[t], id) /\ Base(threads'[t], id) = Base(threads[t], id)
  <2>1. threads' = [threads EXCEPT ![u] = EmptyThread] /\ DOMAIN threads = Threads
    BY <1>0, <1>3 DEF DeleteThread, ThreadsOK
  <2>2. DOMAIN EmptyThread.history = {}
    BY DEF EmptyThread, NoEntries
  <2> QED
    BY <2>1, <2>2
<1> QED
  BY <1>1, <1>2, <1>3, StoreStep

\* A run that owns its thread after a step owned it before: a lease that was
\* lost is never got back under the same grant.
LEMMA OwnedBefore ==
  ASSUME NEW Cmds, Cmds \subseteq Command, NoCommand \in Cmds,
         RuntimeInv(Cmds), AnyStep(Cmds), NEW r \in Runs,
         Owned(r, run[r], leases'[run[r].thread])
  PROVE  Owned(r, run[r], leases[run[r].thread])
<1> USE DEF RuntimeInv
<1> PICK t \in Threads : t = run[r].thread
  BY DEF RunsOK, RunShape
<1>1. LeaseTypeOK /\ [LeaseNext]_leases
  BY LeaseSimulated DEF LeasesOK
<1>2. leases[t] \in Lease /\ leases'[t] \in Lease
      /\ (leases'[t].runID # NoRun => leases'[t].epoch > 0)
  BY <1>1, LeaseTypeStep DEF LeaseTypeOK
<1>3. r # NoRun /\ leases'[t].runID = r /\ leases'[t].epoch = run[r].epoch
      /\ leases'[t].remaining > 0
  BY LeaseAssumption DEF Owned
<1>4. run[r].epoch \in 1..leases[t].epoch
  BY <1>2, <1>3 DEF LeasesOK, RunLease, Tied, Lease
<1> PICK e \in Nat : e = run[r].epoch
  BY DEF RunsOK, RunShape
<1> PICK g \in Grants : g = Grant(t, r, e)
  <2>1. e \in 1..MaxEpoch
    BY <1>2, <1>4, LeaseAssumption DEF Lease
  <2> QED
    BY <2>1 DEF Grant, Grants
<1>5. g.thread = t /\ g.runID = r /\ g.epoch = e
  BY DEF Grant
<1>6. Holds(g)'
  BY <1>3, <1>5 DEF Holds
<1>7. Holds(g)
  <2>1. g.epoch <= leases[g.thread].epoch
    BY <1>2, <1>4, <1>5 DEF Lease
  <2> QED
    BY <1>1, <1>6, <2>1, LostStaysLost
<1> QED
  BY <1>5, <1>7 DEF Holds, Owned

\* Only a graph with a lease has owners.
LEMMA OwnersUseLease ==
  ASSUME LeasesOK, NEW r \in Runs, run[r].thread \in Threads,
         Owned(r, run[r], leases[run[r].thread])
  PROVE  UseLease(run[r].thread) /\ ~LatestOnly(run[r].thread)
BY LeaseAssumption DEF LeasesOK, Owned, UseLease, LatestOnly

\* Nobody else moves the latest checkpoint of a run that owns its thread, but
\* whoever deletes the thread.
LEMMA OwnerKeepsLatest ==
  ASSUME NEW Cmds, RuntimeInv(Cmds), NEW r \in Runs, StoreByOthers(r),
         Owned(r, run[r], leases[run[r].thread])
  PROVE  LET old == ThreadOf(r)  new == threads'[run[r].thread] IN
         \/ new.latestID = NoID
         \/ /\ new.latestID = old.latestID
            /\ new.history[new.latestID].body = old.history[old.latestID].body
<1> USE DEF RuntimeInv
<1> PICK t \in Threads : t = run[r].thread
  BY DEF RunsOK, RunShape
<1>1. UseLease(t) /\ ThreadsOK /\ ThreadOK(t)
  BY OwnersUseLease DEF LeasesOK, ThreadsOK
<1>2. ASSUME NEW s \in Runs \ {r}, AppendsSnap(s), Fenced(s)
      PROVE  threads'[t] = threads[t]
  <2>1. run[s].thread \in Threads
    BY DEF RunsOK, RunShape
  <2>2. run[s].thread # t
    BY <1>1, <1>2 DEF Fenced, HoldsLease, Holds, GrantOf, Grant, Owned
  <2> QED
    BY <1>1, <1>2, <2>1, <2>2, AppendEffect
<1>3. ASSUME NEW u \in Threads, NEW k \in Nat, Prune(u, k)
      PROVE  /\ threads'[t].latestID = threads[t].latestID
             /\ \/ threads'[t].latestID = NoID
                \/ threads'[t].history[threads'[t].latestID]
                     = threads[t].history[threads[t].latestID]
  <2>1. CASE u # t
    BY <2>1, <1>1, <1>3, PruneEffect
  <2>2. CASE u = t
    <3>1. /\ threads'[t].latestID = threads[t].latestID
          /\ ThreadInv(threads'[t])
          /\ \A c \in DOMAIN threads'[t].history :
               threads'[t].history[c] = threads[t].history[c]
      BY <2>2, <1>1, <1>3, PruneEffect
    <3> QED
      BY <3>1 DEF ThreadInv, ThreadLatestIsNewest
  <2> QED
    BY <2>1, <2>2
<1>4. ASSUME NEW u \in Threads, DeleteThread(u)
      PROVE  threads'[t] = threads[t] \/ threads'[t].latestID = NoID
  <2>1. threads' = [threads EXCEPT ![u] = EmptyThread] /\ DOMAIN threads = Threads
    BY <1>1, <1>4 DEF DeleteThread, ThreadsOK
  <2>2. EmptyThread.latestID = NoID
    BY DEF EmptyThread
  <2> QED
    BY <2>1, <2>2
<1> QED
  BY <1>2, <1>3, <1>4 DEF StoreByOthers, ThreadOf

-----------------------------------------------------------------------------
(* The invariant of the work under way. *)

\* What callers may do without breaking what a property says: never jump to a
\* node they name; not when they answer an interrupt; not to END.
NoJumps(Cmds) == \A cmd \in Cmds : cmd.goto = NoGoto
InPlace(Cmds) == \A cmd \in Cmds : cmd.resume => cmd.goto = NoGoto
NeverToEnd(Cmds) == \A cmd \in Cmds : cmd.goto # END

\* The states a run that has id as its parent may work on.
Patches(th, id) ==
    IF id = NoID THEN {<<>>}
    ELSE {Base(th, id).trace, Append(Base(th, id).trace, "update")}

\* The locals by themselves: before the body has begun there is no work; after
\* the node, the resume value is used up and an interrupt is that of a gate.
LocalsOK(x) ==
    /\ x.pc \in Fresh_PCs => x.parent = NoID /\ x.trace = <<>> /\ x.step = 0 /\ ~x.approved
    /\ x.pc \in {"persist", "commit"} =>
         ~x.approved /\ (x.pend.interrupt => x.pend.node \in Gated)

\* Before its node returns, a run works on what it started from.
StartedFrom(x, th, Cmds) ==
    LET p == Base(th, x.parent) IN
    /\ x.step = p.step
    /\ x.trace \in Patches(th, x.parent)
    /\ x.approved <=> p.interrupt
    /\ (x.parent = NoID \/ NoJumps(Cmds)) => x.node = p.node
    /\ (InPlace(Cmds) /\ x.approved) => x.node = p.node
    /\ x.node = END => p.node = END

WorkOK(x, th, Cmds) ==
    (~LatestOnly(x.thread) /\ x.pc \in {"loop", "node"} /\ Kept(th, x.parent))
        => StartedFrom(x, th, Cmds)

\* While a run owns its thread, the latest checkpoint is the one it works on.
LatestOK(r, x, l, th) ==
    (x.pc \in Body_PCs /\ Owned(r, x, l) /\ x.parent # NoID)
        => th.latestID \in {x.parent, NoID}

\* And after the body, the one its outcome speaks of.
OutcomeOK(r, x, l, th) ==
    (Owned(r, x, l) /\ x.pc \in {"exit", "release"} /\ th.latestID # NoID) =>
        LET b == th.history[th.latestID].body IN
        /\ x.outcome = "paused" => b.interrupt /\ b.node \in Gated
        /\ x.outcome = "completed" => ~b.interrupt /\ b.node = END

\* Only gates interrupt.
PausedAtGate ==
    \A t \in Threads : \A c \in DOMAIN threads[t].history :
        Body(t, c).interrupt => Body(t, c).node \in Gated

WorkInv(Cmds) ==
    /\ PausedAtGate
    /\ \A r \in Runs :
         /\ LocalsOK(run[r])
         /\ WorkOK(run[r], ThreadOf(r), Cmds)
         /\ LatestOK(r, run[r], leases[run[r].thread], ThreadOf(r))
         /\ NeverToEnd(Cmds) => OutcomeOK(r, run[r], leases[run[r].thread], ThreadOf(r))

\* No step makes anything but a gate interrupt.
LEMMA LocalsStep ==
  ASSUME NEW Cmds, Cmds \subseteq Command, NoCommand \in Cmds,
         RuntimeInv(Cmds), WorkInv(Cmds), AnyStep(Cmds), NEW r \in Runs
  PROVE  LocalsOK(run'[r])
<1> DEFINE x == run[r]
           y == run'[r]
<1> SUFFICES LocalsOK(y)
  OBVIOUS
<1> USE DEF RuntimeInv
<1>1. LocalsOK(x) /\ x.pc \in PCs
  BY DEF WorkInv, RunsOK, RunShape
<1>2. CASE BodyMove(r)
  <2>1. Advances(r, x, y)
    BY <1>2, BodyAdvances
  <2>2. AtGate(r) => x.node \in Gated /\ ~x.approved
    BY DEF AtGate
  <2> HIDE DEF x, y
  <2>3. ASSUME Stays(x, y) \/ GoesToCommit(x, y) PROVE LocalsOK(y)
    BY <1>1, <2>3 DEF LocalsOK, Fresh_PCs, Stays, SameWork, SameStep, GoesToCommit
  <2>4. ASSUME Pauses(r, x, y) \/ Routed(r, x, y) PROVE LocalsOK(y)
    BY <2>2, <2>4 DEF LocalsOK, Fresh_PCs, SameWork, Pauses, Routed
  <2>5. ASSUME y.pc \in {"exit", "loop", "node"} PROVE LocalsOK(y)
    BY <2>5 DEF LocalsOK, Fresh_PCs
  <2> QED
    BY <2>1, <2>3, <2>4, <2>5 DEF Advances, Leaves, BeginsFresh, BeginsAtLatest, EntersNode,
       Commits
<1>3. CASE OutsideMove(r, Cmds)
  <2>1. Waits(x, y)
    BY <1>3, OutsideWaits
  <2> HIDE DEF x, y
  <2> QED
    BY <1>1, <2>1 DEF Waits, LocalsOK, Fresh_PCs, Stays, SameWork, SameStep, NoWork
<1>4. CASE y = x
  BY <1>1, <1>4
<1> QED
  BY <1>2, <1>3, <1>4, StepOf

\* What a commit writes.
SnapBody(x) == [node |-> x.pend.node, trace |-> x.trace, step |-> x.step,
                interrupt |-> x.pend.interrupt]

\* A checkpoint of the store after a step is one that was there before, or the
\* one that a run has just committed.
LEMMA NewOrOld ==
  ASSUME NEW Cmds, Cmds \subseteq Command, NoCommand \in Cmds,
         RuntimeInv(Cmds), AnyStep(Cmds),
         NEW t \in Threads, NEW c \in DOMAIN threads'[t].history
  PROVE  \/ c \in DOMAIN threads[t].history
            /\ threads'[t].history[c] = threads[t].history[c]
         \/ \E s \in Runs : /\ At(s, "commit") /\ AppendsSnap(s) /\ Fenced(s)
                            /\ run[s].thread = t /\ c = lastID + 1
                            /\ threads'[t].history[c].parent = run[s].parent
                            /\ threads'[t].history[c].body = SnapBody(run[s])
<1> USE DEF RuntimeInv
<1>1. ASSUME NEW s \in Runs, At(s, "commit"), AppendsSnap(s), Fenced(s),
             ~(c \in DOMAIN threads[t].history
               /\ threads'[t].history[c] = threads[t].history[c])
      PROVE  /\ run[s].thread = t /\ c = lastID + 1
             /\ threads'[t].history[c].parent = run[s].parent
             /\ threads'[t].history[c].body = SnapBody(run[s])
  <2>1. run[s].thread \in Threads
    BY DEF RunsOK, RunShape
  <2>2. run[s].thread = t
    BY <1>1, <2>1, AppendEffect
  <2>3. c = lastID + 1
    BY <1>1, <2>1, <2>2, AppendEffect
  <2>4. threads'[t].history[lastID + 1].parent = run[s].parent
        /\ threads'[t].history[lastID + 1].body = Snap(s).body
    BY <1>1, <2>1, <2>2, AppendEffect
  <2> QED
    BY <2>2, <2>3, <2>4 DEF Snap, SnapBody
<1>2. ASSUME NEW u \in Threads, NEW k \in Nat, Prune(u, k)
      PROVE  c \in DOMAIN threads[t].history
             /\ threads'[t].history[c] = threads[t].history[c]
  BY <1>2, PruneEffect
<1>3. ASSUME NEW u \in Threads, DeleteThread(u)
      PROVE  c \in DOMAIN threads[t].history
             /\ threads'[t].history[c] = threads[t].history[c]
  <2>1. threads' = [threads EXCEPT ![u] = EmptyThread] /\ DOMAIN threads = Threads
    BY <1>3 DEF DeleteThread, ThreadsOK
  <2>2. DOMAIN EmptyThread.history = {}
    BY DEF EmptyThread, NoEntries
  <2> QED
    BY <2>1, <2>2
<1> QED
  BY <1>1, <1>2, <1>3, StoreStep

\* Only gates interrupt, after any step.
LEMMA PausedStep ==
  ASSUME NEW Cmds, Cmds \subseteq Command, NoCommand \in Cmds,
         RuntimeInv(Cmds), WorkInv(Cmds), AnyStep(Cmds)
  PROVE  PausedAtGate'
<1> SUFFICES ASSUME NEW t \in Threads, NEW c \in DOMAIN threads'[t].history,
                    threads'[t].history[c].body.interrupt
             PROVE  threads'[t].history[c].body.node \in Gated
  BY DEF PausedAtGate, Body, History
<1>1. CASE c \in DOMAIN threads[t].history /\ threads'[t].history[c] = threads[t].history[c]
  BY <1>1 DEF WorkInv, PausedAtGate, Body, History
<1>2. ASSUME NEW s \in Runs, At(s, "commit"), threads'[t].history[c].body = SnapBody(run[s])
      PROVE  threads'[t].history[c].body.node \in Gated
  BY <1>2 DEF WorkInv, LocalsOK, SnapBody, At
<1> QED
  BY <1>1, <1>2, NewOrOld

\* What a run starts from, it works on: the fresh state, the snapshot that
\* Resume has loaded, or the one it has just committed.
LEMMA WorkStep ==
  ASSUME NEW Cmds, Cmds \subseteq Command, NoCommand \in Cmds,
         RuntimeInv(Cmds), WorkInv(Cmds), AnyStep(Cmds), NEW r \in Runs
  PROVE  WorkOK(run'[r], threads'[run'[r].thread], Cmds)
<1> DEFINE x == run[r]
           y == run'[r]
<1> USE DEF RuntimeInv
<1> SUFFICES ASSUME ~LatestOnly(y.thread), y.pc \in {"loop", "node"},
                    Kept(threads'[y.thread], y.parent)
             PROVE  StartedFrom(y, threads'[y.thread], Cmds)
  BY DEF WorkOK
<1>1. /\ RunShape(x, Cmds) /\ x.thread \in Threads /\ x.parent \in 0..lastID
      /\ LocalsOK(x) /\ WorkOK(x, threads[x.thread], Cmds) /\ lastID \in Nat
  BY DEF WorkInv, RunsOK, RunShape, ThreadOf, ThreadsOK
\* What has not changed.
<1>2. ASSUME x.pc \in {"loop", "node"}, y.thread = x.thread, SameWork(x, y)
      PROVE  StartedFrom(y, threads'[y.thread], Cmds)
  <2> PICK t \in Threads : t = x.thread
    BY <1>1
  <2>1. y.parent = x.parent /\ ~LatestOnly(t) /\ Kept(threads'[t], x.parent)
    BY <1>2 DEF SameWork
  <2>2. Kept(threads[t], x.parent) /\ Base(threads'[t], x.parent) = Base(threads[t], x.parent)
    BY <1>1, <2>1, PastStays
  <2>3. StartedFrom(x, threads[t], Cmds)
    BY <1>1, <1>2, <2>1, <2>2 DEF WorkOK
  <2>4. Patches(threads'[t], x.parent) = Patches(threads[t], x.parent)
    BY <2>2 DEF Patches
  <2> HIDE DEF x, y
  <2> QED
    BY <1>2, <2>1, <2>2, <2>3, <2>4 DEF StartedFrom, SameWork
<1>3. CASE BodyMove(r)
  <2>1. y.thread = x.thread /\ Advances(r, x, y)
        /\ (x.pc = "begin" => UNCHANGED threads)
    BY <1>3, BodyAdvances, BodyMoveEffect DEF BodyEffect, CallKept, At
  <2> PICK t \in Threads : t = x.thread
    BY <1>1
  <2>2. CASE BeginsFresh(x, y)
    <3>1. /\ y.parent = NoID /\ y.trace = <<>> /\ y.step = 0 /\ y.approved = x.approved
          /\ ~x.approved /\ y.node = Entry /\ x.approved \in BOOLEAN
      BY <1>1, <2>2 DEF BeginsFresh, LocalsOK, Fresh_PCs, RunShape
    <3> HIDE DEF x, y
    <3> QED
      BY <3>1, RuntimeAssumption DEF StartedFrom, Base, Patches, Fresh
  <2>3. CASE BeginsAtLatest(r, x, y)
    <3> DEFINE p == Latest(r)
    <3>1. /\ y.parent = threads[t].latestID /\ y.parent # NoID
          /\ threads' = threads /\ y.thread = t
          /\ Base(threads[t], y.parent) = p
      BY <2>1, <2>3 DEF BeginsAtLatest, LoadedID, LatestOnly, ThreadOf, HasLatest, Base, Latest
    <3>2. /\ y.step = p.step /\ y.approved = p.interrupt
          /\ y.trace \in {p.trace, Append(p.trace, "update")}
          /\ p.interrupt => x.cmd.resume
          /\ y.node = Target(r) /\ Target(r) # END
      BY <2>3 DEF BeginsAtLatest
    <3>3. x.cmd \in Cmds /\ (x.cmd.goto = NoGoto => Target(r) = p.node)
      BY <1>1 DEF RunShape, Target
    <3> HIDE DEF x, y, p
    <3>4. Patches(threads'[y.thread], y.parent) = {p.trace, Append(p.trace, "update")}
      BY <3>1 DEF Patches
    <3> QED
      BY <3>1, <3>2, <3>3, <3>4 DEF StartedFrom, NoJumps, InPlace
  <2>4. CASE Commits(r, x, y)
    <3>1. /\ threads'[t].history[lastID + 1].body = SnapBody(x)
      BY <1>1, <2>4, AppendEffect DEF Commits, Snap, SnapBody
    <3>2. /\ y.parent = lastID + 1 /\ y.node = x.pend.node /\ y.trace = x.trace
          /\ y.step = x.step /\ y.approved = x.approved /\ ~x.pend.interrupt /\ ~x.approved
          /\ x.approved \in BOOLEAN /\ x.pend.interrupt \in BOOLEAN
      BY <1>1, <2>4 DEF Commits, LocalsOK, RunShape
    <3>3. y.thread = t
      BY <2>1
    <3> HIDE DEF x, y
    <3>4. Base(threads'[t], y.parent) = SnapBody(x) /\ y.parent # NoID
      BY <1>1, <3>1, <3>2 DEF Base, NoID
    <3>5. y.trace \in Patches(threads'[t], y.parent)
      BY <3>2, <3>4 DEF Patches, SnapBody
    <3> QED
      BY <3>2, <3>3, <3>4, <3>5 DEF StartedFrom, SnapBody
  <2> QED
    BY <1>2, <2>1, <2>2, <2>3, <2>4 DEF Advances, Leaves, Stays, EntersNode, Pauses, Routed,
       GoesToCommit
<1>4. CASE OutsideMove(r, Cmds)
  <2>1. Waits(x, y)
    BY <1>4, OutsideWaits
  <2> QED
    BY <1>2, <2>1 DEF Waits, Stays
<1>5. CASE y = x
  BY <1>1, <1>2, <1>5 DEF SameWork
<1> QED
  BY <1>3, <1>4, <1>5, StepOf

\* The latest checkpoint of a run that owns its thread is its own, or gone.
LEMMA LatestStep ==
  ASSUME NEW Cmds, Cmds \subseteq Command, NoCommand \in Cmds,
         RuntimeInv(Cmds), WorkInv(Cmds), AnyStep(Cmds), NEW r \in Runs
  PROVE  LatestOK(r, run'[r], leases'[run'[r].thread], threads'[run'[r].thread])
<1> DEFINE x == run[r]
           y == run'[r]
<1> USE DEF RuntimeInv
<1> PICK t \in Threads : t = x.thread
  BY DEF RunsOK, RunShape
<1> SUFFICES ASSUME y.pc \in Body_PCs, Owned(r, y, leases'[y.thread]), y.parent # NoID
             PROVE  threads'[y.thread].latestID \in {y.parent, NoID}
  BY DEF LatestOK
<1>1. /\ LocalsOK(x) /\ LatestOK(r, x, leases[t], threads[t])
      /\ ThreadsOK /\ LeasesOK
  BY DEF WorkInv, ThreadOf
\* Nothing of the run has changed that matters here.
<1>2. ASSUME y.thread = x.thread, y.epoch = x.epoch, y.parent = x.parent,
             x.pc \in Body_PCs, StoreByOthers(r)
      PROVE  threads'[y.thread].latestID \in {y.parent, NoID}
  <2>1. Owned(r, x, leases[t])
    BY <1>2, OwnedBefore DEF Owned
  <2>2. threads[t].latestID \in {x.parent, NoID}
    BY <1>1, <1>2, <2>1 DEF LatestOK
  <2>3. threads'[t].latestID \in {threads[t].latestID, NoID}
    BY <1>2, <2>1, OwnerKeepsLatest DEF ThreadOf
  <2> QED
    BY <1>2, <2>2, <2>3
<1>3. CASE BodyMove(r)
  <2>1. /\ Advances(r, x, y) /\ CallKept(x, y) /\ UNCHANGED leases
        /\ x.pc \in Body_PCs
        /\ UNCHANGED threads \/ x.pc = "commit"
    BY <1>3, BodyAdvances, BodyMoveEffect DEF BodyEffect, At, InBody, Body_PCs
  <2>2. y.thread = x.thread /\ y.epoch = x.epoch
    BY <2>1 DEF CallKept
  <2>3. CASE BeginsAtLatest(r, x, y)
    <3>1. UNCHANGED threads
      BY <2>1, <2>3 DEF BeginsAtLatest
    <3>2. UseLease(t)
      BY <2>1, <2>2, <1>1, OwnersUseLease DEF Owned
    <3> QED
      BY <2>2, <2>3, <3>1, <3>2 DEF BeginsAtLatest, LoadedID, ThreadOf, UseLease
  <2>4. CASE Commits(r, x, y)
    BY <1>1, <2>2, <2>4, AppendEffect DEF Commits
  <2>5. ASSUME UNCHANGED threads, y.parent = x.parent
        PROVE  threads'[y.thread].latestID \in {y.parent, NoID}
    BY <1>2, <2>1, <2>2, <2>5 DEF StoreByOthers
  <2> QED
    BY <2>1, <2>3, <2>4, <2>5 DEF Advances, Leaves, Stays, BeginsFresh, EntersNode, Pauses,
       Routed, GoesToCommit, SameWork, Body_PCs
<1>4. CASE OutsideMove(r, Cmds)
  <2>1. Waits(x, y) /\ StoreByOthers(r)
    BY <1>4, OutsideWaits, OutsideMoveEffect DEF OutsideEffect, StoreByOthers
  <2>2. x.pc = "acquire" => x.parent = NoID
    BY <1>1 DEF LocalsOK, Fresh_PCs
  <2> QED
    BY <1>2, <2>1, <2>2 DEF Waits, Stays, SameWork, NoWork, Body_PCs
<1>5. CASE y = x /\ StoreByOthers(r)
  BY <1>2, <1>5
<1> QED
  BY <1>3, <1>4, <1>5, StepOf

\* What an outcome says of the store stays true while the run owns the thread.
LEMMA OutcomeStep ==
  ASSUME NEW Cmds, Cmds \subseteq Command, NoCommand \in Cmds, NeverToEnd(Cmds),
         RuntimeInv(Cmds), WorkInv(Cmds), AnyStep(Cmds), NEW r \in Runs
  PROVE  OutcomeOK(r, run'[r], leases'[run'[r].thread], threads'[run'[r].thread])
<1> DEFINE x == run[r]
           y == run'[r]
<1> USE DEF RuntimeInv
<1> PICK t \in Threads : t = x.thread
  BY DEF RunsOK, RunShape
<1> SUFFICES ASSUME Owned(r, y, leases'[y.thread]), y.pc \in {"exit", "release"},
                    threads'[y.thread].latestID # NoID
             PROVE  LET th == threads'[y.thread]
                        b == th.history[th.latestID].body IN
                    /\ y.outcome = "paused" => b.interrupt /\ b.node \in Gated
                    /\ y.outcome = "completed" => ~b.interrupt /\ b.node = END
  BY DEF OutcomeOK
<1>1. /\ LocalsOK(x) /\ LatestOK(r, x, leases[t], threads[t])
      /\ WorkOK(x, threads[t], Cmds) /\ OutcomeOK(r, x, leases[t], threads[t])
      /\ ThreadsOK /\ ThreadOK(t) /\ LeasesOK /\ RunShape(x, Cmds)
  BY DEF WorkInv, ThreadOf, ThreadsOK, RunsOK
\* A checkpoint at END is no interrupt.
<1>2. ASSUME threads[t].latestID # NoID,
             threads[t].history[threads[t].latestID].body.node = END
      PROVE  ~threads[t].history[threads[t].latestID].body.interrupt
  BY <1>1, <1>2, RuntimeAssumption DEF ThreadOK, WorkInv, PausedAtGate, Body, History
<1>3. CASE BodyMove(r)
  <2>1. /\ Advances(r, x, y) /\ CallKept(x, y) /\ UNCHANGED leases
        /\ x.pc \in Body_PCs
    BY <1>3, BodyAdvances, BodyMoveEffect DEF BodyEffect, InBody, Body_PCs
  <2>2. y.thread = t /\ Leaves(r, x, y) /\ Owned(r, x, leases[t])
    BY <2>1 DEF CallKept, Owned, Advances, Stays, BeginsFresh, BeginsAtLatest, EntersNode,
       Pauses, Routed, GoesToCommit, Commits, Body_PCs
  <2>3. UseLease(t) /\ ~LatestOnly(t)
    BY <1>1, <2>2, OwnersUseLease
  <2>4. ASSUME y.outcome = "paused"
        PROVE  LET b == threads'[t].history[threads'[t].latestID].body IN
               b.interrupt /\ b.node \in Gated
    <3>1. x.pc = "commit" /\ x.pend.interrupt /\ AppendsSnap(r)
      BY <2>2, <2>4 DEF Leaves, At
    <3>2. /\ threads'[t].latestID = lastID + 1
          /\ threads'[t].history[lastID + 1].body = SnapBody(x)
      BY <1>1, <3>1, AppendEffect DEF Snap, SnapBody
    <3>3. x.pend.node \in Gated
      BY <1>1, <3>1 DEF LocalsOK
    <3> QED
      BY <3>1, <3>2, <3>3 DEF SnapBody
  <2>5. ASSUME y.outcome = "completed"
        PROVE  LET b == threads'[t].history[threads'[t].latestID].body IN
               ~b.interrupt /\ b.node = END
    <3> DEFINE p == threads[t].history[threads[t].latestID].body
    <3>1. threads' = threads /\ threads[t].latestID # NoID
      BY <2>2, <2>5 DEF Leaves
    <3>2. ASSUME At(r, "loop"), x.node = END PROVE p.node = END
      <4>1. Kept(threads[t], x.parent) => StartedFrom(x, threads[t], Cmds)
        BY <1>1, <2>3, <3>2 DEF At, WorkOK
      <4>2. LatestOK(r, x, leases[t], threads[t]) /\ x.node = END
        BY <1>1, <3>2
      <4> HIDE DEF x
      <4>3. x.parent # NoID
        BY <4>1, <4>2, RuntimeAssumption DEF Kept, StartedFrom, Base, Fresh
      <4>4. x.parent = threads[t].latestID
        BY <2>1, <2>2, <3>1, <4>2, <4>3 DEF LatestOK
      <4>5. Kept(threads[t], x.parent)
        BY <1>1, <3>1, <4>4 DEF ThreadOK, Kept
      <4>6. Base(threads[t], x.parent) = p
        BY <4>3, <4>4 DEF Base
      <4> HIDE DEF p
      <4> QED
        BY <4>1, <4>2, <4>5, <4>6 DEF StartedFrom
    <3>3. ASSUME HasLatest(ThreadOf(r)), Target(r) = END PROVE p.node = END
      <4>1. x.cmd.goto # END
        BY <1>1 DEF NeverToEnd, RunShape
      <4> QED
        BY <3>3, <4>1 DEF Target, Latest, ThreadOf
    <3>4. p.node = END
      <4>1. (At(r, "loop") /\ x.node = END) \/ (HasLatest(ThreadOf(r)) /\ Target(r) = END)
        BY <2>2, <2>5 DEF Leaves
      <4> QED
        BY <3>2, <3>3, <4>1
    <3> QED
      BY <1>2, <3>1, <3>4
  <2> QED
    BY <2>2, <2>4, <2>5
<1>4. ASSUME y.thread = x.thread, y.epoch = x.epoch, y.outcome = x.outcome,
             x.pc \in {"exit", "release"}, StoreByOthers(r)
      PROVE  LET b == threads'[t].history[threads'[t].latestID].body IN
             /\ y.outcome = "paused" => b.interrupt /\ b.node \in Gated
             /\ y.outcome = "completed" => ~b.interrupt /\ b.node = END
  <2>1. Owned(r, x, leases[t])
    BY <1>4, OwnedBefore DEF Owned
  <2>2. /\ threads'[t].latestID = threads[t].latestID
        /\ threads'[t].history[threads'[t].latestID].body
              = threads[t].history[threads[t].latestID].body
    BY <1>4, <2>1, OwnerKeepsLatest DEF ThreadOf
  <2> QED
    BY <1>1, <1>4, <2>1, <2>2 DEF OutcomeOK
<1>5. CASE OutsideMove(r, Cmds)
  <2>1. Waits(x, y) /\ StoreByOthers(r)
    BY <1>5, OutsideWaits, OutsideMoveEffect DEF OutsideEffect, StoreByOthers
  <2> QED
    BY <1>4, <2>1 DEF Waits, Stays
<1>6. CASE y = x /\ StoreByOthers(r)
  BY <1>4, <1>6
<1> QED
  BY <1>3, <1>5, <1>6, StepOf

\* The invariant of the work is one.
LEMMA WorkInvStep ==
  ASSUME NEW Cmds, Cmds \subseteq Command, NoCommand \in Cmds,
         RuntimeInv(Cmds), WorkInv(Cmds), AnyStep(Cmds) \/ UNCHANGED vars
  PROVE  WorkInv(Cmds)'
<1>1. CASE AnyStep(Cmds)
  BY <1>1, LocalsStep, WorkStep, LatestStep, OutcomeStep, PausedStep DEF WorkInv, ThreadOf
<1>2. CASE UNCHANGED vars
  BY <1>2 DEF vars, WorkInv, PausedAtGate, Body, History, ThreadOf
<1> QED
  BY <1>1, <1>2

\* Nothing has been done at first.
LEMMA WorkInvInit ==
  ASSUME NEW Cmds, RuntimeInit
  PROVE  WorkInv(Cmds)
<1> DEFINE u == CHOOSE t \in Threads : TRUE
<1>1. u \in Threads
  BY RuntimeAssumption
<1>2. \A r \in Runs : run[r] = Idle(u)
  BY DEF RuntimeInit
<1>3. \A t \in Threads : DOMAIN threads[t].history = {}
  BY DEF RuntimeInit, EmptyThread, NoEntries
<1> HIDE DEF u
<1>4. ASSUME NEW r \in Runs PROVE LocalsOK(run[r]) /\ run[r].pc = "idle"
  BY <1>1, <1>2 DEF Idle, LocalsOK
<1> QED
  BY <1>3, <1>4 DEF WorkInv, PausedAtGate, History, WorkOK, LatestOK, OutcomeOK, Body_PCs

\* The invariant of the work holds of everything Invoke and Resume do.
THEOREM WorkInvariant == RuntimeSpec => [](RuntimeInv(Cs) /\ WorkInv(Cs))
<1>1. RuntimeInv(Cs) /\ WorkInv(Cs) /\ [RuntimeNext]_vars => WorkInv(Cs)'
  BY WorkInvStep, RuntimeNextIsAnyStep, CommandsAreTyped
<1>2. RuntimeInit => WorkInv(Cs)
  BY WorkInvInit
<1> QED
  BY <1>1, <1>2, RuntimeInvariant, PTL DEF RuntimeSpec

\* A run that continues a thread and owns it works on the latest checkpoint.
THEOREM OwnersSeeTheLatest == RuntimeSpec => []OwnerSeesLatest
<1>1. WorkInv(Cs) => OwnerSeesLatest
  BY DEF WorkInv, LatestOK, OwnerSeesLatest, InBody, Body_PCs, HoldsLease, Holds, GrantOf,
     Grant, Owned
<1> QED
  BY <1>1, WorkInvariant, PTL

\* If no caller jumps to END, which runs nothing and stores nothing, what the
\* caller of a run is told is in the store as long as the run owns the thread.
THEOREM OutcomesAreDurable ==
  ASSUME NeverToEnd(Commands)
  PROVE  RuntimeSpec => []OutcomeIsDurable
<1>1. NeverToEnd(Cs)
  BY RuntimeAssumption DEF NeverToEnd, Cs, NoCommand
<1>2. WorkInv(Cs) => OutcomeIsDurable
  BY <1>1 DEF WorkInv, OutcomeOK, OutcomeIsDurable, HoldsLease, Holds, GrantOf, Grant, Owned,
     ThreadOf, Latest
<1> QED
  BY <1>2, WorkInvariant, PTL

-----------------------------------------------------------------------------
(* The checkpoint an approval names. *)

\* A run that was given a resume value and the checkpoint it is meant for
\* started from that checkpoint.
AnswersSeen(x) ==
    (x.pc \in {"loop", "node"} /\ x.approved /\ x.expected # NoID) => x.parent = x.expected

SeenInv == \A r \in Runs : AnswersSeen(run[r])

\* It is compared before the run starts, and its commit uses the value up.
LEMMA SeenStep ==
  ASSUME NEW Cmds, Cmds \subseteq Command, NoCommand \in Cmds,
         RuntimeInv(Cmds), WorkInv(Cmds), AnyStep(Cmds), SeenInv, NEW r \in Runs
  PROVE  AnswersSeen(run'[r])
<1> DEFINE x == run[r]
           y == run'[r]
<1> USE DEF RuntimeInv
<1>1. AnswersSeen(x) /\ LocalsOK(x)
  BY DEF SeenInv, WorkInv
<1>2. CASE BodyMove(r)
  <2>1. y.expected = x.expected /\ Advances(r, x, y)
    BY <1>2, BodyAdvances, BodyMoveEffect DEF BodyEffect, CallKept
  <2>2. CASE y.pc \notin {"loop", "node"}
    BY <2>2 DEF AnswersSeen
  <2>3. CASE BeginsFresh(x, y) \/ Commits(r, x, y)
    <3>1. ~y.approved
      BY <1>1, <2>3 DEF BeginsFresh, Commits, LocalsOK, Fresh_PCs
    <3> QED
      BY <3>1 DEF AnswersSeen
  <2>4. CASE BeginsAtLatest(r, x, y)
    BY <2>1, <2>4 DEF BeginsAtLatest, AnswersSeen
  <2>5. CASE Stays(x, y) \/ EntersNode(r, x, y)
    BY <1>1, <2>1, <2>5 DEF Stays, EntersNode, SameWork, AnswersSeen
  <2> QED
    BY <2>1, <2>2, <2>3, <2>4, <2>5 DEF Advances, Leaves, Pauses, Routed, GoesToCommit
<1>3. CASE OutsideMove(r, Cmds)
  <2>1. Waits(x, y)
    BY <1>3, OutsideWaits
  <2> QED
    BY <1>1, <2>1 DEF Waits, Stays, SameWork, AnswersSeen
<1>4. CASE y = x
  BY <1>1, <1>4
<1> QED
  BY <1>2, <1>3, <1>4, StepOf

\* If callers that answer an interrupt do not name another node, an approval
\* that names the checkpoint its caller saw opens the gate of that checkpoint,
\* on its state, however many others have resumed the thread meanwhile.
THEOREM ApprovalsOpenWhatWasSeen ==
  ASSUME InPlace(Commands)
  PROVE  RuntimeSpec => []ApprovalOpensWhatWasSeen
<1>1. InPlace(Cs)
  BY DEF InPlace, Cs, NoCommand
<1>2. RuntimeInit => SeenInv
  <2> SUFFICES ASSUME RuntimeInit PROVE SeenInv
    OBVIOUS
  <2>1. PICK u \in Threads : \A r \in Runs : run[r] = Idle(u)
    BY RuntimeAssumption DEF RuntimeInit
  <2>2. Idle(u).pc = "idle"
    BY DEF Idle
  <2> QED
    BY <2>1, <2>2 DEF SeenInv, AnswersSeen
<1>3. RuntimeInv(Cs) /\ WorkInv(Cs) /\ SeenInv /\ [RuntimeNext]_vars => SeenInv'
  <2>1. UNCHANGED vars /\ SeenInv => SeenInv'
    BY DEF vars, SeenInv
  <2> QED
    BY <2>1, SeenStep, RuntimeNextIsAnyStep, CommandsAreTyped DEF SeenInv
<1>4. ASSUME RuntimeInv(Cs), WorkInv(Cs), SeenInv PROVE ApprovalOpensWhatWasSeen
  <2> SUFFICES ASSUME NEW r \in Runs, At(r, "node"), run[r].approved,
                      run[r].thread \in DurableThreads,
                      run[r].expected \in DOMAIN History(run[r].thread)
               PROVE  LET seen == Body(run[r].thread, run[r].expected) IN
                      /\ seen.interrupt /\ run[r].node = seen.node
                      /\ run[r].trace \in {seen.trace, Append(seen.trace, "update")}
    BY DEF ApprovalOpensWhatWasSeen
  <2> DEFINE x == run[r]
             th == threads[x.thread]
  <2>1. x.thread \in Threads /\ ~LatestOnly(x.thread) /\ ThreadOK(x.thread)
    BY <1>4 DEF DurableThreads, RuntimeInv, ThreadsOK
  <2>2. x.expected # NoID /\ x.expected \in DOMAIN th.history
    BY <2>1 DEF ThreadOK, ThreadInv, ThreadShape, NoID, History
  <2>3. x.parent = x.expected
    BY <1>4, <2>2 DEF SeenInv, AnswersSeen, At
  <2>4. StartedFrom(x, th, Cs)
    BY <1>4, <2>1, <2>2, <2>3 DEF WorkInv, WorkOK, Kept, At, ThreadOf
  <2>5. Base(th, x.parent) = Body(x.thread, x.expected)
    BY <2>2, <2>3 DEF Base, Body, History
  <2> HIDE DEF x, th
  <2> QED
    BY <1>1, <2>2, <2>3, <2>4, <2>5 DEF StartedFrom, Patches, x
<1> QED
  BY <1>2, <1>3, <1>4, WorkInvariant, PTL DEF RuntimeSpec

-----------------------------------------------------------------------------
(* The invariant of the history. *)

\* Every node's update is its own name, as in GraphRuntime: it is what makes
\* the nodes that were applied visible in the state.
NamesItself(r) ==
    (run[r].pc = "node" /\ run'[r].pc = "persist" /\ ~run'[r].pend.interrupt)
        => run'[r].trace = Append(run[r].trace, run[r].node)

NamedStep(Cmds) == AnyStep(Cmds) /\ \A r \in Runs : NamesItself(r)

Updates == Nodes \cup {"update"}

BodyTyped(b) ==
    b \in [node : Nodes \cup {END}, trace : Seq(Updates), step : Nat, interrupt : BOOLEAN]

\* The body b is that of a step from the checkpoint id: one node n was run on a
\* state u that may have been patched, and was applied, or asked for a human.
\* Unless somebody jumped, n is the node the checkpoint says is next; a gated
\* one is applied after its interrupt only.
Follows(th, id, b, Cmds) ==
    LET p == Base(th, id) IN
    \E n \in Nodes, u \in Patches(th, id) :
        /\ (id = NoID \/ NoJumps(Cmds)) => n = p.node
        /\ IF b.interrupt
           THEN n \in Gated /\ ~p.interrupt /\ b.node = n /\ b.trace = u /\ b.step = p.step
           ELSE /\ b.node \in Succ[n] /\ b.trace = Append(u, n) /\ b.step = p.step + 1
                /\ n \in Gated => p.interrupt /\ (InPlace(Cmds) => n = p.node)

\* What a run is about to commit follows its parent.
PendOK(x, th, Cmds) ==
    (~LatestOnly(x.thread) /\ x.pc \in {"persist", "commit"} /\ Kept(th, x.parent))
        => Follows(th, x.parent, SnapBody(x), Cmds)

\* So does every checkpoint whose parent is still there.
LinkOK(th, c, Cmds) ==
    Kept(th, th.history[c].parent)
        => Follows(th, th.history[c].parent, th.history[c].body, Cmds)

HistoryInv(Cmds) ==
    /\ \A t \in Threads : \A c \in DOMAIN threads[t].history :
         /\ BodyTyped(threads[t].history[c].body)
         /\ ~LatestOnly(t) => LinkOK(threads[t], c, Cmds)
    /\ \A r \in Runs : /\ run[r].trace \in Seq(Updates)
                       /\ PendOK(run[r], ThreadOf(r), Cmds)

\* What a run starts from is a state as well.
LEMMA PatchesTyped ==
  ASSUME NEW th, NEW id, Base(th, id).trace \in Seq(Updates), NEW u \in Patches(th, id)
  PROVE  u \in Seq(Updates)
<1> PICK p : p = Base(th, id).trace
  OBVIOUS
<1>1. "update" \in Updates
  BY DEF Updates
<1>2. p \in Seq(Updates) /\ Append(p, "update") \in Seq(Updates) /\ <<>> \in Seq(Updates)
  BY <1>1
<1>3. u = <<>> \/ u = p \/ u = Append(p, "update")
  BY DEF Patches
<1> QED
  BY <1>2, <1>3

\* Only the parent matters to what follows it.
LEMMA FollowsSame ==
  ASSUME NEW Cmds, NEW th, NEW new, NEW id, NEW b,
         Base(new, id) = Base(th, id), Follows(th, id, b, Cmds)
  PROVE  Follows(new, id, b, Cmds)
<1>1. Patches(new, id) = Patches(th, id)
  BY DEF Patches
<1> QED
  BY <1>1 DEF Follows

\* The state a run works on is a sequence of updates.
LEMMA TraceStep ==
  ASSUME NEW Cmds, Cmds \subseteq Command, NoCommand \in Cmds,
         RuntimeInv(Cmds), HistoryInv(Cmds), NamedStep(Cmds), NEW r \in Runs
  PROVE  run'[r].trace \in Seq(Updates)
<1> DEFINE x == run[r]
           y == run'[r]
<1> USE DEF RuntimeInv
<1>1. /\ RunShape(x, Cmds) /\ x.thread \in Threads /\ x.trace \in Seq(Updates)
      /\ ThreadsOK
  BY DEF HistoryInv, RunsOK, RunShape
<1>2. AnyStep(Cmds) /\ NamesItself(r)
  BY DEF NamedStep
<1>3. CASE BodyMove(r)
  <2>1. Advances(r, x, y)
    BY <1>3, BodyAdvances
  <2>2. CASE BeginsAtLatest(r, x, y)
    <3>1. Latest(r).trace \in Seq(Updates)
      BY <1>1, <2>2 DEF BeginsAtLatest, HasLatest, ThreadsOK, ThreadOK, HistoryInv, BodyTyped,
         Latest, ThreadOf
    <3> QED
      BY <2>2, <3>1 DEF BeginsAtLatest, Updates
  <2>3. CASE Routed(r, x, y)
    <3>1. x.node \in Updates
      BY <1>1, <2>3 DEF Routed, RunShape, Updates
    <3>2. y.trace = Append(x.trace, x.node)
      BY <1>2, <2>3 DEF Routed, NamesItself
    <3> QED
      BY <1>1, <3>1, <3>2
  <2> QED
    BY <1>1, <2>1, <2>2, <2>3 DEF Advances, Leaves, Stays, BeginsFresh, EntersNode, Pauses,
       GoesToCommit, Commits, SameWork
<1>4. CASE OutsideMove(r, Cmds)
  <2>1. Waits(x, y)
    BY <1>4, OutsideWaits
  <2>2. y.trace = <<>> \/ y.trace = x.trace
    BY <2>1 DEF Waits, NoWork, Stays, SameWork
  <2>3. <<>> \in Seq(Updates)
    OBVIOUS
  <2>4. x.trace \in Seq(Updates)
    BY <1>1
  <2> HIDE DEF x
  <2> QED
    BY <2>2, <2>3, <2>4
<1>5. CASE y = x
  BY <1>1, <1>5
<1> QED
  BY <1>2, <1>3, <1>4, <1>5, StepOf

\* What a node has done follows the checkpoint its run started from.
LEMMA PendStep ==
  ASSUME NEW Cmds, Cmds \subseteq Command, NoCommand \in Cmds,
         RuntimeInv(Cmds), WorkInv(Cmds), HistoryInv(Cmds), NamedStep(Cmds), NEW r \in Runs
  PROVE  PendOK(run'[r], threads'[run'[r].thread], Cmds)
<1> DEFINE x == run[r]
           y == run'[r]
<1> USE DEF RuntimeInv
<1> PICK t \in Threads : t = x.thread
  BY DEF RunsOK, RunShape
<1> SUFFICES ASSUME ~LatestOnly(y.thread), y.pc \in {"persist", "commit"},
                    Kept(threads'[y.thread], y.parent)
             PROVE  Follows(threads'[y.thread], y.parent, SnapBody(y), Cmds)
  BY DEF PendOK
<1>1. /\ RunShape(x, Cmds) /\ x.parent \in 0..lastID
      /\ WorkOK(x, threads[t], Cmds) /\ PendOK(x, threads[t], Cmds)
  BY DEF WorkInv, HistoryInv, RunsOK, RunShape, ThreadOf, ThreadsOK
<1>2. AnyStep(Cmds) /\ NamesItself(r)
  BY DEF NamedStep
<1>3. ASSUME y.thread = x.thread, y.parent = x.parent
      PROVE  /\ ~LatestOnly(t) /\ Kept(threads[t], x.parent)
             /\ \A b : Follows(threads[t], x.parent, b, Cmds)
                         => Follows(threads'[y.thread], y.parent, b, Cmds)
  <2>1. ~LatestOnly(t) /\ Kept(threads'[t], x.parent)
    BY <1>3
  <2>2. Kept(threads[t], x.parent) /\ Base(threads'[t], x.parent) = Base(threads[t], x.parent)
    BY <1>1, <1>2, <2>1, PastStays
  <2> QED
    BY <1>3, <2>1, <2>2, FollowsSame
<1>4. ASSUME y.thread = x.thread, SameWork(x, y), SameStep(x, y),
             x.pc \in {"persist", "commit"}
      PROVE  Follows(threads'[y.thread], y.parent, SnapBody(y), Cmds)
  <2>1. y.parent = x.parent /\ SnapBody(y) = SnapBody(x)
    BY <1>4 DEF SameWork, SameStep, SnapBody
  <2> QED
    BY <1>1, <1>3, <1>4, <2>1 DEF PendOK
<1>5. CASE BodyMove(r)
  <2>1. y.thread = x.thread /\ Advances(r, x, y)
    BY <1>5, BodyAdvances, BodyMoveEffect DEF BodyEffect, CallKept
  <2>2. ASSUME Pauses(r, x, y) \/ Routed(r, x, y)
        PROVE  Follows(threads'[y.thread], y.parent, SnapBody(y), Cmds)
    <3> DEFINE b == SnapBody(y)
    <3>1. y.parent = x.parent /\ x.pc = "node"
      BY <2>2 DEF Pauses, Routed, SameWork
    <3>2. StartedFrom(x, threads[t], Cmds)
      BY <1>1, <1>3, <2>1, <3>1 DEF WorkOK
    <3>3. x.node \in Nodes /\ x.approved \in BOOLEAN
      BY <1>1, <3>1 DEF RunShape
    <3>4. \/ /\ b.interrupt /\ x.node \in Gated /\ ~x.approved
             /\ b.node = x.node /\ b.trace = x.trace /\ b.step = x.step
          \/ /\ ~b.interrupt /\ (x.node \in Gated => x.approved)
             /\ b.node \in Succ[x.node] /\ b.trace = Append(x.trace, x.node)
             /\ b.step = x.step + 1
      <4>1. CASE Pauses(r, x, y)
        BY <4>1 DEF Pauses, AtGate, SameWork, SnapBody
      <4>2. CASE Routed(r, x, y)
        BY <4>2, <1>2 DEF Routed, AtGate, Routes, NamesItself, SnapBody
      <4> QED
        BY <2>2, <4>1, <4>2
    <3> HIDE DEF b, x
    <3>5. Follows(threads[t], x.parent, b, Cmds)
      BY <3>2, <3>3, <3>4 DEF Follows, StartedFrom
    <3> QED
      BY <1>3, <2>1, <3>1, <3>5 DEF b
  <2> QED
    BY <1>4, <2>1, <2>2 DEF Advances, Leaves, Stays, BeginsFresh, BeginsAtLatest, EntersNode,
       GoesToCommit, Commits
<1>6. CASE OutsideMove(r, Cmds)
  <2>1. Waits(x, y)
    BY <1>6, OutsideWaits
  <2> QED
    BY <1>4, <2>1 DEF Waits, Stays
<1>7. CASE y = x
  BY <1>4, <1>7 DEF SameWork, SameStep
<1> QED
  BY <1>2, <1>5, <1>6, <1>7, StepOf

\* Every checkpoint follows its parent after any step: no old one changes, and
\* what is committed is what a run had ready.
LEMMA LinkStep ==
  ASSUME NEW Cmds, Cmds \subseteq Command, NoCommand \in Cmds,
         RuntimeInv(Cmds), HistoryInv(Cmds), AnyStep(Cmds),
         NEW t \in Threads, NEW c \in DOMAIN threads'[t].history
  PROVE  /\ BodyTyped(threads'[t].history[c].body)
         /\ ~LatestOnly(t) => LinkOK(threads'[t], c, Cmds)
<1> USE DEF RuntimeInv
<1> DEFINE p == threads'[t].history[c].parent
           b == threads'[t].history[c].body
           Old == /\ c \in DOMAIN threads[t].history
                  /\ threads'[t].history[c] = threads[t].history[c]
           New(s) == /\ At(s, "commit") /\ run[s].thread = t
                     /\ p = run[s].parent /\ b = SnapBody(run[s])
<1>1. Old \/ \E s \in Runs : New(s)
  BY NewOrOld
<1>2. BodyTyped(b)
  <2>1. CASE Old
    BY <2>1 DEF HistoryInv
  <2>2. ASSUME NEW s \in Runs, New(s) PROVE BodyTyped(b)
    <3>1. run[s].trace \in Seq(Updates) /\ RunShape(run[s], Cmds)
      BY DEF HistoryInv, RunsOK
    <3> QED
      BY <2>2, <3>1 DEF BodyTyped, SnapBody, RunShape
  <2> QED
    BY <1>1, <2>1, <2>2
<1>3. ASSUME ~LatestOnly(t), Kept(threads'[t], p) PROVE Follows(threads'[t], p, b, Cmds)
  <2>1. ASSUME p \in 0..lastID, Kept(threads[t], p) => Follows(threads[t], p, b, Cmds)
        PROVE  Follows(threads'[t], p, b, Cmds)
    <3> HIDE DEF p, b
    <3>1. Kept(threads[t], p) /\ Base(threads'[t], p) = Base(threads[t], p)
      BY <1>3, <2>1, PastStays
    <3> QED
      BY <2>1, <3>1, FollowsSame
  <2>2. CASE Old
    <3>1. ThreadShape(threads[t]) /\ ThreadIdsOrdered(threads[t])
          /\ c \in 1..lastID /\ lastID \in Nat
      BY <1>3, <2>2 DEF ThreadsOK, ThreadOK, ThreadInv
    <3>2. p \in 0..lastID
      <4>1. p = threads[t].history[c].parent
        BY <2>2
      <4>2. threads[t].history[c].parent \in Nat /\ threads[t].history[c].parent < c
        BY <2>2, <3>1 DEF ThreadShape, ThreadIdsOrdered
      <4> QED
        BY <4>1, <4>2, <3>1
    <3>3. LinkOK(threads[t], c, Cmds)
      BY <1>3, <2>2 DEF HistoryInv
    <3> QED
      BY <2>1, <2>2, <3>2, <3>3 DEF LinkOK
  <2>3. ASSUME NEW s \in Runs, New(s) PROVE Follows(threads'[t], p, b, Cmds)
    <3>1. p \in 0..lastID
      BY <2>3 DEF RunsOK, RunShape, ThreadsOK
    <3>2. PendOK(run[s], threads[t], Cmds)
      BY <2>3 DEF HistoryInv, ThreadOf
    <3> QED
      BY <1>3, <2>1, <2>3, <3>1, <3>2 DEF PendOK, At
  <2> QED
    BY <1>1, <2>2, <2>3
<1> QED
  BY <1>2, <1>3 DEF LinkOK

\* The invariant of the history is one.
LEMMA HistoryInvStep ==
  ASSUME NEW Cmds, Cmds \subseteq Command, NoCommand \in Cmds,
         RuntimeInv(Cmds), WorkInv(Cmds), HistoryInv(Cmds),
         NamedStep(Cmds) \/ UNCHANGED vars
  PROVE  HistoryInv(Cmds)'
<1>1. CASE NamedStep(Cmds)
  BY <1>1, LinkStep, TraceStep, PendStep DEF NamedStep, HistoryInv, ThreadOf
<1>2. CASE UNCHANGED vars
  BY <1>2 DEF vars, HistoryInv, ThreadOf
<1> QED
  BY <1>1, <1>2

\* A store without checkpoints and runs that have done nothing satisfy it.
LEMMA HistoryInvInit == RuntimeInit => HistoryInv(Cs)
<1> SUFFICES ASSUME RuntimeInit PROVE HistoryInv(Cs)
  OBVIOUS
<1>1. PICK u \in Threads : \A r \in Runs : run[r] = Idle(u)
  BY RuntimeAssumption DEF RuntimeInit
<1>2. \A t \in Threads : DOMAIN threads[t].history = {}
  BY DEF RuntimeInit, EmptyThread, NoEntries
<1>3. Idle(u).trace = <<>> /\ Idle(u).pc = "idle"
  BY DEF Idle
<1>4. <<>> \in Seq(Updates)
  OBVIOUS
<1> QED
  BY <1>1, <1>2, <1>3, <1>4 DEF HistoryInv, PendOK

\* A node is left by its success, with a turn of each of its agents, or by its
\* interrupt, with a turn of those before the gate.
LEMMA NodeIsLeft ==
  ASSUME RuntimeInv(Cs), RuntimeNext, NEW r \in Runs,
         run[r].pc = "node", run'[r].pc = "persist"
  PROVE  IF run'[r].pend.interrupt
         THEN run'[r].turns = TurnsTaken(run[r].turns, BeforeGate[run[r].node])
         ELSE /\ run'[r].trace = Append(run[r].trace, run[r].node)
              /\ run'[r].turns = TurnsTaken(run[r].turns, AgentsOf[run[r].node])
<1> USE DEF RuntimeInv
<1>1. AnyStep(Cs)
  BY RuntimeNextIsAnyStep
<1> DEFINE x == run[r]
<1>2. /\ DOMAIN x = {"pc", "op", "thread", "cmd", "expected", "ttl", "epoch", "hb", "cause",
                     "parent", "node", "trace", "step", "approved", "turns", "pend", "outcome"}
      /\ RunShape(x, Cs) /\ r \in DOMAIN run
  BY DEF RunsOK, RunShape, RunFields, Idle
<1>3. ASSUME NodeSucceeds(r)
      PROVE  /\ ~run'[r].pend.interrupt
             /\ run'[r].trace = Append(run[r].trace, run[r].node)
             /\ run'[r].turns = TurnsTaken(run[r].turns, AgentsOf[run[r].node])
  <2> PICK arts : arts = TurnsTaken(run[r].turns, AgentsOf[run[r].node])
    OBVIOUS
  <2>1. PICK next : NodeReturns(r, run[r].node, next, arts)
    BY <1>3 DEF NodeSucceeds
  <2>2. run'[r] = [x EXCEPT !.pc = "persist",
                     !.trace = Append(@, x.node), !.step = @ + 1,
                     !.approved = FALSE, !.turns = arts,
                     !.pend = [node |-> next, interrupt |-> FALSE]]
    BY <1>2, <2>1 DEF NodeReturns, Local, Applied
  <2>3. run'[r].trace = Append(x.trace, x.node) /\ run'[r].turns = arts
    BY <1>2, <2>2
  <2>4. run'[r].pend = [node |-> next, interrupt |-> FALSE]
    BY <1>2, <2>2
  <2> QED
    BY <2>3, <2>4
<1>4. ASSUME NodePauses(r)
      PROVE  /\ run'[r].pend.interrupt
             /\ run'[r].turns = TurnsTaken(run[r].turns, BeforeGate[run[r].node])
  BY <1>2, <1>4 DEF NodePauses, NodeInterrupts, Local
<1>5. ~(EngineStep(r) \/ Cancel(r))
  <2>1. ASSUME EngineStep(r) \/ Cancel(r) PROVE FALSE
    <3>1. ASSUME NEW o \in Outcomes, Local(r, Exit(x, o)) PROVE FALSE
      BY <1>2, <3>1, ExitShape DEF Local
    <3>2. \/ \E o \in Outcomes : Local(r, Exit(x, o))
          \/ Local(r, [x EXCEPT !.pc = "node", !.turns = Turns(r)])
          \/ Local(r, [x EXCEPT !.cause = "canceled"])
      BY <2>1, CommandsAreTyped DEF EngineStep, Cancel, BeginInvoke, ResumeRefused, ResumeCompleted,
         ResumeNeedsValue, ResumeContinues, Resuming, RunCompletes, RunStops, NodeStarts,
         NodeDiscarded, NodeFails, PersistRefused, PersistChecked, CommitSucceeds, CommitFenced,
         CommitConflicts, CommitUnknown, At, Outcomes
    <3> QED
      BY <1>2, <3>1, <3>2 DEF Local
  <2> QED
    BY <2>1
<1>6. ~(OutsideMove(r, Cs))
  <2>1. OutsideMove(r, Cs) => Waits(x, run'[r])
    BY OutsideWaits, CommandsAreTyped
  <2> QED
    BY <2>1 DEF Waits, Stays
<1>7. run'[r] # run[r]
  OBVIOUS
<1>8. PICK s \in Runs : \/ EngineStep(s) \/ NodePauses(s) \/ NodeSucceeds(s)
                       \/ Cancel(s) \/ OutsideMove(s, Cs)
  <2>1. \A s \in Runs : Starts(s) => Called(s, Cs)
    BY DEF Starts, Called, Cs
  <2>2. ~\E t \in Threads, k \in Keep : Prune(t, k)
    BY <1>7 DEF Prune
  <2>3. ~\E t \in Threads : DeleteThread(t)
    BY <1>7 DEF DeleteThread
  <2>4. ~Clock
    BY <1>7 DEF Clock
  <2> QED
    BY <2>1, <2>2, <2>3, <2>4 DEF RuntimeNext, RunStep, BodyStep, OutsideMove
<1>9. s = r
  <2>1. BodyMove(s) \/ OutsideMove(s, Cs)
    BY <1>8 DEF BodyMove, NodeSucceeds, NodePauses
  <2>2. OnlyRun(s)
    BY <1>1, <2>1, BodyMoveEffect, OutsideMoveEffect, CommandsAreTyped
       DEF BodyEffect, OutsideEffect
  <2> QED
    BY <1>7, <2>2 DEF OnlyRun
<1> QED
  BY <1>3, <1>4, <1>5, <1>6, <1>8, <1>9

\* The nodes of GraphRuntime name themselves.
LEMMA RuntimeNextIsNamed ==
  ASSUME RuntimeInv(Cs), RuntimeNext
  PROVE  NamedStep(Cs)
BY RuntimeNextIsAnyStep, NodeIsLeft DEF NamedStep, NamesItself

\* The history of every thread, and what the runs are about to add to it.
THEOREM HistoryInvariant ==
    RuntimeSpec => [](RuntimeInv(Cs) /\ WorkInv(Cs) /\ HistoryInv(Cs))
<1>1. RuntimeInv(Cs) /\ WorkInv(Cs) /\ HistoryInv(Cs) /\ [RuntimeNext]_vars => HistoryInv(Cs)'
  BY HistoryInvStep, RuntimeNextIsNamed, CommandsAreTyped
<1> QED
  BY <1>1, WorkInvariant, HistoryInvInit, PTL DEF RuntimeSpec

-----------------------------------------------------------------------------
(* Theorems. *)

\* What links a checkpoint of a thread that keeps its history to its parent.
LEMMA LinkFollows ==
  ASSUME RuntimeInv(Cs), HistoryInv(Cs), NEW t \in DurableThreads, NEW c \in DOMAIN History(t),
         History(t)[c].parent = NoID \/ c \in Links(t)
  PROVE  LET id == History(t)[c].parent IN
         /\ BodyTyped(Body(t, c))
         /\ Follows(threads[t], id, Body(t, c), Cs)
         /\ IF id = NoID THEN Base(threads[t], id) = Fresh
            ELSE Base(threads[t], id) = ParentBody(t, c) /\ BodyTyped(ParentBody(t, c))
         /\ c \in Links(t) => id # NoID
<1> DEFINE id == History(t)[c].parent
<1>1. t \in Threads /\ ~LatestOnly(t) /\ ThreadOK(t)
  BY DEF DurableThreads, RuntimeInv, ThreadsOK
<1>2. BodyTyped(Body(t, c)) /\ LinkOK(threads[t], c, Cs)
  BY <1>1 DEF HistoryInv, History, Body
<1>3. c \in Links(t) => id # NoID /\ BodyTyped(ParentBody(t, c))
  BY <1>1 DEF Links, History, ParentBody, Body, HistoryInv, ThreadOK, NoID
<1>4. Kept(threads[t], id)
  BY DEF Kept, Links, History
<1> QED
  BY <1>2, <1>3, <1>4 DEF LinkOK, Base, History, Body, ParentBody

\* If no caller jumps, the checkpoints of a thread are one execution of the
\* graph: each adds to its parent the one node the parent says is next.
THEOREM HistoryIsOneExecution ==
  ASSUME NoJumps(Commands)
  PROVE  RuntimeSpec => []HistoryIsExecution
<1>1. NoJumps(Cs)
  BY DEF NoJumps, Cs, NoCommand
<1>2. ASSUME RuntimeInv(Cs), HistoryInv(Cs) PROVE HistoryIsExecution
  <2> SUFFICES ASSUME NEW t \in DurableThreads, NEW c \in Links(t)
               PROVE  LET p == ParentBody(t, c)  b == Body(t, c) IN
                      IF b.interrupt
                      THEN /\ b.node = p.node
                           /\ b.step = p.step
                           /\ b.trace \in {p.trace, Append(p.trace, "update")}
                      ELSE /\ Applies(p, b, p.node)
                           /\ b.step = p.step + 1
                           /\ b.node \in Succ[p.node]
    BY DEF HistoryIsExecution
  <2> DEFINE p == ParentBody(t, c)
             b == Body(t, c)
             id == History(t)[c].parent
  <2>1. c \in DOMAIN History(t)
    BY DEF Links
  <2>2. Follows(threads[t], id, b, Cs) /\ Base(threads[t], id) = p /\ id # NoID
    BY <1>2, <2>1, LinkFollows
  <2> HIDE DEF p, b, id
  <2>3. PICK u \in {p.trace, Append(p.trace, "update")} :
           IF b.interrupt
           THEN b.node = p.node /\ b.trace = u /\ b.step = p.step
           ELSE b.node \in Succ[p.node] /\ b.trace = Append(u, p.node) /\ b.step = p.step + 1
    BY <1>1, <2>2 DEF Follows, Patches
  <2> QED
    BY <2>3 DEF Applies, p, b
<1> QED
  BY <1>2, HistoryInvariant, PTL

\* Whatever callers do, a thread's history begins with the entry node.
THEOREM HistoriesStartAtEntry == RuntimeSpec => []HistoryStartsAtEntry
<1>1. ASSUME RuntimeInv(Cs), HistoryInv(Cs) PROVE HistoryStartsAtEntry
  <2> SUFFICES ASSUME NEW t \in DurableThreads, NEW c \in DOMAIN History(t),
                      History(t)[c].parent = NoID
               PROVE  LET b == Body(t, c) IN
                      IF b.interrupt THEN b.node = Entry /\ b.trace = <<>>
                                     ELSE b.trace = <<Entry>> /\ b.step = 1
    BY DEF HistoryStartsAtEntry
  <2> DEFINE b == Body(t, c)
  <2>1. Follows(threads[t], NoID, b, Cs) /\ Base(threads[t], NoID) = Fresh
    BY <1>1, LinkFollows
  <2> HIDE DEF b
  <2>2. IF b.interrupt THEN b.node = Entry /\ b.trace = <<>>
        ELSE b.trace = Append(<<>>, Entry) /\ b.step = 0 + 1
    BY <2>1 DEF Follows, Patches, Fresh
  <2>3. Append(<<>>, Entry) = <<Entry>>
    OBVIOUS
  <2> QED
    BY <2>2, <2>3 DEF b
<1> QED
  BY <1>1, HistoryInvariant, PTL

\* If callers that answer an interrupt do not name another node, a gated node
\* is applied only by the run that was resumed from its interrupt.
THEOREM GatesAreNotBypassed ==
  ASSUME InPlace(Commands)
  PROVE  RuntimeSpec => []GateNotBypassed
<1>1. InPlace(Cs)
  BY DEF InPlace, Cs, NoCommand
<1>2. ASSUME RuntimeInv(Cs), HistoryInv(Cs) PROVE GateNotBypassed
  <2> SUFFICES ASSUME NEW t \in DurableThreads, NEW c \in DOMAIN History(t),
                      ~Body(t, c).interrupt,
                      Body(t, c).trace[Len(Body(t, c).trace)] \in Gated
               PROVE  /\ History(t)[c].parent # NoID
                      /\ c \in Links(t) =>
                           /\ ParentBody(t, c).interrupt
                           /\ ParentBody(t, c).node = Body(t, c).trace[Len(Body(t, c).trace)]
    BY DEF GateNotBypassed
  <2> DEFINE b == Body(t, c)
             id == History(t)[c].parent
             p == Base(threads[t], id)
  <2>1. ASSUME id = NoID \/ c \in Links(t)
        PROVE  p.interrupt /\ p.node = b.trace[Len(b.trace)]
    <3>1. Follows(threads[t], id, b, Cs) /\ p.trace \in Seq(Updates)
      <4>1. Fresh.trace \in Seq(Updates)
        BY DEF Fresh
      <4> QED
        BY <1>2, <2>1, <4>1, LinkFollows DEF BodyTyped
    <3>2. ~b.interrupt /\ b.trace[Len(b.trace)] \in Gated
      OBVIOUS
    <3>3. PICK n \in Nodes, u \in Patches(threads[t], id) :
             /\ b.trace = Append(u, n)
             /\ n \in Gated => p.interrupt /\ n = p.node
      <4> HIDE DEF b, id
      <4> QED
        BY <1>1, <3>1, <3>2 DEF Follows
    <3>4. u \in Seq(Updates)
      BY <3>1, <3>3, PatchesTyped
    <3>5. Append(u, n)[Len(Append(u, n))] = n
      <4> HIDE DEF p, b, id
      <4>1. n \in Updates
        BY DEF Updates
      <4> QED
        BY <3>4, <4>1
    <3> QED
      BY <3>2, <3>3, <3>5
  <2>2. id # NoID
    BY <2>1 DEF Base, Fresh
  <2>3. ASSUME c \in Links(t) PROVE p = ParentBody(t, c)
    BY <1>2, <2>2, <2>3, LinkFollows
  <2> QED
    BY <2>1, <2>2, <2>3
<1> QED
  BY <1>2, HistoryInvariant, PTL

-----------------------------------------------------------------------------
(* The refinement. *)

\* The current point of each thread, as the refinement maps it.
Points == [t \in Threads |->
             IF HasLatest(threads[t])
             THEN threads[t].history[threads[t].latestID].body ELSE Fresh]

\* The point of a thread is what a run would start from that has the latest
\* checkpoint as its parent.
LEMMA PointIsBase ==
  ASSUME ThreadsOK, NEW t \in Threads
  PROVE  Points[t] = Base(threads[t], threads[t].latestID)
BY DEF Points, Base, HasLatest, ThreadsOK, ThreadOK

\* A commit that follows the point of its thread is a step of the execution.
LEMMA CommitIsStep ==
  ASSUME NoJumps(Cs), NEW t \in Threads, NEW id, NEW b,
         BodyTyped(b), BodyTyped(Points[t]),
         Points[t] = Base(threads[t], id), Follows(threads[t], id, b, Cs),
         Points' = [Points EXCEPT ![t] = b]
  PROVE  Execution!ExecutionNext
<1> DEFINE p == Points[t]
<1>0. DOMAIN Points = Threads
  BY DEF Points
<1>1. PICK n \in Nodes, u \in Patches(threads[t], id) :
        /\ n = p.node
        /\ IF b.interrupt
           THEN n \in Gated /\ ~p.interrupt /\ b.node = n /\ b.trace = u /\ b.step = p.step
           ELSE /\ b.node \in Succ[n] /\ b.trace = Append(u, n) /\ b.step = p.step + 1
                /\ n \in Gated => p.interrupt
  BY DEF Follows
<1>2. u \in {p.trace, Append(p.trace, "update")}
  <2>1. Fresh.trace = <<>>
    BY DEF Fresh
  <2> QED
    BY <2>1 DEF Patches, Base
<1>3. CASE b.interrupt
  <2>1. b = [p EXCEPT !.interrupt = TRUE, !.trace = u]
    BY <1>1, <1>3 DEF BodyTyped
  <2>2. Points' = [Points EXCEPT ![t].interrupt = TRUE, ![t].trace = u]
    BY <2>1, <1>0
  <2>3. Execution!Pause(t, u)
    BY <1>1, <1>2, <1>3, <2>2 DEF Execution!Pause, Execution!Patched, Points
  <2> QED
    BY <1>2, <2>3 DEF Execution!ExecutionNext, Execution!Patched, Points
<1>4. CASE ~b.interrupt
  <2>1. b = [node |-> b.node, trace |-> Append(u, p.node), step |-> p.step + 1,
             interrupt |-> FALSE]
    BY <1>1, <1>4 DEF BodyTyped
  <2>2. Execution!Step(t, b.node, u)
    BY <1>1, <1>2, <1>4, <2>1 DEF Execution!Step, Execution!Patched, Points
  <2>3. b.node \in Nodes \cup {END}
    BY DEF BodyTyped
  <2> QED
    BY <1>2, <2>2, <2>3 DEF Execution!ExecutionNext, Execution!Patched, Points
<1> QED
  BY <1>3, <1>4

\* Every step is one of the execution or leaves every thread where it is.
LEMMA ExecutionStep ==
  ASSUME NoJumps(Cs), DurableThreads = Threads,
         RuntimeInv(Cs), HistoryInv(Cs), AnyStep(Cs)
  PROVE  Execution!ExecutionNext \/ UNCHANGED Points
<1> USE DEF RuntimeInv
<1>0. /\ Cs \subseteq Command /\ NoCommand \in Cs
      /\ ThreadsOK /\ ThreadsOK' /\ DOMAIN Points = Threads /\ DOMAIN Points' = Threads
      /\ \A t \in Threads : ~LatestOnly(t)
  BY CommandsAreTyped, ThreadsStep DEF Points, DurableThreads
<1>1. ASSUME NEW s \in Runs, At(s, "commit"), AppendsSnap(s)
      PROVE  Execution!ExecutionNext
  <2> PICK t \in Threads : t = run[s].thread
    BY DEF RunsOK, RunShape
  <2> PICK b : b = SnapBody(run[s])
    OBVIOUS
  <2> PICK id : id = run[s].parent
    OBVIOUS
  <2>1. /\ threads[t].latestID = id
        /\ threads'[t].latestID = lastID + 1
        /\ threads'[t].history[lastID + 1].body = b
        /\ \A v \in Threads \ {t} : threads'[v] = threads[v]
    BY <1>0, <1>1, AppendEffect DEF Snap, SnapBody
  <2>2. Points[t] = Base(threads[t], id)
    BY <1>0, <2>1, PointIsBase
  <2>3. Kept(threads[t], id)
    BY <1>0, <2>1 DEF Kept, ThreadsOK, ThreadOK
  <2>4. Follows(threads[t], id, b, Cs)
    BY <1>0, <1>1, <2>3 DEF HistoryInv, PendOK, ThreadOf, At
  <2>5. BodyTyped(b)
    BY DEF HistoryInv, RunsOK, RunShape, BodyTyped, SnapBody
  <2>6. BodyTyped(Points[t])
    <3>1. BodyTyped(Fresh)
      <4>1. <<>> \in Seq(Updates) /\ Entry \in Nodes
        BY RuntimeAssumption
      <4> QED
        BY <4>1 DEF BodyTyped, Fresh
    <3> QED
      BY <2>2, <2>3, <3>1 DEF HistoryInv, Base, Kept
  <2>7. Points' = [Points EXCEPT ![t] = b]
    <3>1. Points'[t] = b
      <4>1. lastID + 1 # NoID /\ lastID + 1 \in DOMAIN threads'[t].history
        BY <1>0, <2>1 DEF ThreadsOK, ThreadOK, NoID
      <4> QED
        BY <2>1, <4>1 DEF Points, HasLatest
    <3>2. \A v \in Threads \ {t} : Points'[v] = Points[v]
      BY <2>1 DEF Points, HasLatest
    <3>3. Points' = [v \in Threads |-> Points'[v]] /\ Points = [v \in Threads |-> Points[v]]
      BY DEF Points
    <3> QED
      BY <3>1, <3>2, <3>3
  <2> QED
    BY <2>2, <2>4, <2>5, <2>6, <2>7, CommitIsStep
<1>2. ASSUME NEW u \in Threads, NEW k \in Nat, Prune(u, k)
      PROVE  UNCHANGED Points
  <2>1. /\ threads'[u].latestID = threads[u].latestID
        /\ threads'[u].latestID # NoID
        /\ \A v \in Threads \ {u} : threads'[v] = threads[v]
        /\ \A c \in DOMAIN threads'[u].history : threads'[u].history[c] = threads[u].history[c]
    BY <1>0, <1>2, PruneEffect
  <2>2. threads'[u].latestID \in DOMAIN threads'[u].history
        /\ threads[u].latestID \in DOMAIN threads[u].history
    BY <1>0, <2>1 DEF ThreadsOK, ThreadOK
  <2>3. \A v \in Threads : Points'[v] = Points[v]
    BY <2>1, <2>2 DEF Points, HasLatest
  <2>4. Points' = [v \in Threads |-> Points'[v]] /\ Points = [v \in Threads |-> Points[v]]
    BY DEF Points
  <2> QED
    BY <2>3, <2>4
<1>3. ASSUME NEW u \in Threads, DeleteThread(u)
      PROVE  Execution!ExecutionNext
  <2>1. threads' = [threads EXCEPT ![u] = EmptyThread] /\ DOMAIN threads = Threads
    BY <1>0, <1>3 DEF DeleteThread, ThreadsOK
  <2>2. ~HasLatest(EmptyThread)
    BY DEF EmptyThread, HasLatest
  <2>3. Points' = [Points EXCEPT ![u] = Fresh]
    <3>1. Points'[u] = Fresh /\ \A v \in Threads \ {u} : Points'[v] = Points[v]
      BY <2>1, <2>2 DEF Points
    <3>2. Points' = [v \in Threads |-> Points'[v]] /\ Points = [v \in Threads |-> Points[v]]
      BY DEF Points
    <3> QED
      BY <3>1, <3>2
  <2>4. Execution!Reset(u)
    BY <2>3 DEF Execution!Reset, Execution!Fresh, Points, Fresh
  <2> QED
    BY <2>4 DEF Execution!ExecutionNext
<1>4. ASSUME UNCHANGED threads PROVE UNCHANGED Points
  BY <1>4 DEF Points
<1> QED
  BY <1>0, <1>1, <1>2, <1>3, <1>4, StoreStep

\* If all stores keep a history and no caller jumps, the runs of a thread are
\* together one execution of the graph: GraphRuntime refines GraphExecution.
THEOREM RunsImplementExecution ==
  ASSUME NoJumps(Commands), DurableThreads = Threads
  PROVE  RuntimeSpec => ImplementsExecution
<1>1. NoJumps(Cs)
  BY DEF NoJumps, Cs, NoCommand
<1>2. RuntimeInit => Execution!ExecutionInit
  <2>1. ~HasLatest(EmptyThread)
    BY DEF EmptyThread, HasLatest
  <2> QED
    BY <2>1 DEF RuntimeInit, Execution!ExecutionInit, Execution!Fresh, Fresh
<1>3. RuntimeInv(Cs) /\ HistoryInv(Cs) /\ [RuntimeNext]_vars
         => [Execution!ExecutionNext]_Points
  <2>1. UNCHANGED vars => UNCHANGED Points
    BY DEF vars, Points
  <2> QED
    BY <1>1, <2>1, ExecutionStep, RuntimeNextIsAnyStep
<1> QED
  BY <1>2, <1>3, HistoryInvariant, PTL
     DEF RuntimeSpec, ImplementsExecution, Execution!ExecutionSpec, Points

-----------------------------------------------------------------------------
(* Sessions. *)

TurnsTyped(turns) ==
    DOMAIN turns \subseteq Agents /\ \A a \in DOMAIN turns : turns[a] \in Nat

\* In a node, a turn of each of its agents is counted.
NodeTurns(x) == x.pc = "node" => DOMAIN x.turns = AgentsOf[x.node]

\* What the type invariant says beyond the shape of runs and threads.
TypesInv ==
    /\ lastID <= MaxID
    /\ \A t \in Threads : \A s \in DOMAIN threads[t].sessions : threads[t].sessions[s] \in Nat
    /\ \A r \in Runs : TurnsTyped(run[r].turns) /\ NodeTurns(run[r])

\* The turns a run has counted are numbers: those of the parent's sessions, or
\* one more.
LEMMA TurnsTypedStep ==
  ASSUME RuntimeInv(Cs), TypesInv, RuntimeNext, NEW r \in Runs
  PROVE  TurnsTyped(run'[r].turns) /\ NodeTurns(run'[r])
<1> DEFINE x == run[r]
           y == run'[r]
<1> USE DEF RuntimeInv
<1>1. /\ TurnsTyped(x.turns) /\ NodeTurns(x) /\ RunShape(x, Cs) /\ x.thread \in Threads
      /\ AnyStep(Cs) /\ Cs \subseteq Command /\ NoCommand \in Cs
  BY RuntimeNextIsAnyStep, CommandsAreTyped DEF TypesInv, RunsOK, RunShape
<1>2. TurnsTyped(NoEntries)
  BY DEF TurnsTyped, NoEntries
<1>3. CASE BodyMove(r)
  <2>1. Advances(r, x, y)
    BY <1>1, <1>3, BodyAdvances
  <2>2. ASSUME EntersNode(r, x, y) PROVE TurnsTyped(y.turns) /\ NodeTurns(y)
    <3>1. y.turns = Turns(r) /\ x.node \in Nodes /\ y.node = x.node
      BY <1>1, <2>2 DEF EntersNode, SameWork, RunShape
    <3>2. DOMAIN Turns(r) = AgentsOf[x.node] /\ AgentsOf[x.node] \subseteq Agents
      BY <3>1, RuntimeAssumption DEF Turns
    <3>3. \A a \in DOMAIN Turns(r) : Turns(r)[a] \in Nat
      BY <1>1 DEF Turns, HasSession, AgentSession, ThreadOf, TypesInv
    <3> QED
      BY <3>1, <3>2, <3>3 DEF TurnsTyped, NodeTurns
  <2>3. ASSUME Routed(r, x, y) \/ Pauses(r, x, y) PROVE TurnsTyped(y.turns)
    <3>1. x.pc = "node" /\ y.pc = "persist" /\ x.node \in Nodes
      BY <1>1, <2>3 DEF Routed, Pauses, RunShape
    <3>2. PICK n \in {AgentsOf[x.node], BeforeGate[x.node]} : y.turns = TurnsTaken(x.turns, n)
      BY <3>1, NodeIsLeft
    <3>3. n \subseteq DOMAIN x.turns
      BY <1>1, <3>1, RuntimeAssumption DEF NodeTurns
    <3> HIDE DEF x
    <3> QED
      BY <1>1, <3>2, <3>3 DEF TurnsTaken, TurnsTyped
  <2>4. ASSUME y.pc # "node", TurnsTyped(y.turns) PROVE TurnsTyped(y.turns) /\ NodeTurns(y)
    BY <2>4 DEF NodeTurns
  <2>5. ASSUME Stays(x, y) PROVE TurnsTyped(y.turns) /\ NodeTurns(y)
    BY <1>1, <2>5 DEF Stays, SameWork, SameStep, NodeTurns
  <2> QED
    BY <1>1, <1>2, <2>1, <2>2, <2>3, <2>4, <2>5 DEF Advances, Leaves, BeginsFresh,
       BeginsAtLatest, Pauses, Routed, GoesToCommit, Commits, SameStep
<1>4. CASE OutsideMove(r, Cs)
  <2>1. Waits(x, y)
    BY <1>1, <1>4, OutsideWaits
  <2> QED
    BY <1>1, <1>2, <2>1 DEF Waits, NoWork, Stays, SameWork, SameStep, NodeTurns
<1>5. CASE y = x
  BY <1>1, <1>5
<1> QED
  BY <1>1, <1>3, <1>4, <1>5, StepOf

\* So are the sessions the store keeps.
LEMMA SessionsTypedStep ==
  ASSUME RuntimeInv(Cs), TypesInv, RuntimeNext, NEW t \in Threads
  PROVE  \A s \in DOMAIN threads'[t].sessions : threads'[t].sessions[s] \in Nat
<1> USE DEF RuntimeInv
<1>1. /\ AnyStep(Cs) /\ Cs \subseteq Command /\ NoCommand \in Cs /\ ThreadsOK
      /\ \A s \in DOMAIN threads[t].sessions : threads[t].sessions[s] \in Nat
  BY RuntimeNextIsAnyStep, CommandsAreTyped DEF TypesInv
<1>2. DOMAIN EmptyThread.sessions = {}
  BY DEF EmptyThread, NoEntries
<1>3. ASSUME NEW r \in Runs, AppendsSnap(r)
      PROVE  \A s \in DOMAIN threads'[t].sessions : threads'[t].sessions[s] \in Nat
  <2>1. run[r].thread \in Threads
    BY DEF RunsOK, RunShape
  <2>2. CASE run[r].thread # t
    BY <1>1, <1>3, <2>1, <2>2, AppendEffect
  <2>3. CASE run[r].thread = t /\ LatestOnly(t)
    <3>1. threads'[t] = Overwritten(threads[t], Snap(r))
      BY <1>1, <1>3, <2>3 DEF AppendsSnap, ThreadsOK
    <3>2. DOMAIN threads'[t].sessions = {}
      BY <3>1, <1>2 DEF Overwritten, EmptyThread
    <3> QED
      BY <3>2
  <2>4. CASE run[r].thread = t /\ ~LatestOnly(t)
    <3>1. threads'[t] = Appended(threads[t], Snap(r), run[r].turns)
      BY <1>1, <1>3, <2>1, <2>4, AppendEffect DEF Artifacts
    <3>2. threads'[t].sessions = NewSessions(threads[t], Snap(r), run[r].turns)
      BY <3>1 DEF Appended
    <3>3. TurnsTyped(run[r].turns)
      BY DEF TypesInv
    <3>4. \A a : SessionID(Snap(r).id, a)[2] = a
      BY DEF SessionID
    <3> QED
      BY <1>1, <3>2, <3>3, <3>4 DEF NewSessions, TurnsTyped
  <2> QED
    BY <2>2, <2>3, <2>4
<1>4. ASSUME NEW u \in Threads, NEW k \in Nat, Prune(u, k)
      PROVE  \A s \in DOMAIN threads'[t].sessions : threads'[t].sessions[s] \in Nat
  <2>1. CASE u # t
    <3>1. threads'[t] = threads[t]
      BY <1>1, <1>4, <2>1, PruneEffect
    <3> QED
      BY <3>1, <1>1
  <2>2. CASE u = t
    <3>1. threads'[t] = Pruned(threads[t], k)
      BY <1>1, <1>4, <2>2, PruneEffect
    <3>2. threads'[t].sessions
            = Restrict(threads[t].sessions,
                       DOMAIN threads[t].sessions \cap Live(threads[t], Newest(threads[t], k)))
      BY <3>1 DEF Pruned
    <3> QED
      BY <1>1, <3>2 DEF Restrict
  <2> QED
    BY <2>1, <2>2
<1>5. ASSUME NEW u \in Threads, DeleteThread(u)
      PROVE  \A s \in DOMAIN threads'[t].sessions : threads'[t].sessions[s] \in Nat
  <2>1. threads' = [threads EXCEPT ![u] = EmptyThread] /\ DOMAIN threads = Threads
    BY <1>1, <1>5 DEF DeleteThread, ThreadsOK
  <2> QED
    BY <1>1, <1>2, <2>1
<1> QED
  BY <1>1, <1>3, <1>4, <1>5, StoreStep

\* The types hold of everything Invoke and Resume do.
THEOREM TypesInvariant == RuntimeSpec => []TypesInv
<1>1. RuntimeInit => TypesInv
  <2> SUFFICES ASSUME RuntimeInit PROVE TypesInv
    OBVIOUS
  <2>1. PICK u \in Threads : \A r \in Runs : run[r] = Idle(u)
    BY RuntimeAssumption DEF RuntimeInit
  <2>2. /\ DOMAIN NoEntries = {} /\ EmptyThread.sessions = NoEntries
        /\ Idle(u).turns = NoEntries /\ Idle(u).pc = "idle"
    BY DEF NoEntries, Idle, EmptyThread
  <2>3. lastID <= MaxID
    <3>1. MaxID \in Nat
      BY RuntimeAssumption
    <3>2. lastID = 0
      BY DEF RuntimeInit
    <3> QED
      BY <3>1, <3>2
  <2>4. \A t \in Threads : threads[t].sessions = NoEntries
    BY DEF RuntimeInit, EmptyThread
  <2> QED
    BY <2>1, <2>2, <2>3, <2>4 DEF TypesInv, TurnsTyped, NodeTurns
<1>2. ASSUME RuntimeInv(Cs), TypesInv, RuntimeNext PROVE TypesInv'
  <2>1. lastID' <= MaxID
    <3>1. /\ AnyStep(Cs) /\ Cs \subseteq Command /\ NoCommand \in Cs
          /\ lastID \in Nat /\ lastID <= MaxID /\ MaxID \in Nat
      BY <1>2, RuntimeNextIsAnyStep, CommandsAreTyped, RuntimeAssumption
         DEF TypesInv, RuntimeInv, ThreadsOK
    <3> QED
      BY <1>2, <3>1, StoreStep DEF AppendsSnap, Prune, DeleteThread
  <2> QED
    BY <1>2, <2>1, TurnsTypedStep, SessionsTypedStep DEF TypesInv
<1>3. TypesInv /\ UNCHANGED vars => TypesInv'
  BY DEF vars, TypesInv
<1> QED
  BY <1>1, <1>2, <1>3, RuntimeInvariant, PTL DEF RuntimeSpec

\* The store, the lease and the locals of every run are well formed, whatever
\* the graph, the faults and the number of runs.
THEOREM RuntimeIsTyped == RuntimeSpec => []RuntimeTypeOK
<1>1. ASSUME RuntimeInv(Cs), HistoryInv(Cs), TypesInv PROVE RuntimeTypeOK
  <2> USE <1>1 DEF RuntimeInv
  <2>1. LeaseTypeOK /\ lastID \in 0..MaxID
    BY RuntimeAssumption DEF LeasesOK, ThreadsOK, TypesInv
  <2>2. ASSUME NEW t \in Threads
        PROVE  threads[t].latestID \in 0..lastID /\ DOMAIN threads[t].history \subseteq 1..lastID
    BY DEF ThreadsOK, ThreadOK
  <2>3. ASSUME NEW r \in Runs PROVE RunTypeOK(run[r])
    <3> DEFINE x == run[r]
    <3> SUFFICES RunTypeOK(x)
      OBVIOUS
    <3>1. RunShape(x, Cs) /\ x.thread \in Threads /\ lastID \in Nat
      BY DEF RunsOK, RunShape, ThreadsOK
    <3>2. x.parent \in 0..lastID /\ x.expected \in 0..lastID
      BY <3>1 DEF RunsOK, RunShape
    <3>3. x.epoch \in 0..leases[x.thread].epoch
      BY <3>1 DEF LeasesOK, RunLease, Tied, RunShape, LeaseTypeOK, Lease
    <3>4. x.trace \in Seq(Nodes \cup {"update"})
      BY DEF HistoryInv, Updates
    <3>5. DOMAIN x.turns \subseteq Agents /\ \A a \in DOMAIN x.turns : x.turns[a] \in Nat
      BY DEF TypesInv, TurnsTyped
    <3>6. /\ DOMAIN x = RunFields /\ x.pc \in PCs /\ x.op \in {"none", "invoke", "resume"}
          /\ x.cmd \in Commands \cup {NoCommand} /\ x.ttl \in TTLs \cup {0}
          /\ x.hb \in BOOLEAN /\ x.cause \in {"none", "lost", "canceled"}
          /\ x.node \in Nodes \cup {END} /\ x.step \in Nat /\ x.approved \in BOOLEAN
          /\ x.pend.node \in Nodes \cup {END} /\ x.pend.interrupt \in BOOLEAN
          /\ x.outcome \in Outcomes
      BY <3>1 DEF RunShape, Cs
    <3> HIDE DEF x
    <3> QED
      BY <3>1, <3>2, <3>3, <3>4, <3>5, <3>6 DEF RunTypeOK
  <2> QED
    BY <2>1, <2>2, <2>3 DEF RuntimeTypeOK
<1> QED
  BY <1>1, HistoryInvariant, TypesInvariant, PTL

-----------------------------------------------------------------------------
(* How many turns an agent has taken. *)

\* No node has an agent that takes a turn before it interrupts.
NoEarlyTurns == \A n \in Nodes : BeforeGate[n] = {}

\* What keeps the turns in step with the state: nobody answers an interrupt by
\* going elsewhere, or there is no turn that could be left behind at a gate.
NoTurnLeft(Cmds) == InPlace(Cmds) \/ NoEarlyTurns

\* A node gives a turn to each of its agents, and an update of a caller to none.
LEMMA TurnsByAppend ==
  ASSUME NEW Of, NEW a, NEW u \in Seq(Updates), NEW n \in Updates
  PROVE  /\ TurnsBy(Of, a, u) \in Nat
         /\ TurnsBy(Of, a, Append(u, n))
              = IF n \in Nodes /\ a \in Of[n] THEN TurnsBy(Of, a, u) + 1 ELSE TurnsBy(Of, a, u)
<1> DEFINE Gives(m) == m \in Nodes /\ a \in Of[m]
           S == {i \in DOMAIN u : Gives(u[i])}
           v == Append(u, n)
           T == {i \in DOMAIN v : Gives(v[i])}
           k == Len(u) + 1
<1>1. /\ DOMAIN u = 1..Len(u) /\ Len(u) \in Nat
      /\ DOMAIN v = 1..k /\ v[k] = n /\ \A i \in 1..Len(u) : v[i] = u[i]
  OBVIOUS
<1>2. IsFiniteSet(S) /\ Cardinality(S) \in Nat
  <2>1. IsFiniteSet(1..Len(u))
    <3>1. Len(u) \in Int /\ 1 \in Int
      BY <1>1
    <3> QED
      BY <3>1, FS_Interval
  <2>2. S \subseteq 1..Len(u)
    BY <1>1
  <2> QED
    BY <2>1, <2>2, FS_Subset, FS_CardinalityType
<1>3. T = IF Gives(n) THEN S \cup {k} ELSE S
  <2>1. \A i : i \in 1..k <=> i = k \/ i \in 1..Len(u)
    BY <1>1
  <2> HIDE DEF v, k
  <2>2. \A i : i \in T <=> (i = k \/ i \in 1..Len(u)) /\ Gives(v[i])
    BY <1>1, <2>1
  <2>3. \A i : i \in S <=> i \in 1..Len(u) /\ Gives(v[i])
    BY <1>1
  <2>4. Gives(v[k]) <=> Gives(n)
    BY <1>1
  <2> HIDE DEF S, T, Gives
  <2> QED
    BY <2>2, <2>3, <2>4
<1>4. k \notin S
  BY <1>1
<1>5. Cardinality(T) = IF Gives(n) THEN Cardinality(S) + 1 ELSE Cardinality(S)
  <2> HIDE DEF S, T, Gives
  <2> QED
    BY <1>2, <1>3, <1>4, FS_AddElement
<1> QED
  BY <1>2, <1>5 DEF TurnsBy

\* No node has been applied to the state of a fresh thread.
LEMMA TurnsOfFresh ==
  ASSUME NEW a
  PROVE  TurnsAt(a, Fresh) = 0
<1>1. ASSUME NEW Of PROVE TurnsBy(Of, a, <<>>) = 0
  <2>1. {i \in DOMAIN <<>> : <<>>[i] \in Nodes /\ a \in Of[<<>>[i]]} = {}
    OBVIOUS
  <2> QED
    BY <2>1, FS_EmptySet DEF TurnsBy
<1>2. TurnsBy(AgentsOf, a, <<>>) = 0 /\ TurnsBy(BeforeGate, a, <<>>) = 0
  BY <1>1
<1>3. Fresh.trace = <<>> /\ ~Fresh.interrupt
  BY DEF Fresh
<1> QED
  BY <1>2, <1>3 DEF TurnsAt

\* The sessions of a checkpoint are those its state says.
SessionsMatch(th, c) ==
    \A a \in Agents :
        LET turns == TurnsAt(a, th.history[c].body)
        IN  IF turns = 0 THEN ~HasSession(th, c, a)
            ELSE HasSession(th, c, a) /\ AgentSession(th, c, a) = turns

\* The agents of n that take a turn in it, up to its interrupt or to its end.
Taking(n, b) == IF b.interrupt THEN BeforeGate[n] ELSE AgentsOf[n]

\* The body b is that of a step in node n from a checkpoint with the body p, and
\* turns are those taken in it.
StepTurns(p, b, turns, n, u) ==
    /\ u \in {p.trace, Append(p.trace, "update")}
    /\ IF b.interrupt
       THEN b.node = n /\ b.trace = u /\ ~p.interrupt
       ELSE /\ b.trace = Append(u, n)
            /\ n \in Gated => p.interrupt
            /\ p.interrupt => n = p.node \/ NoEarlyTurns
    /\ turns = [a \in Taking(n, b) |-> TurnsAt(a, p) + 1]

\* The turns that go with the work of a run: those of its parent while the node
\* runs, one more of the agents that have taken theirs when it has returned.
TurnsOK(x, th) ==
    LET p == Base(th, x.parent) IN
    /\ x.pc = "node" => x.turns = [a \in AgentsOf[x.node] |-> TurnsAt(a, p)]
    /\ x.pc \in {"persist", "commit"} =>
         \E n \in Nodes, u \in Patches(th, x.parent) :
            StepTurns(p, SnapBody(x), x.turns, n, u)

SessionInv ==
    /\ \A t \in Threads : ~LatestOnly(t) =>
         /\ ThreadSessionsOld(threads[t])
         /\ \A c \in DOMAIN threads[t].history : SessionsMatch(threads[t], c)
    /\ \A r \in Runs :
         (~LatestOnly(run[r].thread) /\ Kept(ThreadOf(r), run[r].parent))
            => TurnsOK(run[r], ThreadOf(r))

\* The turns of the checkpoint a run starts from are those of its sessions.
LEMMA TurnsOfBase ==
  ASSUME NEW th, NEW id, NEW a \in Agents, ThreadInv(th), Kept(th, id),
         Base(th, id).trace \in Seq(Updates),
         id # NoID => SessionsMatch(th, id)
  PROVE  LET k == TurnsAt(a, Base(th, id)) IN
         /\ k \in Nat
         /\ k = IF HasSession(th, id, a) THEN AgentSession(th, id, a) ELSE 0
         /\ HasSession(th, id, a) => k > 0
<1>1. TurnsAt(a, Base(th, id)) \in Nat
  <2> PICK b : b = Base(th, id)
    OBVIOUS
  <2>1. "update" \in Updates
    BY DEF Updates
  <2>2. TurnsBy(AgentsOf, a, b.trace) \in Nat /\ TurnsBy(BeforeGate, a, b.trace) \in Nat
    BY <2>1, TurnsByAppend
  <2>3. TurnsAt(a, b) \in Nat
    BY <2>2 DEF TurnsAt
  <2> QED
    BY <2>3
<1>2. CASE id = NoID
  <2>1. TurnsAt(a, Base(th, id)) = 0
    BY <1>2, TurnsOfFresh DEF Base
  <2>2. ~HasSession(th, id, a)
    BY <1>2 DEF HasSession, ThreadInv, ThreadShape, ThreadSessionsReferenced
  <2> QED
    BY <2>1, <2>2
<1>3. CASE id # NoID
  <2>1. Base(th, id) = th.history[id].body
    BY <1>3 DEF Base
  <2> QED
    BY <1>1, <1>3, <2>1 DEF SessionsMatch
<1> QED
  BY <1>2, <1>3

\* A step adds a turn of the agents that take one in it, and no other: the turn
\* that went with the interrupt counts as that of the node before its gate once
\* the node has passed it.
LEMMA TurnsOfStep ==
  ASSUME NEW a, NEW p, NEW b, NEW turns, NEW n \in Nodes, NEW u,
         p.trace \in Seq(Updates), p.interrupt => p.node \in Nodes,
         StepTurns(p, b, turns, n, u)
  PROVE  TurnsAt(a, b) = TurnsAt(a, p) + (IF a \in Taking(n, b) THEN 1 ELSE 0)
<1> DEFINE G(tr) == TurnsBy(AgentsOf, a, tr)
           E(tr) == TurnsBy(BeforeGate, a, tr)
<1>1. "update" \in Updates /\ "update" \notin Nodes /\ n \in Updates
  BY RuntimeAssumption DEF Updates
<1>2. /\ u \in Seq(Updates) /\ G(u) = G(p.trace) /\ E(u) = E(p.trace)
      /\ G(u) \in Nat /\ E(u) \in Nat
  <2> PICK tr \in Seq(Updates) : tr = p.trace
    OBVIOUS
  <2>1. u = tr \/ u = Append(tr, "update")
    BY DEF StepTurns
  <2>2. Append(tr, "update") \in Seq(Updates)
    BY <1>1
  <2>3. /\ G(tr) \in Nat /\ G(Append(tr, "update")) = G(tr)
        /\ E(tr) \in Nat /\ E(Append(tr, "update")) = E(tr)
    BY <1>1, TurnsByAppend
  <2> HIDE DEF G, E
  <2> QED
    BY <2>1, <2>2, <2>3
<1>3. CASE b.interrupt
  <2>1. b.node = n /\ b.trace = u /\ ~p.interrupt
    BY <1>3 DEF StepTurns
  <2> HIDE DEF G, E
  <2>2. /\ TurnsAt(a, b) = G(u) + E(u) + (IF a \in BeforeGate[n] THEN 1 ELSE 0)
        /\ TurnsAt(a, p) = G(u) + E(u)
    BY <1>2, <1>3, <2>1 DEF TurnsAt, G, E
  <2>3. Taking(n, b) = BeforeGate[n]
    BY <1>3 DEF Taking
  <2> QED
    BY <1>2, <2>2, <2>3
<1>4. CASE ~b.interrupt
  <2>1. /\ b.trace = Append(u, n)
        /\ n \in Gated => p.interrupt
        /\ p.interrupt => n = p.node \/ NoEarlyTurns
    BY <1>4 DEF StepTurns
  <2>2. /\ G(b.trace) = IF a \in AgentsOf[n] THEN G(u) + 1 ELSE G(u)
        /\ E(b.trace) = IF a \in BeforeGate[n] THEN E(u) + 1 ELSE E(u)
    BY <1>1, <1>2, <2>1, TurnsByAppend
  <2>6. a \in BeforeGate[n] => a \in AgentsOf[n]
    BY RuntimeAssumption
  <2>3. a \in BeforeGate[n] <=> (p.interrupt /\ a \in BeforeGate[p.node])
    <3>1. n \notin Gated => a \notin BeforeGate[n]
      BY RuntimeAssumption
    <3> QED
      BY <2>1, <3>1 DEF NoEarlyTurns
  <2> HIDE DEF G, E
  <2>4. /\ TurnsAt(a, b) = G(b.trace) + E(b.trace)
        /\ TurnsAt(a, p) = G(u) + E(u) + (IF a \in BeforeGate[n] THEN 1 ELSE 0)
    <3>1. /\ TurnsAt(a, b) = G(b.trace) + E(b.trace) + 0
          /\ TurnsAt(a, p) = G(u) + E(u) + (IF a \in BeforeGate[n] THEN 1 ELSE 0)
      BY <1>2, <1>4, <2>3 DEF TurnsAt, G, E
    <3>2. G(b.trace) \in Nat /\ E(b.trace) \in Nat
      BY <1>2, <2>2
    <3> QED
      BY <3>1, <3>2
  <2>5. Taking(n, b) = AgentsOf[n]
    BY <1>4 DEF Taking
  <2> DEFINE kb == TurnsAt(a, b)
             kp == TurnsAt(a, p)
             gb == G(b.trace)
             eb == E(b.trace)
             gu == G(u)
             eu == E(u)
             Early == a \in BeforeGate[n]
             Gives == a \in AgentsOf[n]
  <2>7. kb = gb + eb /\ kp = gu + eu + (IF Early THEN 1 ELSE 0)
    BY <2>4
  <2>8. kb = kp + (IF Gives THEN 1 ELSE 0)
    <3>1. gb = IF Gives THEN gu + 1 ELSE gu
      BY <2>2
    <3>2. eb = IF Early THEN eu + 1 ELSE eu
      BY <2>2
    <3>3. gu \in Nat /\ eu \in Nat
      BY <1>2
    <3> HIDE DEF kb, kp, gb, eb, gu, eu, Early, Gives
    <3> QED
      BY <2>7, <3>1, <3>2, <3>3
  <2> QED
    BY <2>5, <2>8
<1> QED
  BY <1>3, <1>4

\* A commit keeps the sessions in step with the state: the artifacts give a turn
\* to the agents that took one, the others keep their parent's.
LEMMA CommitMatches ==
  ASSUME NEW th, NEW snap, NEW arts, ThreadInv(th), ThreadSessionsOld(th),
         CanAppend(th, snap), snap.id \in Nat \ {NoID}, snap.parent < snap.id,
         Base(th, snap.parent).trace \in Seq(Updates),
         Base(th, snap.parent).interrupt => Base(th, snap.parent).node \in Nodes,
         snap.parent # NoID => SessionsMatch(th, snap.parent),
         NEW n \in Nodes, NEW u,
         StepTurns(Base(th, snap.parent), snap.body, arts, n, u)
  PROVE  SessionsMatch(Appended(th, snap, arts), snap.id)
<1> DEFINE new == Appended(th, snap, arts)
           c == snap.id
           p == snap.parent
           b == Base(th, p)
<1>1. new.history[c].body = snap.body
  BY DEF Appended
<1>2. Kept(th, p)
  BY DEF CanAppend, Kept, ThreadInv, ThreadLatestIsNewest
<1> SUFFICES ASSUME NEW a \in Agents
             PROVE  LET k == TurnsAt(a, snap.body)
                    IN  IF k = 0 THEN ~HasSession(new, c, a)
                        ELSE HasSession(new, c, a) /\ AgentSession(new, c, a) = k
  BY <1>1 DEF SessionsMatch
<1>4. /\ TurnsAt(a, b) \in Nat
      /\ TurnsAt(a, b) = IF HasSession(th, p, a) THEN AgentSession(th, p, a) ELSE 0
      /\ HasSession(th, p, a) => TurnsAt(a, b) > 0
  BY <1>2, TurnsOfBase
<1>5. /\ a \in DOMAIN arts =>
           HasSession(new, c, a) /\ AgentSession(new, c, a) = arts[a]
      /\ a \notin DOMAIN arts =>
           /\ HasSession(new, c, a) <=> HasSession(th, p, a)
           /\ HasSession(th, p, a) => AgentSession(new, c, a) = AgentSession(th, p, a)
  BY AppendSession
<1>6. IF a \in DOMAIN arts
      THEN TurnsAt(a, snap.body) = TurnsAt(a, b) + 1 /\ arts[a] = TurnsAt(a, b) + 1
      ELSE TurnsAt(a, snap.body) = TurnsAt(a, b)
  <2>1. TurnsAt(a, snap.body) = TurnsAt(a, b) + (IF a \in Taking(n, snap.body) THEN 1 ELSE 0)
    BY TurnsOfStep
  <2>2. arts = [d \in Taking(n, snap.body) |-> TurnsAt(d, b) + 1]
    BY DEF StepTurns
  <2> HIDE DEF b
  <2> QED
    BY <1>4, <2>1, <2>2
<1> HIDE DEF new, c, p, b
<1> QED
  BY <1>4, <1>5, <1>6

\* The turns of a run go with its work after every step.
LEMMA TurnsStep ==
  ASSUME RuntimeInv(Cs), WorkInv(Cs), HistoryInv(Cs), SessionInv, RuntimeNext, NEW r \in Runs,
         NoTurnLeft(Cs), ~LatestOnly(run'[r].thread), Kept(threads'[run'[r].thread], run'[r].parent)
  PROVE  TurnsOK(run'[r], threads'[run'[r].thread])
<1> DEFINE x == run[r]
           y == run'[r]
<1> USE DEF RuntimeInv
<1> PICK t \in Threads : t = x.thread
  BY DEF RunsOK, RunShape
<1>1. /\ RunShape(x, Cs) /\ x.parent \in 0..lastID /\ WorkOK(x, threads[t], Cs)
      /\ AnyStep(Cs) /\ Cs \subseteq Command /\ NoCommand \in Cs /\ ThreadOK(t)
  BY RuntimeNextIsAnyStep, CommandsAreTyped
     DEF WorkInv, RunsOK, RunShape, ThreadOf, ThreadsOK
<1>2. ASSUME y.thread = x.thread, y.parent = x.parent
      PROVE  /\ ~LatestOnly(t) /\ Kept(threads[t], x.parent)
             /\ Base(threads'[y.thread], y.parent) = Base(threads[t], x.parent)
             /\ Patches(threads'[y.thread], y.parent) = Patches(threads[t], x.parent)
             /\ TurnsOK(x, threads[t])
  <2>1. ~LatestOnly(t) /\ Kept(threads'[t], x.parent)
    BY <1>2
  <2>2. Kept(threads[t], x.parent) /\ Base(threads'[t], x.parent) = Base(threads[t], x.parent)
    BY <1>1, <2>1, PastStays
  <2> QED
    BY <1>2, <2>1, <2>2 DEF Patches, SessionInv, ThreadOf
<1>3. ASSUME y.thread = x.thread, SameWork(x, y), SameStep(x, y),
             y.pc = x.pc \/ (x.pc = "persist" /\ y.pc = "commit")
      PROVE  TurnsOK(y, threads'[y.thread])
  <2>1. TurnsOK(x, threads[t])
        /\ Base(threads'[y.thread], y.parent) = Base(threads[t], x.parent)
        /\ Patches(threads'[y.thread], y.parent) = Patches(threads[t], x.parent)
    BY <1>2, <1>3 DEF SameWork
  <2>2. /\ y.node = x.node /\ y.turns = x.turns /\ SnapBody(y) = SnapBody(x)
        /\ y.pc = "node" => x.pc = "node"
        /\ y.pc \in {"persist", "commit"} => x.pc \in {"persist", "commit"}
    BY <1>3 DEF SameWork, SameStep, SnapBody
  <2> SUFFICES TurnsOK(y, threads'[y.thread])
    OBVIOUS
  <2> HIDE DEF x, y
  <2>3. y.pc = "node" => y.turns = [a \in AgentsOf[y.node] |->
                                       TurnsAt(a, Base(threads'[y.thread], y.parent))]
    BY <2>1, <2>2 DEF TurnsOK
  <2>4. ASSUME y.pc \in {"persist", "commit"}
        PROVE  \E n \in Nodes, u \in Patches(threads'[y.thread], y.parent) :
                 StepTurns(Base(threads'[y.thread], y.parent), SnapBody(y), y.turns, n, u)
    BY <2>1, <2>2, <2>4 DEF TurnsOK
  <2> QED
    BY <2>3, <2>4 DEF TurnsOK
<1>4. ASSUME y.pc \notin {"node", "persist", "commit"}
      PROVE  TurnsOK(y, threads'[y.thread])
  BY <1>4 DEF TurnsOK
<1>5. CASE BodyMove(r)
  <2>1. y.thread = x.thread /\ Advances(r, x, y)
    BY <1>1, <1>5, BodyAdvances, BodyMoveEffect DEF BodyEffect, CallKept
  <2>3. ASSUME EntersNode(r, x, y) PROVE TurnsOK(y, threads'[y.thread])
    <3>1. /\ y.parent = x.parent /\ y.node = x.node /\ y.pc = "node"
          /\ y.turns = Turns(r) /\ x.node \in Nodes
      BY <1>1, <2>3 DEF EntersNode, SameWork, RunShape
    <3>2. /\ Kept(threads[t], x.parent) /\ ThreadInv(threads[t])
          /\ x.parent # NoID => SessionsMatch(threads[t], x.parent)
          /\ Base(threads'[y.thread], y.parent) = Base(threads[t], x.parent)
      BY <1>1, <1>2, <2>1, <3>1 DEF ThreadOK, SessionInv, Kept
    <3>3. Base(threads[t], x.parent).trace \in Seq(Updates)
      BY <3>2 DEF Base, Fresh, Kept, HistoryInv, BodyTyped
    <3>4. \A a \in AgentsOf[x.node] :
            TurnsAt(a, Base(threads[t], x.parent))
              = IF HasSession(threads[t], x.parent, a)
                THEN AgentSession(threads[t], x.parent, a) ELSE 0
      <4>1. AgentsOf[x.node] \subseteq Agents
        BY <3>1, RuntimeAssumption
      <4> QED
        BY <3>2, <3>3, <4>1, TurnsOfBase
    <3>5. Turns(r) = [a \in AgentsOf[x.node] |-> TurnsAt(a, Base(threads[t], x.parent))]
      BY <3>4 DEF Turns, ThreadOf
    <3> QED
      BY <3>1, <3>2, <3>5 DEF TurnsOK
  <2>4. ASSUME Pauses(r, x, y) \/ Routed(r, x, y) PROVE TurnsOK(y, threads'[y.thread])
    <3> DEFINE p == Base(threads[t], x.parent)
               b == SnapBody(y)
    <3>1. /\ y.pc = "persist" /\ y.parent = x.parent /\ x.pc = "node" /\ x.node \in Nodes
          /\ x.approved \in BOOLEAN
      BY <1>1, <2>4 DEF Pauses, Routed, SameWork, RunShape
    <3>2. /\ StartedFrom(x, threads[t], Cs)
          /\ Base(threads'[y.thread], y.parent) = p
          /\ Patches(threads'[y.thread], y.parent) = Patches(threads[t], x.parent)
          /\ x.turns = [a \in AgentsOf[x.node] |-> TurnsAt(a, p)]
      BY <1>1, <1>2, <2>1, <3>1 DEF WorkOK, TurnsOK
    <3>3. x.trace \in {p.trace, Append(p.trace, "update")}
      BY <3>2 DEF StartedFrom, Patches, Base, Fresh
    <3>4. /\ x.approved <=> p.interrupt
          /\ x.approved => x.node = p.node \/ NoEarlyTurns
      BY <3>2 DEF StartedFrom, NoTurnLeft
    <3>5. /\ b.interrupt <=> y.pend.interrupt
          /\ b.trace = y.trace /\ b.node = y.pend.node
      BY DEF SnapBody
    <3>6. IF b.interrupt
          THEN b.node = x.node /\ b.trace = x.trace /\ ~p.interrupt
          ELSE /\ b.trace = Append(x.trace, x.node)
               /\ x.node \in Gated => p.interrupt
               /\ p.interrupt => x.node = p.node \/ NoEarlyTurns
      <4>1. CASE Pauses(r, x, y)
        BY <4>1, <3>1, <3>4, <3>5 DEF Pauses, AtGate, SameWork
      <4>2. CASE Routed(r, x, y)
        <5>1. ~y.pend.interrupt /\ y.trace = Append(x.trace, x.node)
          BY <4>2, <3>1, NodeIsLeft DEF Routed
        <5> QED
          BY <4>2, <5>1, <3>1, <3>4, <3>5 DEF Routed, AtGate
      <4> QED
        BY <2>4, <4>1, <4>2
    <3>7. y.turns = TurnsTaken(x.turns, Taking(x.node, b))
      BY <3>1, <3>5, NodeIsLeft DEF Taking
    <3>8. Taking(x.node, b) \subseteq AgentsOf[x.node]
      BY <3>1, RuntimeAssumption DEF Taking
    <3> HIDE DEF p, b, x, y
    <3>9. y.turns = [a \in Taking(x.node, b) |-> TurnsAt(a, p) + 1]
      BY <3>2, <3>7, <3>8 DEF TurnsTaken
    <3>10. StepTurns(p, b, y.turns, x.node, x.trace)
      BY <3>3, <3>6, <3>9 DEF StepTurns
    <3>11. x.trace \in Patches(threads[t], x.parent)
      BY <3>2 DEF StartedFrom
    <3> QED
      BY <3>1, <3>2, <3>10, <3>11 DEF TurnsOK, b
  <2> QED
    BY <1>3, <1>4, <2>1, <2>3, <2>4 DEF Advances, Leaves, Stays, BeginsFresh,
       BeginsAtLatest, GoesToCommit, Commits
<1>6. CASE OutsideMove(r, Cs)
  <2>1. Waits(x, y)
    BY <1>1, <1>6, OutsideWaits
  <2> QED
    BY <1>3, <1>4, <2>1 DEF Waits, Stays
<1>7. CASE y = x
  BY <1>3, <1>7 DEF SameWork, SameStep
<1> QED
  BY <1>1, <1>5, <1>6, <1>7, StepOf

\* A checkpoint is the one it was, and so are its sessions.
SameCheckpoint(th, new, c) ==
    /\ c \in DOMAIN th.history /\ new.history[c] = th.history[c]
    /\ \A a : /\ HasSession(new, c, a) <=> HasSession(th, c, a)
              /\ HasSession(th, c, a) => AgentSession(new, c, a) = AgentSession(th, c, a)

\* It is the one s commits.
NewCheckpoint(s, t, c) ==
    /\ At(s, "commit") /\ run[s].thread = t
    /\ c = Snap(s).id /\ Snap(s).id \in Nat \ {NoID} /\ Snap(s).parent < Snap(s).id
    /\ CanAppend(threads[t], Snap(s))
    /\ threads'[t] = Appended(threads[t], Snap(s), run[s].turns)

\* A step adds the sessions of one commit at most, and those of the checkpoints
\* that it leaves stay what they were.
LEMMA SessionsStay ==
  ASSUME NEW Cmds, Cmds \subseteq Command, NoCommand \in Cmds,
         RuntimeInv(Cmds), AnyStep(Cmds),
         NEW t \in Threads, ~LatestOnly(t), ThreadSessionsOld(threads[t])
  PROVE  /\ ThreadSessionsOld(threads'[t])
         /\ \A c \in DOMAIN threads'[t].history :
              \/ SameCheckpoint(threads[t], threads'[t], c)
              \/ \E s \in Runs : NewCheckpoint(s, t, c)
<1> USE DEF RuntimeInv
<1> DEFINE th == threads[t]
           new == threads'[t]
           Stay(h) == /\ ThreadSessionsOld(h)
                      /\ \A c \in DOMAIN h.history :
                           SameCheckpoint(th, h, c) \/ \E s \in Runs : NewCheckpoint(s, t, c)
<1>1. /\ ThreadsOK /\ lastID \in Nat /\ ThreadInv(th) /\ ThreadInv(new)
  <2>1. ThreadsOK'
    BY ThreadsStep
  <2> QED
    BY <2>1 DEF ThreadsOK, ThreadOK, LatestOnly
<1>2. ASSUME new = th PROVE Stay(new)
  BY <1>2 DEF SameCheckpoint
<1>3. ASSUME NEW c \in DOMAIN th.history, c \in DOMAIN new.history,
             new.history[c] = th.history[c], new.refs[c] = th.refs[c],
             \A a \in DOMAIN th.refs[c] : AgentSession(new, c, a) = AgentSession(th, c, a)
      PROVE  SameCheckpoint(th, new, c)
  <2>1. \A a : /\ HasSession(th, c, a) <=> a \in DOMAIN th.refs[c]
               /\ HasSession(new, c, a) <=> a \in DOMAIN th.refs[c]
    BY <1>1, <1>3, SessionsAreThere
  <2> HIDE DEF th, new
  <2> QED
    BY <1>3, <2>1 DEF SameCheckpoint
<1>4. ASSUME NEW r \in Runs, At(r, "commit"), AppendsSnap(r) PROVE Stay(new)
  <2>1. run[r].thread \in Threads
    BY DEF RunsOK, RunShape
  <2>2. CASE run[r].thread # t
    BY <1>1, <1>2, <1>4, <2>1, <2>2, AppendEffect
  <2>3. CASE run[r].thread = t
    <3> DEFINE snap == Snap(r)
               arts == run[r].turns
    <3>1. /\ CanAppend(th, snap) /\ new = Appended(th, snap, arts)
          /\ DOMAIN new.history = DOMAIN th.history \cup {snap.id}
      BY <1>1, <1>4, <2>3, AppendEffect DEF Artifacts, Snap
    <3>2. snap.id \in Nat \ {NoID} /\ snap.parent < snap.id
      BY <1>1 DEF Snap, RunsOK, RunShape, NoID
    <3>3. ThreadSessionsOld(new)
      BY <1>1, <3>1, <3>2, AppendKeepsOld
    <3>4. ASSUME NEW c \in DOMAIN th.history PROVE SameCheckpoint(th, new, c)
      <4>1. /\ new.history[c] = th.history[c] /\ new.refs[c] = th.refs[c]
            /\ \A a \in DOMAIN th.refs[c] : AgentSession(new, c, a) = AgentSession(th, c, a)
        BY <1>1, <3>1, <3>2, AppendKeepsCheckpoints
      <4> QED
        BY <1>3, <3>1, <4>1
    <3>5. NewCheckpoint(r, t, snap.id)
      BY <1>4, <2>3, <3>1, <3>2 DEF NewCheckpoint
    <3> QED
      BY <3>1, <3>3, <3>4, <3>5
  <2> QED
    BY <2>2, <2>3
<1>5. ASSUME NEW u \in Threads, NEW k \in Nat, Prune(u, k) PROVE Stay(new)
  <2>1. CASE u # t
    BY <1>1, <1>2, <1>5, <2>1, PruneEffect
  <2>2. CASE u = t
    <3>1. /\ new = Pruned(th, k) /\ new.latestID = th.latestID
          /\ DOMAIN new.history = Newest(th, k)
          /\ DOMAIN new.history \subseteq DOMAIN th.history
      BY <1>1, <1>5, <2>2, PruneEffect
    <3>2. DOMAIN new.sessions \subseteq DOMAIN th.sessions
      BY <3>1 DEF Pruned, Restrict
    <3>3. ThreadSessionsOld(new)
      BY <1>1, <3>1, <3>2 DEF ThreadSessionsOld
    <3>4. ASSUME NEW c \in DOMAIN new.history PROVE SameCheckpoint(th, new, c)
      <4>1. /\ new.history[c] = th.history[c] /\ new.refs[c] = th.refs[c]
            /\ \A a \in DOMAIN th.refs[c] : AgentSession(new, c, a) = AgentSession(th, c, a)
        BY <1>1, <3>1, PruneKeepsCheckpoints
      <4> QED
        BY <1>3, <3>1, <4>1
    <3> QED
      BY <3>3, <3>4
  <2> QED
    BY <2>1, <2>2
<1>6. ASSUME NEW u \in Threads, DeleteThread(u) PROVE Stay(new)
  <2>1. threads' = [threads EXCEPT ![u] = EmptyThread] /\ DOMAIN threads = Threads
    BY <1>1, <1>6 DEF DeleteThread, ThreadsOK
  <2>2. CASE u # t
    BY <1>2, <2>1, <2>2
  <2>3. CASE u = t
    <3>1. new = EmptyThread /\ DOMAIN new.history = {} /\ DOMAIN new.sessions = {}
      BY <2>1, <2>3 DEF EmptyThread, NoEntries
    <3> QED
      BY <3>1 DEF ThreadSessionsOld
  <2> QED
    BY <2>2, <2>3
<1>7. ASSUME UNCHANGED threads PROVE Stay(new)
  BY <1>2, <1>7
<1> QED
  BY <1>4, <1>5, <1>6, <1>7, StoreStep

\* A thread that keeps its history has its sessions in step after any step.
LEMMA SessionsStep ==
  ASSUME RuntimeInv(Cs), WorkInv(Cs), HistoryInv(Cs), SessionInv, RuntimeNext,
         NEW t \in Threads, ~LatestOnly(t)
  PROVE  /\ ThreadSessionsOld(threads'[t])
         /\ \A c \in DOMAIN threads'[t].history : SessionsMatch(threads'[t], c)
<1> DEFINE th == threads[t]
           new == threads'[t]
<1>1. /\ AnyStep(Cs) /\ Cs \subseteq Command /\ NoCommand \in Cs /\ ThreadInv(th)
      /\ ThreadSessionsOld(th) /\ \A c \in DOMAIN th.history : SessionsMatch(th, c)
  BY RuntimeNextIsAnyStep, CommandsAreTyped
     DEF RuntimeInv, ThreadsOK, ThreadOK, LatestOnly, SessionInv
<1>2. /\ ThreadSessionsOld(new)
      /\ \A c \in DOMAIN new.history : \/ SameCheckpoint(th, new, c)
                                       \/ \E s \in Runs : NewCheckpoint(s, t, c)
  BY <1>1, SessionsStay
<1>3. ASSUME NEW c, SameCheckpoint(th, new, c) PROVE SessionsMatch(new, c)
  <2>1. SessionsMatch(th, c)
    BY <1>1, <1>3 DEF SameCheckpoint
  <2> HIDE DEF th, new
  <2> QED
    BY <1>3, <2>1 DEF SessionsMatch, SameCheckpoint
<1>4. ASSUME NEW r \in Runs, NEW c, NewCheckpoint(r, t, c) PROVE SessionsMatch(new, c)
  <2> DEFINE snap == Snap(r)
             arts == run[r].turns
  <2>1. /\ CanAppend(th, snap) /\ new = Appended(th, snap, arts) /\ run[r].thread = t
        /\ c = snap.id /\ snap.id \in Nat \ {NoID} /\ snap.parent < snap.id
    BY <1>4 DEF NewCheckpoint
  <2>2. snap.parent = run[r].parent /\ snap.body = SnapBody(run[r])
    BY DEF Snap, SnapBody
  <2>3. Kept(th, run[r].parent)
    BY <1>1, <2>1, <2>2 DEF CanAppend, Kept, ThreadInv, ThreadLatestIsNewest
  <2>4. TurnsOK(run[r], th)
    BY <2>1, <2>3 DEF SessionInv, ThreadOf
  <2>5. PICK n \in Nodes, u \in Patches(th, run[r].parent) :
          StepTurns(Base(th, run[r].parent), SnapBody(run[r]), run[r].turns, n, u)
    BY <1>4, <2>4 DEF TurnsOK, At, NewCheckpoint
  <2>6. /\ Base(th, run[r].parent).trace \in Seq(Updates)
        /\ Base(th, run[r].parent).interrupt => Base(th, run[r].parent).node \in Nodes
    BY <2>3, RuntimeAssumption
       DEF Base, Fresh, Kept, HistoryInv, BodyTyped, WorkInv, PausedAtGate, Body, History
  <2>7. run[r].parent # NoID => SessionsMatch(th, run[r].parent)
    BY <1>1, <2>3 DEF Kept
  <2> HIDE DEF snap, arts, th, new
  <2>9. SessionsMatch(Appended(th, snap, arts), snap.id)
    BY <1>1, <2>1, <2>2, <2>5, <2>6, <2>7, CommitMatches DEF arts
  <2> QED
    BY <2>1, <2>9
<1> QED
  BY <1>2, <1>3, <1>4

\* The sessions of a thread and the turns of its runs stay in step.
THEOREM SessionInvariant ==
  ASSUME NoTurnLeft(Cs)
  PROVE  RuntimeSpec => []SessionInv
<1>1. RuntimeInit => SessionInv
  <2> SUFFICES ASSUME RuntimeInit PROVE SessionInv
    OBVIOUS
  <2>1. PICK u \in Threads : \A r \in Runs : run[r] = Idle(u)
    BY RuntimeAssumption DEF RuntimeInit
  <2>2. /\ DOMAIN EmptyThread.history = {} /\ DOMAIN EmptyThread.sessions = {}
        /\ Idle(u).pc = "idle"
    BY DEF NoEntries, Idle, EmptyThread
  <2>3. \A t \in Threads : threads[t] = EmptyThread
    BY DEF RuntimeInit
  <2> HIDE DEF RuntimeInit
  <2> QED
    BY <2>1, <2>2, <2>3 DEF SessionInv, ThreadSessionsOld, TurnsOK
<1>2. ASSUME RuntimeInv(Cs), WorkInv(Cs), HistoryInv(Cs), SessionInv, RuntimeNext
      PROVE  SessionInv'
  BY <1>2, SessionsStep, TurnsStep DEF SessionInv, ThreadOf
<1>3. SessionInv /\ UNCHANGED vars => SessionInv'
  BY DEF vars, SessionInv, ThreadOf
<1> QED
  BY <1>1, <1>2, <1>3, HistoryInvariant, PTL DEF RuntimeSpec

\* An agent's session has exactly the turns that the nodes in the state gave it,
\* with those taken before a gate that was passed or is waited at, if nobody
\* answers an interrupt by going elsewhere, or no turn is taken before a gate.
THEOREM SessionsMatchTheHistory ==
  ASSUME NoTurnLeft(Commands)
  PROVE  RuntimeSpec => []SessionMatchesHistory
<1>0. NoTurnLeft(Cs)
  BY DEF NoTurnLeft, InPlace, Cs, NoCommand
<1>1. SessionInv => SessionMatchesHistory
  BY DEF SessionInv, SessionsMatch, SessionMatchesHistory, DurableThreads, History, Body
<1> QED
  BY <1>0, <1>1, SessionInvariant, PTL

-----------------------------------------------------------------------------
(* Induction over the natural numbers, for a set instead of a predicate. *)

\* A set that has 0 and with n always n + 1 has every number: among the
\* intervals 0..n of the numbers it lacks, none is smallest.
LEMMA NatSetInduction ==
  ASSUME NEW S, 0 \in S, \A n \in Nat : n \in S => n + 1 \in S
  PROVE  \A n \in Nat : n \in S
<1> DEFINE T == {0..n : n \in Nat \ S}
           R == StrictSubsetOrdering(Nat)
<1>1. SUFFICES ASSUME T # {} PROVE FALSE
  OBVIOUS
<1>2. PICK x \in T : \A y \in T : ~(<<y, x>> \in R)
  <2>1. IsWellFoundedOn(R, FiniteSubsetsOf(Nat))
    BY FS_StrictSubsetOrderingWellFounded
  <2>2. T \subseteq FiniteSubsetsOf(Nat)
    <3>1. ASSUME NEW n \in Nat PROVE IsFiniteSet(0..n) /\ 0..n \subseteq Nat
      <4>1. 0 \in Int /\ n \in Int
        OBVIOUS
      <4>2. IsFiniteSet(0..n)
        BY <4>1, FS_Interval
      <4> QED
        BY <4>2
    <3> QED
      BY <3>1 DEF FiniteSubsetsOf
  <2> HIDE DEF T, R
  <2> QED
    BY <1>1, <2>1, <2>2, WFMin
<1>3. PICK n \in Nat \ S : x = 0..n
  OBVIOUS
<1>4. n - 1 \in Nat \ S
  OBVIOUS
<1>5. 0..(n - 1) \in T
  BY <1>4
<1>6. /\ 0..(n - 1) \subseteq 0..n /\ 0..(n - 1) # 0..n
      /\ 0..(n - 1) \in SUBSET Nat /\ 0..n \in SUBSET Nat
  <2>1. n \in 0..n /\ n \notin 0..(n - 1)
    BY <1>3
  <2> QED
    BY <1>3, <2>1
<1>7. <<0..(n - 1), x>> \in R
  BY <1>3, <1>6 DEF StrictSubsetOrdering
<1> QED
  BY <1>2, <1>5, <1>7

-----------------------------------------------------------------------------
(* What WithoutPatches computes. *)

Drops(s, f, n) ==
    f = [i \in 0..n |-> IF i = 0 THEN <<>>
                        ELSE IF s[i] = "update" THEN f[i - 1] ELSE Append(f[i - 1], s[i])]

\* The recursion is well defined.
LEMMA DropsExists ==
  ASSUME NEW s
  PROVE  \A n \in Nat : \E f : Drops(s, f, n)
<1> DEFINE S == {n \in Nat : \E f : Drops(s, f, n)}
<1>1. 0 \in S
  <2>1. Drops(s, [i \in 0..0 |-> <<>>], 0)
    BY DEF Drops
  <2> QED
    BY <2>1
<1>2. ASSUME NEW n \in Nat, n \in S PROVE n + 1 \in S
  <2> PICK f : Drops(s, f, n)
    BY <1>2
  <2> DEFINE last == IF s[n + 1] = "update" THEN f[n] ELSE Append(f[n], s[n + 1])
             g == [i \in 0..(n + 1) |-> IF i = n + 1 THEN last ELSE f[i]]
  <2>1. \A i \in 0..n : f[i] = IF i = 0 THEN <<>>
                               ELSE IF s[i] = "update" THEN f[i - 1] ELSE Append(f[i - 1], s[i])
    BY DEF Drops
  <2>2. ASSUME NEW i \in 0..(n + 1)
        PROVE  g[i] = IF i = 0 THEN <<>>
                      ELSE IF s[i] = "update" THEN g[i - 1] ELSE Append(g[i - 1], s[i])
    <3>1. CASE i = n + 1
      <4>1. i # 0 /\ i - 1 = n /\ n \in 0..(n + 1) /\ n # n + 1
        BY <3>1
      <4>2. g[i] = last /\ g[i - 1] = f[n]
        BY <3>1, <4>1
      <4> QED
        BY <3>1, <4>1, <4>2
    <3>2. CASE i # n + 1
      <4>1. i \in 0..n /\ (i # 0 => i - 1 \in 0..(n + 1) /\ i - 1 # n + 1)
        BY <3>2
      <4>2. g[i] = f[i] /\ (i # 0 => g[i - 1] = f[i - 1])
        BY <3>2, <4>1
      <4> QED
        BY <2>1, <4>1, <4>2
    <3> QED
      BY <3>1, <3>2
  <2>3. g = [i \in 0..(n + 1) |-> g[i]]
    OBVIOUS
  <2> HIDE DEF g
  <2>4. Drops(s, g, n + 1)
    BY <2>2, <2>3 DEF Drops
  <2> QED
    BY <2>4
<1> HIDE DEF S
<1>3. \A n \in Nat : n \in S
  BY <1>1, <1>2, NatSetInduction
<1> QED
  BY <1>3 DEF S

\* It looks at the first elements only.
LEMMA DropsAgree ==
  ASSUME NEW s, NEW u, NEW f, NEW g, NEW n \in Nat, NEW m \in Nat, n <= m,
         Drops(s, f, n), Drops(u, g, m),
         \A i \in 1..n : s[i] = u[i]
  PROVE  \A i \in 0..n : f[i] = g[i]
<1> DEFINE S == {i \in Nat : i <= n => f[i] = g[i]}
<1>1. /\ \A i \in 0..n : f[i] = IF i = 0 THEN <<>>
                  ELSE IF s[i] = "update" THEN f[i - 1] ELSE Append(f[i - 1], s[i])
      /\ \A i \in 0..m : g[i] = IF i = 0 THEN <<>>
                  ELSE IF u[i] = "update" THEN g[i - 1] ELSE Append(g[i - 1], u[i])
  BY DEF Drops
<1>2. 0 \in S
  BY <1>1
<1>3. ASSUME NEW i \in Nat, i \in S, i + 1 <= n PROVE f[i + 1] = g[i + 1]
  <2>1. i + 1 \in 0..n /\ i + 1 \in 0..m /\ i + 1 \in 1..n /\ i + 1 # 0 /\ (i + 1) - 1 = i
    BY <1>3
  <2>2. f[i] = g[i] /\ s[i + 1] = u[i + 1]
    BY <1>3, <2>1
  <2> QED
    BY <1>1, <2>1, <2>2
<1>4. \A i \in Nat : i \in S => i + 1 \in S
  BY <1>3
<1> HIDE DEF S
<1>5. \A i \in Nat : i \in S
  BY <1>2, <1>4, NatSetInduction
<1> QED
  BY <1>5 DEF S

\* The definition is the recursion.
LEMMA WithoutPatchesDrops ==
  ASSUME NEW s, Len(s) \in Nat
  PROVE  \E f : Drops(s, f, Len(s)) /\ WithoutPatches(s) = f[Len(s)]
<1> DEFINE P(f) == f = [i \in 0..Len(s) |-> IF i = 0 THEN <<>>
                     ELSE IF s[i] = "update" THEN f[i - 1] ELSE Append(f[i - 1], s[i])]
           h == CHOOSE f : P(f)
<1>1. \E f : P(f)
  BY DropsExists DEF Drops
<1>2. P(h)
  BY <1>1
<1>3. WithoutPatches(s) = h[Len(s)]
  BY DEF WithoutPatches
<1> QED
  BY <1>2, <1>3 DEF Drops

\* A patch adds nothing, a node its name.
LEMMA WithoutPatchesOfAppend ==
  ASSUME NEW S, NEW s \in Seq(S), NEW e \in S
  PROVE  WithoutPatches(Append(s, e)) =
           IF e = "update" THEN WithoutPatches(s) ELSE Append(WithoutPatches(s), e)
<1> DEFINE u == Append(s, e)
           n == Len(s)
<1>1. n \in Nat /\ Len(u) = n + 1 /\ u[n + 1] = e /\ \A i \in 1..n : s[i] = u[i]
  OBVIOUS
<1> HIDE DEF u, n
<1>2. PICK f : Drops(s, f, n) /\ WithoutPatches(s) = f[n]
  BY <1>1, WithoutPatchesDrops DEF n
<1>3. PICK g : Drops(u, g, n + 1) /\ WithoutPatches(u) = g[n + 1]
  BY <1>1, WithoutPatchesDrops
<1>4. f[n] = g[n]
  <2>1. \A i \in 0..n : f[i] = g[i]
    BY <1>1, <1>2, <1>3, DropsAgree
  <2> QED
    BY <1>1, <2>1
<1>5. g[n + 1] = IF u[n + 1] = "update" THEN g[n] ELSE Append(g[n], u[n + 1])
  <2>1. n + 1 \in 0..(n + 1) /\ n + 1 # 0 /\ (n + 1) - 1 = n
    BY <1>1
  <2> QED
    BY <1>3, <2>1 DEF Drops
<1> QED
  BY <1>1, <1>2, <1>3, <1>4, <1>5 DEF u

\* Nothing is left of nothing.
LEMMA WithoutPatchesOfNothing == WithoutPatches(<<>>) = <<>>
<1>1. PICK f : Drops(<<>>, f, 0) /\ WithoutPatches(<<>>) = f[0]
  BY WithoutPatchesDrops
<1> QED
  BY <1>1 DEF Drops
-----------------------------------------------------------------------------
(* Steps are counted. *)

\* The step count is the number of nodes that were applied.
Counted(trace, step) ==
    WithoutPatches(trace) \in Seq(Nodes) /\ Len(WithoutPatches(trace)) = step

\* The step counts of two checkpoints, the later one with more steps or paused
\* after as many.
Before(p, b) ==
    p.step < b.step \/ (p.step = b.step /\ ~p.interrupt /\ b.interrupt)

InOrder(th) ==
    \A c \in DOMAIN th.history :
        /\ Before(Fresh, th.history[c].body)
        /\ \A d \in DOMAIN th.history : c < d => Before(th.history[c].body, th.history[d].body)

CountInv ==
    /\ \A t \in Threads : \A c \in DOMAIN threads[t].history :
         Counted(threads[t].history[c].body.trace, threads[t].history[c].body.step)
    /\ \A r \in Runs : Counted(run[r].trace, run[r].step)
    /\ \A t \in DurableThreads : InOrder(threads[t])

\* A patch does not count, a node does.
LEMMA CountedGrows ==
  ASSUME NEW trace \in Seq(Updates), NEW step \in Nat, Counted(trace, step)
  PROVE  /\ Counted(Append(trace, "update"), step)
         /\ WithoutPatches(Append(trace, "update")) = WithoutPatches(trace)
         /\ \A n \in Nodes : Counted(Append(trace, n), step + 1)
<1>1. "update" \in Updates /\ \A n \in Nodes : n \in Updates /\ n # "update"
  BY RuntimeAssumption DEF Updates
<1>2. WithoutPatches(Append(trace, "update")) = WithoutPatches(trace)
  BY <1>1, WithoutPatchesOfAppend
<1>3. ASSUME NEW n \in Nodes PROVE Counted(Append(trace, n), step + 1)
  <2>1. WithoutPatches(Append(trace, n)) = Append(WithoutPatches(trace), n)
    BY <1>1, WithoutPatchesOfAppend
  <2> DEFINE u == WithoutPatches(trace)
             v == WithoutPatches(Append(trace, n))
  <2>2. u \in Seq(Nodes) /\ Len(u) = step /\ v = Append(u, n)
    BY <2>1 DEF Counted
  <2> HIDE DEF u, v
  <2>3. v \in Seq(Nodes) /\ Len(v) = step + 1
    BY <2>2
  <2> QED
    BY <2>3 DEF Counted, v
<1> QED
  BY <1>2, <1>3 DEF Counted

\* No nodes, no steps.
LEMMA NothingIsCounted == Counted(<<>>, 0)
<1>1. <<>> \in Seq(Nodes) /\ Len(<<>>) = 0
  OBVIOUS
<1> QED
  BY <1>1, WithoutPatchesOfNothing DEF Counted

\* Steps are counted along the trace that a run works on.
LEMMA CountStep ==
  ASSUME NEW Cmds, Cmds \subseteq Command, NoCommand \in Cmds,
         RuntimeInv(Cmds), HistoryInv(Cmds), CountInv, NamedStep(Cmds), NEW r \in Runs
  PROVE  Counted(run'[r].trace, run'[r].step)
<1> DEFINE x == run[r]
           y == run'[r]
<1> USE DEF RuntimeInv
<1>1. /\ RunShape(x, Cmds) /\ x.thread \in Threads /\ x.trace \in Seq(Updates)
      /\ ThreadsOK /\ Counted(x.trace, x.step) /\ x.step \in Nat
  BY DEF HistoryInv, RunsOK, RunShape, CountInv
<1>2. AnyStep(Cmds) /\ NamesItself(r)
  BY DEF NamedStep
<1>3. CASE BodyMove(r)
  <2>1. Advances(r, x, y)
    BY <1>3, BodyAdvances
  <2>2. CASE BeginsAtLatest(r, x, y)
    <3> DEFINE p == Latest(r)
    <3>1. p.trace \in Seq(Updates) /\ p.step \in Nat /\ Counted(p.trace, p.step)
      BY <1>1, <2>2 DEF BeginsAtLatest, HasLatest, ThreadsOK, ThreadOK, HistoryInv, BodyTyped,
         Latest, ThreadOf, CountInv
    <3>2. y.trace \in {p.trace, Append(p.trace, "update")} /\ y.step = p.step
      BY <2>2 DEF BeginsAtLatest
    <3>3. Counted(Append(p.trace, "update"), p.step)
      BY <3>1, CountedGrows
    <3> QED
      BY <3>1, <3>2, <3>3
  <2>3. CASE Routed(r, x, y)
    <3>1. x.node \in Nodes /\ y.step = x.step + 1
      BY <1>1, <2>3 DEF Routed, RunShape
    <3>2. y.trace = Append(x.trace, x.node)
      BY <1>2, <2>3 DEF Routed, NamesItself
    <3> QED
      BY <1>1, <3>1, <3>2, CountedGrows
  <2>4. ASSUME y.trace = x.trace, y.step = x.step PROVE Counted(y.trace, y.step)
    BY <1>1, <2>4
  <2> QED
    BY <1>1, <2>1, <2>2, <2>3, <2>4 DEF Advances, Leaves, Stays, BeginsFresh, EntersNode, Pauses,
       GoesToCommit, Commits, SameWork
<1>4. CASE OutsideMove(r, Cmds)
  <2>1. Waits(x, y)
    BY <1>4, OutsideWaits
  <2>2. (y.trace = <<>> /\ y.step = 0) \/ (y.trace = x.trace /\ y.step = x.step)
    BY <2>1 DEF Waits, NoWork, Stays, SameWork
  <2> QED
    BY <1>1, <2>2, NothingIsCounted
<1>5. CASE y = x
  BY <1>1, <1>5
<1> QED
  BY <1>2, <1>3, <1>4, <1>5, StepOf
\* Later than what is later is later.
LEMMA BeforeIsTransitive ==
  ASSUME NEW p, NEW q, NEW b, p.step \in Nat, q.step \in Nat, b.step \in Nat,
         Before(p, q), Before(q, b)
  PROVE  Before(p, b)
BY DEF Before

\* What follows a checkpoint is later than it.
LEMMA FollowsIsLater ==
  ASSUME NEW Cmds, NEW th, NEW id, NEW b, Base(th, id).step \in Nat, Follows(th, id, b, Cmds)
  PROVE  Before(Base(th, id), b)
BY DEF Follows, Before

\* The checkpoints of a thread stay in their order: one is only appended to the
\* latest, with a higher id and as a later state.
LEMMA OrderStep ==
  ASSUME NEW Cmds, Cmds \subseteq Command, NoCommand \in Cmds,
         RuntimeInv(Cmds), HistoryInv(Cmds), CountInv, AnyStep(Cmds), NEW t \in DurableThreads
  PROVE  InOrder(threads'[t])
<1> USE DEF RuntimeInv
<1> DEFINE th == threads[t]
           new == threads'[t]
<1>1. /\ t \in Threads /\ ~LatestOnly(t) /\ InOrder(th) /\ ThreadsOK /\ lastID \in Nat
      /\ \A c \in DOMAIN th.history : /\ c \in 1..lastID
                                      /\ th.history[c].body.step \in Nat
      /\ ThreadInv(th)
  BY DEF DurableThreads, CountInv, ThreadsOK, ThreadOK, BodyOK
<1>2. CASE UNCHANGED threads
  BY <1>1, <1>2
<1>3. ASSUME DOMAIN new.history \subseteq DOMAIN th.history,
             \A c \in DOMAIN new.history : new.history[c] = th.history[c]
      PROVE  InOrder(new)
  BY <1>1, <1>3 DEF InOrder
<1>4. ASSUME NEW s \in Runs, At(s, "commit"), AppendsSnap(s) PROVE InOrder(new)
  <2>1. run[s].thread \in Threads /\ run[s].step \in Nat
    BY DEF RunsOK, RunShape
  <2>2. CASE run[s].thread # t
    <3>1. new = th
      BY <1>1, <1>4, <2>1, <2>2, AppendEffect
    <3> QED
      BY <1>1, <3>1
  <2>3. CASE run[s].thread = t
    <3> DEFINE b == SnapBody(run[s])
               n == lastID + 1
               id == run[s].parent
    <3>1. /\ DOMAIN new.history = DOMAIN th.history \cup {n} /\ th.latestID = id
          /\ \A c \in DOMAIN th.history : new.history[c] = th.history[c]
          /\ new.history[n].body = b
      BY <1>1, <1>4, <2>1, <2>3, AppendEffect DEF Snap, SnapBody
    <3>2. /\ id = NoID => DOMAIN th.history = {}
          /\ id # NoID => /\ id \in DOMAIN th.history
                          /\ \A c \in DOMAIN th.history : c = id \/ c < id
      <4>1. ThreadLatestIsNewest(th) /\ ThreadIdsOrdered(th)
        BY <1>1 DEF ThreadInv
      <4> QED
        BY <3>1, <4>1 DEF ThreadLatestIsNewest, ThreadIdsOrdered
    <3>3. Before(Base(th, id), b)
      <4>1. Kept(th, id)
        BY <3>2 DEF Kept
      <4>2. Base(th, id).step \in Nat
        BY <1>1, <3>2 DEF Base, Fresh
      <4>3. PendOK(run[s], th, Cmds)
        BY <2>3 DEF HistoryInv, ThreadOf
      <4>4. Follows(th, id, b, Cmds)
        BY <1>1, <1>4, <2>3, <4>1, <4>3 DEF PendOK, At
      <4> HIDE DEF b, id
      <4> QED
        BY <4>2, <4>4, FollowsIsLater
    <3>4. b.step \in Nat /\ Fresh.step \in Nat
      BY <2>1 DEF SnapBody, Fresh
    <3> HIDE DEF b, id, n, th, new
    <3>5. \A c \in DOMAIN th.history : Before(th.history[c].body, b)
      <4> SUFFICES ASSUME NEW c \in DOMAIN th.history PROVE Before(th.history[c].body, b)
        OBVIOUS
      <4>1. id # NoID /\ Base(th, id) = th.history[id].body /\ id \in DOMAIN th.history
        BY <3>2 DEF Base
      <4>2. CASE c = id
        BY <3>3, <4>1, <4>2
      <4>3. CASE c < id
        <5>1. Before(th.history[c].body, th.history[id].body)
          BY <1>1, <4>1, <4>3 DEF InOrder
        <5> QED
          BY <1>1, <3>3, <3>4, <4>1, <5>1, BeforeIsTransitive
      <4> QED
        BY <3>2, <4>1, <4>2, <4>3
    <3>6. Before(Fresh, b)
      <4>1. CASE id = NoID
        BY <3>3, <4>1 DEF Base
      <4>2. CASE id # NoID
        <5>1. Before(Fresh, th.history[id].body)
          BY <1>1, <3>2, <4>2 DEF InOrder
        <5> QED
          BY <1>1, <3>2, <3>4, <3>5, <4>2, <5>1, BeforeIsTransitive
      <4> QED
        BY <4>1, <4>2
    <3>7. \A c \in DOMAIN th.history : c < n
      BY <1>1 DEF n
    <3>8. n \in Nat
      BY <1>1 DEF n
    <3> QED
      <4> SUFFICES ASSUME NEW c \in DOMAIN new.history
                   PROVE  /\ Before(Fresh, new.history[c].body)
                          /\ \A d \in DOMAIN new.history :
                               c < d => Before(new.history[c].body, new.history[d].body)
        BY DEF InOrder
      <4>1. CASE c \in DOMAIN th.history
        <5>1. new.history[c] = th.history[c] /\ Before(Fresh, th.history[c].body)
          BY <1>1, <3>1, <4>1 DEF InOrder
        <5>2. ASSUME NEW d \in DOMAIN th.history, c < d
              PROVE  Before(new.history[c].body, new.history[d].body)
          BY <1>1, <3>1, <4>1, <5>1, <5>2 DEF InOrder
        <5>3. Before(new.history[c].body, new.history[n].body)
          BY <3>1, <3>5, <4>1, <5>1
        <5> QED
          BY <3>1, <5>1, <5>2, <5>3
      <4>2. CASE c = n
        <5>1. \A d \in DOMAIN new.history : ~(c < d)
          BY <1>1, <3>1, <3>7, <3>8, <4>2
        <5> QED
          BY <3>1, <3>6, <4>2, <5>1
      <4> QED
        BY <3>1, <4>1, <4>2
  <2> QED
    BY <2>2, <2>3
<1>5. ASSUME NEW u \in Threads, NEW k \in Nat, Prune(u, k) PROVE InOrder(new)
  <2>1. CASE u # t
    <3>1. new = th
      BY <1>1, <1>5, <2>1, PruneEffect
    <3> QED
      BY <1>1, <3>1
  <2>2. CASE u = t
    BY <1>1, <1>3, <1>5, <2>2, PruneEffect
  <2> QED
    BY <2>1, <2>2
<1>6. ASSUME NEW u \in Threads, DeleteThread(u) PROVE InOrder(new)
  <2>1. threads' = [threads EXCEPT ![u] = EmptyThread] /\ DOMAIN threads = Threads
    BY <1>1, <1>6 DEF DeleteThread, ThreadsOK
  <2>2. DOMAIN EmptyThread.history = {}
    BY DEF EmptyThread, NoEntries
  <2>3. CASE u = t
    BY <1>1, <2>1, <2>2, <2>3 DEF InOrder
  <2>4. CASE u # t
    BY <1>1, <2>1, <2>4
  <2> QED
    BY <2>3, <2>4
<1> QED
  BY <1>2, <1>4, <1>5, <1>6, StoreStep

\* Steps are counted and checkpoints in order after any step.
LEMMA CountInvStep ==
  ASSUME NEW Cmds, Cmds \subseteq Command, NoCommand \in Cmds,
         RuntimeInv(Cmds), HistoryInv(Cmds), CountInv, NamedStep(Cmds) \/ UNCHANGED vars
  PROVE  CountInv'
<1>1. CASE NamedStep(Cmds)
  <2>1. AnyStep(Cmds)
    BY <1>1 DEF NamedStep
  <2>2. ASSUME NEW t \in Threads, NEW c \in DOMAIN threads'[t].history
        PROVE  Counted(threads'[t].history[c].body.trace, threads'[t].history[c].body.step)
    <3>1. CASE c \in DOMAIN threads[t].history
               /\ threads'[t].history[c] = threads[t].history[c]
      BY <3>1 DEF CountInv
    <3>2. ASSUME NEW s \in Runs, threads'[t].history[c].body = SnapBody(run[s])
          PROVE  Counted(threads'[t].history[c].body.trace, threads'[t].history[c].body.step)
      BY <3>2 DEF CountInv, SnapBody
    <3> QED
      BY <2>1, <3>1, <3>2, NewOrOld
  <2>3. \A r \in Runs : Counted(run'[r].trace, run'[r].step)
    BY <1>1, CountStep
  <2>4. \A t \in DurableThreads : InOrder(threads'[t])
    BY <2>1, OrderStep
  <2> QED
    BY <2>2, <2>3, <2>4 DEF CountInv
<1>2. CASE UNCHANGED vars
  BY <1>2 DEF vars, CountInv
<1> QED
  BY <1>1, <1>2

\* Nothing is counted at first.
LEMMA CountInvInit == RuntimeInit => CountInv
<1> SUFFICES ASSUME RuntimeInit PROVE CountInv
  OBVIOUS
<1>1. PICK u \in Threads : \A r \in Runs : run[r] = Idle(u)
  BY RuntimeAssumption DEF RuntimeInit
<1>2. \A t \in Threads : DOMAIN threads[t].history = {}
  BY DEF RuntimeInit, EmptyThread, NoEntries
<1>3. Idle(u).trace = <<>> /\ Idle(u).step = 0
  BY DEF Idle
<1>4. DurableThreads \subseteq Threads
  BY DEF DurableThreads
<1> QED
  BY <1>1, <1>2, <1>3, <1>4, NothingIsCounted DEF CountInv, InOrder

\* A repeated node has its key, another step another: the parent is told by the
\* steps made and the interrupt answered, and these by the operation.
THEOREM OperationsHaveOneKey == RuntimeSpec => []OneKeyPerOperation
<1>1. ASSUME RuntimeInv(Cs), WorkInv(Cs), HistoryInv(Cs), CountInv PROVE OneKeyPerOperation
  <2> SUFFICES ASSUME NEW r \in Runs, NEW s \in Runs, At(r, "node"), At(s, "node"),
                      run[r].thread = run[s].thread, run[r].thread \in DurableThreads,
                      {run[r].parent, run[s].parent} \subseteq
                        DOMAIN History(run[r].thread) \cup {NoID}
               PROVE  (IdempotencyKey(r) = IdempotencyKey(s)) <=> (Operation(r) = Operation(s))
    BY DEF OneKeyPerOperation
  <2> DEFINE th == threads[run[r].thread]
             Work(q) == WithoutPatches(run[q].trace)
  <2>1. ASSUME NEW q \in {r, s}
        PROVE  LET p == Base(th, run[q].parent) IN
               /\ run[q].step = p.step /\ run[q].step = Len(Work(q))
               /\ Work(q) = WithoutPatches(p.trace)
               /\ run[q].approved <=> p.interrupt
               /\ run[q].approved \in BOOLEAN
               /\ run[q].parent = NoID \/ run[q].parent \in DOMAIN th.history
    <3> DEFINE x == run[q]
               p == Base(th, x.parent)
    <3>1. /\ x.thread = run[r].thread /\ x.pc = "node" /\ Kept(th, x.parent)
          /\ ~LatestOnly(x.thread) /\ x.thread \in Threads /\ ThreadOf(q) = th
      BY DEF At, Kept, History, DurableThreads, ThreadOf
    <3>2. StartedFrom(x, th, Cs)
      BY <1>1, <3>1 DEF WorkInv, WorkOK
    <3>3. p.trace \in Seq(Updates) /\ p.step \in Nat /\ Counted(p.trace, p.step)
          /\ p.interrupt \in BOOLEAN
      <4>1. CASE x.parent = NoID
        <5>1. p = Fresh /\ <<>> \in Seq(Updates)
          BY <4>1 DEF Base
        <5> QED
          BY <5>1, NothingIsCounted DEF Fresh
      <4>2. CASE x.parent # NoID
        BY <1>1, <3>1, <4>2 DEF Kept, Base, HistoryInv, BodyTyped, CountInv
      <4> QED
        BY <4>1, <4>2
    <3>4. x.trace = p.trace \/ x.trace = Append(p.trace, "update")
      BY <3>2 DEF StartedFrom, Patches, Base, Fresh
    <3>5. WithoutPatches(x.trace) = WithoutPatches(p.trace)
      BY <3>3, <3>4, CountedGrows
    <3>6. x.step = p.step /\ (x.approved <=> p.interrupt) /\ x.approved \in BOOLEAN
      BY <1>1, <3>2 DEF StartedFrom, RuntimeInv, RunsOK, RunShape
    <3> HIDE DEF x, p, th
    <3> QED
      BY <3>1, <3>3, <3>5, <3>6 DEF Counted, Kept, x, p
  <2> HIDE DEF Work
  <2>2. ASSUME run[r].parent = run[s].parent, run[r].node = run[s].node
        PROVE  Operation(r) = Operation(s)
    BY <2>1, <2>2 DEF Operation, Work
  <2>3. ASSUME Work(r) = Work(s), run[r].approved = run[s].approved
        PROVE  run[r].parent = run[s].parent
    <3> DEFINE i == run[r].parent
               j == run[s].parent
               p == Base(th, i)
               q == Base(th, j)
    <3>1. p.step = q.step /\ (p.interrupt <=> q.interrupt)
      BY <2>1, <2>3
    <3>2. ~Before(p, q) /\ ~Before(q, p)
      <4>1. p.step \in Nat
        BY <2>1, <1>1 DEF RuntimeInv, RunsOK, RunShape
      <4> HIDE DEF p, q
      <4> QED
        BY <3>1, <4>1 DEF Before
    <3>3. InOrder(th) /\ \A c \in DOMAIN th.history : c \in Nat
      BY <1>1 DEF CountInv, DurableThreads, RuntimeInv, ThreadsOK, ThreadOK
    <3>4. (i = NoID \/ i \in DOMAIN th.history) /\ (j = NoID \/ j \in DOMAIN th.history)
      BY <2>1
    <3>5. /\ i = NoID => p = Fresh
          /\ j = NoID => q = Fresh
          /\ i # NoID => p = th.history[i].body
          /\ j # NoID => q = th.history[j].body
      BY DEF Base
    <3> SUFFICES i = j
      OBVIOUS
    <3> HIDE DEF i, j, th, p, q
    <3>6. CASE i = NoID \/ j = NoID
      BY <3>2, <3>3, <3>4, <3>5, <3>6 DEF InOrder
    <3>7. CASE i # NoID /\ j # NoID
      <4>1. i \in DOMAIN th.history /\ j \in DOMAIN th.history /\ i \in Nat /\ j \in Nat
        BY <3>3, <3>4, <3>7
      <4>2. ~(i < j) /\ ~(j < i)
        BY <3>2, <3>3, <3>5, <3>7, <4>1 DEF InOrder
      <4> QED
        BY <4>1, <4>2
    <3> QED
      BY <3>6, <3>7
  <2> QED
    BY <2>2, <2>3 DEF IdempotencyKey, Operation, Work
<1>2. RuntimeInv(Cs) /\ HistoryInv(Cs) /\ CountInv /\ [RuntimeNext]_vars => CountInv'
  BY CountInvStep, RuntimeNextIsNamed, CommandsAreTyped
<1> QED
  BY <1>1, <1>2, HistoryInvariant, CountInvInit, PTL DEF RuntimeSpec
=============================================================================
