-------------------------- MODULE CodingLoopProofs --------------------------
(***************************************************************************)
(* What RunCodingLoop promises, for any number of calls on any threads and *)
(* any MaxIter: the loop ends by its own route before the step limit does  *)
(* it, and the conversation stored with a checkpoint has no gap.           *)
(*                                                                         *)
(* The engine is that of GraphRuntime and the lemmas about AnyStep apply.  *)
(* The invariant adds how the state of the loop, its step count and the    *)
(* node that is next go together, and what the messages of a call's        *)
(* implementer are, in memory and in the store.                            *)
(***************************************************************************)
EXTENDS CodingLoop, GraphRuntimeProofs

-----------------------------------------------------------------------------
(* Iterations, turns and steps. *)

LoopUpdates == {"implementer", "pass", "fail", "refined", "nothing"}

CountIn(S, trace) == Cardinality({i \in DOMAIN trace : trace[i] \in S})

\* Counting updates of some kinds in a state.
LEMMA CountOfAppend ==
  ASSUME NEW U, NEW s \in Seq(U), NEW e \in U, NEW S
  PROVE  /\ CountIn(S, s) \in Nat
         /\ CountIn(S, Append(s, e)) = IF e \in S THEN CountIn(S, s) + 1 ELSE CountIn(S, s)
<1> DEFINE A == {i \in DOMAIN s : s[i] \in S}
           u == Append(s, e)
           B == {i \in DOMAIN u : u[i] \in S}
           k == Len(s) + 1
<1>1. /\ DOMAIN s = 1..Len(s) /\ Len(s) \in Nat
      /\ DOMAIN u = 1..k /\ u[k] = e /\ \A i \in 1..Len(s) : u[i] = s[i]
  OBVIOUS
<1>2. IsFiniteSet(A) /\ Cardinality(A) \in Nat
  <2>1. IsFiniteSet(1..Len(s))
    <3>1. Len(s) \in Int /\ 1 \in Int
      BY <1>1
    <3> QED
      BY <3>1, FS_Interval
  <2>2. A \subseteq 1..Len(s)
    BY <1>1
  <2> QED
    BY <2>1, <2>2, FS_Subset, FS_CardinalityType
<1>3. B = IF e \in S THEN A \cup {k} ELSE A
  <2>1. \A i : i \in 1..k <=> i = k \/ i \in 1..Len(s)
    BY <1>1
  <2> HIDE DEF u, k
  <2>2. \A i : i \in B <=> (i = k \/ i \in 1..Len(s)) /\ u[i] \in S
    BY <1>1, <2>1
  <2>3. \A i : i \in A <=> i \in 1..Len(s) /\ u[i] \in S
    BY <1>1
  <2>4. u[k] = e
    BY <1>1
  <2> HIDE DEF A, B
  <2> QED
    BY <2>2, <2>3, <2>4
<1>4. k \notin A
  BY <1>1
<1>5. Cardinality(B) = IF e \in S THEN Cardinality(A) + 1 ELSE Cardinality(A)
  <2> HIDE DEF A, B
  <2> QED
    BY <1>2, <1>3, <1>4, FS_AddElement
<1> QED
  BY <1>2, <1>5 DEF CountIn

\* The implementer takes a turn, the updater ends an iteration.
LEMMA LoopCounts ==
  ASSUME NEW trace \in Seq(LoopUpdates), NEW e \in LoopUpdates
  PROVE  /\ TurnsIn(trace) \in Nat /\ Iteration(trace) \in Nat \ {0}
         /\ TurnsIn(Append(trace, e)) =
              IF e = "implementer" THEN TurnsIn(trace) + 1 ELSE TurnsIn(trace)
         /\ Iteration(Append(trace, e)) =
              IF e \in {"refined", "nothing"} THEN Iteration(trace) + 1 ELSE Iteration(trace)
<1> PICK u : u = Append(trace, e)
  OBVIOUS
<1> DEFINE One == {"implementer"}
           Ends == {"refined", "nothing"}
<1>1. /\ CountIn(One, trace) \in Nat /\ CountIn(Ends, trace) \in Nat
      /\ CountIn(One, u) = IF e \in One THEN CountIn(One, trace) + 1
                                             ELSE CountIn(One, trace)
      /\ CountIn(Ends, u) = IF e \in Ends THEN CountIn(Ends, trace) + 1
                                         ELSE CountIn(Ends, trace)
  <2> HIDE DEF One, Ends
  <2> QED
    BY CountOfAppend
<1>2. ASSUME NEW v
      PROVE  TurnsIn(v) = CountIn(One, v) /\ Iteration(v) = 1 + CountIn(Ends, v)
  BY DEF TurnsIn, Iteration, CountIn
<1> QED
  BY <1>1, <1>2

\* The loop goes round in three steps, MaxIter times at most.
InLoop(node, trace, step) ==
    LET k == Iteration(trace)  turns == TurnsIn(trace) IN
    /\ trace \in Seq(LoopUpdates)
    /\ Len(trace) = step
    /\ node = "implementer" => step = 3 * (k - 1) /\ turns = k - 1 /\ k <= MaxIter
    /\ node = "verifier" => step = 3 * (k - 1) + 1 /\ turns = k /\ k <= MaxIter
    /\ node = "updater" => step = 3 * (k - 1) + 2 /\ turns = k /\ k < MaxIter
    /\ node = END => step = 3 * (k - 1) + 2 /\ turns = k /\ k <= MaxIter

\* It begins with the implementer.
LEMMA LoopBegins == InLoop(Entry, <<>>, 0) /\ TurnsIn(<<>>) = 0
<1>1. /\ {i \in DOMAIN <<>> : <<>>[i] \in {"refined", "nothing"}} = {}
      /\ {i \in DOMAIN <<>> : <<>>[i] = "implementer"} = {}
      /\ <<>> \in Seq(LoopUpdates) /\ Len(<<>>) = 0
  OBVIOUS
<1>2. Iteration(<<>>) = 1 /\ TurnsIn(<<>>) = 0
  BY <1>1, FS_EmptySet DEF Iteration, TurnsIn
<1>3. MaxIter \in Nat \ {0} /\ Entry = "implementer" /\ Entry # END
  BY LoopAssumption, RuntimeAssumption
<1> QED
  BY <1>1, <1>2, <1>3 DEF InLoop

\* A node of it is applied and the next one is chosen.
LEMMA LoopGoesOn ==
  ASSUME NEW node, NEW trace, NEW step \in Nat, InLoop(node, trace, step),
         NEW e, NEW next,
         \/ node = "implementer" /\ e = "implementer" /\ next = "verifier"
         \/ node = "verifier" /\ e \in {"pass", "fail"} /\ next = AfterVerdict(e, trace)
         \/ node = "updater" /\ e \in {"refined", "nothing"} /\ next = "implementer"
  PROVE  InLoop(next, Append(trace, e), step + 1)
<1> DEFINE u == Append(trace, e)
           k == Iteration(trace)
           n == TurnsIn(trace)
<1> SUFFICES InLoop(next, u, step + 1)
  OBVIOUS
<1>1. /\ trace \in Seq(LoopUpdates) /\ e \in LoopUpdates /\ u \in Seq(LoopUpdates)
      /\ Len(u) = Len(trace) + 1 /\ Len(trace) = step
  BY DEF InLoop, LoopUpdates
<1>2. /\ k \in Nat \ {0} /\ n \in Nat /\ MaxIter \in Nat
      /\ TurnsIn(u) = IF e = "implementer" THEN n + 1 ELSE n
      /\ Iteration(u) = IF e \in {"refined", "nothing"} THEN k + 1 ELSE k
  BY <1>1, LoopCounts, LoopAssumption
<1>3. END \notin {"implementer", "verifier", "updater"}
  BY LoopAssumption, RuntimeAssumption
<1>4. CASE node = "implementer"
  <2>1. step = 3 * (k - 1) /\ n = k - 1 /\ k <= MaxIter
    BY <1>4 DEF InLoop
  <2>2. TurnsIn(u) = k /\ Iteration(u) = k /\ next = "verifier"
    BY <1>2, <1>4, <2>1
  <2> HIDE DEF u, k, n
  <2> QED
    BY <1>1, <1>2, <1>3, <2>1, <2>2 DEF InLoop
<1>5. CASE node = "verifier"
  <2>1. step = 3 * (k - 1) + 1 /\ n = k /\ k <= MaxIter
    BY <1>5 DEF InLoop
  <2>2. TurnsIn(u) = k /\ Iteration(u) = k
        /\ (next = END \/ (next = "updater" /\ k < MaxIter))
    BY <1>2, <1>5, <2>1 DEF AfterVerdict
  <2> HIDE DEF u, k, n
  <2> QED
    BY <1>1, <1>2, <1>3, <2>1, <2>2 DEF InLoop
<1>6. CASE node = "updater"
  <2>1. step = 3 * (k - 1) + 2 /\ n = k /\ k < MaxIter
    BY <1>6 DEF InLoop
  <2>2. TurnsIn(u) = k /\ Iteration(u) = k + 1 /\ next = "implementer"
    BY <1>2, <1>6, <2>1
  <2> HIDE DEF u, k, n
  <2> QED
    BY <1>1, <1>2, <1>3, <2>1, <2>2 DEF InLoop
<1> QED
  BY <1>4, <1>5, <1>6

\* However far it is, there have been MaxIter turns at most, and it is below the
\* step limit.
LEMMA LoopIsShort ==
  ASSUME NEW node \in Nodes \cup {END}, NEW trace, NEW step, InLoop(node, trace, step)
  PROVE  TurnsIn(trace) <= MaxIter /\ step < MaxSteps
<1>1. Iteration(trace) \in Nat \ {0}
  BY LoopCounts DEF InLoop, LoopUpdates
<1>2. /\ MaxIter \in Nat \ {0} /\ MaxSteps = MaxIter * 4 + 2
      /\ Nodes = {"implementer", "verifier", "updater"}
  BY LoopAssumption
<1>3. MaxSteps = 4 * MaxIter + 2
  BY <1>2
<1> HIDE DEF InLoop
<1> QED
  BY <1>1, <1>2, <1>3 DEF InLoop
-----------------------------------------------------------------------------
(* What a step does to a call. *)

\* What a call of RunCodingLoop does to the engine is one of its steps.
LEMMA LoopNextIsAnyStep == LoopNext => AnyStep(Cs)
<1> SUFFICES ASSUME LoopNext PROVE AnyStep(Cs)
  OBVIOUS
<1>1. ASSUME NEW r \in Runs, LoopStarts(r) PROVE AnyStep(Cs)
  <2>1. PICK t \in Threads : \/ Start(r, t, "invoke", NoCommand)
                             \/ \E cmd \in Commands : Start(r, t, "resume", cmd)
    BY <1>1 DEF LoopStarts, Starts
  <2>2. Called(r, Cs)
    BY <2>1 DEF Called, Cs
  <2> QED
    BY <2>2 DEF AnyStep, RunMove
<1>2. ASSUME NEW r \in Runs, LoopProceeds(r) PROVE AnyStep(Cs)
  BY <1>2 DEF LoopProceeds, LoopEngine, Implements, Verifies, Refines, RefinesNothing,
     AnyStep, RunMove, BodyMove
<1>3. ASSUME NEW r \in Runs, LoopCrash(r) PROVE AnyStep(Cs)
  BY <1>3 DEF LoopCrash, AnyStep, RunMove
<1>4. CASE LoopSurroundings
  <2>1. Keep \subseteq Nat
    BY RuntimeAssumption
  <2> QED
    BY <1>4, <2>1 DEF LoopSurroundings, AnyStep, RunMove, BodyMove
<1> QED
  BY <1>1, <1>2, <1>3, <1>4 DEF LoopNext

\* A call is outside the body: its implementer has no messages yet, or no more.
QuietPCs == {"idle", "acquire", "begin", "exit", "release", "done"}

\* The node function returns.
Returned(x, y, e, next, arts) ==
    /\ x.pc = "node" /\ y.pc = "persist"
    /\ y.parent = x.parent /\ y.trace = Append(x.trace, e) /\ y.step = x.step + 1
    /\ y.pend.node = next /\ y.turns = arts

\* One of the three nodes, m and n being the messages before and after it.
NodeTurn(x, y, m, n) ==
    \/ /\ x.node = "implementer"
       /\ Returned(x, y, "implementer", "verifier", [a \in Agents |-> n])
       /\ n = Append(m, Turn(Iteration(x.trace)))
    \/ /\ x.node = "verifier"
       /\ \E e \in {"pass", "fail"} :
            Returned(x, y, e, AfterVerdict(e, x.trace), NoEntries)
       /\ n = m
    \/ /\ x.node = "updater"
       /\ Returned(x, y, "refined", "implementer", NoEntries)
       /\ n = Append(m, Refined(Iteration(x.trace)))
    \/ /\ x.node = "updater"
       /\ Returned(x, y, "nothing", "implementer", NoEntries)
       /\ n = m

\* A step of any call in terms of the locals and the messages of r.
Progress(r, x, y, m, n) ==
    \/ y.pc \in QuietPCs /\ (n = NoMessages \/ (n = m /\ x.pc \in QuietPCs))
    \/ /\ y.thread = x.thread
       /\ \/ NodeTurn(x, y, m, n) /\ UNCHANGED threads
          \/ /\ EntersNode(r, x, y)
             /\ n = IF x.node = "implementer" THEN EnsuredSession(r) ELSE m
          \/ /\ \/ BeginsFresh(x, y) \/ BeginsAtLatest(r, x, y) \/ Stays(x, y)
                \/ GoesToCommit(x, y) \/ Commits(r, x, y)
             /\ n = m

\* What is known of a call's locals.
LEMMA LoopRunShape ==
  ASSUME RuntimeInv(Cs), NEW r \in Runs
  PROVE  /\ RunShape(run[r], Cs) /\ r \in DOMAIN run /\ run[r].thread \in Threads
         /\ run[r].parent \in 0..lastID
         /\ DOMAIN run[r] = {"pc", "op", "thread", "cmd", "expected", "ttl", "epoch", "hb",
                "cause", "parent", "node", "trace", "step", "approved", "turns", "pend",
                "outcome"}
BY DEF RuntimeInv, RunsOK, RunShape, RunFields, Idle, ThreadsOK

\* The engine leaves where it is with every step, and a node only with an error.
LEMMA EngineMoves ==
  ASSUME RuntimeInv(Cs), NEW r \in Runs, EngineStep(r)
  PROVE  run'[r].pc # run[r].pc /\ ~(run[r].pc = "node" /\ run'[r].pc = "persist")
<1> DEFINE x == run[r]
<1>1. RunShape(x, Cs) /\ r \in DOMAIN run
      /\ DOMAIN x = {"pc", "op", "thread", "cmd", "expected", "ttl", "epoch", "hb", "cause",
                     "parent", "node", "trace", "step", "approved", "turns", "pend", "outcome"}
  BY LoopRunShape
<1>2. InBody(r)
  BY DEF EngineStep, BeginInvoke, ResumeRefused, ResumeCompleted, ResumeNeedsValue,
     ResumeContinues, Resuming, RunCompletes, RunStops, NodeStarts, NodeDiscarded, NodeFails,
     PersistRefused, PersistChecked, CommitSucceeds, CommitFenced, CommitConflicts,
     CommitUnknown, At, InBody
<1>3. x.pc # "exit"
  BY <1>2 DEF InBody
<1>4. ASSUME NEW o \in Outcomes, run'[r] = Exit(x, o)
      PROVE  run'[r].pc = "exit"
  BY <1>1, <1>4, ExitShape
<1>5. CASE BeginInvoke(r)
  BY <1>1, <1>5 DEF BeginInvoke, At, Local
<1>6. CASE ResumeContinues(r)
  BY <1>1, <1>6 DEF ResumeContinues, Resuming, Resumed, At, Local
<1>7. CASE NodeStarts(r)
  BY <1>1, <1>7 DEF NodeStarts, At, Local
<1>8. CASE PersistChecked(r)
  BY <1>1, <1>8 DEF PersistChecked, At, Local
<1>9. CASE CommitSucceeds(r)
  BY <1>1, <1>9 DEF CommitSucceeds, AfterCommit, Exit, At
<1>10. ASSUME ~BeginInvoke(r), ~ResumeContinues(r), ~NodeStarts(r), ~PersistChecked(r),
              ~CommitSucceeds(r)
       PROVE  \E o \in Outcomes : run'[r] = Exit(x, o)
  <2>1. x.cause \in {"none", "lost", "canceled"}
    BY <1>1 DEF RunShape
  <2> QED
    BY <1>1, <1>10, <2>1 DEF EngineStep, ResumeRefused, ResumeCompleted, ResumeNeedsValue,
       RunCompletes, RunStops, NodeDiscarded, NodeFails, PersistRefused, CommitFenced,
       CommitConflicts, CommitUnknown, Local, Outcomes
<1> QED
  BY <1>3, <1>4, <1>5, <1>6, <1>7, <1>8, <1>9, <1>10

\* A node function returns what it says.
LEMMA NodeIsReturned ==
  ASSUME RuntimeInv(Cs), NEW r \in Runs, NEW e, NEW next, NEW arts,
         NodeReturns(r, e, next, arts)
  PROVE  /\ Returned(run[r], run'[r], e, next, arts)
         /\ run'[r].thread = run[r].thread
         /\ UNCHANGED threads
<1> DEFINE x == run[r]
           y == [x EXCEPT !.pc = "persist", !.trace = Append(@, e), !.step = @ + 1,
                          !.approved = FALSE, !.turns = arts,
                          !.pend = [node |-> next, interrupt |-> FALSE]]
<1>1. Returned(x, y, e, next, arts) /\ y.thread = x.thread
  <2>1. x.pc = "node"
    BY DEF NodeReturns, At
  <2> QED
    BY <2>1, LoopRunShape DEF Returned
<1>2. run'[r] = y /\ UNCHANGED threads
  BY LoopRunShape DEF NodeReturns, Applied, Local
<1> QED
  BY <1>1, <1>2

\* withLease acquires before the body and releases after it.
LEMMA LeaseIsQuiet ==
  ASSUME RuntimeInv(Cs), NEW r \in Runs, LeaseStep(r)
  PROVE  run[r].pc \in QuietPCs /\ run'[r].pc \in QuietPCs
<1>1. RunShape(run[r], Cs) /\ NoCommand \in Cs
  BY LoopRunShape, CommandsAreTyped
<1>2. ASSUME NEW o \in Outcomes, run'[r] = Finished(r, o) PROVE run'[r].pc \in QuietPCs
  BY <1>1, <1>2, FinishedShape DEF QuietPCs
<1>3. CASE AcquireDenied(r) \/ Releases(r) \/ ReleaseFails(r) \/ Returns(r)
  <2>1. run[r].pc \in {"acquire", "exit", "release"}
        /\ \E o \in Outcomes : run'[r] = Finished(r, o)
    BY <1>1, <1>3, LoopRunShape
       DEF AcquireDenied, Releases, ReleaseFails, Returns, Local, At, Outcomes, RunShape
  <2> QED
    BY <1>2, <2>1 DEF QuietPCs
<1>4. ASSUME NEW ttl \in TTLs, AcquireGranted(r, ttl)
      PROVE  run[r].pc \in QuietPCs /\ run'[r].pc \in QuietPCs
  BY <1>4, LoopRunShape DEF AcquireGranted, At, QuietPCs
<1>5. CASE HeartbeatJoined(r)
  BY <1>5, LoopRunShape DEF HeartbeatJoined, At, Local, QuietPCs
<1> QED
  BY <1>3, <1>4, <1>5 DEF LeaseStep

\* The heartbeat and a cancellation leave the work as it is.
LEMMA AsideStays ==
  ASSUME RuntimeInv(Cs), NEW r \in Runs, HeartbeatStep(r) \/ Cancel(r)
  PROVE  Stays(run[r], run'[r]) /\ run'[r].thread = run[r].thread
<1> DEFINE x == run[r]
<1>1. \E cause : \/ run'[r] = x
                 \/ run'[r] = [x EXCEPT !.hb = FALSE, !.cause = cause]
                 \/ run'[r] = [x EXCEPT !.hb = FALSE]
                 \/ run'[r] = [x EXCEPT !.cause = cause]
  BY LoopRunShape DEF HeartbeatStep, HeartbeatRenews, HeartbeatLoses, HeartbeatStops, Cancel, Local
<1> QED
  BY <1>1, LoopRunShape DEF Stays, SameWork, SameStep

\* What a node of the loop does.
LEMMA NodeProgress ==
  ASSUME RuntimeInv(Cs), DOMAIN chat = Runs, NEW r \in Runs,
         Implements(r) \/ Verifies(r) \/ Refines(r) \/ RefinesNothing(r)
  PROVE  /\ NodeTurn(run[r], run'[r], chat[r], chat'[r])
         /\ run'[r].thread = run[r].thread /\ UNCHANGED threads
<1>1. CASE Implements(r)
  <2> DEFINE n == Append(chat[r], Turn(Iteration(run[r].trace)))
  <2>1. /\ run[r].node = "implementer" /\ chat'[r] = n
        /\ NodeReturns(r, "implementer", "verifier", [a \in Agents |-> n])
    BY <1>1 DEF Implements
  <2> HIDE DEF n
  <2>2. /\ Returned(run[r], run'[r], "implementer", "verifier", [a \in Agents |-> n])
        /\ run'[r].thread = run[r].thread /\ UNCHANGED threads
    BY <2>1, NodeIsReturned
  <2> QED
    BY <2>1, <2>2 DEF NodeTurn, n
<1>2. CASE Verifies(r)
  <2>1. PICK e \in {"pass", "fail"} :
          NodeReturns(r, e, AfterVerdict(e, run[r].trace), NoEntries)
    BY <1>2 DEF Verifies
  <2> DEFINE next == AfterVerdict(e, run[r].trace)
  <2> HIDE DEF next
  <2>2. /\ Returned(run[r], run'[r], e, next, NoEntries)
        /\ run'[r].thread = run[r].thread /\ UNCHANGED threads
    BY <2>1, NodeIsReturned DEF next
  <2> QED
    BY <1>2, <2>2 DEF NodeTurn, Verifies, next
<1>3. CASE Refines(r)
  BY <1>3, NodeIsReturned DEF NodeTurn, Refines
<1>4. CASE RefinesNothing(r)
  BY <1>4, NodeIsReturned DEF NodeTurn, RefinesNothing
<1> QED
  BY <1>1, <1>2, <1>3, <1>4

\* What the engine does with a call's messages.
LEMMA EngineProgress ==
  ASSUME RuntimeInv(Cs), DOMAIN chat = Runs, NEW r \in Runs, LoopEngine(r)
  PROVE  Progress(r, run[r], run'[r], chat[r], chat'[r])
<1> DEFINE x == run[r]
           y == run'[r]
           m == chat[r]
           n == chat'[r]
<1>1. n = IF IsOver(r) THEN NoMessages ELSE IF EntersImplementer(r) THEN EnsuredSession(r) ELSE m
  BY DEF LoopEngine
<1>2. CASE LeaseStep(r)
  <2>1. x.pc \in QuietPCs /\ y.pc \in QuietPCs
    BY <1>2, LeaseIsQuiet
  <2>2. ~EntersImplementer(r)
    BY <2>1 DEF EntersImplementer, QuietPCs
  <2> QED
    BY <1>1, <2>1, <2>2 DEF Progress
<1>3. CASE EngineStep(r)
  <2>1. BodyMove(r) /\ ThreadsOK /\ RunsOK(Cs) /\ Cs \subseteq Command
    BY <1>3, CommandsAreTyped DEF BodyMove, RuntimeInv
  <2>2. Advances(r, x, y) /\ y.thread = x.thread
    BY <2>1, BodyAdvances, BodyMoveEffect DEF BodyEffect, CallKept
  <2>3. y.pc # x.pc /\ ~(x.pc = "node" /\ y.pc = "persist")
    BY <1>3, EngineMoves
  <2>4. ASSUME Leaves(r, x, y) PROVE y.pc = "exit" /\ n = NoMessages
    BY <1>1, <2>4 DEF Leaves, IsOver
  <2>5. ASSUME EntersNode(r, x, y)
        PROVE  n = IF x.node = "implementer" THEN EnsuredSession(r) ELSE m
    BY <1>1, <2>5 DEF EntersNode, SameWork, IsOver, EntersImplementer
  <2>6. ASSUME \/ BeginsFresh(x, y) \/ BeginsAtLatest(r, x, y)
               \/ GoesToCommit(x, y) \/ Commits(r, x, y)
        PROVE  n = m
    BY <1>1, <2>6 DEF BeginsFresh, BeginsAtLatest, GoesToCommit, Commits, IsOver,
       EntersImplementer
  <2>7. ~Stays(x, y) /\ ~Pauses(r, x, y) /\ ~Routed(r, x, y)
    BY <2>3 DEF Stays, Pauses, Routed
  <2> HIDE DEF x, y, m, n
  <2>8. Progress(r, x, y, m, n)
    BY <2>2, <2>4, <2>5, <2>6, <2>7 DEF Advances, Progress, QuietPCs
  <2> QED
    BY <2>8 DEF x, y, m, n
<1> QED
  BY <1>2, <1>3 DEF LoopEngine

\* Only r's own steps, or nothing of it.
LoopMove(r) == LoopStarts(r) \/ LoopProceeds(r) \/ LoopCrash(r)

\* A step that is another's leaves a call as it is.
LEMMA OthersMove ==
  ASSUME RuntimeInv(Cs), DOMAIN chat = Runs, NEW r \in Runs, NEW s \in Runs \ {r},
         LoopMove(s) \/ ((HeartbeatStep(s) \/ Cancel(s)) /\ UNCHANGED chat)
  PROVE  run'[r] = run[r] /\ chat'[r] = chat[r]
<1>1. OnlyRun(s)
  <2>1. /\ ThreadsOK /\ RunsOK(Cs) /\ LeasesOK
        /\ Cs \subseteq Command /\ NoCommand \in Cs
    BY CommandsAreTyped DEF RuntimeInv
  <2>2. BodyMove(s) \/ OutsideMove(s, Cs)
    <3>1. ASSUME Starts(s) PROVE Called(s, Cs)
      BY <3>1 DEF Starts, Called, Cs
    <3> QED
      BY <3>1 DEF LoopMove, LoopStarts, LoopProceeds, LoopCrash, LoopEngine, Implements,
         Verifies, Refines, RefinesNothing, BodyMove, OutsideMove
  <2>3. AnyStep(Cs)
    BY <2>2 DEF AnyStep, RunMove, OutsideMove
  <2>4. CASE BodyMove(s)
    BY <2>1, <2>4, BodyMoveEffect DEF BodyEffect
  <2>5. CASE OutsideMove(s, Cs)
    BY <2>1, <2>3, <2>5, OutsideMoveEffect DEF OutsideEffect
  <2> QED
    BY <2>2, <2>4, <2>5
<1>2. chat'[r] = chat[r]
  BY DEF LoopMove, LoopStarts, LoopProceeds, LoopCrash, LoopEngine, Implements, Verifies,
     Refines, RefinesNothing
<1> QED
  BY <1>1, <1>2 DEF OnlyRun

\* Every step in terms of every call.
LEMMA LoopProgress ==
  ASSUME RuntimeInv(Cs), DOMAIN chat = Runs, LoopNext, NEW r \in Runs
  PROVE  Progress(r, run[r], run'[r], chat[r], chat'[r])
<1> DEFINE x == run[r]
           y == run'[r]
           m == chat[r]
           n == chat'[r]
<1> SUFFICES Progress(r, x, y, m, n)
  OBVIOUS
<1>1. ASSUME Stays(x, y), y.thread = x.thread, n = m PROVE Progress(r, x, y, m, n)
  <2> HIDE DEF x, y, m, n
  <2> QED
    BY <1>1 DEF Progress
<1>2. ASSUME x = y, n = m PROVE Progress(r, x, y, m, n)
  BY <1>1, <1>2 DEF Stays, SameWork, SameStep
<1>3. CASE LoopStarts(r)
  <2>1. PICK t \in Threads, op \in {"invoke", "resume"}, cmd \in Cs : Start(r, t, op, cmd)
    BY <1>3 DEF LoopStarts, Starts, Cs
  <2>2. x.pc = "idle" /\ y.pc \in {"acquire", "begin"} /\ n = m
    <3>1. "pc" \in DOMAIN Idle(t) /\ DOMAIN Idle(t) = RunFields
      BY DEF Idle, RunFields
    <3> QED
      BY <1>3, <2>1, <3>1, LoopRunShape DEF Start, At, Local, LoopStarts, Idle
  <2> HIDE DEF x, y, m, n
  <2> QED
    BY <2>2 DEF Progress, QuietPCs
<1>4. CASE LoopCrash(r)
  <2>1. PICK o \in Outcomes : run'[r] = Finished(r, o)
    BY <1>4, LoopRunShape DEF LoopCrash, Crash, Local, Outcomes
  <2>2. y.pc = "done" /\ n = NoMessages
    BY <1>4, <2>1, LoopRunShape, FinishedShape, CommandsAreTyped DEF LoopCrash
  <2> HIDE DEF x, y, m, n
  <2> QED
    BY <2>2 DEF Progress, QuietPCs
<1>5. CASE LoopEngine(r)
  BY <1>5, EngineProgress
<1>6. CASE Implements(r) \/ Verifies(r) \/ Refines(r) \/ RefinesNothing(r)
  <2>1. NodeTurn(x, y, m, n) /\ y.thread = x.thread /\ UNCHANGED threads
    BY <1>6, NodeProgress
  <2> HIDE DEF x, y, m, n
  <2> QED
    BY <2>1 DEF Progress
<1>7. CASE (HeartbeatStep(r) \/ Cancel(r)) /\ UNCHANGED chat
  BY <1>1, <1>7, AsideStays
<1>8. ASSUME NEW s \in Runs \ {r},
             LoopMove(s) \/ ((HeartbeatStep(s) \/ Cancel(s)) /\ UNCHANGED chat)
      PROVE  Progress(r, x, y, m, n)
  <2>1. run'[r] = run[r] /\ chat'[r] = chat[r]
    BY <1>8, OthersMove
  <2> QED
    BY <1>2, <2>1
<1>9. CASE ((\E t \in Threads, k \in Keep : Prune(t, k)) \/ Clock) /\ UNCHANGED chat
  <2>1. run'[r] = run[r] /\ chat'[r] = chat[r]
    BY <1>9 DEF Prune, Clock
  <2> QED
    BY <1>2, <2>1
<1> HIDE DEF x, y, m, n
<1> QED
  BY <1>3, <1>4, <1>5, <1>6, <1>7, <1>8, <1>9
     DEF LoopNext, LoopProceeds, LoopSurroundings, LoopMove

-----------------------------------------------------------------------------
(* The loop is in step. *)

WorkInLoop(x) ==
    /\ x.pc \in {"loop", "node"} => InLoop(x.node, x.trace, x.step)
    /\ x.pc \in {"persist", "commit"} => InLoop(x.pend.node, x.trace, x.step)

CheckpointsInLoop(th) ==
    \A c \in DOMAIN th.history :
        LET b == th.history[c].body IN InLoop(b.node, b.trace, b.step)

PaceInv ==
    /\ DOMAIN chat = Runs
    /\ \A t \in Threads : CheckpointsInLoop(threads[t])
    /\ \A r \in Runs : WorkInLoop(run[r])

\* RunCodingLoop passes no Command, and its stores keep their history.
LEMMA LoopOptions ==
    /\ Cs = {NoCommand}
    /\ NoCommand.goto = NoGoto /\ ~NoCommand.update /\ ~NoCommand.resume
    /\ \A t \in Threads : ~LatestOnly(t) /\ StoreOf[t] # "sqlite"
<1>1. Commands = {NoCommand} /\ \A t \in Threads : StoreOf[t] \in {"fenced", "durable"}
  BY LoopAssumption
<1> QED
  BY <1>1 DEF Cs, NoCommand, LatestOnly

\* Every step keeps the work of a call in step.
LEMMA WorkStaysInLoop ==
  ASSUME RuntimeInv(Cs), WorkInv(Cs), PaceInv, LoopNext, NEW r \in Runs
  PROVE  WorkInLoop(run'[r])
<1> DEFINE x == run[r]
           y == run'[r]
           m == chat[r]
           n == chat'[r]
<1> SUFFICES WorkInLoop(y)
  OBVIOUS
<1>1. Progress(r, x, y, m, n)
  BY LoopProgress DEF PaceInv
<1>2. /\ WorkInLoop(x) /\ RunShape(x, Cs) /\ x.thread \in Threads /\ LocalsOK(x)
      /\ x.step \in Nat
  BY LoopRunShape DEF PaceInv, WorkInv, RunShape
<1>3. ASSUME y.pc \in QuietPCs PROVE WorkInLoop(y)
  BY <1>3 DEF WorkInLoop, QuietPCs
<1>4. ASSUME NodeTurn(x, y, m, n) PROVE WorkInLoop(y)
  <2>1. x.pc = "node" /\ y.pc = "persist"
    BY <1>4 DEF NodeTurn, Returned
  <2>2. InLoop(x.node, x.trace, x.step)
    BY <1>2, <2>1 DEF WorkInLoop
  <2>3. PICK e, next, arts :
          /\ Returned(x, y, e, next, arts)
          /\ \/ x.node = "implementer" /\ e = "implementer" /\ next = "verifier"
             \/ x.node = "verifier" /\ e \in {"pass", "fail"}
                /\ next = AfterVerdict(e, x.trace)
             \/ x.node = "updater" /\ e \in {"refined", "nothing"} /\ next = "implementer"
    BY <1>4 DEF NodeTurn
  <2>4. InLoop(next, Append(x.trace, e), x.step + 1)
    BY <1>2, <2>2, <2>3, LoopGoesOn
  <2> HIDE DEF x, y
  <2> QED
    BY <2>1, <2>3, <2>4 DEF WorkInLoop, Returned
<1>5. ASSUME BeginsFresh(x, y) PROVE WorkInLoop(y)
  <2>1. y.pc = "loop" /\ y.node = Entry /\ y.trace = <<>> /\ y.step = 0
    BY <1>2, <1>5 DEF BeginsFresh, LocalsOK, Fresh_PCs
  <2> HIDE DEF y
  <2> QED
    BY <2>1, LoopBegins DEF WorkInLoop
<1>6. ASSUME BeginsAtLatest(r, x, y) PROVE WorkInLoop(y)
  <2> DEFINE th == threads[x.thread]
             b == th.history[th.latestID].body
  <2>1. /\ y.pc = "loop" /\ y.node = b.node /\ y.trace = b.trace /\ y.step = b.step
        /\ HasLatest(th)
    <3>1. x.cmd.goto = NoGoto /\ ~x.cmd.update
      BY <1>2, LoopOptions DEF RunShape
    <3> QED
      BY <1>6, <3>1 DEF BeginsAtLatest, ThreadOf, Latest, Target
  <2>2. th.latestID \in DOMAIN th.history
    BY <1>2, <2>1 DEF RuntimeInv, ThreadsOK, ThreadOK, HasLatest, NoID
  <2>3. InLoop(b.node, b.trace, b.step)
    BY <1>2, <2>2 DEF PaceInv, CheckpointsInLoop
  <2> HIDE DEF y, b
  <2> QED
    BY <2>1, <2>3 DEF WorkInLoop
<1>7. ASSUME \/ EntersNode(r, x, y) \/ Stays(x, y) \/ GoesToCommit(x, y) \/ Commits(r, x, y)
      PROVE  WorkInLoop(y)
  <2> HIDE DEF x, y
  <2> QED
    BY <1>2, <1>7
       DEF WorkInLoop, EntersNode, Stays, GoesToCommit, Commits, SameWork, SameStep
<1> HIDE DEF x, y, m, n
<1> QED
  BY <1>1, <1>3, <1>4, <1>5, <1>6, <1>7 DEF Progress

\* The invariant is kept.
LEMMA PaceInvStep ==
  ASSUME RuntimeInv(Cs), WorkInv(Cs), PaceInv, [LoopNext]_loopVars
  PROVE  PaceInv'
<1>1. CASE LoopNext
  <2>1. AnyStep(Cs) /\ Cs \subseteq Command /\ NoCommand \in Cs
    BY <1>1, LoopNextIsAnyStep, CommandsAreTyped
  <2>2. DOMAIN chat' = Runs
    BY <1>1 DEF PaceInv, LoopNext, LoopStarts, LoopProceeds, LoopEngine, Implements, Verifies,
       Refines, RefinesNothing, LoopCrash, LoopSurroundings
  <2>3. ASSUME NEW t \in Threads, NEW c \in DOMAIN threads'[t].history
        PROVE  LET b == threads'[t].history[c].body IN InLoop(b.node, b.trace, b.step)
    <3>1. CASE c \in DOMAIN threads[t].history
               /\ threads'[t].history[c] = threads[t].history[c]
      BY <3>1 DEF PaceInv, CheckpointsInLoop
    <3>2. ASSUME NEW s \in Runs, At(s, "commit"),
                 threads'[t].history[c].body = SnapBody(run[s])
          PROVE  LET b == threads'[t].history[c].body IN InLoop(b.node, b.trace, b.step)
      <4>1. InLoop(run[s].pend.node, run[s].trace, run[s].step)
        BY <3>2 DEF PaceInv, WorkInLoop, At
      <4> QED
        BY <3>2, <4>1 DEF SnapBody
    <3> QED
      BY <2>1, <3>1, <3>2, NewOrOld
  <2> QED
    BY <1>1, <2>2, <2>3, WorkStaysInLoop DEF PaceInv, CheckpointsInLoop
<1>2. CASE UNCHANGED loopVars
  BY <1>2 DEF loopVars, vars, PaceInv, CheckpointsInLoop
<1> QED
  BY <1>1, <1>2

\* And holds at first.
LEMMA PaceInvInit == LoopInit => PaceInv
<1> SUFFICES ASSUME LoopInit PROVE PaceInv
  OBVIOUS
<1>1. PICK u \in Threads : \A r \in Runs : run[r] = Idle(u)
  BY RuntimeAssumption DEF LoopInit, RuntimeInit
<1>2. \A t \in Threads : DOMAIN threads[t].history = {}
  BY DEF LoopInit, RuntimeInit, EmptyThread, NoEntries
<1>3. Idle(u).pc = "idle"
  BY DEF Idle
<1> QED
  BY <1>1, <1>2, <1>3 DEF PaceInv, CheckpointsInLoop, WorkInLoop, LoopInit

\* The engine under the loop and the loop are in step whatever happens.
THEOREM LoopInvariant == LoopSpec => [](RuntimeInv(Cs) /\ WorkInv(Cs) /\ PaceInv)
<1>1. LoopInit => RuntimeInv(Cs) /\ WorkInv(Cs) /\ PaceInv
  BY RuntimeInvInit, WorkInvInit, PaceInvInit, CommandsAreTyped DEF LoopInit
<1>2. ASSUME RuntimeInv(Cs), WorkInv(Cs), [LoopNext]_loopVars
      PROVE  RuntimeInv(Cs)' /\ WorkInv(Cs)'
  <2>1. AnyStep(Cs) \/ UNCHANGED vars
    BY <1>2, LoopNextIsAnyStep DEF loopVars
  <2> QED
    BY <1>2, <2>1, RuntimeInvStep, WorkInvStep, CommandsAreTyped
<1>3. RuntimeInv(Cs) /\ WorkInv(Cs) /\ PaceInv /\ [LoopNext]_loopVars => PaceInv'
  BY PaceInvStep
<1> QED
  BY <1>1, <1>2, <1>3, PTL DEF LoopSpec

\* However often a thread is continued, its implementer takes MaxIter turns at
\* most, and the loop ends by the verifier's route, not by WithMaxSteps.
THEOREM LoopsEndByThemselves == LoopSpec => []LoopFitsCap
<1>1. RuntimeInv(Cs) /\ PaceInv => LoopFitsCap
  <2> SUFFICES ASSUME RuntimeInv(Cs), PaceInv,
                      NEW t \in Threads, NEW c \in DOMAIN threads[t].history
               PROVE  LET b == threads[t].history[c].body IN
                      TurnsIn(b.trace) <= MaxIter /\ b.step < MaxSteps
    BY DEF LoopFitsCap, History, Body
  <2> DEFINE b == threads[t].history[c].body
  <2>1. b.node \in Nodes \cup {END} /\ InLoop(b.node, b.trace, b.step)
    BY DEF RuntimeInv, ThreadsOK, ThreadOK, BodyOK, PaceInv, CheckpointsInLoop
  <2> HIDE DEF b
  <2>2. TurnsIn(b.trace) <= MaxIter /\ b.step < MaxSteps
    BY <2>1, LoopIsShort
  <2> QED
    BY <2>2 DEF b
<1> QED
  BY <1>1, LoopInvariant, PTL

-----------------------------------------------------------------------------
(* What Conversation computes. *)

Opening(first) == IF first = 1 THEN <<System>> ELSE NoMessages

\* The messages of iteration k, after s.
Heard(said, s, k) ==
    Append(IF k - 1 \in said THEN Append(s, Refined(k - 1)) ELSE s, Turn(k))

Tells(first, said, f, n) ==
    f = [i \in 0..n |-> IF i = 0 THEN Opening(first) ELSE Heard(said, f[i - 1], first + i - 1)]

\* The recursion is well defined.
LEMMA TellsExists ==
  ASSUME NEW first, NEW said
  PROVE  \A n \in Nat : \E f : Tells(first, said, f, n)
<1> DEFINE S == {n \in Nat : \E f : Tells(first, said, f, n)}
<1>1. 0 \in S
  <2>1. Tells(first, said, [i \in 0..0 |-> Opening(first)], 0)
    BY DEF Tells
  <2> QED
    BY <2>1
<1>2. ASSUME NEW n \in Nat, n \in S PROVE n + 1 \in S
  <2> PICK f : Tells(first, said, f, n)
    BY <1>2
  <2> DEFINE last == Heard(said, f[n], first + (n + 1) - 1)
             g == [i \in 0..(n + 1) |-> IF i = n + 1 THEN last ELSE f[i]]
  <2>1. \A i \in 0..n : f[i] = IF i = 0 THEN Opening(first)
                               ELSE Heard(said, f[i - 1], first + i - 1)
    BY DEF Tells
  <2>2. ASSUME NEW i \in 0..(n + 1)
        PROVE  g[i] = IF i = 0 THEN Opening(first) ELSE Heard(said, g[i - 1], first + i - 1)
    <3>1. CASE i = n + 1
      <4>1. i # 0 /\ i - 1 = n /\ n \in 0..(n + 1) /\ n # n + 1
        BY <3>1
      <4>2. g[i] = last /\ g[i - 1] = f[n]
        BY <3>1, <4>1
      <4> QED
        BY <3>1, <4>1, <4>2
    <3>2. CASE i # n + 1
      <4>1. i \in 0..n /\ (i # 0 => i - 1 \in 0..(n + 1) /\ i - 1 # n + 1)
        BY <3>2
      <4>2. g[i] = f[i] /\ (i # 0 => g[i - 1] = f[i - 1])
        BY <3>2, <4>1
      <4> QED
        BY <2>1, <4>1, <4>2
    <3> QED
      BY <3>1, <3>2
  <2>3. g = [i \in 0..(n + 1) |-> g[i]]
    OBVIOUS
  <2> HIDE DEF g
  <2>4. Tells(first, said, g, n + 1)
    BY <2>2, <2>3 DEF Tells
  <2> QED
    BY <2>4
<1> HIDE DEF S
<1>3. \A n \in Nat : n \in S
  BY <1>1, <1>2, NatSetInduction
<1> QED
  BY <1>3 DEF S

\* It looks at what was said before the last turn only.
LEMMA TellsAgree ==
  ASSUME NEW first \in Nat \ {0}, NEW said, NEW heard, NEW f, NEW g,
         NEW n \in Nat, NEW m \in Nat, n <= m,
         Tells(first, said, f, n), Tells(first, heard, g, m),
         \A k \in Nat : k < first + n - 1 => (k \in said <=> k \in heard)
  PROVE  \A i \in 0..n : f[i] = g[i]
<1> DEFINE S == {i \in Nat : i <= n => f[i] = g[i]}
<1>1. /\ \A i \in 0..n : f[i] = IF i = 0 THEN Opening(first)
                                ELSE Heard(said, f[i - 1], first + i - 1)
      /\ \A i \in 0..m : g[i] = IF i = 0 THEN Opening(first)
                                ELSE Heard(heard, g[i - 1], first + i - 1)
  BY DEF Tells
<1>2. 0 \in S
  BY <1>1
<1>3. ASSUME NEW i \in Nat, i \in S, i + 1 <= n PROVE f[i + 1] = g[i + 1]
  <2>1. /\ i + 1 \in 0..n /\ i + 1 \in 0..m /\ i + 1 # 0 /\ (i + 1) - 1 = i
        /\ first + (i + 1) - 1 = first + i
    BY <1>3
  <2>2. f[i] = g[i]
    BY <1>3
  <2>3. first + i - 1 \in said <=> first + i - 1 \in heard
    <3>1. first + i - 1 \in Nat /\ first + i - 1 < first + n - 1
      BY <1>3
    <3> QED
      BY <3>1
  <2>4. Heard(said, f[i], first + i) = Heard(heard, g[i], first + i)
    BY <2>2, <2>3 DEF Heard
  <2> QED
    BY <1>1, <2>1, <2>4
<1>4. \A i \in Nat : i \in S => i + 1 \in S
  BY <1>3
<1> HIDE DEF S
<1>5. \A i \in Nat : i \in S
  BY <1>2, <1>4, NatSetInduction
<1> QED
  BY <1>5 DEF S

\* The definition is the recursion.
LEMMA ConversationTells ==
  ASSUME NEW first, NEW last, NEW said, last - first + 1 \in Nat
  PROVE  \E f : /\ Tells(first, said, f, last - first + 1)
                /\ Conversation(first, last, said) = f[last - first + 1]
<1> DEFINE N == last - first + 1
           P(f) == f = [i \in 0..(last - first + 1) |->
                          LET k == first + i - 1 IN
                          IF i = 0 THEN IF first = 1 THEN <<System>> ELSE NoMessages
                          ELSE Append(IF k - 1 \in said THEN Append(f[i - 1], Refined(k - 1))
                                                        ELSE f[i - 1],
                                      Turn(k))]
           h == CHOOSE f : P(f)
<1>1. \A f : P(f) <=> Tells(first, said, f, N)
  BY DEF Tells, Opening, Heard
<1>2. \E f : P(f)
  <2>1. \E f : Tells(first, said, f, N)
    BY TellsExists
  <2> HIDE DEF P, N
  <2> QED
    BY <1>1, <2>1
<1>3. P(h)
  <2> HIDE DEF P
  <2> QED
    BY <1>2
<1>4. Conversation(first, last, said) = h[N]
  BY DEF Conversation
<1> HIDE DEF P, h
<1> QED
  BY <1>1, <1>3, <1>4

\* It begins with the opening; a turn is heard after what was said before it;
\* what is said after the last turn is not in it.
LEMMA ConversationGoesOn ==
  ASSUME NEW first \in Nat \ {0}, NEW last \in Nat, first <= last + 1, NEW said, NEW heard,
         \A k \in Nat : k < last => (k \in said <=> k \in heard)
  PROVE  /\ first = last + 1 => Conversation(first, last, said) = Opening(first)
         /\ Conversation(first, last, said) = Conversation(first, last, heard)
         /\ Conversation(first, last + 1, said) =
              Heard(said, Conversation(first, last, said), last + 1)
<1> PICK n \in Nat : n = last - first + 1
  OBVIOUS
<1>0. first + n - 1 = last /\ (last + 1) - first + 1 = n + 1
  OBVIOUS
<1>1. PICK f : Tells(first, said, f, n) /\ Conversation(first, last, said) = f[n]
  BY ConversationTells
<1>2. PICK g : Tells(first, heard, g, n) /\ Conversation(first, last, heard) = g[n]
  BY ConversationTells
<1>3. PICK h : Tells(first, said, h, n + 1) /\ Conversation(first, last + 1, said) = h[n + 1]
  <2>1. (last + 1) - first + 1 \in Nat
    BY <1>0
  <2> QED
    BY <1>0, <2>1, ConversationTells
<1>4. n \in 0..n /\ n <= n /\ n <= n + 1 /\ n + 1 \in Nat
  OBVIOUS
<1>5. f[n] = g[n]
  <2>1. \A k \in Nat : k < first + n - 1 => (k \in said <=> k \in heard)
    BY <1>0
  <2>2. \A i \in 0..n : f[i] = g[i]
    BY <1>1, <1>2, <1>4, <2>1, TellsAgree
  <2> QED
    BY <1>4, <2>2
<1>6. f[n] = h[n]
  <2>1. \A i \in 0..n : f[i] = h[i]
    BY <1>1, <1>3, <1>4, TellsAgree
  <2> QED
    BY <1>4, <2>1
<1>7. h[n + 1] = Heard(said, h[n], last + 1)
  <2>1. n + 1 \in 0..(n + 1) /\ n + 1 # 0 /\ (n + 1) - 1 = n /\ first + (n + 1) - 1 = last + 1
    BY <1>0
  <2> QED
    BY <1>3, <2>1 DEF Tells
<1>8. n = 0 => f[n] = Opening(first)
  BY <1>1, <1>4 DEF Tells
<1> QED
  BY <1>1, <1>2, <1>3, <1>5, <1>6, <1>7, <1>8

-----------------------------------------------------------------------------
(* Whose messages they are. *)

\* The conversation of iterations first..k, and what was said after it.
Spoken(first, k, said) ==
    IF k \in said THEN Append(Conversation(first, k, said), Refined(k))
                  ELSE Conversation(first, k, said)

\* A late start has a reason.
Starting(first, said, trace) ==
    /\ first \in Nat \ {0} /\ said \in SUBSET RefinedIn(trace)
    /\ first > 1 => first - 1 \in said

\* The messages an implementer may have after trace: those it had when its last
\* turn was over, with what the updater has said since.
Talk(m, trace) ==
    \E first, said : /\ Starting(first, said, trace) /\ first <= TurnsIn(trace) + 1
                     /\ m = Spoken(first, TurnsIn(trace), said)

\* Those a checkpoint may have: ChatHasNoGap for one of them.
StoredTalk(m, trace) ==
    \E first, said : /\ Starting(first, said, trace) /\ first <= TurnsIn(trace)
                     /\ m = Conversation(first, TurnsIn(trace), said)

\* What was said stays said.
LEMMA RefinedGrows ==
  ASSUME NEW trace \in Seq(LoopUpdates), NEW e \in LoopUpdates
  PROVE  /\ RefinedIn(trace) \subseteq RefinedIn(Append(trace, e))
         /\ \A k \in Nat \ {0} : (Len(trace) = 3 * k - 1 /\ e = "refined")
                                    => k \in RefinedIn(Append(trace, e))
<1> DEFINE u == Append(trace, e)
           n == Len(trace)
<1>1. n \in Nat /\ Len(u) = n + 1 /\ u[n + 1] = e /\ \A i \in 1..n : u[i] = trace[i]
  OBVIOUS
<1> HIDE DEF u, n
<1>2. ASSUME NEW k \in RefinedIn(trace) PROVE k \in RefinedIn(u)
  <2>1. k \in 1..(n \div 3) /\ trace[3 * k] = "refined"
    BY <1>2 DEF RefinedIn, n
  <2>2. 3 * k \in 1..n /\ k \in 1..((n + 1) \div 3)
    BY <1>1, <2>1
  <2> QED
    BY <1>1, <2>1, <2>2 DEF RefinedIn
<1>3. ASSUME NEW k \in Nat \ {0}, n = 3 * k - 1, e = "refined" PROVE k \in RefinedIn(u)
  <2>1. 3 * k = n + 1 /\ k \in 1..((n + 1) \div 3)
    BY <1>1, <1>3
  <2> QED
    BY <1>1, <1>3, <2>1 DEF RefinedIn
<1> QED
  BY <1>2, <1>3 DEF u, n

\* What a checkpoint has may be in memory.
LEMMA StoredIsTalk ==
  ASSUME NEW m, NEW trace \in Seq(LoopUpdates), StoredTalk(m, trace)
  PROVE  Talk(m, trace)
<1> DEFINE k == TurnsIn(trace)
<1>1. PICK first, said : /\ Starting(first, said, trace) /\ first <= k
                         /\ m = Conversation(first, k, said)
  BY DEF StoredTalk
<1>2. k \in Nat /\ first \in Nat \ {0}
  BY <1>1, LoopCounts DEF Starting, LoopUpdates
<1> DEFINE heard == said \ {k}
<1>3. Starting(first, heard, trace)
  BY <1>1, <1>2 DEF Starting
<1>4. m = Conversation(first, k, heard)
  <2>1. \A j \in Nat : j < k => (j \in said <=> j \in heard)
    BY <1>2
  <2> HIDE DEF heard, k
  <2> QED
    BY <1>1, <1>2, <2>1, ConversationGoesOn
<1>5. k \notin heard /\ first <= k + 1
  BY <1>1, <1>2
<1> HIDE DEF heard
<1> QED
  BY <1>3, <1>4, <1>5 DEF Talk, Spoken

\* Another node is applied.
LEMMA TalkStays ==
  ASSUME NEW m, NEW trace \in Seq(LoopUpdates), NEW e \in LoopUpdates \ {"implementer"}
  PROVE  /\ Talk(m, trace) => Talk(m, Append(trace, e))
         /\ StoredTalk(m, trace) => StoredTalk(m, Append(trace, e))
<1>1. TurnsIn(Append(trace, e)) = TurnsIn(trace)
  BY LoopCounts
<1>2. \A first, said : Starting(first, said, trace) => Starting(first, said, Append(trace, e))
  <2>1. RefinedIn(trace) \subseteq RefinedIn(Append(trace, e))
    BY RefinedGrows
  <2> QED
    BY <2>1 DEF Starting
<1> QED
  BY <1>1, <1>2 DEF Talk, StoredTalk

\* The implementer takes its turn.
LEMMA TalkTurns ==
  ASSUME NEW m, NEW trace \in Seq(LoopUpdates), Talk(m, trace)
  PROVE  StoredTalk(Append(m, Turn(TurnsIn(trace) + 1)), Append(trace, "implementer"))
<1> DEFINE u == Append(trace, "implementer")
           k == TurnsIn(trace)
           n == Append(m, Turn(k + 1))
<1>1. PICK first, said : /\ Starting(first, said, trace) /\ first <= k + 1
                         /\ m = Spoken(first, k, said)
  BY DEF Talk
<1>2. "implementer" \in LoopUpdates
  BY DEF LoopUpdates
<1>3. k \in Nat /\ TurnsIn(u) = k + 1 /\ first \in Nat \ {0}
  BY <1>1, <1>2, LoopCounts DEF Starting
<1>4. Starting(first, said, u)
  <2>1. RefinedIn(trace) \subseteq RefinedIn(u)
    BY <1>2, RefinedGrows
  <2> QED
    BY <1>1, <2>1 DEF Starting
<1>5. n = Conversation(first, k + 1, said)
  <2>1. Conversation(first, k + 1, said) = Heard(said, Conversation(first, k, said), k + 1)
    <3> HIDE DEF k
    <3> QED
      BY <1>1, <1>3, ConversationGoesOn
  <2>2. (k + 1) - 1 = k
    BY <1>3
  <2> HIDE DEF k
  <2> QED
    BY <1>1, <2>1, <2>2 DEF Heard, Spoken
<1> HIDE DEF u, k, n
<1>6. StoredTalk(n, u)
  BY <1>1, <1>3, <1>4, <1>5 DEF StoredTalk
<1> QED
  BY <1>6 DEF u, k, n

\* The updater says something; to an implementer without messages it is the
\* first one.
LEMMA TalkIsRefined ==
  ASSUME NEW m, NEW trace \in Seq(LoopUpdates), NEW k \in Nat \ {0},
         k = TurnsIn(trace), Len(trace) = 3 * k - 1,
         m = NoMessages \/ Talk(m, trace)
  PROVE  Talk(Append(m, Refined(k)), Append(trace, "refined"))
<1> DEFINE u == Append(trace, "refined")
           n == Append(m, Refined(k))
<1>1. /\ "refined" \in LoopUpdates /\ TurnsIn(u) = k
      /\ k \in RefinedIn(u) /\ RefinedIn(trace) \subseteq RefinedIn(u)
  <2>1. "refined" \in LoopUpdates
    BY DEF LoopUpdates
  <2> QED
    BY <2>1, LoopCounts, RefinedGrows
<1> HIDE DEF u
<1>2. CASE m = NoMessages
  <2>1. Starting(k + 1, {k}, u)
    BY <1>1 DEF Starting
  <2>2. Conversation(k + 1, k, {k}) = m
    <3>1. k + 1 # 1 /\ k + 1 \in Nat \ {0}
      OBVIOUS
    <3>2. Conversation(k + 1, k, {k}) = Opening(k + 1)
      BY <3>1, ConversationGoesOn
    <3> QED
      BY <1>2, <3>1, <3>2 DEF Opening
  <2>3. n = Spoken(k + 1, k, {k})
    BY <2>2 DEF Spoken
  <2> HIDE DEF n
  <2>4. Talk(n, u)
    BY <1>1, <2>1, <2>3 DEF Talk
  <2> QED
    BY <2>4 DEF n, u
<1>3. CASE Talk(m, trace)
  <2>1. PICK first, said : /\ Starting(first, said, trace) /\ first <= k + 1
                           /\ m = Spoken(first, k, said)
    BY <1>3 DEF Talk
  <2> DEFINE heard == said \cup {k}
  <2>2. Starting(first, heard, u)
    BY <1>1, <2>1 DEF Starting
  <2>3. Conversation(first, k, said) = Conversation(first, k, heard)
    BY <2>1, ConversationGoesOn DEF Starting
  <2>4. k \notin said
    <3>1. k \notin 1..((3 * k - 1) \div 3)
      OBVIOUS
    <3> QED
      BY <2>1, <3>1 DEF Starting, RefinedIn
  <2>5. n = Spoken(first, k, heard)
    BY <2>1, <2>3, <2>4 DEF Spoken
  <2> HIDE DEF heard, n
  <2>6. Talk(n, u)
    BY <1>1, <2>1, <2>2, <2>5 DEF Talk
  <2> QED
    BY <2>6 DEF n, u
<1> QED
  BY <1>2, <1>3

-----------------------------------------------------------------------------
(* The messages and the store. *)

\* The messages m of a call with locals x; base is the state at the checkpoint
\* it started its present step from.
ChatFits(x, m, base) ==
    /\ x.pc \in {"loop", "node"} =>
         x.trace = base /\ (m = NoMessages \/ Talk(m, base))
    /\ (x.pc = "node" /\ x.node = "implementer") => Talk(m, base)
    /\ x.pc \in {"persist", "commit"} => \E e \in LoopUpdates :
         /\ x.trace = Append(base, e)
         /\ IF e = "implementer"
            THEN StoredTalk(m, x.trace) /\ x.turns = [a \in Agents |-> m]
            ELSE /\ m = NoMessages \/ Talk(m, x.trace)
                 /\ x.turns = NoEntries /\ x.parent # NoID

ChatOK(x, m, th) ==
    /\ x.pc \in QuietPCs => m = NoMessages
    /\ Kept(th, x.parent) => ChatFits(x, m, Base(th, x.parent).trace)

ChatStored(th, c) ==
    /\ HasSession(th, c, "implementer")
    /\ StoredTalk(AgentSession(th, c, "implementer"), th.history[c].body.trace)

ChatInv ==
    /\ \A t \in Threads : /\ ThreadSessionsOld(threads[t])
                          /\ \A c \in DOMAIN threads[t].history : ChatStored(threads[t], c)
    /\ \A r \in Runs : ChatOK(run[r], chat[r], ThreadOf(r))

\* The messages of a call after it has ensured its session.
LEMMA EnsuredTalks ==
  ASSUME RuntimeInv(Cs), PaceInv, ChatInv, NEW r \in Runs, At(r, "loop"),
         Kept(ThreadOf(r), run[r].parent)
  PROVE  Talk(EnsuredSession(r), run[r].trace)
<1> DEFINE x == run[r]
           th == ThreadOf(r)
           id == run[r].parent
<1>1. /\ x.trace = Base(th, id).trace /\ (chat[r] = NoMessages \/ Talk(chat[r], x.trace))
      /\ x.trace \in Seq(LoopUpdates) /\ x.thread \in Threads /\ th = threads[x.thread]
  BY LoopRunShape DEF ChatInv, ChatOK, ChatFits, At, PaceInv, WorkInLoop, InLoop, ThreadOf
<1>2. CASE chat[r] # NoMessages
  BY <1>1, <1>2 DEF EnsuredSession
<1>3. CASE chat[r] = NoMessages /\ id # NoID
  <2>1. ChatStored(th, id) /\ Base(th, id).trace = th.history[id].body.trace
    BY <1>1, <1>3 DEF ChatInv, Kept, Base
  <2>2. EnsuredSession(r) = AgentSession(th, id, "implementer")
    BY <1>3, <2>1 DEF EnsuredSession, ChatStored
  <2>3. StoredTalk(EnsuredSession(r), x.trace) /\ x.trace \in Seq(LoopUpdates)
    BY <1>1, <2>1, <2>2 DEF ChatStored
  <2> HIDE DEF x, th, id
  <2> QED
    BY <2>3, StoredIsTalk DEF x
<1>4. CASE chat[r] = NoMessages /\ id = NoID
  <2>1. ThreadInv(th)
    BY <1>1, LoopOptions DEF RuntimeInv, ThreadsOK, ThreadOK
  <2>2. EnsuredSession(r) = <<System>>
    <3>1. ~HasSession(th, id, "implementer")
      BY <1>4, <2>1, SessionsAreThere DEF ThreadInv, ThreadShape
    <3> QED
      BY <1>4, <3>1 DEF EnsuredSession
  <2>3. x.trace = <<>>
    BY <1>1, <1>4 DEF Base, Fresh
  <2>4. Talk(<<System>>, <<>>)
    <3>1. TurnsIn(<<>>) = 0
      BY LoopBegins
    <3>2. Starting(1, {}, <<>>)
      BY DEF Starting
    <3>3. Spoken(1, 0, {}) = <<System>>
      BY ConversationGoesOn DEF Spoken, Opening
    <3> QED
      BY <3>1, <3>2, <3>3 DEF Talk
  <2> QED
    BY <2>2, <2>3, <2>4
<1> QED
  BY <1>2, <1>3, <1>4

\* A node's turn.
LEMMA ChatAfterNode ==
  ASSUME NEW x, NEW y, NEW m, NEW n, NEW th, NodeTurn(x, y, m, n),
         WorkInLoop(x), Kept(th, x.parent), ChatOK(x, m, th)
  PROVE  ChatFits(y, n, Base(th, x.parent).trace)
<1> PICK base : base = Base(th, x.parent).trace
  OBVIOUS
<1> PICK k : k = Iteration(base)
  OBVIOUS
<1>1. /\ x.pc = "node" /\ y.pc = "persist" /\ y.parent = x.parent
      /\ x.trace = base /\ (m = NoMessages \/ Talk(m, base))
      /\ x.node = "implementer" => Talk(m, base)
      /\ InLoop(x.node, base, x.step)
  BY DEF NodeTurn, Returned, ChatOK, ChatFits, WorkInLoop
<1>2. /\ base \in Seq(LoopUpdates) /\ Len(base) = x.step /\ k \in Nat \ {0}
      /\ x.node = "implementer" => TurnsIn(base) = k - 1
      /\ x.node = "verifier" => Len(base) = 3 * (k - 1) + 1
      /\ x.node = "updater" => Len(base) = 3 * (k - 1) + 2 /\ TurnsIn(base) = k
  <2>1. base \in Seq(LoopUpdates)
    BY <1>1 DEF InLoop
  <2>2. k \in Nat \ {0}
    BY <2>1, LoopCounts DEF LoopUpdates
  <2> QED
    BY <1>1, <2>1, <2>2 DEF InLoop
<1>3. x.node \in {"verifier", "updater"} => x.parent # NoID
  <2> SUFFICES ASSUME x.node \in {"verifier", "updater"}, x.parent = NoID PROVE FALSE
    OBVIOUS
  <2>1. Len(base) = 0
    BY DEF Base, Fresh
  <2> QED
    BY <1>2, <2>1
<1>4. CASE /\ x.node = "implementer"
           /\ Returned(x, y, "implementer", "verifier", [a \in Agents |-> n])
           /\ n = Append(m, Turn(Iteration(x.trace)))
  <2>1. k = TurnsIn(base) + 1
    BY <1>2, <1>4, LoopCounts
  <2>2. y.trace = Append(base, "implementer") /\ y.turns = [a \in Agents |-> n]
    BY <1>1, <1>4 DEF Returned
  <2>3. StoredTalk(n, y.trace)
    BY <1>1, <1>2, <1>4, <2>1, <2>2, TalkTurns
  <2> QED
    BY <1>1, <2>2, <2>3 DEF ChatFits, LoopUpdates
<1>5. ASSUME NEW e \in LoopUpdates \ {"implementer"}, NEW next,
             Returned(x, y, e, next, NoEntries), x.node \in {"verifier", "updater"},
             n = NoMessages \/ Talk(n, Append(base, e))
      PROVE  ChatFits(y, n, base)
  <2>1. y.trace = Append(base, e) /\ y.turns = NoEntries /\ y.parent # NoID
    BY <1>1, <1>3, <1>5 DEF Returned
  <2> QED
    BY <1>1, <1>5, <2>1 DEF ChatFits
<1>6. ASSUME NEW e \in LoopUpdates \ {"implementer"}, NEW next,
             Returned(x, y, e, next, NoEntries), x.node \in {"verifier", "updater"}, n = m
      PROVE  ChatFits(y, n, base)
  <2>1. n = NoMessages \/ Talk(n, Append(base, e))
    BY <1>1, <1>2, <1>6, TalkStays
  <2> QED
    BY <1>5, <1>6, <2>1
<1>7. CASE /\ x.node = "updater"
           /\ Returned(x, y, "refined", "implementer", NoEntries)
           /\ n = Append(m, Refined(Iteration(x.trace)))
  <2>1. k = TurnsIn(base) /\ Len(base) = 3 * k - 1 /\ k \in Nat \ {0}
    BY <1>2, <1>7
  <2>2. Talk(n, Append(base, "refined"))
    BY <1>1, <1>2, <1>7, <2>1, TalkIsRefined
  <2> QED
    BY <1>5, <1>7, <2>2 DEF LoopUpdates
<1> QED
  BY <1>4, <1>6, <1>7 DEF NodeTurn, LoopUpdates

\* Every step keeps the messages of a call in step with its work.
LEMMA ChatStays ==
  ASSUME RuntimeInv(Cs), WorkInv(Cs), PaceInv, ChatInv, LoopNext, NEW r \in Runs
  PROVE  ChatOK(run'[r], chat'[r], threads'[run'[r].thread])
<1> DEFINE x == run[r]
           y == run'[r]
           m == chat[r]
           n == chat'[r]
<1> PICK t \in Threads : t = x.thread
  BY LoopRunShape
<1> PICK th : th = threads[t]
  OBVIOUS
<1> PICK new : new = threads'[t]
  OBVIOUS
<1>1. /\ AnyStep(Cs) /\ Cs \subseteq Command /\ NoCommand \in Cs
      /\ RunShape(x, Cs) /\ x.parent \in 0..lastID /\ LocalsOK(x) /\ WorkInLoop(x)
      /\ ChatOK(x, m, th) /\ ~LatestOnly(t) /\ ThreadOf(r) = th
  BY LoopNextIsAnyStep, CommandsAreTyped, LoopRunShape, LoopOptions
     DEF WorkInv, PaceInv, ChatInv, ThreadOf
<1>2. Progress(r, x, y, m, n)
  BY LoopProgress DEF PaceInv
<1>3. ASSUME NEW id \in 0..lastID, Kept(new, id)
      PROVE  Kept(th, id) /\ Base(new, id) = Base(th, id)
  BY <1>1, <1>3, PastStays
<1> SUFFICES ChatOK(y, n, threads'[y.thread])
  OBVIOUS
<1>4. ASSUME y.pc \in QuietPCs, n = NoMessages \/ (n = m /\ x.pc \in QuietPCs)
      PROVE  ChatOK(y, n, threads'[y.thread])
  <2>1. n = NoMessages
    BY <1>1, <1>4 DEF ChatOK
  <2>2. y.pc \notin {"loop", "node", "persist", "commit"}
    BY <1>4 DEF QuietPCs
  <2> HIDE DEF x, y, m, n
  <2> QED
    BY <2>1, <2>2 DEF ChatOK, ChatFits
<1>5. ASSUME y.thread = x.thread, y.pc \notin QuietPCs,
             Kept(new, y.parent) => ChatFits(y, n, Base(new, y.parent).trace)
      PROVE  ChatOK(y, n, threads'[y.thread])
  <2> HIDE DEF x, y, m, n
  <2> QED
    BY <1>5 DEF ChatOK
<1>6. ASSUME NodeTurn(x, y, m, n), y.thread = x.thread
      PROVE  ChatOK(y, n, threads'[y.thread])
  <2>1. y.parent = x.parent /\ y.pc = "persist"
    BY <1>6 DEF NodeTurn, Returned
  <2>2. ASSUME Kept(new, x.parent) PROVE ChatFits(y, n, Base(new, x.parent).trace)
    <3> HIDE DEF x, y, m, n
    <3>1. Kept(th, x.parent) /\ Base(new, x.parent) = Base(th, x.parent)
      BY <1>1, <1>3, <2>2
    <3>2. ChatFits(y, n, Base(th, x.parent).trace)
      BY <1>1, <1>6, <3>1, ChatAfterNode
    <3> QED
      BY <3>1, <3>2
  <2> HIDE DEF x, y, m, n
  <2> QED
    BY <1>5, <1>6, <2>1, <2>2 DEF QuietPCs
<1>7. ASSUME EntersNode(r, x, y), y.thread = x.thread,
             n = IF x.node = "implementer" THEN EnsuredSession(r) ELSE m
      PROVE  ChatOK(y, n, threads'[y.thread])
  <2>1. /\ x.pc = "loop" /\ y.pc = "node" /\ y.parent = x.parent /\ y.trace = x.trace
        /\ y.node = x.node
    BY <1>7 DEF EntersNode, SameWork
  <2>2. ASSUME Kept(new, x.parent) PROVE ChatFits(y, n, Base(new, x.parent).trace)
    <3>1. Kept(th, x.parent) /\ Base(new, x.parent) = Base(th, x.parent)
      BY <1>1, <1>3, <2>2
    <3>2. Talk(EnsuredSession(r), x.trace)
      BY <1>1, <2>1, <3>1, EnsuredTalks DEF At
    <3> HIDE DEF x, y, m, n
    <3> QED
      BY <1>1, <1>7, <2>1, <3>1, <3>2 DEF ChatOK, ChatFits
  <2> HIDE DEF x, y, m, n
  <2> QED
    BY <1>5, <1>7, <2>1, <2>2 DEF QuietPCs
<1>8. ASSUME BeginsFresh(x, y), y.thread = x.thread, n = m
      PROVE  ChatOK(y, n, threads'[y.thread])
  <2>1. y.pc = "loop" /\ y.parent = NoID /\ y.trace = <<>> /\ x.pc = "begin"
    BY <1>1, <1>8 DEF BeginsFresh, LocalsOK, Fresh_PCs
  <2>2. m = NoMessages
    BY <1>1, <2>1 DEF ChatOK, QuietPCs
  <2> HIDE DEF x, y, m, n
  <2> QED
    BY <1>5, <1>8, <2>1, <2>2 DEF QuietPCs, ChatFits, Base, Fresh
<1>9. ASSUME BeginsAtLatest(r, x, y), y.thread = x.thread, n = m
      PROVE  ChatOK(y, n, threads'[y.thread])
  <2>1. /\ y.pc = "loop" /\ x.pc = "begin" /\ y.parent = th.latestID
        /\ th.latestID # NoID /\ y.trace = th.history[th.latestID].body.trace
    <3>1. ~x.cmd.update
      BY <1>1, LoopOptions DEF RunShape
    <3>2. LoadedID(r) = th.latestID /\ Latest(r) = th.history[th.latestID].body
      BY <1>1, LoopOptions DEF LoadedID, Latest
    <3>3. HasLatest(th) /\ y.trace = Latest(r).trace /\ y.parent = LoadedID(r)
      BY <1>1, <1>9, <3>1 DEF BeginsAtLatest
    <3> QED
      BY <1>9, <3>2, <3>3 DEF BeginsAtLatest, HasLatest
  <2>2. m = NoMessages
    BY <1>1, <2>1 DEF ChatOK, QuietPCs
  <2>3. th.latestID \in 0..lastID
    BY DEF RuntimeInv, ThreadsOK, ThreadOK
  <2>4. Kept(new, y.parent) => Base(new, y.parent).trace = y.trace
    BY <1>3, <2>1, <2>3 DEF Base
  <2> HIDE DEF x, y, m, n
  <2> QED
    BY <1>5, <1>9, <2>1, <2>2, <2>4 DEF QuietPCs, ChatFits
<1>10. ASSUME Stays(x, y) \/ GoesToCommit(x, y), y.thread = x.thread, n = m
       PROVE  ChatOK(y, n, threads'[y.thread])
  <2>1. /\ y.parent = x.parent /\ y.trace = x.trace /\ y.node = x.node /\ y.turns = x.turns
        /\ y.pc = x.pc \/ (x.pc = "persist" /\ y.pc = "commit")
    BY <1>10 DEF Stays, GoesToCommit, SameWork, SameStep
  <2>2. CASE x.pc \in QuietPCs
    <3>1. y.pc = x.pc
      BY <2>1, <2>2 DEF QuietPCs
    <3> QED
      BY <1>4, <1>10, <2>2, <3>1
  <2>3. CASE x.pc \notin QuietPCs
    <3>1. ASSUME Kept(new, x.parent) PROVE ChatFits(y, n, Base(new, x.parent).trace)
      <4>1. Kept(th, x.parent) /\ Base(new, x.parent) = Base(th, x.parent)
        BY <1>1, <1>3, <3>1
      <4>2. ChatFits(x, m, Base(th, x.parent).trace)
        BY <1>1, <4>1 DEF ChatOK
      <4> PICK base : base = Base(th, x.parent).trace
        OBVIOUS
      <4> HIDE DEF x, y, m, n
      <4>3. ChatFits(y, n, base)
        BY <1>10, <2>1, <4>2 DEF ChatFits
      <4> QED
        BY <4>1, <4>3
    <3>2. y.pc \notin QuietPCs
      BY <2>1, <2>3 DEF QuietPCs
    <3> HIDE DEF x, y, m, n
    <3> QED
      BY <1>5, <1>10, <2>1, <3>1, <3>2
  <2> QED
    BY <2>2, <2>3
<1>11. ASSUME Commits(r, x, y), y.thread = x.thread, n = m
       PROVE  ChatOK(y, n, threads'[y.thread])
  <2>1. /\ x.pc = "commit" /\ y.pc = "loop" /\ AppendsSnap(r)
        /\ y.parent = lastID + 1 /\ y.trace = x.trace
    BY <1>11 DEF Commits
  <2>2. /\ th.latestID = x.parent /\ new.history[lastID + 1].body = Snap(r).body
        /\ th.latestID \in 0..lastID /\ lastID \in Nat
        /\ th.latestID # NoID => th.latestID \in DOMAIN th.history
    <3>1. ThreadsOK /\ ThreadOK(t) /\ lastID \in Nat
      BY DEF RuntimeInv, ThreadsOK
    <3> QED
      BY <1>1, <2>1, <3>1, AppendEffect DEF ThreadOK
  <2>3. ChatFits(x, m, Base(th, x.parent).trace)
    BY <1>1, <2>2 DEF ChatOK, Kept
  <2>4. m = NoMessages \/ Talk(m, x.trace)
    <3>1. x.trace \in Seq(LoopUpdates)
      BY <1>1, <2>1 DEF WorkInLoop, InLoop
    <3> HIDE DEF x, y, m, n
    <3> QED
      BY <2>1, <2>3, <3>1, StoredIsTalk DEF ChatFits
  <2>5. Base(new, y.parent).trace = x.trace
    BY <2>1, <2>2 DEF Base, NoID, Snap
  <2> HIDE DEF x, y, m, n
  <2> QED
    BY <1>5, <1>11, <2>1, <2>4, <2>5 DEF QuietPCs, ChatFits
<1> HIDE DEF x, y, m, n
<1> QED
  BY <1>2, <1>4, <1>6, <1>7, <1>8, <1>9, <1>10, <1>11 DEF Progress

\* Every step keeps the conversations of a thread those of its states.
LEMMA StoredChatsStay ==
  ASSUME RuntimeInv(Cs), WorkInv(Cs), PaceInv, ChatInv, LoopNext, NEW t \in Threads
  PROVE  /\ ThreadSessionsOld(threads'[t])
         /\ \A c \in DOMAIN threads'[t].history : ChatStored(threads'[t], c)
<1> DEFINE th == threads[t]
           new == threads'[t]
<1>1. /\ AnyStep(Cs) /\ Cs \subseteq Command /\ NoCommand \in Cs /\ ThreadInv(th)
      /\ ~LatestOnly(t) /\ ThreadSessionsOld(th)
      /\ \A c \in DOMAIN th.history : ChatStored(th, c)
  BY LoopNextIsAnyStep, CommandsAreTyped, LoopOptions
     DEF RuntimeInv, ThreadsOK, ThreadOK, ChatInv
<1>2. /\ ThreadSessionsOld(new)
      /\ \A c \in DOMAIN new.history : \/ SameCheckpoint(th, new, c)
                                       \/ \E s \in Runs : NewCheckpoint(s, t, c)
  BY <1>1, SessionsStay
<1>3. ASSUME NEW c, SameCheckpoint(th, new, c) PROVE ChatStored(new, c)
  <2>1. ChatStored(th, c)
    BY <1>1, <1>3 DEF SameCheckpoint
  <2> HIDE DEF th, new
  <2> QED
    BY <1>3, <2>1 DEF ChatStored, SameCheckpoint
<1>4. ASSUME NEW r \in Runs, NEW c, NewCheckpoint(r, t, c) PROVE ChatStored(new, c)
  <2> DEFINE snap == Snap(r)
             arts == run[r].turns
             p == run[r].parent
             m == chat[r]
             trace == run[r].trace
             a == "implementer"
  <2>1. /\ CanAppend(th, snap) /\ new = Appended(th, snap, arts) /\ run[r].thread = t
        /\ c = snap.id /\ snap.id \in Nat \ {NoID} /\ snap.parent < snap.id
        /\ run[r].pc = "commit"
    BY <1>4 DEF NewCheckpoint, At
  <2>2. snap.parent = p /\ snap.body.trace = trace
    BY DEF Snap
  <2>3. Kept(th, p)
    BY <1>1, <2>1, <2>2 DEF CanAppend, Kept, ThreadInv, ThreadLatestIsNewest
  <2>4. ChatFits(run[r], m, Base(th, p).trace)
    BY <2>1, <2>3 DEF ChatInv, ChatOK, ThreadOf
  <2>5. PICK e \in LoopUpdates :
          /\ trace = Append(Base(th, p).trace, e)
          /\ IF e = a THEN StoredTalk(m, trace) /\ arts = [b \in Agents |-> m]
             ELSE arts = NoEntries /\ p # NoID
    BY <2>1, <2>4 DEF ChatFits
  <2>6. new.history[c].body.trace = trace
    BY <2>1, <2>2 DEF Appended
  <2>7. /\ a \in DOMAIN arts =>
             HasSession(new, c, a) /\ AgentSession(new, c, a) = arts[a]
        /\ a \notin DOMAIN arts =>
             /\ HasSession(new, c, a) <=> HasSession(th, p, a)
             /\ HasSession(th, p, a) => AgentSession(new, c, a) = AgentSession(th, p, a)
    <3> HIDE DEF th, new, arts, snap, p
    <3> QED
      BY <1>1, <2>1, <2>2, AppendSession
  <2>8. CASE e = a
    <3>1. a \in DOMAIN arts /\ arts[a] = m
      BY <2>5, <2>8, LoopAssumption
    <3> HIDE DEF th, new, arts, snap, p, m, trace
    <3> QED
      BY <2>5, <2>6, <2>7, <2>8, <3>1 DEF ChatStored
  <2>9. CASE e # a
    <3>1. a \notin DOMAIN arts /\ p # NoID
      BY <2>5, <2>9 DEF NoEntries
    <3>2. ChatStored(th, p) /\ p \in DOMAIN th.history
          /\ Base(th, p).trace = th.history[p].body.trace
      BY <1>1, <2>3, <3>1 DEF Kept, Base
    <3>3. Base(th, p).trace \in Seq(LoopUpdates)
      BY <3>2 DEF PaceInv, CheckpointsInLoop, InLoop
    <3> HIDE DEF th, new, arts, snap, p, m, trace
    <3>4. StoredTalk(AgentSession(th, p, a), trace)
      BY <2>5, <2>9, <3>2, <3>3, TalkStays DEF ChatStored
    <3> QED
      BY <2>6, <2>7, <3>1, <3>2, <3>4 DEF ChatStored
  <2> QED
    BY <2>8, <2>9
<1> QED
  BY <1>2, <1>3, <1>4

\* The invariant holds at first.
LEMMA ChatInvInit == LoopInit => ChatInv
<1> SUFFICES ASSUME LoopInit PROVE ChatInv
  OBVIOUS
<1>1. PICK u \in Threads : \A r \in Runs : run[r] = Idle(u)
  BY RuntimeAssumption DEF LoopInit, RuntimeInit
<1>2. \A t \in Threads : DOMAIN threads[t].history = {} /\ DOMAIN threads[t].sessions = {}
  BY DEF LoopInit, RuntimeInit, EmptyThread, NoEntries
<1>3. Idle(u).pc = "idle"
  BY DEF Idle
<1>4. \A r \in Runs : chat[r] = NoMessages
  BY DEF LoopInit
<1> HIDE DEF LoopInit
<1> QED
  BY <1>1, <1>2, <1>3, <1>4 DEF ChatInv, ChatOK, ChatFits, ThreadSessionsOld

\* The conversation stored with a checkpoint has the turns of its execution,
\* each once and in order, and nothing of a call that crashed, failed or was
\* overtaken.
THEOREM ChatsHaveNoGap == LoopSpec => []ChatHasNoGap
<1>1. LoopInit => ChatInv
  BY ChatInvInit
<1>2. ASSUME RuntimeInv(Cs), WorkInv(Cs), PaceInv, ChatInv, [LoopNext]_loopVars
      PROVE  ChatInv'
  <2>1. CASE LoopNext
    BY <1>2, <2>1, ChatStays, StoredChatsStay DEF ChatInv, ThreadOf
  <2>2. CASE UNCHANGED loopVars
    BY <1>2, <2>2 DEF loopVars, vars, ChatInv, ThreadOf
  <2> QED
    BY <1>2, <2>1, <2>2
<1>3. PaceInv /\ ChatInv => ChatHasNoGap
  <2> SUFFICES ASSUME PaceInv, ChatInv, NEW t \in Threads, NEW c \in DOMAIN threads[t].history
               PROVE  LET trace == threads[t].history[c].body.trace IN
                      \E first \in 1..TurnsIn(trace), said \in SUBSET RefinedIn(trace) :
                        /\ HasChat(t, c)
                        /\ first > 1 => first - 1 \in said
                        /\ StoredChat(t, c) = Conversation(first, TurnsIn(trace), said)
    BY DEF ChatHasNoGap, History, Body
  <2> PICK trace : trace = threads[t].history[c].body.trace
    OBVIOUS
  <2>1. HasChat(t, c) /\ StoredTalk(StoredChat(t, c), trace)
    BY DEF ChatInv, ChatStored, HasChat, StoredChat
  <2>2. TurnsIn(trace) \in Nat
    BY LoopCounts DEF PaceInv, CheckpointsInLoop, InLoop, LoopUpdates
  <2>3. PICK first, said : /\ Starting(first, said, trace) /\ first <= TurnsIn(trace)
                           /\ StoredChat(t, c) = Conversation(first, TurnsIn(trace), said)
    BY <2>1 DEF StoredTalk
  <2>4. /\ first \in 1..TurnsIn(trace) /\ said \in SUBSET RefinedIn(trace)
        /\ first > 1 => first - 1 \in said
    BY <2>2, <2>3 DEF Starting
  <2> QED
    BY <2>1, <2>3, <2>4
<1> QED
  BY <1>1, <1>2, <1>3, LoopInvariant, PTL DEF LoopSpec
=============================================================================
