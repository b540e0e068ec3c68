------------------------------ MODULE CodingLoop ------------------------------
(***************************************************************************)
(* RunCodingLoop (orchestrator/coding_loop.go) with a Durable store: an    *)
(* implementer writes code, a verifier tests it, an updater refines the    *)
(* prompt, and so on until the verifier passes it or MaxIter is reached.   *)
(*                                                                         *)
(* A call r of RunCodingLoop is the run r of GraphRuntime.  The graph      *)
(* state is the sequence of updates its nodes have returned: "implementer";*)
(* "pass" or "fail" of the verifier; "refined", or "nothing" if the        *)
(* updater's completion was empty.  Each call makes an implementer of its  *)
(* own (agentspec.New): chat[r] are the messages of that instance, which   *)
(* persists them with every step of its node (PersistSession) and which    *)
(* the updater writes to as well.  The other two agents start afresh each  *)
(* time and keep nothing.                                                  *)
(***************************************************************************)
EXTENDS GraphRuntime

CONSTANT MaxIter    \* CodingLoopConfig.MaxIter

\* The graph RunCodingLoop builds, WithMaxSteps(MaxIter*4 + 2), and a Resume
\* without a Command.
ASSUME LoopAssumption ==
    /\ MaxIter \in Nat \ {0}
    /\ Nodes = {"implementer", "verifier", "updater"}
    /\ Entry = "implementer"
    /\ Succ = [n \in Nodes |->
                 CASE n = "implementer" -> {"verifier"}
                   [] n = "verifier"    -> {"updater", END}
                   [] n = "updater"     -> {"implementer"}]
    /\ Gated = {}
    /\ Agents = {"implementer"}
    /\ AgentsOf = [n \in Nodes |-> {}]
    /\ MaxSteps = MaxIter * 4 + 2
    /\ Commands = {NoCommand}
    /\ \A t \in Threads : StoreOf[t] \in {"fenced", "durable"}

VARIABLE chat   \* chat[r]: the messages of r's implementer instance

loopVars == <<vars, chat>>

NoMessages == <<>>
System    == <<"system", 0>>
Turn(k)    == <<"turn", k>>         \* prompt, thoughts and tool calls of iteration k
Refined(k) == <<"refined", k>>      \* what the updater of iteration k appended

LoopInit ==
    /\ RuntimeInit
    /\ chat = [r \in Runs |-> NoMessages]

-----------------------------------------------------------------------------
\* State["iteration"]: 1 at first, one more after each updater.
Iteration(trace) ==
    1 + Cardinality({i \in DOMAIN trace : trace[i] \in {"refined", "nothing"}})

\* Mutant of EnsuredSession: the stored session is not loaded.
MutEnsuredSessionFresh(r) == IF chat[r] # NoMessages THEN chat[r] ELSE <<System>>

\* ensureSession: an instance without messages loads those of the parent
\* checkpoint, or starts with its system prompt if there are none.
EnsuredSession(r) ==
    IF chat[r] # NoMessages THEN chat[r]
    ELSE IF HasSession(ThreadOf(r), run[r].parent, "implementer")
    THEN AgentSession(ThreadOf(r), run[r].parent, "implementer")
    ELSE <<System>>

\* The implementer's node takes a turn and registers the chat as its session.
Implements(r) ==
    LET messages == Append(chat[r], Turn(Iteration(run[r].trace))) IN
    /\ run[r].node = "implementer"
    /\ NodeReturns(r, "implementer", "verifier", [a \in Agents |-> messages])
    /\ chat' = [chat EXCEPT ![r] = messages]

\* Mutant of AfterVerdict: one iteration more.
MutAfterVerdictLate(verdict, trace) ==
    IF verdict = "pass" \/ Iteration(trace) > MaxIter THEN END ELSE "updater"

\* The route of the verifier.
AfterVerdict(verdict, trace) ==
    IF verdict = "pass" \/ Iteration(trace) >= MaxIter THEN END ELSE "updater"

\* The verifier says VERIFY: PASS, or anything else.
Verifies(r) ==
    /\ run[r].node = "verifier"
    /\ \E verdict \in {"pass", "fail"} :
         NodeReturns(r, verdict, AfterVerdict(verdict, run[r].trace), NoEntries)
    /\ UNCHANGED chat

\* The updater appends a refined prompt to the implementer's messages, which
\* are no artifact of this step.
Refines(r) ==
    /\ run[r].node = "updater"
    /\ NodeReturns(r, "refined", "implementer", NoEntries)
    /\ chat' = [chat EXCEPT ![r] = Append(@, Refined(Iteration(run[r].trace)))]

\* Its completion is empty.
RefinesNothing(r) ==
    /\ run[r].node = "updater"
    /\ NodeReturns(r, "nothing", "implementer", NoEntries)
    /\ UNCHANGED chat

-----------------------------------------------------------------------------
\* The messages go with the call.
IsOver(r) == run'[r].pc \in {"exit", "done"}

EntersImplementer(r) == run'[r].pc = "node" /\ run[r].node = "implementer"

\* What Invoke and Resume do; RunOnce of the implementer ensures its session.
LoopEngine(r) ==
    /\ EngineStep(r) \/ LeaseStep(r)
    /\ chat' = [chat EXCEPT ![r] = IF IsOver(r) THEN NoMessages
                                   ELSE IF EntersImplementer(r) THEN EnsuredSession(r)
                                   ELSE @]

LoopProceeds(r) ==
    LoopEngine(r) \/ Implements(r) \/ Verifies(r) \/ Refines(r) \/ RefinesNothing(r)

LoopCrash(r) ==
    /\ Crash(r)
    /\ chat' = [chat EXCEPT ![r] = NoMessages]

\* RunCodingLoop is called: Invoke, or Resume with ResumeFromCheckpoint.
LoopStarts(r) == Starts(r) /\ UNCHANGED chat

\* As in GraphRuntime; nobody deletes the thread of a loop.
LoopSurroundings ==
    /\ \/ \E r \in Runs : HeartbeatStep(r)
       \/ \E r \in Runs : Cancel(r)
       \/ \E t \in Threads, k \in Keep : Prune(t, k)
       \/ Clock
    /\ UNCHANGED chat

LoopNext ==
    \/ \E r \in Runs : LoopStarts(r)
    \/ \E r \in Runs : LoopProceeds(r)
    \/ \E r \in Runs : LoopCrash(r)
    \/ LoopSurroundings

LoopSpec == LoopInit /\ [][LoopNext]_loopVars

-----------------------------------------------------------------------------
(***************************************************************************)
(* Properties.                                                             *)
(***************************************************************************)

TurnsIn(trace) == Cardinality({i \in DOMAIN trace : trace[i] = "implementer"})

\* Iterations whose updater had something to say: every third update is one of
\* an updater.
RefinedIn(trace) == {k \in 1..(Len(trace) \div 3) : trace[3 * k] = "refined"}

\* The conversation of iterations first..last, a turn of each; said are those
\* after which a refined prompt was said.
Conversation(first, last, said) ==
    LET f[i \in 0..(last - first + 1)] ==
          LET k == first + i - 1 IN
          IF i = 0 THEN IF first = 1 THEN <<System>> ELSE NoMessages
          ELSE Append(IF k - 1 \in said THEN Append(f[i - 1], Refined(k - 1)) ELSE f[i - 1],
                      Turn(k))
    IN  f[last - first + 1]

\* What the store has of the implementer at a checkpoint whose state is trace.
StoredChat(t, c) == AgentSession(threads[t], c, "implementer")
HasChat(t, c) == HasSession(threads[t], c, "implementer")

\* The conversation stored with a checkpoint belongs to the execution stored
\* with it, which starts with a turn of the implementer: its turns are those of
\* the last iterations, each once, in order and without a gap, up to the present
\* one; a refined prompt stands where it was said.  No turn of a crashed, failed
\* or overtaken call gets in, and a conversation can start late only with a
\* refined prompt (ensureSession).
ChatHasNoGap ==
    \A t \in Threads : \A c \in DOMAIN History(t) :
        LET trace == Body(t, c).trace IN
        \E first \in 1..TurnsIn(trace), said \in SUBSET RefinedIn(trace) :
            /\ HasChat(t, c)
            /\ first > 1 => first - 1 \in said
            /\ StoredChat(t, c) = Conversation(first, TurnsIn(trace), said)

\* A call that continues a thread restores the implementer's chat (ADR 0005):
\* the conversation stored with a checkpoint starts with the system prompt and
\* has a turn of every iteration.  The prompts between them may be missing, as
\* they are not part of the checkpoint after which they would be lost.
ChatIsComplete ==
    \A t \in Threads : \A c \in DOMAIN History(t) :
        LET trace == Body(t, c).trace IN
        HasChat(t, c) => \E said \in SUBSET RefinedIn(trace) :
            StoredChat(t, c) = Conversation(1, TurnsIn(trace), said)

\* MaxIter bounds the iterations of a thread, not those of a call: however
\* often it is continued, the implementer works at most MaxIter times in it,
\* and the loop ends by its own route before WithMaxSteps ends it.  All calls on
\* a thread have the same MaxIter.
LoopFitsCap ==
    \A t \in Threads : \A c \in DOMAIN History(t) :
        TurnsIn(Body(t, c).trace) <= MaxIter /\ Body(t, c).step < MaxSteps
=============================================================================
