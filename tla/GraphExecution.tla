--------------------------- MODULE GraphExecution ---------------------------
(***************************************************************************)
(* What a graph with a durable store promises: each thread is ONE          *)
(* execution of the graph, step by step, with a human gate that must be    *)
(* paused at before it is passed.  There are no runs here, no leases and   *)
(* no failures; GraphRuntime shows that many runs, in many processes, come *)
(* to no more than this.                                                   *)
(***************************************************************************)
EXTENDS Integers, Sequences

CONSTANTS Threads, Nodes, END, Entry, Succ, Gated

VARIABLE point      \* the current point of each thread: what its next step
                    \* starts from

Fresh == [node |-> Entry, trace |-> <<>>, step |-> 0, interrupt |-> FALSE]

ExecutionInit == point = [t \in Threads |-> Fresh]

\* Somebody may have patched the state with a Command's Update.
Patched(trace) == {trace, Append(trace, "update")}

\* The next node is applied; a gated one only after the pause.
Step(t, next, trace) ==
    /\ point[t].node \in Nodes
    /\ point[t].node \in Gated => point[t].interrupt
    /\ next \in Succ[point[t].node]
    /\ trace \in Patched(point[t].trace)
    /\ point' = [point EXCEPT ![t] =
                   [node |-> next, trace |-> Append(trace, point[t].node),
                    step |-> point[t].step + 1, interrupt |-> FALSE]]

\* The gate asks for a human.
Pause(t, trace) ==
    /\ point[t].node \in Gated
    /\ ~point[t].interrupt
    /\ trace \in Patched(point[t].trace)
    /\ point' = [point EXCEPT ![t].interrupt = TRUE, ![t].trace = trace]

\* The thread is deleted.
Reset(t) == point' = [point EXCEPT ![t] = Fresh]

ExecutionNext ==
    \E t \in Threads :
        \/ \E next \in Nodes \cup {END}, trace \in Patched(point[t].trace) :
              Step(t, next, trace)
        \/ \E trace \in Patched(point[t].trace) : Pause(t, trace)
        \/ Reset(t)

ExecutionSpec == ExecutionInit /\ [][ExecutionNext]_point
=============================================================================
