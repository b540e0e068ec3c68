----------------------------- MODULE Checkpoints -----------------------------
(***************************************************************************)
(* One thread of a durable checkpointer (graph/durable.go), as             *)
(* DurableMemory keeps it: an append-only history of checkpoints with a    *)
(* parent compare-and-swap and, for each checkpoint, references to the     *)
(* chat session every agent had when it was written.                       *)
(*                                                                         *)
(* A snapshot handed to the store is [id, parent, body]; the body (node,   *)
(* state, step, interrupt) is opaque to the store, and the revision is the *)
(* store's own.  The artifacts of a step are a function from the agents    *)
(* that registered a session to its content: RegisterStepArtifact refuses  *)
(* a second one of the same agent.                                         *)
(*                                                                         *)
(* Checkpoint ids are numbers; NewID never repeats one.  A session id is   *)
(* the pair of the checkpoint and the agent it was made for.               *)
(***************************************************************************)
EXTENDS Integers, FiniteSets, Functions

NoID == 0           \* the empty checkpoint id

SessionID(c, a) == <<c, a>>

NoEntries == [x \in {} |-> NoID]

\* threadLocked: a fresh memThread, which answers like an absent one.
EmptyThread ==
    [latestID |-> NoID, revision |-> 0, history |-> NoEntries,
     refs |-> NoEntries, sessions |-> NoEntries]

-----------------------------------------------------------------------------
(* commitStepLocked *)

\* The checkpoint is already there, with the same parent: an idempotent retry.
IsRetry(th, snap) ==
    /\ snap.id \in DOMAIN th.history
    /\ th.history[snap.id].parent = snap.parent

\* Mutant of CanAppend: any checkpoint still in the history will do as parent.
MutCanAppendFork(th, snap) ==
    /\ snap.id \notin DOMAIN th.history
    /\ snap.parent \in DOMAIN th.history \cup {NoID}

\* Mutant of CanAppend: a parent that was pruned is not compared.
MutCanAppendPruned(th, snap) ==
    /\ snap.id \notin DOMAIN th.history
    /\ \/ th.latestID = snap.parent
       \/ snap.parent \notin DOMAIN th.history

\* The compare-and-swap: the parent must be the latest checkpoint.
CanAppend(th, snap) ==
    /\ snap.id \notin DOMAIN th.history
    /\ th.latestID = snap.parent

\* Mutant of NewRefs: the parent's references are not copied.
MutNewRefsOwnOnly(th, snap, arts) ==
    [a \in DOMAIN arts |-> SessionID(snap.id, a)]

\* The references of a new checkpoint: the parent's, overlaid by the step's.
NewRefs(th, snap, arts) ==
    LET inherited == IF snap.parent \in DOMAIN th.refs
                     THEN th.refs[snap.parent] ELSE NoEntries
    IN  [a \in DOMAIN arts \cup DOMAIN inherited |->
            IF a \in DOMAIN arts THEN SessionID(snap.id, a) ELSE inherited[a]]

NewSessions(th, snap, arts) ==
    LET new == {SessionID(snap.id, a) : a \in DOMAIN arts}
    IN  [s \in DOMAIN th.sessions \cup new |->
            IF s \in new THEN arts[s[2]] ELSE th.sessions[s]]

\* Mutant of Appended: the revision of the thread used before it is counted up.
MutAppendedLateRevision(th, snap, arts) ==
    [latestID |-> snap.id,
     revision |-> th.revision + 1,
     history  |-> [c \in DOMAIN th.history \cup {snap.id} |->
                     IF c = snap.id
                     THEN [parent |-> snap.parent, revision |-> th.revision,
                           body |-> snap.body]
                     ELSE th.history[c]],
     refs     |-> [c \in DOMAIN th.refs \cup {snap.id} |->
                     IF c = snap.id THEN NewRefs(th, snap, arts)
                                    ELSE th.refs[c]],
     sessions |-> NewSessions(th, snap, arts)]

\* The thread with the snapshot appended as its latest checkpoint.
Appended(th, snap, arts) ==
    LET rev   == th.revision + 1
        entry == [parent |-> snap.parent, revision |-> rev, body |-> snap.body]
    IN  [latestID |-> snap.id,
         revision |-> rev,
         history  |-> [c \in DOMAIN th.history \cup {snap.id} |->
                         IF c = snap.id THEN entry ELSE th.history[c]],
         refs     |-> [c \in DOMAIN th.refs \cup {snap.id} |->
                         IF c = snap.id THEN NewRefs(th, snap, arts)
                                        ELSE th.refs[c]],
         sessions |-> NewSessions(th, snap, arts)]

-----------------------------------------------------------------------------
(* Prune *)

\* Mutant of Newest: sorted the other way round.
MutOldest(th, keepLast) ==
    {c \in DOMAIN th.history :
        Cardinality({d \in DOMAIN th.history :
            th.history[d].revision < th.history[c].revision}) < keepLast}

\* The newest keepLast checkpoints by revision.
Newest(th, keepLast) ==
    {c \in DOMAIN th.history :
        Cardinality({d \in DOMAIN th.history :
            th.history[d].revision > th.history[c].revision}) < keepLast}

\* The session ids the checkpoints in keep refer to.
Live(th, keep) == UNION {Range(th.refs[c]) : c \in keep}

\* Mutant of Pruned: the sessions the dropped checkpoints referred to are
\* deleted, without a look at the references that are left.
MutPrunedDropsShared(th, keepLast) ==
    LET keep == Newest(th, keepLast)
        gone == Live(th, DOMAIN th.refs \ keep)
    IN  [latestID |-> th.latestID, revision |-> th.revision,
         history  |-> Restrict(th.history, keep),
         refs     |-> Restrict(th.refs, keep),
         sessions |-> Restrict(th.sessions, DOMAIN th.sessions \ gone)]

\* The thread after a Prune that drops something: orphan sessions go with the
\* checkpoints; latest id and revision are read back from what is left.
Pruned(th, keepLast) ==
    LET keep == Newest(th, keepLast)
        top  == CHOOSE c \in keep : \A d \in keep :
                    th.history[d].revision <= th.history[c].revision
    IN  [latestID |-> top, revision |-> th.history[top].revision,
         history  |-> Restrict(th.history, keep),
         refs     |-> Restrict(th.refs, keep),
         sessions |-> Restrict(th.sessions, DOMAIN th.sessions \cap Live(th, keep))]

-----------------------------------------------------------------------------
(* The reads: GetLatest and GetAgentSession. *)

HasLatest(th) == th.latestID # NoID

HasSession(th, c, a) ==
    /\ c \in DOMAIN th.refs
    /\ a \in DOMAIN th.refs[c]
    /\ th.refs[c][a] \in DOMAIN th.sessions

AgentSession(th, c, a) == th.sessions[th.refs[c][a]]

-----------------------------------------------------------------------------
(***************************************************************************)
(* What every thread must satisfy, whoever wrote to it.                    *)
(***************************************************************************)

\* The latest pointer names the checkpoint with the highest revision, and is
\* empty only for an empty history.
ThreadLatestIsNewest(th) ==
    /\ (th.latestID = NoID) <=> (DOMAIN th.history = {})
    /\ th.latestID = NoID => th.revision = 0
    /\ th.latestID # NoID =>
         /\ th.latestID \in DOMAIN th.history
         /\ th.history[th.latestID].revision = th.revision
         /\ \A c \in DOMAIN th.history \ {th.latestID} :
               th.history[c].revision < th.revision

\* The history is one chain without gaps or forks: whenever something older
\* is still there, the parent of a checkpoint is there and is its direct
\* predecessor; no revision is used twice; the first has no parent.
ThreadChainIntact(th) ==
    \A c, d \in DOMAIN th.history :
        /\ (th.history[c].revision = th.history[d].revision) => c = d
        /\ (th.history[d].revision < th.history[c].revision) =>
             /\ th.history[c].parent \in DOMAIN th.history
             /\ th.history[th.history[c].parent].revision
                    = th.history[c].revision - 1
        /\ (th.history[c].revision = 1) <=> (th.history[c].parent = NoID)

\* A session is stored exactly when some checkpoint still refers to it.
ThreadSessionsReferenced(th) ==
    /\ DOMAIN th.refs = DOMAIN th.history
    /\ DOMAIN th.sessions = Live(th, DOMAIN th.refs)

\* Every checkpoint refers, for every agent, to the session of its parent
\* unless the step that wrote it made one.
ThreadSessionsInherited(th) ==
    \A c \in DOMAIN th.history :
        LET p == th.history[c].parent IN
        p \in DOMAIN th.history =>
            /\ DOMAIN th.refs[p] \subseteq DOMAIN th.refs[c]
            /\ \A a \in DOMAIN th.refs[c] :
                 \/ th.refs[c][a] = SessionID(c, a)
                 \/ a \in DOMAIN th.refs[p] /\ th.refs[c][a] = th.refs[p][a]
=============================================================================
