--------------------------- MODULE CheckpointStore ---------------------------
(***************************************************************************)
(* DurableMemory (checkpoint/durable_memory.go) with any number of         *)
(* clients.  Each method runs under the store's mutex and is one action.   *)
(* A client writes in two steps: it learns a parent from the store and     *)
(* builds the snapshot (Submit), and calls CommitStep with it later, again *)
(* if it could not tell whether the first call succeeded.  A submission    *)
(* stays deliverable for ever, so calls are delayed, repeated and reordered*)
(* freely, also across Prune and DeleteThread.                             *)
(***************************************************************************)
EXTENDS Checkpoints

CONSTANTS
    Threads,    \* thread ids
    Agents,     \* agents with a chat session
    MaxID,      \* bound: checkpoints submitted
    MaxKeep     \* bound: keepLast of Prune

ASSUME StoreAssumption == MaxID \in Nat /\ MaxKeep \in Nat

IDs == 1..MaxID

VARIABLES
    threads,    \* DurableMemory.threads
    submitted,  \* snapshots clients have built, with their artifacts
    acked       \* per thread: ids CommitStep accepted since it was last emptied

vars == <<threads, submitted, acked>>

StoreInit ==
    /\ threads = [t \in Threads |-> EmptyThread]
    /\ submitted = {}
    /\ acked = [t \in Threads |-> {}]

-----------------------------------------------------------------------------
\* A client builds the snapshot of a step: the parent is a checkpoint it has
\* read or none, the id is new, some agents have a new session.  Put does the
\* same with the latest checkpoint as parent.
Submit(t, parent, as) ==
    LET id == Cardinality(submitted) + 1 IN
    /\ id <= MaxID
    /\ parent \in DOMAIN threads[t].history \cup {NoID}
    /\ submitted' = submitted \cup
         {[thread |-> t, snap |-> [id |-> id, parent |-> parent, body |-> id],
           arts |-> [a \in as |-> id]]}
    /\ UNCHANGED <<threads, acked>>

\* CommitStep appends the snapshot ...
CommitAppends(m) ==
    /\ CanAppend(threads[m.thread], m.snap)
    /\ threads' = [threads EXCEPT ![m.thread] = Appended(@, m.snap, m.arts)]
    /\ acked' = [acked EXCEPT ![m.thread] = @ \cup {m.snap.id}]
    /\ UNCHANGED submitted

\* Mutant of CommitRetried: a retry moves the latest pointer to its checkpoint.
MutCommitRetried(m) ==
    /\ IsRetry(threads[m.thread], m.snap)
    /\ threads' = [threads EXCEPT ![m.thread].latestID = m.snap.id]
    /\ UNCHANGED <<acked, submitted>>

\* Mutant of CommitRetried: a retry writes the checkpoint again, with a new
\* revision.
MutCommitRewrites(m) ==
    /\ IsRetry(threads[m.thread], m.snap)
    /\ threads' = [threads EXCEPT ![m.thread].history[m.snap.id].revision =
                                    threads[m.thread].revision]
    /\ UNCHANGED <<acked, submitted>>

\* ... or finds it there and reports success again.  (Otherwise it returns
\* ErrCheckpointConflict, and nothing changes.)
CommitRetried(m) ==
    /\ IsRetry(threads[m.thread], m.snap)
    /\ acked' = [acked EXCEPT ![m.thread] = @ \cup {m.snap.id}]
    /\ UNCHANGED <<threads, submitted>>

\* Prune(threadID, keepLast): returns early when there is nothing to drop.
Prune(t, keepLast) ==
    /\ keepLast > 0
    /\ Cardinality(DOMAIN threads[t].history) > keepLast
    /\ threads' = [threads EXCEPT ![t] = Pruned(@, keepLast)]
    /\ UNCHANGED <<submitted, acked>>

\* DeleteThread, and Prune with keepLast = 0.
DeleteThread(t) ==
    /\ threads' = [threads EXCEPT ![t] = EmptyThread]
    /\ acked' = [acked EXCEPT ![t] = {}]
    /\ UNCHANGED submitted

StoreNext ==
    \/ \E t \in Threads, p \in IDs \cup {NoID}, as \in SUBSET Agents : Submit(t, p, as)
    \/ \E m \in submitted : CommitAppends(m)
    \/ \E m \in submitted : CommitRetried(m)
    \/ \E t \in Threads, k \in 1..MaxKeep : Prune(t, k)
    \/ \E t \in Threads : DeleteThread(t)

StoreSpec == StoreInit /\ [][StoreNext]_vars

-----------------------------------------------------------------------------
(***************************************************************************)
(* Properties.                                                             *)
(***************************************************************************)

Entry == [parent : IDs \cup {NoID}, revision : Nat \ {0}, body : IDs]

ThreadTypeOK(th) ==
    /\ th.latestID \in IDs \cup {NoID}
    /\ th.revision \in Nat
    /\ DOMAIN th.history \in SUBSET IDs
    /\ \A c \in DOMAIN th.history : th.history[c] \in Entry

\* The store and the calls in flight are well formed.
StoreTypeOK ==
    /\ \A t \in Threads : ThreadTypeOK(threads[t])
    /\ \A t \in Threads : acked[t] \in SUBSET IDs
    /\ IsFiniteSet(submitted)
    /\ \A m \in submitted :
         /\ m.thread \in Threads
         /\ m.snap.id \in IDs
         /\ m.snap.parent \in IDs \cup {NoID}

\* GetLatest always returns the newest checkpoint, whatever was committed,
\* retried or pruned (commitStepLocked, Prune).  A latest pointer that fell
\* behind would make every later CommitStep fail.
LatestIsNewest == \A t \in Threads : ThreadLatestIsNewest(threads[t])

\* The history of a thread is one chain: concurrent writers with the same
\* parent never both append, and Prune cuts only the oldest end.
ChainIntact == \A t \in Threads : ThreadChainIntact(threads[t])

\* Prune leaves neither a checkpoint whose session is gone nor a session
\* without a checkpoint (the live set of Prune, DeleteThread).
SessionsReferenced == \A t \in Threads : ThreadSessionsReferenced(threads[t])

\* A checkpoint an agent did not take part in still has that agent's latest
\* session, so that Resume from it restores every agent's chat.
SessionsInherited == \A t \in Threads : ThreadSessionsInherited(threads[t])

\* While a checkpoint is kept nothing about it changes, however often it is
\* retried: parent, revision, body, its agents and what their sessions say.
CheckpointsImmutable ==
    [][\A t \in Threads :
        LET old == threads[t]  new == threads'[t] IN
        \A c \in DOMAIN old.history \cap DOMAIN new.history :
            /\ new.history[c] = old.history[c]
            /\ new.refs[c] = old.refs[c]
            /\ \A a \in DOMAIN old.refs[c] :
                 AgentSession(new, c, a) = AgentSession(old, c, a)]_vars

\* An accepted checkpoint that Prune dropped never comes back: a late retry
\* of it is refused, as long as the thread itself is not deleted.
NoResurrection ==
    [][\A t \in Threads :
        \A c \in acked[t] \ DOMAIN threads[t].history :
            c \notin DOMAIN threads'[t].history]_vars

\* What CommitStep accepted is only lost to Prune, which keeps the newest:
\* an accepted checkpoint is in the history or older than all of it.  (The
\* revision order is the order of ids in a chain of fresh ids.)
AckedIsDurable ==
    \A t \in Threads : acked[t] # {} =>
        /\ DOMAIN threads[t].history # {}
        /\ \A c \in acked[t] \ DOMAIN threads[t].history :
             \A d \in DOMAIN threads[t].history : c < d
=============================================================================
