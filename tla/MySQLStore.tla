----------------------------- MODULE MySQLStore -----------------------------
(***************************************************************************)
(* The MySQL checkpointer (checkpoint/mysql.go, mysql_lease.go): the same  *)
(* methods as DurableMemory and MemoryLease, but each is a transaction of  *)
(* its own, and transactions of several processes interleave.              *)
(*                                                                         *)
(* The database is external: InnoDB at its default isolation, REPEATABLE   *)
(* READ, since BeginTx is called without options.  A plain SELECT reads    *)
(* from the snapshot of the transaction's first read; SELECT ... FOR       *)
(* UPDATE and every statement that writes act on the newest committed      *)
(* rows and lock them to the end.  A transaction is therefore cut where it *)
(* has read without a lock and goes on later to what it locks:             *)
(*   commitStep   the idempotency check | everything from the upsert on    *)
(*   Prune        the list of ids       | deletes and the latest pointer   *)
(* and GetLatest, which is no transaction, between its two queries:        *)
(*   GetLatest    the latest pointer    | GetByID of that checkpoint       *)
(* What follows the cut holds its locks until it commits and is one step.  *)
(* Acquire, Renew, Release and DeleteThread start with a write.            *)
(*                                                                         *)
(* The rows of a thread in the four tables are a thread of Checkpoints;    *)
(* the lease columns of its graph_threads row are its lease.               *)
(***************************************************************************)
EXTENDS ExecutionLease, Checkpoints

CONSTANTS
    Clients,    \* connections that call CommitStep, GetLatest and Prune
    Agents,
    MaxID,      \* bound: checkpoints submitted
    Keep,       \* keepLast of the Prune calls (0: DeleteThread)
    MaxKeep,    \* bound: the largest of them
    Fencing,    \* snapshots are committed with a grant
    PruneAlone  \* Prune is called only while no other connection is in a call

ASSUME MySQLAssumption ==
    /\ MaxID \in Nat /\ MaxKeep \in Nat /\ Keep \subseteq 0..MaxKeep
    /\ Fencing \in BOOLEAN /\ PruneAlone \in BOOLEAN

\* CommitStep, as opposed to CommitStepFenced.
NoGrant(t) == Grant(t, NoRun, 0)

VARIABLES
    rows,       \* threads that have a row in graph_threads
    tables,     \* per thread: what the tables say of it
    submitted,  \* snapshots callers have built, with artifacts and grant
    acked,      \* per thread: ids accepted since it was last deleted
    call,       \* call[c]: the call connection c is in
    seen        \* per connection: latest ids there were during its GetLatest
                \* (history)

mvars == <<leases, rows, tables, submitted, acked, call>>

NoCall == [pc |-> "idle"]

MySQLInit ==
    /\ LeaseInit
    /\ rows = {}
    /\ tables = [t \in Threads |-> EmptyThread]
    /\ submitted = {}
    /\ acked = [t \in Threads |-> {}]
    /\ call = [c \in Clients |-> NoCall]
    /\ seen = [c \in Clients |-> {}]

NobodyPrunes == PruneAlone => \A c \in Clients : call[c].pc # "prune"

MayBegin(c) == call[c].pc = "idle" /\ NobodyPrunes

Becomes(c, state) == call' = [call EXCEPT ![c] = state]

Answer(c, m, answer) ==
    Becomes(c, [pc |-> "answered", msg |-> m, answer |-> answer])

-----------------------------------------------------------------------------
\* A caller builds a snapshot on a checkpoint it has read, under the grant of
\* the thread's present owner if it uses leases.  It may pass it to CommitStep
\* again whenever it likes.  Put builds one on what GetLatest has told it.
Submit(t, parent, as) ==
    LET id == Cardinality(submitted) + 1 IN
    /\ id <= MaxID
    /\ parent \in DOMAIN tables[t].history \cup {NoID}
    /\ Fencing => leases[t].runID # NoRun
    /\ submitted' = submitted \cup
         {[thread |-> t, snap |-> [id |-> id, parent |-> parent, body |-> id],
           arts |-> [a \in as |-> id],
           grant |-> IF Fencing THEN Grant(t, leases[t].runID, leases[t].epoch)
                                ELSE NoGrant(t)]}
    /\ UNCHANGED <<leases, rows, tables, acked, call>>

\* commitStep up to the idempotency check, which finds the checkpoint ...
CommitRetried(c, m) ==
    /\ MayBegin(c)
    /\ IsRetry(tables[m.thread], m.snap)
    /\ acked' = [acked EXCEPT ![m.thread] = @ \cup {m.snap.id}]
    /\ Answer(c, m, "ok")
    /\ UNCHANGED <<leases, rows, tables, submitted>>

\* ... or does not find it.
CommitChecked(c, m) ==
    /\ MayBegin(c)
    /\ m.snap.id \notin DOMAIN tables[m.thread].history
    /\ Becomes(c, [pc |-> "insert", msg |-> m])
    /\ UNCHANGED <<leases, rows, tables, submitted, acked>>

\* UNIQUE(thread_id, revision) and the primary key.
Insertable(th, snap) ==
    /\ snap.id \notin DOMAIN th.history
    /\ \A c \in DOMAIN th.history : th.history[c].revision # th.revision + 1

Fenced(m) == Fencing => Holds(m.grant)

\* Mutant of ParentMatches: the compare-and-swap left to the unique keys.
MutParentUnchecked(m) == TRUE

\* The latest pointer read under the row lock is the parent of the snapshot.
ParentMatches(m) == tables[m.thread].latestID = m.snap.parent

\* The rest of commitStep under the lock of the thread's row: the snapshot is
\* appended, and the row inserted if there was none.
CommitInserts(c) ==
    /\ call[c].pc = "insert"
    /\ LET m == call[c].msg IN
         /\ Fenced(m) /\ ParentMatches(m)
         /\ Insertable(tables[m.thread], m.snap)
         /\ rows' = rows \cup {m.thread}
         /\ tables' = [tables EXCEPT ![m.thread] = Appended(@, m.snap, m.arts)]
         /\ acked' = [acked EXCEPT ![m.thread] = @ \cup {m.snap.id}]
         /\ Answer(c, m, "ok")
    /\ UNCHANGED <<leases, submitted>>

\* ErrLeaseLost, ErrCheckpointConflict or a duplicate key: rolled back.
CommitRefused(c) ==
    /\ call[c].pc = "insert"
    /\ LET m == call[c].msg IN
         \/ ~Fenced(m) /\ Answer(c, m, "lost")
         \/ Fenced(m) /\ ~ParentMatches(m) /\ Answer(c, m, "conflict")
         \/ /\ Fenced(m) /\ ParentMatches(m)
            /\ ~Insertable(tables[m.thread], m.snap)
            /\ Answer(c, m, "error")
    /\ UNCHANGED <<leases, rows, tables, submitted, acked>>

CallReturns(c) ==
    /\ call[c].pc \in {"answered", "got"}
    /\ Becomes(c, NoCall)
    /\ UNCHANGED <<leases, rows, tables, submitted, acked>>

-----------------------------------------------------------------------------
\* GetLatest reads the latest pointer; without one there is no checkpoint ...
GetLatestID(c, t) ==
    /\ MayBegin(c)
    /\ LET id == tables[t].latestID IN
         Becomes(c, [pc |-> IF id = NoID THEN "got" ELSE "get", thread |-> t, id |-> id])
    /\ UNCHANGED <<leases, rows, tables, submitted, acked>>

\* GetByID: no row, no checkpoint.
FoundOf(th, id) == IF id \in DOMAIN th.history THEN id ELSE NoID

\* ... and then that checkpoint.
GetsByID(c) ==
    /\ call[c].pc = "get"
    /\ Becomes(c, [call[c] EXCEPT !.pc = "got",
                                  !.id = FoundOf(tables[call[c].thread], @)])
    /\ UNCHANGED <<leases, rows, tables, submitted, acked>>

-----------------------------------------------------------------------------
\* Prune lists the ids by revision; this read fixes its snapshot.
PruneLists(c, t, k) ==
    /\ MayBegin(c)
    /\ PruneAlone => \A d \in Clients : call[d].pc = "idle"
    /\ k > 0
    /\ Cardinality(DOMAIN tables[t].history) > k
    /\ Becomes(c, [pc |-> "prune", thread |-> t, keep |-> k,
                   view |-> tables[t].history])
    /\ UNCHANGED <<leases, rows, tables, submitted, acked>>

\* Prune deletes the checkpoints beyond keepLast with their references, then
\* the sessions of the thread nothing refers to any more; it reads the latest
\* checkpoint from its snapshot and writes the thread's row, if it is there.
PruneWrites(c) ==
    LET t     == call[c].thread
        view  == call[c].view
        th    == tables[t]
        kept  == Newest([history |-> view], call[c].keep)
        left  == DOMAIN th.history \ (DOMAIN view \ kept)
        top   == CHOOSE i \in kept : \A j \in kept :
                    view[j].revision <= view[i].revision
    IN  /\ call[c].pc = "prune"
        /\ tables' = [tables EXCEPT ![t] =
             [latestID |-> IF t \in rows THEN top ELSE NoID,
              revision |-> IF t \in rows THEN view[top].revision ELSE 0,
              history  |-> Restrict(th.history, left),
              refs     |-> Restrict(th.refs, left),
              sessions |-> Restrict(th.sessions, DOMAIN th.sessions \cap Live(th, left))]]
        /\ Becomes(c, NoCall)
        /\ UNCHANGED <<leases, rows, submitted, acked>>

\* Mutant of DeleteThread: the checkpoints left to the cascade of the thread's
\* row, and the row kept.
MutDeleteKeepsPointer(t) ==
    /\ tables' = [tables EXCEPT ![t].history = NoEntries, ![t].refs = NoEntries,
                                ![t].sessions = NoEntries]
    /\ acked' = [acked EXCEPT ![t] = {}]
    /\ UNCHANGED <<leases, rows, submitted, call>>

\* DeleteThread deletes the row too, and with it the lease and its epoch.
DeleteThread(t) ==
    /\ 0 \in Keep
    /\ NobodyPrunes
    /\ t \in rows
    /\ rows' = rows \ {t}
    /\ tables' = [tables EXCEPT ![t] = EmptyThread]
    /\ acked' = [acked EXCEPT ![t] = {}]
    /\ leases' = [leases EXCEPT ![t] = [runID |-> NoRun, epoch |-> 0, remaining |-> 0]]
    /\ UNCHANGED <<submitted, call>>

-----------------------------------------------------------------------------
\* Acquire inserts the thread's row if there is none.
AcquireRow(t, r, ttl) ==
    /\ Acquire(t, r, ttl)
    /\ rows' = rows \cup {t}
    /\ UNCHANGED <<tables, submitted, acked, call>>

RenewRow(g, ttl) ==
    /\ Renew(g, ttl)
    /\ UNCHANGED <<rows, tables, submitted, acked, call>>

ReleaseRow(g) ==
    /\ Release(g)
    /\ UNCHANGED <<rows, tables, submitted, acked, call>>

Clock ==
    /\ Tick
    /\ UNCHANGED <<rows, tables, submitted, acked, call>>

-----------------------------------------------------------------------------
MySQLStep ==
    \/ \E t \in Threads, p \in (1..MaxID) \cup {NoID}, as \in SUBSET Agents : Submit(t, p, as)
    \/ \E c \in Clients, m \in submitted : CommitRetried(c, m)
    \/ \E c \in Clients, m \in submitted : CommitChecked(c, m)
    \/ \E c \in Clients : CommitInserts(c)
    \/ \E c \in Clients : CommitRefused(c)
    \/ \E c \in Clients : CallReturns(c)
    \/ \E c \in Clients, t \in Threads : GetLatestID(c, t)
    \/ \E c \in Clients : GetsByID(c)
    \/ \E c \in Clients, t \in Threads, k \in Keep : PruneLists(c, t, k)
    \/ \E c \in Clients : PruneWrites(c)
    \/ \E t \in Threads : DeleteThread(t)
    \/ \E t \in Threads, r \in Runs, ttl \in TTLs : AcquireRow(t, r, ttl)
    \/ \E g \in Grants, ttl \in TTLs : RenewRow(g, ttl)
    \/ \E g \in Grants : ReleaseRow(g)
    \/ Clock

Reading(c) == call[c].pc \in {"get", "got"}

MySQLNext ==
    /\ MySQLStep
    /\ seen' = [c \in Clients |->
                 IF Reading(c)' THEN (IF Reading(c) THEN seen[c] ELSE {})
                                     \cup {tables'[call'[c].thread].latestID}
                 ELSE {}]

MySQLSpec == MySQLInit /\ [][MySQLNext]_<<mvars, seen>>

\* A transaction that has begun goes on, and time passes.
MySQLFairSpec ==
    /\ MySQLSpec
    /\ \A c \in Clients : WF_mvars(CommitInserts(c) \/ CommitRefused(c) \/ GetsByID(c)
                                    \/ CallReturns(c) \/ PruneWrites(c))
    /\ WF_mvars(Clock)

-----------------------------------------------------------------------------
(***************************************************************************)
(* Properties.                                                             *)
(***************************************************************************)

\* The tables, the lease columns and the calls under way are well formed; a
\* thread without a row has nothing else (the foreign keys on it).
MySQLTypeOK ==
    /\ LeaseTypeOK
    /\ \A t \in Threads \ rows : tables[t] = EmptyThread /\ leases[t].epoch = 0
    /\ \A t \in Threads : /\ tables[t].latestID \in 0..MaxID
                          /\ DOMAIN tables[t].history \subseteq 1..MaxID
    /\ \A c \in Clients : call[c].pc \in {"idle", "insert", "get", "got", "prune", "answered"}

\* The two read phases make no difference to callers: what the tables go
\* through is what DurableMemory, with its one lock, could do as well.
Store == INSTANCE CheckpointStore WITH
    threads <- tables,
    submitted <- {[thread |-> m.thread, snap |-> m.snap, arts |-> m.arts] : m \in submitted}

ImplementsStore == Store!StoreSpec

\* graph_threads.latest_checkpoint_id is the thread's newest checkpoint and
\* latest_revision its number, which only grows: the pointer CommitStep
\* compares with and Resume starts from.
PointerIsNewest == \A t \in Threads : ThreadLatestIsNewest(tables[t])

\* What GetLatest answers was true at some moment of the call, although it is
\* two queries and anything may be committed or deleted between them: the
\* checkpoint was the latest one then, or the thread had none.  A thread that
\* always had a checkpoint never looks empty.
ReadIsCurrent ==
    \A c \in Clients : call[c].pc = "got" => call[c].id \in seen[c]

\* A checkpoint id is an idempotency key: CommitStep with an id that exists
\* with the same parent succeeds, it does not report a conflict.
RetryNeverConflicts ==
    \A c \in Clients :
        (call[c].pc = "answered" /\ call[c].answer = "conflict") =>
            ~IsRetry(tables[call[c].msg.thread], call[c].msg.snap)
=============================================================================
