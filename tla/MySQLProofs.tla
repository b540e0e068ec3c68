----------------------------- MODULE MySQLProofs -----------------------------
(***************************************************************************)
(* What the MySQL store keeps true of its tables while nothing overlaps    *)
(* with Prune, for any number of connections, threads and snapshots, and   *)
(* that it then does nothing the memory store could not do.                *)
(*                                                                         *)
(* The lock of the thread's row makes the part of commitStep behind it as  *)
(* good as an append under a mutex, and CheckpointLemmas says what that    *)
(* keeps.  What is left are the two reads without a lock: the list of      *)
(* Prune, which is still true when it deletes because nobody writes in     *)
(* between, and the pointer GetLatest has read, which names a checkpoint   *)
(* that is still there or was the last one before the thread was deleted.  *)
(***************************************************************************)
EXTENDS MySQLStore, CheckpointLemmas, ExecutionLeaseProofs

-----------------------------------------------------------------------------
(* The invariant. *)

Drawn == Cardinality(submitted)

\* Every thread is as DurableMemory would keep it, of ids drawn so far.
TablesOK ==
    /\ DOMAIN tables = Threads
    /\ \A t \in Threads : /\ ThreadInv(tables[t])
                          /\ DOMAIN tables[t].history \subseteq 1..Drawn

\* The foreign keys: nothing without the row of the thread.
RowsOK == \A t \in Threads \ rows : tables[t] = EmptyThread /\ leases[t].epoch = 0

\* Snapshots have ids of their own and name older parents.
SubmittedOK ==
    /\ IsFiniteSet(submitted)
    /\ Drawn <= MaxID
    /\ \A m \in submitted : /\ m.thread \in Threads
                            /\ m.snap.id \in 1..Drawn
                            /\ m.snap.parent \in Nat
                            /\ m.snap.parent < m.snap.id

\* A call holds a snapshot somebody submitted, or a read that is explained.
CallOK(c) ==
    /\ call[c].pc \in {"idle", "insert", "get", "got", "prune", "answered"}
    /\ call[c].pc = "insert" => call[c].msg \in submitted
    /\ call[c].pc \in {"get", "got"} =>
         /\ DOMAIN call[c] = {"pc", "thread", "id"}
         /\ call[c].thread \in Threads
         /\ call[c].id \in seen[c]
    /\ call[c].pc = "get" =>
         call[c].id \in DOMAIN tables[call[c].thread].history \/ NoID \in seen[c]

\* Nothing else goes on while Prune does, so its list stays true.
PruneOK(c) ==
    call[c].pc = "prune" =>
        /\ call[c].thread \in rows \cap Threads
        /\ call[c].keep \in Keep \ {0}
        /\ call[c].view = tables[call[c].thread].history
        /\ Cardinality(DOMAIN tables[call[c].thread].history) > call[c].keep
        /\ \A d \in Clients \ {c} : call[d].pc = "idle"

CallsOK ==
    /\ DOMAIN call = Clients
    /\ \A c \in Clients : CallOK(c) /\ PruneOK(c)

MySQLInv ==
    /\ LeaseTypeOK
    /\ TablesOK
    /\ RowsOK
    /\ SubmittedOK
    /\ CallsOK

-----------------------------------------------------------------------------
(* Single steps. *)

\* A snapshot of the set is none of the ids still to be drawn, and can be
\* appended to the thread it was made for as soon as its parent is the latest.
LEMMA SnapshotIsOld ==
  ASSUME SubmittedOK, NEW m \in submitted
  PROVE  /\ m.thread \in Threads
         /\ m.snap.id \in Nat \ {NoID}
         /\ m.snap.parent < m.snap.id
         /\ Drawn \in Nat
<1>1. Drawn \in Nat
  BY FS_CardinalityType DEF SubmittedOK, Drawn
<1> QED
  BY <1>1 DEF SubmittedOK, NoID

\* What commitStep writes behind the row lock is an append.
LEMMA InsertAppends ==
  ASSUME TablesOK, SubmittedOK, NEW m \in submitted, ParentMatches(m),
         Insertable(tables[m.thread], m.snap)
  PROVE  LET new == Appended(tables[m.thread], m.snap, m.arts) IN
         /\ CanAppend(tables[m.thread], m.snap)
         /\ ThreadInv(new)
         /\ DOMAIN new.history \subseteq 1..Drawn
         /\ new.latestID = m.snap.id
         /\ DOMAIN tables[m.thread].history \subseteq DOMAIN new.history
<1> DEFINE th == tables[m.thread]
           new == Appended(th, m.snap, m.arts)
<1>1. CanAppend(th, m.snap)
  BY DEF ParentMatches, Insertable, CanAppend
<1>2. ThreadInv(th) /\ DOMAIN th.history \subseteq 1..Drawn /\ m.snap.id \in 1..Drawn
  BY SnapshotIsOld DEF TablesOK, SubmittedOK
<1>3. ThreadInv(new)
  BY <1>1, <1>2, SnapshotIsOld, AppendKeepsChain, AppendKeepsSessions DEF ThreadInv
<1>4. DOMAIN new.history = DOMAIN th.history \cup {m.snap.id} /\ new.latestID = m.snap.id
  BY DEF Appended
<1> QED
  BY <1>1, <1>2, <1>3, <1>4

\* The thread Prune leaves, if its list is still true.
LEMMA PruneLeaves ==
  ASSUME TablesOK, RowsOK, NEW c \in Clients, PruneOK(c), PruneWrites(c)
  PROVE  LET t == call[c].thread  k == call[c].keep IN
         /\ t \in Threads /\ k \in Nat \ {0} /\ k \in 1..MaxKeep
         /\ Cardinality(DOMAIN tables[t].history) > k
         /\ tables' = [tables EXCEPT ![t] = Pruned(@, k)]
         /\ ThreadInv(Pruned(tables[t], k))
         /\ DOMAIN Pruned(tables[t], k).history \subseteq DOMAIN tables[t].history
<1> DEFINE t == call[c].thread
           k == call[c].keep
           view == call[c].view
           th == tables[t]
           kept == Newest([history |-> view], k)
           left == DOMAIN th.history \ (DOMAIN view \ kept)
           top == CHOOSE i \in kept : \A j \in kept : view[j].revision <= view[i].revision
<1>1. /\ t \in rows /\ t \in Threads /\ k \in Nat \ {0} /\ k \in 1..MaxKeep
      /\ view = th.history
      /\ Cardinality(DOMAIN th.history) > k
  <2>1. call[c].pc = "prune"
    BY DEF PruneWrites
  <2>2. k \in Keep \ {0} /\ t \in rows \cap Threads /\ view = th.history
        /\ Cardinality(DOMAIN th.history) > k
    BY <2>1 DEF PruneOK
  <2>3. \A n \in Keep \ {0} : n \in Nat \ {0} /\ n \in 1..MaxKeep
    BY MySQLAssumption
  <2> QED
    BY <2>2, <2>3
<1>2. ThreadInv(th)
  BY <1>1 DEF TablesOK
<1>3. th.latestID # NoID
  <2>1. DOMAIN th.history # {}
    <3>1. ASSUME DOMAIN th.history = {} PROVE Cardinality(DOMAIN th.history) = 0
      BY <3>1, FS_EmptySet
    <3> HIDE DEF th, k
    <3> QED
      BY <1>1, <3>1
  <2> QED
    BY <2>1, <1>2 DEF ThreadInv, ThreadLatestIsNewest
<1>4. kept = Newest(th, k)
  BY <1>1 DEF Newest
<1>5. kept \subseteq DOMAIN th.history
  BY <1>4 DEF Newest
<1>6. left = kept
  BY <1>1, <1>5
<1>7. tables' = [tables EXCEPT ![t] =
         [latestID |-> top,
          revision |-> view[top].revision,
          history  |-> Restrict(th.history, left),
          refs     |-> Restrict(th.refs, left),
          sessions |-> Restrict(th.sessions, DOMAIN th.sessions \cap Live(th, left))]]
  BY <1>1 DEF PruneWrites
<1>8. Pruned(th, k) =
         [latestID |-> top,
          revision |-> view[top].revision,
          history  |-> Restrict(th.history, left),
          refs     |-> Restrict(th.refs, left),
          sessions |-> Restrict(th.sessions, DOMAIN th.sessions \cap Live(th, left))]
  <2> HIDE DEF kept, left, view
  <2> QED
    BY <1>1, <1>4, <1>6 DEF Pruned, top
<1>9. tables' = [tables EXCEPT ![t] = Pruned(th, k)]
  BY <1>7, <1>8
<1>10. ThreadInv(Pruned(th, k))
  BY <1>1, <1>2, <1>3, PruneKeepsInv
<1>11. DOMAIN Pruned(th, k).history \subseteq DOMAIN th.history
  BY DEF Pruned, Restrict, Newest
<1> QED
  BY <1>1, <1>9, <1>10, <1>11
-----------------------------------------------------------------------------
(* The tables. *)

\* Steps of a connection that write nothing.
ReadMove(c) ==
    \/ \E m \in submitted : CommitRetried(c, m) \/ CommitChecked(c, m)
    \/ CommitRefused(c) \/ CallReturns(c) \/ GetsByID(c)
    \/ \E t \in Threads : GetLatestID(c, t)
    \/ \E t \in Threads, k \in Keep : PruneLists(c, t, k)

LeaseMove ==
    \/ \E t \in Threads, r \in Runs, ttl \in TTLs : AcquireRow(t, r, ttl)
    \/ \E g \in Grants, ttl \in TTLs : RenewRow(g, ttl)
    \/ \E g \in Grants : ReleaseRow(g)
    \/ Clock

\* A step submits, reads, inserts, prunes, deletes or is about a lease.
LEMMA MySQLStepKinds ==
  ASSUME MySQLStep
  PROVE  \/ \E t \in Threads, p \in (1..MaxID) \cup {NoID}, as \in SUBSET Agents :
               Submit(t, p, as)
         \/ \E c \in Clients : ReadMove(c)
         \/ \E c \in Clients : CommitInserts(c)
         \/ \E c \in Clients : PruneWrites(c)
         \/ \E t \in Threads : DeleteThread(t)
         \/ LeaseMove
BY DEF MySQLStep, ReadMove, LeaseMove

\* Steps that write nothing leave everything but the call.
LEMMA ReadsWriteNothing ==
  ASSUME NEW c \in Clients, ReadMove(c)
  PROVE  UNCHANGED <<leases, rows, tables, submitted>>
BY DEF ReadMove, CommitRetried, CommitChecked, CommitRefused, CallReturns, GetsByID,
   GetLatestID, PruneLists

\* Steps of leases leave everything but the leases and the rows.
LEMMA LeasesWriteNothing ==
  ASSUME LeaseMove
  PROVE  /\ UNCHANGED <<tables, submitted, acked, call>>
         /\ rows \subseteq rows'
         /\ LeaseNext
BY DEF LeaseMove, AcquireRow, RenewRow, ReleaseRow, Clock, LeaseNext

\* A new snapshot has the next id.
LEMMA SubmitStep ==
  ASSUME TablesOK, SubmittedOK, NEW t \in Threads, NEW p, NEW as, Submit(t, p, as)
  PROVE  SubmittedOK' /\ TablesOK' /\ submitted \subseteq submitted'
<1> DEFINE n == Drawn
           m == [thread |-> t, snap |-> [id |-> n + 1, parent |-> p, body |-> n + 1],
                 arts |-> [a \in as |-> n + 1],
                 grant |-> IF Fencing THEN Grant(t, leases[t].runID, leases[t].epoch)
                                      ELSE NoGrant(t)]
<1>1. /\ submitted' = submitted \cup {m}
      /\ n + 1 <= MaxID
      /\ p \in DOMAIN tables[t].history \cup {NoID}
      /\ tables' = tables
  BY DEF Submit, Drawn
<1>2. IsFiniteSet(submitted) /\ n \in Nat /\ n = Cardinality(submitted)
  BY FS_CardinalityType DEF SubmittedOK, Drawn
<1>3. DOMAIN tables[t].history \subseteq 1..n
  BY DEF TablesOK
<1>4. m.thread = t /\ m.snap.id = n + 1 /\ m.snap.parent = p
  OBVIOUS
<1> HIDE DEF m, n
<1>5. m \notin submitted
  BY <1>2, <1>4 DEF SubmittedOK, n
<1>6. IsFiniteSet(submitted') /\ Cardinality(submitted') = n + 1
  BY <1>1, <1>2, <1>5, FS_AddElement
<1>7. p \in Nat /\ p < n + 1
  BY <1>1, <1>2, <1>3 DEF NoID
<1>8. Drawn' = n + 1
  BY <1>6 DEF Drawn
<1>9. \A x \in submitted : x.snap.id \in 1..n + 1
  BY <1>2 DEF SubmittedOK, n
<1>10. ASSUME NEW x \in submitted'
       PROVE  /\ x.thread \in Threads /\ x.snap.id \in 1..n + 1
              /\ x.snap.parent \in Nat /\ x.snap.parent < x.snap.id
  <2>1. CASE x = m
    BY <2>1, <1>2, <1>4, <1>7
  <2>2. CASE x \in submitted
    BY <2>2, <1>9 DEF SubmittedOK
  <2> QED
    BY <2>1, <2>2, <1>1
<1>11. SubmittedOK'
  BY <1>1, <1>6, <1>8, <1>10 DEF SubmittedOK
<1>12. TablesOK'
  <2>1. 1..n \subseteq 1..n + 1
    BY <1>2
  <2>2. \A u \in Threads : DOMAIN tables[u].history \subseteq 1..n
    BY DEF TablesOK, n
  <2> QED
    BY <1>1, <1>8, <2>1, <2>2 DEF TablesOK
<1> QED
  BY <1>1, <1>11, <1>12

\* What a step writes to the tables keeps every thread in order.
LEMMA TablesStep ==
  ASSUME MySQLInv, MySQLStep
  PROVE  TablesOK' /\ SubmittedOK' /\ submitted \subseteq submitted'
<1> USE DEF MySQLInv
<1>1. ASSUME UNCHANGED <<tables, submitted>>
      PROVE  TablesOK' /\ SubmittedOK' /\ submitted \subseteq submitted'
  BY <1>1 DEF TablesOK, SubmittedOK, Drawn
<1>2. ASSUME NEW t \in Threads, NEW new, ThreadInv(new), DOMAIN new.history \subseteq 1..Drawn,
             tables' = [tables EXCEPT ![t] = new], submitted' = submitted
      PROVE  TablesOK' /\ SubmittedOK' /\ submitted \subseteq submitted'
  <2>1. \A u \in Threads : tables'[u] = IF u = t THEN new ELSE tables[u]
    BY <1>2 DEF TablesOK
  <2>2. DOMAIN tables' = Threads
    BY <1>2 DEF TablesOK
  <2>3. TablesOK'
    BY <2>1, <2>2, <1>2 DEF TablesOK, Drawn
  <2> QED
    BY <2>3, <1>2 DEF SubmittedOK, Drawn
<1>3. ASSUME NEW c \in Clients, CommitInserts(c)
      PROVE  TablesOK' /\ SubmittedOK' /\ submitted \subseteq submitted'
  <2> DEFINE m == call[c].msg
             new == Appended(tables[m.thread], m.snap, m.arts)
  <2>1. /\ call[c].pc = "insert"
        /\ ParentMatches(m) /\ Insertable(tables[m.thread], m.snap)
        /\ tables' = [tables EXCEPT ![m.thread] = new]
        /\ submitted' = submitted
    BY <1>3 DEF CommitInserts
  <2>2. m \in submitted /\ m.thread \in Threads
    BY <2>1 DEF CallsOK, CallOK, SubmittedOK
  <2>3. ThreadInv(new) /\ DOMAIN new.history \subseteq 1..Drawn
    BY <2>1, <2>2, InsertAppends
  <2> HIDE DEF new, m
  <2> QED
    BY <2>1, <2>2, <2>3, <1>2
<1>4. ASSUME NEW c \in Clients, PruneWrites(c)
      PROVE  TablesOK' /\ SubmittedOK' /\ submitted \subseteq submitted'
  <2> DEFINE t == call[c].thread
             new == Pruned(tables[t], call[c].keep)
  <2>1. /\ t \in Threads /\ tables' = [tables EXCEPT ![t] = new] /\ ThreadInv(new)
        /\ DOMAIN new.history \subseteq DOMAIN tables[t].history
    BY <1>4, PruneLeaves DEF CallsOK
  <2>2. DOMAIN tables[t].history \subseteq 1..Drawn /\ submitted' = submitted
    BY <1>4, <2>1 DEF TablesOK, PruneWrites
  <2> HIDE DEF new, t
  <2> QED
    BY <2>1, <2>2, <1>2
<1>5. ASSUME NEW t \in Threads, DeleteThread(t)
      PROVE  TablesOK' /\ SubmittedOK' /\ submitted \subseteq submitted'
  <2>1. DOMAIN EmptyThread.history = {}
    BY DEF EmptyThread, NoEntries
  <2> QED
    BY <1>5, <2>1, <1>2, EmptyThreadInv DEF DeleteThread
<1> QED
  BY <1>1, <1>3, <1>4, <1>5, SubmitStep, MySQLStepKinds, ReadsWriteNothing, LeasesWriteNothing

\* Only Acquire begins an epoch, and it inserts the row.
LEMMA LeaseMoveKeepsEpoch ==
  ASSUME LeaseTypeOK, LeaseMove, NEW u \in Threads, u \notin rows'
  PROVE  leases'[u].epoch = leases[u].epoch
<1> USE DEF LeaseTypeOK, Lease
<1>1. ASSUME NEW t \in Threads, NEW r \in Runs, NEW ttl \in TTLs, AcquireRow(t, r, ttl)
      PROVE  leases'[u].epoch = leases[u].epoch
  <2>1. u # t
    BY <1>1 DEF AcquireRow
  <2> QED
    BY <1>1, <2>1 DEF AcquireRow, Acquire, ExtendLease, TakeLease
<1>2. ASSUME NEW g \in Grants, NEW ttl \in TTLs, RenewRow(g, ttl)
      PROVE  leases'[u].epoch = leases[u].epoch
  BY <1>2 DEF RenewRow, Renew, Grants
<1>3. ASSUME NEW g \in Grants, ReleaseRow(g) PROVE leases'[u].epoch = leases[u].epoch
  BY <1>3 DEF ReleaseRow, Release, Grants
<1>4. CASE Clock
  BY <1>4 DEF Clock, Tick
<1> QED
  BY <1>1, <1>2, <1>3, <1>4 DEF LeaseMove

\* The rows of threads and their leases come and go together.
LEMMA RowsStep ==
  ASSUME MySQLInv, MySQLStep
  PROVE  LeaseTypeOK' /\ RowsOK'
<1> USE DEF MySQLInv
<1>1. ASSUME UNCHANGED <<leases, rows, tables>> PROVE LeaseTypeOK' /\ RowsOK'
  BY <1>1 DEF LeaseTypeOK, RowsOK
<1>2. CASE LeaseMove
  <2>1. LeaseTypeOK'
    BY <1>2, LeasesWriteNothing, LeaseTypeStep
  <2>2. RowsOK'
    BY <1>2, LeasesWriteNothing, LeaseMoveKeepsEpoch DEF RowsOK
  <2> QED
    BY <2>1, <2>2
<1>3. ASSUME NEW c \in Clients, CommitInserts(c) PROVE LeaseTypeOK' /\ RowsOK'
  BY <1>3 DEF CommitInserts, LeaseTypeOK, RowsOK, TablesOK
<1>4. ASSUME NEW c \in Clients, PruneWrites(c) PROVE LeaseTypeOK' /\ RowsOK'
  <2>1. call[c].thread \in rows
    BY <1>4 DEF PruneWrites, CallsOK, PruneOK
  <2>2. /\ UNCHANGED <<leases, rows>>
        /\ \A t \in Threads \ rows : tables'[t] = tables[t]
    BY <1>4, <2>1 DEF PruneWrites, TablesOK
  <2> QED
    BY <2>2 DEF LeaseTypeOK, RowsOK
<1>5. ASSUME NEW t \in Threads, DeleteThread(t) PROVE LeaseTypeOK' /\ RowsOK'
  <2>1. /\ rows' = rows \ {t}
        /\ tables' = [tables EXCEPT ![t] = EmptyThread]
        /\ leases' = [leases EXCEPT ![t] = [runID |-> NoRun, epoch |-> 0, remaining |-> 0]]
    BY <1>5 DEF DeleteThread
  <2>2. LeaseTypeOK'
    BY <2>1, LeaseAssumption DEF LeaseTypeOK, Lease
  <2>3. RowsOK'
    BY <2>1 DEF RowsOK, TablesOK, LeaseTypeOK
  <2> QED
    BY <2>2, <2>3
<1>6. ASSUME NEW t \in Threads, NEW p, NEW as, Submit(t, p, as)
      PROVE  LeaseTypeOK' /\ RowsOK'
  BY <1>6, <1>1 DEF Submit
<1> QED
  BY <1>1, <1>2, <1>3, <1>4, <1>5, <1>6, MySQLStepKinds, ReadsWriteNothing

-----------------------------------------------------------------------------
(* The calls. *)

\* What a call has seen only grows while it reads.
LEMMA SeenStep ==
  ASSUME MySQLNext, DOMAIN call = Clients, NEW c \in Clients, Reading(c)'
  PROVE  /\ tables'[call'[c].thread].latestID \in seen'[c]
         /\ Reading(c) => seen[c] \subseteq seen'[c]
BY DEF MySQLNext

\* A call that does not move and whose snapshot or checkpoint is still there.
LEMMA CallWaits ==
  ASSUME MySQLInv, MySQLNext, NEW c \in Clients, call'[c] = call[c],
         submitted \subseteq submitted',
         \A t \in Threads : \/ DOMAIN tables[t].history \subseteq DOMAIN tables'[t].history
                            \/ tables'[t].latestID = NoID
  PROVE  CallOK(c)'
<1>1. CallOK(c) /\ DOMAIN call = Clients
  BY DEF MySQLInv, CallsOK
<1>2. CASE ~Reading(c)
  BY <1>1, <1>2 DEF CallOK, Reading
<1>3. CASE Reading(c)
  <2>1. Reading(c)'
    BY <1>3 DEF Reading
  <2>2. seen[c] \subseteq seen'[c] /\ tables'[call[c].thread].latestID \in seen'[c]
    BY <1>1, <1>3, <2>1, SeenStep
  <2>3. call[c].thread \in Threads
    BY <1>1, <1>3 DEF CallOK, Reading
  <2> QED
    BY <1>1, <1>3, <2>2, <2>3 DEF CallOK, Reading
<1> QED
  BY <1>2, <1>3

\* A call that writes nothing goes on as CallOK says.
LEMMA ReadMoveKeepsCall ==
  ASSUME MySQLInv, MySQLNext, NEW c \in Clients, ReadMove(c)
  PROVE  CallOK(c)' /\ \A d \in Clients \ {c} : call'[d] = call[d]
<1>1. CallOK(c) /\ DOMAIN call = Clients /\ UNCHANGED <<tables, submitted>>
  BY ReadsWriteNothing DEF MySQLInv, CallsOK
<1>2. ASSUME NEW state, Becomes(c, state)
      PROVE  call'[c] = state /\ \A d \in Clients \ {c} : call'[d] = call[d]
  BY <1>1, <1>2 DEF Becomes
<1>3. ASSUME NEW m, NEW answer, Answer(c, m, answer)
      PROVE  CallOK(c)' /\ \A d \in Clients \ {c} : call'[d] = call[d]
  <2>1. call'[c].pc = "answered"
    BY <1>3, <1>2 DEF Answer
  <2> QED
    BY <2>1, <1>2, <1>3 DEF Answer, CallOK
<1>4. ASSUME NEW m \in submitted, CommitRetried(c, m)
      PROVE  CallOK(c)' /\ \A d \in Clients \ {c} : call'[d] = call[d]
  BY <1>4, <1>3 DEF CommitRetried
<1>5. ASSUME NEW m \in submitted, CommitChecked(c, m)
      PROVE  CallOK(c)' /\ \A d \in Clients \ {c} : call'[d] = call[d]
  <2>1. call'[c] = [pc |-> "insert", msg |-> m] /\ \A d \in Clients \ {c} : call'[d] = call[d]
    BY <1>5, <1>2 DEF CommitChecked
  <2> QED
    BY <2>1, <1>1 DEF CallOK
<1>6. CASE CommitRefused(c)
  BY <1>6, <1>3 DEF CommitRefused
<1>7. CASE CallReturns(c)
  <2>1. call'[c].pc = "idle" /\ \A d \in Clients \ {c} : call'[d] = call[d]
    BY <1>7, <1>2 DEF CallReturns, NoCall
  <2> QED
    BY <2>1 DEF CallOK
<1>8. ASSUME NEW t \in Threads, GetLatestID(c, t)
      PROVE  CallOK(c)' /\ \A d \in Clients \ {c} : call'[d] = call[d]
  <2> DEFINE id == tables[t].latestID
  <2>1. /\ call'[c] = [pc |-> IF id = NoID THEN "got" ELSE "get", thread |-> t, id |-> id]
        /\ \A d \in Clients \ {c} : call'[d] = call[d]
    BY <1>8, <1>2 DEF GetLatestID
  <2>2. id # NoID => id \in DOMAIN tables[t].history
    BY DEF MySQLInv, TablesOK, ThreadInv, ThreadLatestIsNewest
  <2>3. call'[c].pc \in {"get", "got"} /\ call'[c].thread = t /\ call'[c].id = id
    BY <2>1
  <2>4. DOMAIN call'[c] = {"pc", "thread", "id"} /\ (call'[c].pc = "get" => id # NoID)
    BY <2>1
  <2>5. id \in seen'[c]
    BY <2>3, <1>1, SeenStep DEF Reading
  <2> HIDE DEF id
  <2> QED
    BY <2>1, <2>2, <2>3, <2>4, <2>5, <1>1 DEF CallOK
<1>9. CASE GetsByID(c)
  <2> DEFINE t == call[c].thread
             id == call[c].id
             found == FoundOf(tables[t], id)
  <2>1. /\ call[c].pc = "get"
        /\ call'[c] = [call[c] EXCEPT !.pc = "got", !.id = found]
        /\ \A d \in Clients \ {c} : call'[d] = call[d]
    BY <1>9, <1>2 DEF GetsByID
  <2>2. DOMAIN call[c] = {"pc", "thread", "id"} /\ t \in Threads /\ id \in seen[c]
        /\ (id \in DOMAIN tables[t].history \/ NoID \in seen[c])
    BY <2>1, <1>1 DEF CallOK
  <2>3. found \in seen[c]
    BY <2>2 DEF FoundOf
  <2> HIDE DEF found
  <2>4. call'[c].pc = "got" /\ call'[c].thread = t /\ call'[c].id = found
        /\ DOMAIN call'[c] = {"pc", "thread", "id"}
    BY <2>1, <2>2
  <2>5. seen[c] \subseteq seen'[c]
    BY <2>1, <2>4, <1>1, SeenStep DEF Reading
  <2> QED
    BY <2>1, <2>2, <2>3, <2>4, <2>5 DEF CallOK
<1>10. ASSUME NEW t \in Threads, NEW k \in Keep, PruneLists(c, t, k)
       PROVE  CallOK(c)' /\ \A d \in Clients \ {c} : call'[d] = call[d]
  <2>1. call'[c].pc = "prune" /\ \A d \in Clients \ {c} : call'[d] = call[d]
    BY <1>10, <1>2 DEF PruneLists
  <2> QED
    BY <2>1 DEF CallOK
<1> QED
  BY <1>4, <1>5, <1>6, <1>7, <1>8, <1>9, <1>10 DEF ReadMove

\* Prune is called while nobody is in a call, and nobody begins one before it
\* is through.
LEMMA PruneIsAlone ==
  ASSUME PruneAlone, MySQLInv, MySQLStep, NEW c \in Clients, call[c].pc = "prune"
  PROVE  PruneWrites(c) \/ (UNCHANGED <<tables, call>> /\ rows \subseteq rows')
<1>1. /\ ~NobodyPrunes
      /\ \A d \in Clients \ {c} : call[d].pc = "idle"
  BY DEF NobodyPrunes, MySQLInv, CallsOK, PruneOK
<1>2. ASSUME NEW d \in Clients PROVE ~ReadMove(d) /\ ~CommitInserts(d)
  <2>1. call[d].pc \in {"idle", "prune"} /\ ~MayBegin(d)
    BY <1>1 DEF MayBegin
  <2> QED
    BY <2>1 DEF ReadMove, CommitInserts, CommitRetried, CommitChecked, CommitRefused,
       CallReturns, GetsByID, GetLatestID, PruneLists
<1>3. ASSUME NEW d \in Clients, PruneWrites(d) PROVE d = c
  BY <1>1, <1>3 DEF PruneWrites
<1>4. ASSUME NEW t \in Threads PROVE ~DeleteThread(t)
  BY <1>1 DEF DeleteThread
<1>5. ASSUME NEW t, NEW p, NEW as, Submit(t, p, as)
      PROVE  UNCHANGED <<tables, call>> /\ rows \subseteq rows'
  BY <1>5 DEF Submit
<1> QED
  BY <1>2, <1>3, <1>4, <1>5, LeasesWriteNothing, MySQLStepKinds

\* Prune begins by listing the checkpoints of a thread that has a row.
LEMMA ListingIsTrue ==
  ASSUME PruneAlone, MySQLInv, NEW c \in Clients, NEW t \in Threads, NEW k \in Keep,
         PruneLists(c, t, k)
  PROVE  PruneOK(c)'
<1>1. /\ k > 0 /\ Cardinality(DOMAIN tables[t].history) > k
      /\ call' = [call EXCEPT ![c] = [pc |-> "prune", thread |-> t, keep |-> k,
                                      view |-> tables[t].history]]
      /\ \A d \in Clients : call[d].pc = "idle"
      /\ rows' = rows /\ tables' = tables
  BY DEF PruneLists, Becomes
<1>2. \A n \in Keep : n \in Nat
  BY MySQLAssumption
<1>3. t \in rows
  <2>1. DOMAIN EmptyThread.history = {} /\ k \in Nat
    BY <1>2 DEF EmptyThread, NoEntries
  <2>2. Cardinality({}) = 0
    BY FS_EmptySet
  <2>3. tables[t] # EmptyThread
    BY <1>1, <2>1, <2>2
  <2> QED
    BY <2>3 DEF MySQLInv, RowsOK
<1>4. DOMAIN call = Clients
  BY DEF MySQLInv, CallsOK
<1>5. /\ call'[c].thread = t /\ call'[c].keep = k /\ call'[c].view = tables[t].history
      /\ \A d \in Clients \ {c} : call'[d] = call[d]
  BY <1>1, <1>4
<1>6. k \in Keep \ {0}
  BY <1>1, <1>2
<1> QED
  BY <1>1, <1>3, <1>5, <1>6 DEF PruneOK

\* What a Prune has listed stays true until it deletes.
LEMMA PruneOKStep ==
  ASSUME PruneAlone, MySQLInv, MySQLStep, NEW c \in Clients
  PROVE  PruneOK(c)'
<1>1. PruneOK(c) /\ DOMAIN call = Clients
  BY DEF MySQLInv, CallsOK
<1>2. CASE call[c].pc = "prune"
  <2>1. CASE PruneWrites(c)
    <3>1. call'[c].pc = "idle"
      BY <2>1, <1>1 DEF PruneWrites, Becomes, NoCall
    <3> QED
      BY <3>1 DEF PruneOK
  <2>2. CASE UNCHANGED <<tables, call>> /\ rows \subseteq rows'
    BY <2>2, <1>1 DEF PruneOK
  <2> QED
    BY <2>1, <2>2, <1>2, PruneIsAlone
<1>3. CASE call[c].pc # "prune"
  <2>1. ASSUME call' = call PROVE PruneOK(c)'
    BY <2>1, <1>3 DEF PruneOK
  <2>2. ASSUME NEW d \in Clients, ReadMove(d) PROVE PruneOK(c)'
    <3>1. CASE \E t \in Threads, k \in Keep : d = c /\ PruneLists(c, t, k)
      BY <3>1, ListingIsTrue
    <3>2. CASE d # c
      <4>1. \E state : Becomes(d, state)
        BY <2>2 DEF ReadMove, CommitRetried, CommitChecked, CommitRefused,
           CallReturns, GetsByID, GetLatestID, PruneLists, Answer
      <4>2. call'[c] = call[c]
        BY <4>1, <3>2, <1>1 DEF Becomes
      <4> QED
        BY <4>2, <1>3 DEF PruneOK
    <3>3. CASE d = c /\ ~\E t \in Threads, k \in Keep : PruneLists(c, t, k)
      <4>1. call'[c].pc # "prune"
        <5>1. \A state : Becomes(c, state) => call'[c] = state
          BY <1>1 DEF Becomes
        <5>2. \A m : \A answer : Answer(c, m, answer) => call'[c].pc = "answered"
          BY <5>1 DEF Answer
        <5>3. ASSUME GetsByID(c) PROVE call'[c].pc # "prune"
          <6>1. "pc" \in DOMAIN call[c]
            BY <5>3 DEF GetsByID, MySQLInv, CallsOK, CallOK
          <6> QED
            BY <6>1, <5>1, <5>3 DEF GetsByID
        <5>4. \/ \E m : \E answer : Answer(c, m, answer)
              \/ \E m : Becomes(c, [pc |-> "insert", msg |-> m])
              \/ Becomes(c, NoCall)
              \/ GetsByID(c)
              \/ \E t \in Threads : GetLatestID(c, t)
          BY <2>2, <3>3 DEF ReadMove, CommitRetried, CommitChecked, CommitRefused, CallReturns
        <5>5. ASSUME NEW t \in Threads, GetLatestID(c, t) PROVE call'[c].pc # "prune"
          BY <5>1, <5>5 DEF GetLatestID
        <5>6. ASSUME NEW m, Becomes(c, [pc |-> "insert", msg |-> m])
              PROVE  call'[c].pc # "prune"
          BY <5>1, <5>6
        <5>7. Becomes(c, NoCall) => call'[c].pc # "prune"
          BY <5>1 DEF NoCall
        <5> QED
          BY <5>2, <5>3, <5>4, <5>5, <5>6, <5>7, <1>3
      <4> QED
        BY <4>1 DEF PruneOK
    <3> QED
      BY <3>1, <3>2, <3>3
  <2>3. ASSUME NEW d \in Clients, CommitInserts(d) \/ PruneWrites(d) PROVE PruneOK(c)'
    <3>1. call'[c].pc # "prune"
      BY <2>3, <1>1, <1>3 DEF CommitInserts, PruneWrites, Becomes, Answer, NoCall
    <3> QED
      BY <3>1 DEF PruneOK
  <2> QED
    BY <2>1, <2>2, <2>3, LeasesWriteNothing, MySQLStepKinds DEF Submit, DeleteThread
<1> QED
  BY <1>2, <1>3

\* Every call holds what it should.
LEMMA CallOKStep ==
  ASSUME PruneAlone, MySQLInv, MySQLNext, NEW c \in Clients
  PROVE  CallOK(c)'
<1>1. MySQLStep /\ CallOK(c) /\ DOMAIN call = Clients /\ DOMAIN tables = Threads
  BY DEF MySQLNext, MySQLInv, CallsOK, TablesOK
<1>2. submitted \subseteq submitted'
  BY <1>1, TablesStep
<1>3. ASSUME UNCHANGED <<tables, call>> PROVE CallOK(c)'
  BY <1>2, <1>3, CallWaits
<1>4. ASSUME NEW d \in Clients, ReadMove(d) PROVE CallOK(c)'
  <2>1. CASE d = c
    BY <2>1, <1>4, ReadMoveKeepsCall
  <2>2. CASE d # c
    BY <2>2, <1>2, <1>4, ReadMoveKeepsCall, ReadsWriteNothing, CallWaits
  <2> QED
    BY <2>1, <2>2
<1>5. ASSUME NEW d \in Clients, CommitInserts(d) PROVE CallOK(c)'
  <2> DEFINE m == call[d].msg
             new == Appended(tables[m.thread], m.snap, m.arts)
  <2>1. /\ call[d].pc = "insert" /\ ParentMatches(m)
        /\ Insertable(tables[m.thread], m.snap)
        /\ tables' = [tables EXCEPT ![m.thread] = new]
        /\ call' = [call EXCEPT ![d] = [pc |-> "answered", msg |-> m, answer |-> "ok"]]
    BY <1>5 DEF CommitInserts, Answer, Becomes
  <2>2. m \in submitted
    BY <2>1 DEF MySQLInv, CallsOK, CallOK
  <2>3. DOMAIN tables[m.thread].history \subseteq DOMAIN new.history
    BY <2>1, <2>2, InsertAppends DEF MySQLInv
  <2>4. CASE d = c
    <3>1. call'[c].pc = "answered"
      BY <2>1, <2>4, <1>1
    <3> QED
      BY <3>1 DEF CallOK
  <2>5. CASE d # c
    <3> HIDE DEF new, m
    <3>1. call'[c] = call[c]
      BY <2>1, <2>5, <1>1
    <3>2. \A t \in Threads : DOMAIN tables[t].history \subseteq DOMAIN tables'[t].history
      BY <2>1, <2>3, <1>1
    <3> QED
      BY <3>1, <3>2, <1>2, CallWaits
  <2> QED
    BY <2>4, <2>5
<1>6. ASSUME NEW d \in Clients, PruneWrites(d) PROVE CallOK(c)'
  <2>1. call[d].pc = "prune" /\ call' = [call EXCEPT ![d] = NoCall]
    BY <1>6 DEF PruneWrites, Becomes
  <2>2. call'[c].pc = "idle"
    BY <2>1, <1>1 DEF MySQLInv, CallsOK, PruneOK, NoCall
  <2> QED
    BY <2>2 DEF CallOK
<1>7. ASSUME NEW t \in Threads, DeleteThread(t) PROVE CallOK(c)'
  <2>1. call' = call /\ \A u \in Threads : \/ tables'[u] = tables[u]
                                           \/ tables'[u].latestID = NoID
    BY <1>7, <1>1 DEF DeleteThread, EmptyThread
  <2> QED
    BY <2>1, <1>2, CallWaits
<1>8. ASSUME NEW t, NEW p, NEW as, Submit(t, p, as) PROVE CallOK(c)'
  BY <1>8, <1>3 DEF Submit
<1>9. CASE LeaseMove
  BY <1>9, <1>3, LeasesWriteNothing
<1> QED
  BY <1>1, <1>4, <1>5, <1>6, <1>7, <1>8, <1>9, MySQLStepKinds

-----------------------------------------------------------------------------
(* The invariant, and what it says. *)

\* Empty tables satisfy the invariant.
LEMMA MySQLInvInit == MySQLInit => MySQLInv
<1> SUFFICES ASSUME MySQLInit PROVE MySQLInv
  OBVIOUS
<1>1. LeaseTypeOK /\ \A t \in Threads : leases[t].epoch = 0
  BY LeaseAssumption DEF MySQLInit, LeaseInit, LeaseTypeOK, Lease
<1>2. DOMAIN EmptyThread.history = {} /\ \A t \in Threads : tables[t] = EmptyThread
  BY DEF MySQLInit, EmptyThread, NoEntries
<1>3. TablesOK /\ RowsOK
  BY <1>1, <1>2, EmptyThreadInv DEF MySQLInit, TablesOK, RowsOK
<1>4. SubmittedOK
  <2>1. submitted = {} /\ Drawn = 0 /\ IsFiniteSet({})
    BY FS_EmptySet DEF MySQLInit, Drawn
  <2> QED
    BY <2>1, MySQLAssumption DEF SubmittedOK
<1>5. \A c \in Clients : call[c].pc = "idle"
  BY DEF MySQLInit, NoCall
<1>6. CallsOK
  BY <1>5 DEF MySQLInit, CallsOK, CallOK, PruneOK
<1> QED
  BY <1>1, <1>3, <1>4, <1>6 DEF MySQLInv

\* Every transaction keeps the invariant, if none overlaps with Prune.
LEMMA MySQLInvStep ==
  ASSUME PruneAlone, MySQLInv, [MySQLNext]_<<mvars, seen>>
  PROVE  MySQLInv'
<1>1. CASE MySQLNext
  <2>1. MySQLStep
    BY <1>1 DEF MySQLNext
  <2>2. DOMAIN call' = Clients
    <3>1. DOMAIN call = Clients
      BY DEF MySQLInv, CallsOK
    <3>2. (\E c \in Clients : \E state : Becomes(c, state)) => DOMAIN call' = Clients
      BY <3>1 DEF Becomes
    <3>3. \/ \E c \in Clients : \E state : Becomes(c, state)
          \/ call' = call
      <4>1. ASSUME NEW c \in Clients, ReadMove(c) PROVE \E state : Becomes(c, state)
        BY <4>1 DEF ReadMove, CommitRetried, CommitChecked, CommitRefused,
           CallReturns, GetsByID, GetLatestID, PruneLists, Answer
      <4>2. ASSUME NEW c \in Clients, CommitInserts(c) PROVE \E state : Becomes(c, state)
        BY <4>2 DEF CommitInserts, Answer
      <4>3. ASSUME NEW c \in Clients, PruneWrites(c) PROVE \E state : Becomes(c, state)
        BY <4>3 DEF PruneWrites
      <4> QED
        BY <2>1, <4>1, <4>2, <4>3, MySQLStepKinds, LeasesWriteNothing DEF Submit, DeleteThread
    <3> QED
      BY <3>1, <3>2, <3>3
  <2> QED
    BY <1>1, <2>1, <2>2, TablesStep, RowsStep, CallOKStep, PruneOKStep DEF MySQLInv, CallsOK
<1>2. CASE UNCHANGED <<mvars, seen>>
  BY <1>2 DEF mvars, MySQLInv, LeaseTypeOK, TablesOK, RowsOK, SubmittedOK, Drawn, CallsOK,
     CallOK, PruneOK
<1> QED
  BY <1>1, <1>2

\* Whatever connections commit, repeat, read and delete at once, the tables and
\* the calls under way stay in order.
THEOREM MySQLInvariant ==
  ASSUME PruneAlone
  PROVE  MySQLSpec => []MySQLInv
<1>1. MySQLInv /\ [MySQLNext]_<<mvars, seen>> => MySQLInv'
  BY MySQLInvStep
<1> QED
  BY <1>1, MySQLInvInit, PTL DEF MySQLSpec

\* The tables are well formed, and a thread without a row has nothing else.
THEOREM MySQLIsTyped ==
  ASSUME PruneAlone
  PROVE  MySQLSpec => []MySQLTypeOK
<1>1. ASSUME MySQLInv PROVE MySQLTypeOK
  <2>1. Drawn \in Nat /\ Drawn <= MaxID
    BY <1>1, FS_CardinalityType DEF MySQLInv, SubmittedOK, Drawn
  <2>2. \A n \in 1..Drawn : n \in 1..MaxID /\ n \in 0..MaxID
    BY <2>1, MySQLAssumption
  <2>3. 0 \in 0..MaxID
    BY MySQLAssumption
  <2>4. \A t \in Threads : DOMAIN tables[t].history \subseteq 1..MaxID
    BY <1>1, <2>2 DEF MySQLInv, TablesOK
  <2>5. \A t \in Threads : tables[t].latestID \in 0..MaxID
    <3>1. \A t \in Threads : \/ tables[t].latestID = 0
                             \/ tables[t].latestID \in DOMAIN tables[t].history
      BY <1>1 DEF MySQLInv, TablesOK, ThreadInv, ThreadLatestIsNewest, NoID
    <3>2. \A t \in Threads : DOMAIN tables[t].history \subseteq 1..Drawn
      BY <1>1 DEF MySQLInv, TablesOK
    <3> QED
      BY <3>1, <3>2, <2>2, <2>3
  <2> QED
    BY <1>1, <2>4, <2>5 DEF MySQLInv, MySQLTypeOK, RowsOK, CallsOK, CallOK
<1> QED
  BY <1>1, MySQLInvariant, PTL

\* latest_checkpoint_id names the newest checkpoint: commits compare with it
\* under the lock of the row, and what Prune writes to it is still true.
THEOREM PointersAreNewest ==
  ASSUME PruneAlone
  PROVE  MySQLSpec => []PointerIsNewest
<1>1. MySQLInv => PointerIsNewest
  BY DEF MySQLInv, TablesOK, ThreadInv, PointerIsNewest
<1> QED
  BY <1>1, MySQLInvariant, PTL

\* GetLatest answers with what was the latest checkpoint during the call,
\* although it looks twice.
THEOREM ReadsAreCurrent ==
  ASSUME PruneAlone
  PROVE  MySQLSpec => []ReadIsCurrent
<1>1. MySQLInv => ReadIsCurrent
  BY DEF MySQLInv, CallsOK, CallOK, ReadIsCurrent
<1> QED
  BY <1>1, MySQLInvariant, PTL

-----------------------------------------------------------------------------
(* The refinement of DurableMemory. *)

\* The operators of a thread are the same on both levels.
LEMMA SameOperators ==
  /\ Store!EmptyThread = EmptyThread
  /\ \A th, snap : Store!CanAppend(th, snap) = CanAppend(th, snap)
  /\ \A th, snap : Store!IsRetry(th, snap) = IsRetry(th, snap)
  /\ \A th, snap, arts : Store!Appended(th, snap, arts) = Appended(th, snap, arts)
  /\ \A th, k : Store!Pruned(th, k) = Pruned(th, k)
<1>1. Store!EmptyThread = EmptyThread
  BY DEF Store!EmptyThread, EmptyThread, Store!NoEntries, NoEntries, Store!NoID, NoID
<1>2. \A th, snap : Store!CanAppend(th, snap) = CanAppend(th, snap)
  BY DEF Store!CanAppend, CanAppend
<1>3. \A th, snap : Store!IsRetry(th, snap) = IsRetry(th, snap)
  BY DEF Store!IsRetry, IsRetry
<1>4. ASSUME NEW th, NEW snap, NEW arts
      PROVE  Store!Appended(th, snap, arts) = Appended(th, snap, arts)
  BY DEF Store!Appended, Appended, Store!NewRefs, NewRefs, Store!NewSessions, NewSessions,
     Store!SessionID, SessionID, Store!NoEntries, NoEntries, Store!NoID, NoID
<1>5. ASSUME NEW th, NEW k
      PROVE  Store!Pruned(th, k) = Pruned(th, k)
  BY DEF Store!Pruned, Pruned, Store!Newest, Newest, Store!Live, Live, Store!Restrict, Restrict,
     Store!Range, Range, Store!Cardinality, Cardinality
<1> QED
  BY <1>1, <1>2, <1>3, <1>4, <1>5

\* A snapshot as the memory store takes it, and those it has been handed.
Sent(m) == [thread |-> m.thread, snap |-> m.snap, arts |-> m.arts]

AllSent == {[thread |-> m.thread, snap |-> m.snap, arts |-> m.arts] : m \in submitted}

\* The grant a snapshot carries makes no second snapshot of it.
SentOK == IsFiniteSet(AllSent) /\ Cardinality(AllSent) = Drawn

\* Handing in a snapshot is handing it in at the memory store.
LEMMA SubmitIsSent ==
  ASSUME MySQLInv, SentOK, NEW t \in Threads, NEW p, NEW as \in SUBSET Agents,
         Submit(t, p, as)
  PROVE  Store!Submit(t, p, as) /\ p \in Store!IDs \cup {Store!NoID} /\ SentOK'
<1> DEFINE n == Drawn
           s == [thread |-> t, snap |-> [id |-> n + 1, parent |-> p, body |-> n + 1],
                 arts |-> [a \in as |-> n + 1]]
           g == IF Fencing THEN Grant(t, leases[t].runID, leases[t].epoch) ELSE NoGrant(t)
           m == [thread |-> t, snap |-> [id |-> n + 1, parent |-> p, body |-> n + 1],
                 arts |-> [a \in as |-> n + 1], grant |-> g]
<1>1. /\ submitted' = submitted \cup {m}
      /\ n + 1 <= MaxID
      /\ p \in DOMAIN tables[t].history \cup {NoID}
      /\ UNCHANGED <<tables, acked>>
  BY DEF Submit, Drawn
<1>2. n \in Nat /\ n = Cardinality(AllSent) /\ IsFiniteSet(AllSent)
      /\ \A x \in submitted : x.snap.id \in 1..n
  BY FS_CardinalityType DEF MySQLInv, SubmittedOK, SentOK
<1>3. Sent(m) = s
  BY DEF Sent
<1>4. AllSent' = AllSent \cup {s}
  <2> HIDE DEF m, s
  <2>1. AllSent = {Sent(x) : x \in submitted} /\ AllSent' = {Sent(x) : x \in submitted'}
    BY DEF AllSent, Sent
  <2>2. {Sent(x) : x \in submitted'} = {Sent(x) : x \in submitted} \cup {Sent(m)}
    BY <1>1
  <2> QED
    BY <2>1, <2>2, <1>3
<1>5. s \notin AllSent
  <2>1. s.snap.id = n + 1
    OBVIOUS
  <2>2. \A y \in AllSent : y.snap.id \in 1..n
    BY <1>2 DEF AllSent
  <2>3. n + 1 \notin 1..n
    BY <1>2
  <2> HIDE DEF s, n
  <2> QED
    BY <2>1, <2>2, <2>3
<1>6. SentOK'
  <2> HIDE DEF s, m, n
  <2>1. IsFiniteSet(AllSent') /\ Cardinality(AllSent') = n + 1
    BY <1>2, <1>4, <1>5, FS_AddElement
  <2>2. Drawn' = n + 1
    <3>1. m \notin submitted
      <4>1. m.snap.id = n + 1
        BY DEF m
      <4> QED
        BY <4>1, <1>2
    <3>2. Cardinality(submitted \cup {m}) = Cardinality(submitted) + 1
      BY <3>1, FS_AddElement DEF MySQLInv, SubmittedOK
    <3> QED
      BY <3>2, <1>1 DEF Drawn, n
  <2> QED
    BY <2>1, <2>2 DEF SentOK
<1>7. p \in Store!IDs \cup {Store!NoID}
  <2>1. DOMAIN tables[t].history \subseteq 1..n
    BY DEF MySQLInv, TablesOK
  <2>2. 1..n \subseteq 1..MaxID
    BY <1>1, <1>2, MySQLAssumption
  <2> QED
    BY <1>1, <2>1, <2>2 DEF Store!IDs, Store!NoID, NoID
<1>8. Store!Submit(t, p, as)
  <2>1. Store!Cardinality(AllSent) = n
    BY <1>2 DEF Store!Cardinality, Cardinality
  <2> QED
    BY <1>1, <1>4, <2>1 DEF Store!Submit, AllSent, Store!NoID, NoID
<1> QED
  BY <1>6, <1>7, <1>8

\* Every transaction is a step of the memory store, or none.
LEMMA MySQLStepIsStoreStep ==
  ASSUME PruneAlone, MySQLInv, SentOK, MySQLStep
  PROVE  (Store!StoreNext \/ UNCHANGED Store!vars) /\ SentOK'
<1>0. ASSUME submitted' = submitted PROVE SentOK' /\ AllSent' = AllSent
  BY <1>0 DEF SentOK, AllSent, Drawn
<1>1. ASSUME UNCHANGED <<tables, submitted, acked>>
      PROVE  (Store!StoreNext \/ UNCHANGED Store!vars) /\ SentOK'
  BY <1>1, <1>0 DEF Store!vars
<1>2. ASSUME NEW t \in Threads, NEW p, NEW as \in SUBSET Agents, Submit(t, p, as)
      PROVE  (Store!StoreNext \/ UNCHANGED Store!vars) /\ SentOK'
  BY <1>2, SubmitIsSent DEF Store!StoreNext
<1>3. ASSUME NEW m \in submitted
      PROVE  /\ Sent(m) \in AllSent
             /\ Sent(m).thread = m.thread /\ Sent(m).snap = m.snap /\ Sent(m).arts = m.arts
  BY DEF Sent, AllSent
<1>4. ASSUME NEW c \in Clients, NEW m \in submitted, CommitRetried(c, m)
      PROVE  (Store!StoreNext \/ UNCHANGED Store!vars) /\ SentOK'
  <2>1. Store!CommitRetried(Sent(m))
    BY <1>3, <1>4, SameOperators, Zenon DEF Store!CommitRetried, CommitRetried
  <2> QED
    BY <2>1, <1>3, <1>4, <1>0 DEF Store!StoreNext, AllSent, CommitRetried
<1>5. ASSUME NEW c \in Clients, CommitInserts(c)
      PROVE  (Store!StoreNext \/ UNCHANGED Store!vars) /\ SentOK'
  <2> DEFINE m == call[c].msg
  <2>1. /\ call[c].pc = "insert"
        /\ ParentMatches(m) /\ Insertable(tables[m.thread], m.snap)
        /\ tables' = [tables EXCEPT ![m.thread] = Appended(@, m.snap, m.arts)]
        /\ acked' = [acked EXCEPT ![m.thread] = @ \cup {m.snap.id}]
        /\ submitted' = submitted
    BY <1>5 DEF CommitInserts
  <2>2. m \in submitted
    BY <2>1 DEF MySQLInv, CallsOK, CallOK
  <2>3. CanAppend(tables[m.thread], m.snap)
    BY <2>1, <2>2, InsertAppends DEF MySQLInv
  <2> HIDE DEF m
  <2>4. AllSent' = AllSent /\ SentOK'
    BY <2>1, <1>0
  <2>5. Store!CommitAppends(Sent(m))
    BY <2>1, <2>2, <2>3, <2>4, <1>3, SameOperators DEF Store!CommitAppends, AllSent
  <2> QED
    BY <2>2, <2>4, <2>5, <1>3 DEF Store!StoreNext, AllSent
<1>6. ASSUME NEW c \in Clients, PruneWrites(c)
      PROVE  (Store!StoreNext \/ UNCHANGED Store!vars) /\ SentOK'
  <2> DEFINE t == call[c].thread
             k == call[c].keep
  <2>1. /\ t \in Threads /\ k \in Nat \ {0} /\ k \in 1..MaxKeep
        /\ Cardinality(DOMAIN tables[t].history) > k
        /\ tables' = [tables EXCEPT ![t] = Pruned(@, k)]
    BY <1>6, PruneLeaves DEF MySQLInv, CallsOK
  <2>2. submitted' = submitted /\ acked' = acked
    BY <1>6 DEF PruneWrites
  <2> HIDE DEF t, k
  <2>3. k > 0
    BY <2>1
  <2>4. \A S : Store!Cardinality(S) = Cardinality(S)
    BY DEF Store!Cardinality, Cardinality
  <2>5. AllSent' = AllSent /\ SentOK'
    BY <2>2, <1>0
  <2>6. Store!Prune(t, k)
    BY <2>1, <2>2, <2>3, <2>4, <2>5, SameOperators DEF Store!Prune, AllSent
  <2> QED
    BY <2>1, <2>5, <2>6 DEF Store!StoreNext
<1>7. ASSUME NEW t \in Threads, DeleteThread(t)
      PROVE  (Store!StoreNext \/ UNCHANGED Store!vars) /\ SentOK'
  <2>1. AllSent' = AllSent /\ SentOK'
    BY <1>7, <1>0 DEF DeleteThread
  <2>2. Store!DeleteThread(t)
    BY <1>7, <2>1, SameOperators DEF Store!DeleteThread, DeleteThread, AllSent
  <2> QED
    BY <2>1, <2>2 DEF Store!StoreNext
<1>8. ASSUME NEW c \in Clients, ReadMove(c)
      PROVE  (Store!StoreNext \/ UNCHANGED Store!vars) /\ SentOK'
  <2>1. \/ \E m \in submitted : CommitRetried(c, m)
        \/ UNCHANGED <<tables, submitted, acked>>
    BY <1>8 DEF ReadMove, CommitChecked, CommitRefused, CallReturns, GetsByID,
       GetLatestID, PruneLists
  <2> QED
    BY <2>1, <1>1, <1>4
<1> QED
  BY <1>1, <1>2, <1>5, <1>6, <1>7, <1>8, MySQLStepKinds, LeasesWriteNothing

\* As long as nothing overlaps with Prune, the MySQL store does nothing that
\* DurableMemory with its one lock could not do: MySQLStore refines
\* CheckpointStore, each transaction at the moment it holds the row lock.
THEOREM MySQLImplementsStore ==
  ASSUME PruneAlone
  PROVE  MySQLSpec => ImplementsStore
<1>1. MySQLInit => Store!StoreInit /\ SentOK
  <2>1. ASSUME MySQLInit PROVE AllSent = {} /\ Drawn = 0 /\ IsFiniteSet({})
    BY <2>1, FS_EmptySet DEF MySQLInit, AllSent, Drawn
  <2>2. ASSUME MySQLInit PROVE Store!StoreInit
    BY <2>1, <2>2, SameOperators DEF MySQLInit, Store!StoreInit, AllSent
  <2> QED
    BY <2>1, <2>2, FS_EmptySet DEF SentOK
<1>2. ASSUME MySQLInv, SentOK, [MySQLNext]_<<mvars, seen>>
      PROVE  [Store!StoreNext]_(Store!vars) /\ SentOK'
  <2>1. CASE MySQLNext
    BY <1>2, <2>1, MySQLStepIsStoreStep DEF MySQLNext
  <2>2. CASE UNCHANGED <<mvars, seen>>
    BY <1>2, <2>2 DEF mvars, Store!vars, SentOK, AllSent, Drawn
  <2> QED
    BY <1>2, <2>1, <2>2
<1> QED
  BY <1>1, <1>2, MySQLInvariant, PTL DEF MySQLSpec, ImplementsStore, Store!StoreSpec
=============================================================================
