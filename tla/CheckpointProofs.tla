--------------------------- MODULE CheckpointProofs ---------------------------
(***************************************************************************)
(* What DurableMemory keeps true of every thread, for any number of        *)
(* threads, agents, clients and checkpoints.  CheckpointLemmas has what    *)
(* one call does to one thread; here are the clients, whose calls come in  *)
(* any order and any number of times.                                      *)
(***************************************************************************)
EXTENDS CheckpointStore, CheckpointLemmas

\* The ids commits may use never include the empty one.
LEMMA IDsArePositive == IDs \subseteq Nat \ {NoID} /\ NoID \notin IDs
  BY StoreAssumption DEF IDs, NoID

\* A fresh thread is well formed.
LEMMA EmptyTypeOK == ThreadTypeOK(EmptyThread)
<1>1. DOMAIN NoEntries = {}
  BY DEF NoEntries
<1> QED
  BY <1>1 DEF EmptyThread, ThreadTypeOK

\* Both ways to write keep ids and bodies within the bound.
LEMMA AppendKeepsType ==
  ASSUME NEW th, NEW snap, NEW arts, ThreadTypeOK(th), CanAppend(th, snap),
         snap.id \in IDs, snap.body \in IDs
  PROVE  ThreadTypeOK(Appended(th, snap, arts))
  BY DEF ThreadTypeOK, Entry, Appended, CanAppend

\* What is left of a thread after Prune is still well formed.
LEMMA PruneKeepsType ==
  ASSUME NEW th, ThreadTypeOK(th), ThreadInv(th), NEW k \in Nat \ {0},
         th.latestID # NoID
  PROVE  ThreadTypeOK(Pruned(th, k))
<1>1. /\ Pruned(th, k).latestID = th.latestID
      /\ Pruned(th, k).revision = th.revision
      /\ Newest(th, k) \subseteq DOMAIN th.history
  BY NewestIsTop DEF ThreadInv
<1>2. Pruned(th, k).history = [c \in Newest(th, k) |-> th.history[c]]
  BY DEF Pruned, Restrict
<1> QED
  BY <1>1, <1>2 DEF ThreadTypeOK

-----------------------------------------------------------------------------
(* The store *)

\* The ids of the histories were drawn before, and each snapshot names an
\* older parent: NewID never repeats an id.
FreshIDs ==
    /\ IsFiniteSet(submitted)
    /\ \A t \in Threads : \A c \in DOMAIN threads[t].history :
          c <= Cardinality(submitted)
    /\ \A m \in submitted :
          /\ m.thread \in Threads
          /\ m.snap.id \in IDs
          /\ m.snap.body \in IDs
          /\ m.snap.parent \in IDs \cup {NoID}
          /\ m.snap.parent < m.snap.id
          /\ m.snap.id <= Cardinality(submitted)

StoreInv ==
    /\ threads = [t \in Threads |-> threads[t]]
    /\ acked = [t \in Threads |-> acked[t]]
    /\ \A t \in Threads : acked[t] \in SUBSET IDs
    /\ \A t \in Threads : ThreadTypeOK(threads[t]) /\ ThreadInv(threads[t])
    /\ FreshIDs

\* An empty store satisfies the invariant.
LEMMA StoreInvInit == StoreInit => StoreInv
<1> SUFFICES ASSUME StoreInit PROVE StoreInv
  OBVIOUS
<1>1. \A t \in Threads : threads[t] = EmptyThread
  BY DEF StoreInit
<1>2. DOMAIN EmptyThread.history = {}
  BY DEF EmptyThread, NoEntries
<1>3. FreshIDs
  BY <1>1, <1>2, FS_EmptySet DEF StoreInit, FreshIDs
<1> QED
  BY <1>1, <1>3, EmptyThreadInv, EmptyTypeOK DEF StoreInit, StoreInv

\* Every operation of the store keeps the invariant.
LEMMA StoreInvStep == StoreInv /\ [StoreNext]_vars => StoreInv'
<1> SUFFICES ASSUME StoreInv, [StoreNext]_vars PROVE StoreInv'
  OBVIOUS
<1>1. ASSUME NEW t \in Threads, NEW p \in IDs \cup {NoID}, NEW as \in SUBSET Agents,
             Submit(t, p, as)
      PROVE  StoreInv'
  <2> DEFINE n == Cardinality(submitted)
             m == [thread |-> t,
                   snap |-> [id |-> n + 1, parent |-> p, body |-> n + 1],
                   arts |-> [a \in as |-> n + 1]]
  <2>1. submitted' = submitted \cup {m} /\ n + 1 <= MaxID
        /\ p \in DOMAIN threads[t].history \cup {NoID}
        /\ UNCHANGED <<threads, acked>>
    BY <1>1 DEF Submit
  <2>2. IsFiniteSet(submitted) /\ n \in Nat
    BY FS_CardinalityType DEF StoreInv, FreshIDs
  <2>3. IsFiniteSet(submitted')
    BY <2>1, <2>2, FS_AddElement
  <2>4. m \notin submitted
    BY <2>2 DEF StoreInv, FreshIDs
  <2>5. Cardinality(submitted') = n + 1
    BY <2>1, <2>2, <2>4, FS_AddElement
  <2>6. p < n + 1
    BY <2>1, <2>2, StoreAssumption DEF StoreInv, FreshIDs, NoID, IDs
  <2>7. n + 1 \in IDs
    BY <2>1, <2>2, StoreAssumption DEF IDs
  <2>8. FreshIDs'
    <3> HIDE DEF n
    <3>1. \A u \in Threads : \A c \in DOMAIN threads[u].history : c <= n + 1
      BY <2>2, StoreAssumption DEF StoreInv, FreshIDs, n, ThreadInv, ThreadTypeOK, IDs
    <3>2. \A x \in submitted : x.snap.id <= n + 1
      BY <2>2, StoreAssumption DEF StoreInv, FreshIDs, n, IDs
    <3>3. \A u \in Threads : \A c \in DOMAIN threads'[u].history :
             c <= Cardinality(submitted')
      BY <2>1, <2>5, <3>1
    <3>4. /\ m.thread \in Threads
          /\ m.snap.id \in IDs
          /\ m.snap.body \in IDs
          /\ m.snap.parent \in IDs \cup {NoID}
          /\ m.snap.parent < m.snap.id
          /\ m.snap.id <= n + 1
      BY <2>2, <2>6, <2>7
    <3> HIDE DEF m
    <3>5. \A x \in submitted' :
             /\ x.thread \in Threads
             /\ x.snap.id \in IDs
             /\ x.snap.body \in IDs
             /\ x.snap.parent \in IDs \cup {NoID}
             /\ x.snap.parent < x.snap.id
             /\ x.snap.id <= Cardinality(submitted')
      BY <2>1, <2>5, <3>2, <3>4 DEF StoreInv, FreshIDs
    <3> QED
      BY <2>3, <3>3, <3>5 DEF FreshIDs
  <2> QED
    BY <2>1, <2>8 DEF StoreInv
<1>2. ASSUME NEW m \in submitted, CommitAppends(m) PROVE StoreInv'
  <2> DEFINE t == m.thread
             new == Appended(threads[t], m.snap, m.arts)
  <2>1. /\ t \in Threads /\ m.snap.id \in IDs /\ m.snap.body \in IDs
        /\ m.snap.parent < m.snap.id
        /\ m.snap.id <= Cardinality(submitted)
        /\ CanAppend(threads[t], m.snap)
        /\ ThreadTypeOK(threads[t]) /\ ThreadInv(threads[t])
    BY <1>2 DEF CommitAppends, StoreInv, FreshIDs
  <2>2. ThreadTypeOK(new) /\ ThreadInv(new)
    <3>1. ThreadTypeOK(new)
      BY <2>1, AppendKeepsType
    <3>2. ThreadInv(new)
      BY <2>1, IDsArePositive, AppendKeepsChain, AppendKeepsSessions DEF ThreadInv
    <3> QED
      BY <3>1, <3>2
  <2>3. DOMAIN new.history = DOMAIN threads[t].history \cup {m.snap.id}
    BY DEF Appended
  <2> HIDE DEF new
  <2>4. /\ threads' = [threads EXCEPT ![t] = new]
        /\ acked' = [acked EXCEPT ![t] = @ \cup {m.snap.id}]
        /\ submitted' = submitted
    BY <1>2 DEF CommitAppends, new
  <2>5. FreshIDs'
    BY <2>1, <2>3, <2>4 DEF StoreInv, FreshIDs
  <2>6. \A u \in Threads : ThreadTypeOK(threads'[u]) /\ ThreadInv(threads'[u])
    BY <2>2, <2>4, <2>1 DEF StoreInv
  <2>7. \A u \in Threads : acked'[u] \in SUBSET IDs
    BY <2>4, <2>1 DEF StoreInv
  <2> QED
    BY <2>4, <2>5, <2>6, <2>7, <2>1 DEF StoreInv
<1>3. ASSUME NEW m \in submitted, CommitRetried(m) PROVE StoreInv'
  <2>1. /\ threads' = threads /\ submitted' = submitted
        /\ acked' = [acked EXCEPT ![m.thread] = @ \cup {m.snap.id}]
        /\ m.snap.id \in IDs
    BY <1>3 DEF CommitRetried, StoreInv, FreshIDs
  <2>2. acked' = [t \in Threads |-> acked'[t]]
        /\ \A t \in Threads : acked'[t] \in SUBSET IDs
    BY <2>1 DEF StoreInv
  <2> QED
    BY <2>1, <2>2 DEF StoreInv, FreshIDs
<1>4. ASSUME NEW t \in Threads, NEW k \in 1..MaxKeep, Prune(t, k) PROVE StoreInv'
  <2> DEFINE new == Pruned(threads[t], k)
  <2>1. ThreadTypeOK(threads[t]) /\ ThreadInv(threads[t]) /\ k \in Nat \ {0}
    BY StoreAssumption DEF StoreInv
  <2>2. threads[t].latestID # NoID
    <3>1. DOMAIN threads[t].history # {}
      BY <1>4, <2>1, FS_EmptySet DEF Prune
    <3> QED
      BY <3>1, <2>1 DEF ThreadInv, ThreadLatestIsNewest
  <2>3. ThreadTypeOK(new) /\ ThreadInv(new)
    BY <2>1, <2>2, PruneKeepsInv, PruneKeepsType
  <2>4. DOMAIN new.history \subseteq DOMAIN threads[t].history
    BY DEF Pruned, Restrict, Newest
  <2> HIDE DEF new
  <2>5. /\ threads' = [threads EXCEPT ![t] = new]
        /\ acked' = acked /\ submitted' = submitted
    BY <1>4 DEF Prune, new
  <2>6. FreshIDs'
    BY <2>4, <2>5 DEF StoreInv, FreshIDs
  <2>7. \A u \in Threads : ThreadTypeOK(threads'[u]) /\ ThreadInv(threads'[u])
    BY <2>3, <2>5 DEF StoreInv
  <2> QED
    BY <2>5, <2>6, <2>7 DEF StoreInv
<1>5. ASSUME NEW t \in Threads, DeleteThread(t) PROVE StoreInv'
  <2>1. DOMAIN EmptyThread.history = {}
    BY DEF EmptyThread, NoEntries
  <2>2. /\ threads' = [threads EXCEPT ![t] = EmptyThread]
        /\ acked' = [acked EXCEPT ![t] = {}]
        /\ submitted' = submitted
    BY <1>5 DEF DeleteThread
  <2>3. FreshIDs'
    BY <2>1, <2>2 DEF StoreInv, FreshIDs
  <2>4. \A u \in Threads : ThreadTypeOK(threads'[u]) /\ ThreadInv(threads'[u])
    BY <2>2, EmptyThreadInv, EmptyTypeOK DEF StoreInv
  <2> QED
    BY <2>2, <2>3, <2>4 DEF StoreInv
<1>6. CASE UNCHANGED vars
  BY <1>6 DEF vars, StoreInv, FreshIDs
<1> QED
  BY <1>1, <1>2, <1>3, <1>4, <1>5, <1>6 DEF StoreNext

\* Every reachable store satisfies the invariant of each of its threads.
THEOREM StoreInvariant == StoreSpec => []StoreInv
  BY StoreInvInit, StoreInvStep, PTL DEF StoreSpec

\* Every reachable store is well formed.
THEOREM StoreTypeCorrect == StoreSpec => []StoreTypeOK
<1>1. StoreInv => StoreTypeOK
  BY DEF StoreInv, FreshIDs, StoreTypeOK, ThreadInv
<1> QED
  BY <1>1, StoreInvariant, PTL

\* GetLatest is never behind: no retry, prune or late commit moves the latest
\* pointer of DurableMemory off the newest checkpoint.
THEOREM LatestIsAlwaysNewest == StoreSpec => []LatestIsNewest
<1>1. StoreInv => LatestIsNewest
  BY DEF StoreInv, LatestIsNewest, ThreadInv
<1> QED
  BY <1>1, StoreInvariant, PTL

\* The history of DurableMemory is one chain, without forks, gaps or a
\* revision used twice, whatever its clients do.
THEOREM ChainStaysIntact == StoreSpec => []ChainIntact
<1>1. StoreInv => ChainIntact
  BY DEF StoreInv, ChainIntact, ThreadInv
<1> QED
  BY <1>1, StoreInvariant, PTL

\* Prune and DeleteThread delete the orphan sessions and no others.
THEOREM SessionsStayReferenced == StoreSpec => []SessionsReferenced
<1>1. StoreInv => SessionsReferenced
  BY DEF StoreInv, SessionsReferenced, ThreadInv
<1> QED
  BY <1>1, StoreInvariant, PTL

\* Each checkpoint still has the sessions of the agents its step left alone.
THEOREM SessionsStayInherited == StoreSpec => []SessionsInherited
<1>1. StoreInv => SessionsInherited
  BY DEF StoreInv, SessionsInherited, ThreadInv
<1> QED
  BY <1>1, StoreInvariant, PTL

-----------------------------------------------------------------------------
(***************************************************************************)
(* What was accepted stays what it was.  StoreInv says nothing about the   *)
(* past; this adds what a thread remembers of it.  Since a new id is       *)
(* larger than the latest one, it is enough that nothing the thread has    *)
(* accepted or stored under an id is beyond its latest checkpoint.         *)
(***************************************************************************)

\* Accepted checkpoints are not newer than the latest one, and older than
\* everything kept if they were dropped.
ThreadAckedOld(th, acc) ==
    \A c \in acc :
        /\ c <= th.latestID
        /\ c \notin DOMAIN th.history => \A d \in DOMAIN th.history : c < d

PastInv ==
    \A t \in Threads : ThreadSessionsOld(threads[t])
                       /\ ThreadAckedOld(threads[t], acked[t])

\* An append draws an id beyond everything before it.
LEMMA AppendKeepsPast ==
  ASSUME NEW th, NEW acc \in SUBSET IDs, NEW snap, NEW arts,
         ThreadTypeOK(th), ThreadInv(th), ThreadSessionsOld(th),
         ThreadAckedOld(th, acc), CanAppend(th, snap), snap.id \in IDs, snap.parent < snap.id
  PROVE  /\ ThreadSessionsOld(Appended(th, snap, arts))
         /\ ThreadAckedOld(Appended(th, snap, arts), acc \cup {snap.id})
<1> DEFINE new == Appended(th, snap, arts)
<1>1. /\ new.latestID = snap.id
      /\ DOMAIN new.history = DOMAIN th.history \cup {snap.id}
      /\ DOMAIN new.sessions
           = DOMAIN th.sessions \cup {SessionID(snap.id, a) : a \in DOMAIN arts}
  BY DEF Appended, NewSessions
<1>2. th.latestID \in IDs \cup {NoID} /\ th.latestID < snap.id
      /\ DOMAIN th.history \subseteq IDs
  BY DEF CanAppend, ThreadTypeOK
<1> HIDE DEF new
<1>3. ThreadSessionsOld(new)
  BY <1>1, <1>2, StoreAssumption DEF ThreadSessionsOld, SessionID, IDs, NoID
<1>4. ThreadAckedOld(new, acc \cup {snap.id})
  BY <1>1, <1>2, StoreAssumption DEF ThreadAckedOld, IDs, NoID
<1> QED
  BY <1>3, <1>4 DEF new

\* Prune drops the small ids only.
LEMMA PruneKeepsPast ==
  ASSUME NEW th, NEW acc \in SUBSET IDs, NEW k \in Nat \ {0},
         ThreadInv(th), ThreadSessionsOld(th), ThreadAckedOld(th, acc),
         th.latestID # NoID
  PROVE  /\ ThreadSessionsOld(Pruned(th, k))
         /\ ThreadAckedOld(Pruned(th, k), acc)
<1> DEFINE new == Pruned(th, k)
           keep == Newest(th, k)
<1>1. /\ keep \subseteq DOMAIN th.history
      /\ \A c \in keep, d \in DOMAIN th.history :
            th.history[d].revision > th.history[c].revision => d \in keep
      /\ new.latestID = th.latestID
  BY NewestIsTop DEF ThreadInv
<1>2. /\ DOMAIN new.history = keep
      /\ DOMAIN new.sessions \subseteq DOMAIN th.sessions
  BY DEF Pruned, Restrict
<1> HIDE DEF new, keep
<1>3. ThreadSessionsOld(new)
  BY <1>1, <1>2 DEF ThreadSessionsOld
<1>4. ASSUME NEW c \in DOMAIN th.history \ keep, NEW d \in keep PROVE c < d
  <2>1. th.history[c].revision \in Nat /\ th.history[d].revision \in Nat
    BY <1>1 DEF ThreadInv, ThreadShape
  <2>2. th.history[c].revision # th.history[d].revision
    BY <1>1 DEF ThreadInv, ThreadChainIntact
  <2>3. th.history[c].revision < th.history[d].revision
    BY <1>1, <2>1, <2>2
  <2> QED
    BY <1>1, <2>3 DEF ThreadInv, ThreadIdsOrdered
<1>5. ThreadAckedOld(new, acc)
  BY <1>1, <1>2, <1>4 DEF ThreadAckedOld
<1> QED
  BY <1>3, <1>5 DEF new

\* An empty store has no past to keep.
LEMMA PastInvInit == StoreInit => PastInv
  BY DEF StoreInit, PastInv, ThreadSessionsOld, ThreadAckedOld, EmptyThread, NoEntries

\* Every operation keeps what is known of the past.
LEMMA PastInvStep == StoreInv /\ PastInv /\ [StoreNext]_vars => PastInv'
<1> SUFFICES ASSUME StoreInv, PastInv, [StoreNext]_vars PROVE PastInv'
  OBVIOUS
<1>0. /\ threads = [t \in Threads |-> threads[t]]
      /\ acked = [t \in Threads |-> acked[t]]
      /\ \A t \in Threads : acked[t] \in SUBSET IDs
                            /\ ThreadTypeOK(threads[t]) /\ ThreadInv(threads[t])
                            /\ ThreadSessionsOld(threads[t])
                            /\ ThreadAckedOld(threads[t], acked[t])
  BY DEF StoreInv, PastInv
<1>1. ASSUME NEW t \in Threads, NEW p \in IDs \cup {NoID}, NEW as \in SUBSET Agents,
             Submit(t, p, as)
      PROVE  PastInv'
  BY <1>1 DEF Submit, PastInv
<1>2. ASSUME NEW m \in submitted, CommitAppends(m) PROVE PastInv'
  <2> DEFINE t == m.thread
             new == Appended(threads[t], m.snap, m.arts)
             acc == acked[t] \cup {m.snap.id}
  <2>1. /\ t \in Threads /\ m.snap.id \in IDs /\ m.snap.parent < m.snap.id
        /\ CanAppend(threads[t], m.snap)
    BY <1>2 DEF CommitAppends, StoreInv, FreshIDs
  <2>2. ThreadSessionsOld(new) /\ ThreadAckedOld(new, acc)
    BY <1>0, <2>1, AppendKeepsPast
  <2>3. threads' = [threads EXCEPT ![t] = new] /\ acked' = [acked EXCEPT ![t] = acc]
    BY <1>2 DEF CommitAppends
  <2> HIDE DEF new, acc
  <2> QED
    BY <1>0, <2>1, <2>2, <2>3 DEF PastInv
<1>3. ASSUME NEW m \in submitted, CommitRetried(m) PROVE PastInv'
  <2> DEFINE t == m.thread
             acc == acked[t] \cup {m.snap.id}
  <2>1. /\ t \in Threads /\ m.snap.id \in DOMAIN threads[t].history
        /\ threads' = threads /\ acked' = [acked EXCEPT ![t] = acc]
    BY <1>3 DEF CommitRetried, IsRetry, StoreInv, FreshIDs
  <2>2. ThreadAckedOld(threads[t], acc)
    BY <1>0, <2>1, HistoryUpToLatest DEF ThreadAckedOld
  <2> HIDE DEF acc
  <2> QED
    BY <1>0, <2>1, <2>2 DEF PastInv
<1>4. ASSUME NEW t \in Threads, NEW k \in 1..MaxKeep, Prune(t, k) PROVE PastInv'
  <2> DEFINE new == Pruned(threads[t], k)
  <2>1. threads[t].latestID # NoID
    <3>1. DOMAIN threads[t].history # {}
      BY <1>4, FS_EmptySet, StoreAssumption DEF Prune
    <3> QED
      BY <1>0, <3>1 DEF ThreadInv, ThreadLatestIsNewest
  <2>2. ThreadSessionsOld(new) /\ ThreadAckedOld(new, acked[t])
    BY <1>0, <2>1, StoreAssumption, PruneKeepsPast
  <2>3. threads' = [threads EXCEPT ![t] = new] /\ acked' = acked
    BY <1>4 DEF Prune
  <2> HIDE DEF new
  <2> QED
    BY <1>0, <2>2, <2>3 DEF PastInv
<1>5. ASSUME NEW t \in Threads, DeleteThread(t) PROVE PastInv'
  <2>1. threads' = [threads EXCEPT ![t] = EmptyThread] /\ acked' = [acked EXCEPT ![t] = {}]
    BY <1>5 DEF DeleteThread
  <2>2. ThreadSessionsOld(EmptyThread) /\ ThreadAckedOld(EmptyThread, {})
    BY DEF ThreadSessionsOld, ThreadAckedOld, EmptyThread, NoEntries
  <2> QED
    BY <1>0, <2>1, <2>2 DEF PastInv
<1>6. CASE UNCHANGED vars
  BY <1>6 DEF vars, PastInv
<1> QED
  BY <1>1, <1>2, <1>3, <1>4, <1>5, <1>6 DEF StoreNext

\* The past of every thread is below its latest checkpoint.
THEOREM PastInvariant == StoreSpec => [](StoreInv /\ PastInv)
  BY StoreInvInit, StoreInvStep, PastInvInit, PastInvStep, PTL DEF StoreSpec

\* A checkpoint CommitStep accepted is only lost to Prune, which leaves every
\* thread that ever accepted one with a newer one.
THEOREM AcceptedIsDurable == StoreSpec => []AckedIsDurable
<1>1. StoreInv /\ PastInv => AckedIsDurable
  <2> SUFFICES ASSUME StoreInv, PastInv, NEW t \in Threads, acked[t] # {}
               PROVE  /\ DOMAIN threads[t].history # {}
                      /\ \A c \in acked[t] \ DOMAIN threads[t].history :
                           \A d \in DOMAIN threads[t].history : c < d
    BY DEF AckedIsDurable
  <2>1. PICK c \in acked[t] : c \in IDs /\ c <= threads[t].latestID
    BY DEF StoreInv, PastInv, ThreadAckedOld
  <2>2. threads[t].latestID # NoID
    BY <2>1, StoreAssumption DEF IDs, NoID
  <2>3. DOMAIN threads[t].history # {}
    BY <2>2 DEF StoreInv, ThreadInv, ThreadLatestIsNewest
  <2> QED
    BY <2>3 DEF PastInv, ThreadAckedOld
<1> QED
  BY <1>1, PastInvariant, PTL

\* A late retry never brings back a checkpoint Prune dropped: its parent is
\* not the latest one, whose id is larger than both.
THEOREM PrunedStaysPruned == StoreSpec => NoResurrection
<1> DEFINE Keeps == \A t \in Threads :
                      \A c \in acked[t] \ DOMAIN threads[t].history :
                         c \notin DOMAIN threads'[t].history
<1>1. StoreInv /\ PastInv /\ [StoreNext]_vars => [Keeps]_vars
  <2> SUFFICES ASSUME StoreInv, PastInv, StoreNext, NEW t \in Threads,
                      NEW c \in acked[t] \ DOMAIN threads[t].history
               PROVE  c \notin DOMAIN threads'[t].history
    BY DEF vars
  <2>0. c \in IDs /\ c <= threads[t].latestID /\ threads[t].latestID \in IDs \cup {NoID}
        /\ threads = [u \in Threads |-> threads[u]]
    BY DEF StoreInv, PastInv, ThreadAckedOld, ThreadInv, ThreadTypeOK
  <2>1. CASE \E u \in Threads, p \in IDs \cup {NoID}, as \in SUBSET Agents : Submit(u, p, as)
    BY <2>1 DEF Submit
  <2>2. ASSUME NEW m \in submitted, CommitAppends(m)
        PROVE  c \notin DOMAIN threads'[t].history
    <3> DEFINE new == Appended(threads[m.thread], m.snap, m.arts)
    <3>1. /\ m.snap.id \in IDs
          /\ threads[m.thread].latestID < m.snap.id
          /\ threads' = [threads EXCEPT ![m.thread] = new]
      BY <2>2 DEF CommitAppends, CanAppend, StoreInv, FreshIDs
    <3>2. DOMAIN new.history = DOMAIN threads[m.thread].history \cup {m.snap.id}
      BY DEF Appended
    <3> HIDE DEF new
    <3>3. CASE m.thread = t
      <4>1. c # m.snap.id
        BY <3>1, <3>3, <2>0, StoreAssumption DEF IDs, NoID
      <4> QED
        BY <4>1, <3>1, <3>2, <3>3, <2>0
    <3> QED
      BY <3>1, <3>3, <2>0
  <2>3. CASE \E m \in submitted : CommitRetried(m)
    BY <2>3 DEF CommitRetried
  <2>4. ASSUME NEW u \in Threads, NEW k \in 1..MaxKeep, Prune(u, k)
        PROVE  c \notin DOMAIN threads'[t].history
    <3> DEFINE new == Pruned(threads[u], k)
    <3>1. DOMAIN new.history \subseteq DOMAIN threads[u].history
      BY DEF Pruned, Restrict, Newest
    <3>2. threads' = [threads EXCEPT ![u] = new]
      BY <2>4 DEF Prune
    <3> HIDE DEF new
    <3> QED
      BY <3>1, <3>2, <2>0
  <2>5. ASSUME NEW u \in Threads, DeleteThread(u)
        PROVE  c \notin DOMAIN threads'[t].history
    <3>1. DOMAIN EmptyThread.history = {}
      BY DEF EmptyThread, NoEntries
    <3>2. threads' = [threads EXCEPT ![u] = EmptyThread]
      BY <2>5 DEF DeleteThread
    <3> QED
      BY <3>1, <3>2, <2>0
  <2> QED
    BY <2>1, <2>2, <2>3, <2>4, <2>5 DEF StoreNext
<1>2. StoreSpec => [][Keeps]_vars
  BY <1>1, PastInvariant, PTL DEF StoreSpec
<1> QED
  BY <1>2 DEF NoResurrection

\* A checkpoint that is kept is never rewritten, and neither is a session it
\* refers to, by whatever is committed, retried or pruned meanwhile.
THEOREM CheckpointsStayTheSame == StoreSpec => CheckpointsImmutable
<1> DEFINE Same(old, new) ==
             \A c \in DOMAIN old.history \cap DOMAIN new.history :
                 /\ new.history[c] = old.history[c]
                 /\ new.refs[c] = old.refs[c]
                 /\ \A a \in DOMAIN old.refs[c] :
                      AgentSession(new, c, a) = AgentSession(old, c, a)
           Keeps == \A t \in Threads : Same(threads[t], threads'[t])
<1>1. StoreInv /\ PastInv /\ [StoreNext]_vars => [Keeps]_vars
  <2> SUFFICES ASSUME StoreInv, PastInv, StoreNext, NEW t \in Threads
               PROVE  Same(threads[t], threads'[t])
    BY DEF vars
  <2>0. /\ threads = [u \in Threads |-> threads[u]]
        /\ \A u \in Threads : ThreadInv(threads[u]) /\ ThreadSessionsOld(threads[u])
    BY DEF StoreInv, PastInv
  <2>r. \A th : Same(th, th)
    OBVIOUS
  <2>1. CASE \E u \in Threads, p \in IDs \cup {NoID}, as \in SUBSET Agents : Submit(u, p, as)
    BY <2>1, <2>r DEF Submit
  <2>2. ASSUME NEW m \in submitted, CommitAppends(m)
        PROVE  Same(threads[t], threads'[t])
    <3> DEFINE old == threads[m.thread]
               new == Appended(old, m.snap, m.arts)
    <3>1. /\ m.thread \in Threads /\ m.snap.id \in IDs /\ m.snap.parent < m.snap.id
          /\ CanAppend(old, m.snap)
          /\ threads' = [threads EXCEPT ![m.thread] = new]
      BY <2>2 DEF CommitAppends, StoreInv, FreshIDs
    <3>2. Same(old, new)
      BY <3>1, <2>0, IDsArePositive, AppendKeepsCheckpoints
    <3> HIDE DEF new, Same
    <3> QED
      BY <3>1, <3>2, <2>0, <2>r
  <2>3. CASE \E m \in submitted : CommitRetried(m)
    BY <2>3, <2>r DEF CommitRetried
  <2>4. ASSUME NEW u \in Threads, NEW k \in 1..MaxKeep, Prune(u, k)
        PROVE  Same(threads[t], threads'[t])
    <3> DEFINE new == Pruned(threads[u], k)
    <3>1. DOMAIN new.history = Newest(threads[u], k)
      BY DEF Pruned, Restrict
    <3>2. Same(threads[u], new)
      BY <3>1, <2>0, PruneKeepsCheckpoints
    <3>3. threads' = [threads EXCEPT ![u] = new]
      BY <2>4 DEF Prune
    <3> HIDE DEF new, Same
    <3> QED
      BY <3>2, <3>3, <2>0, <2>r
  <2>5. ASSUME NEW u \in Threads, DeleteThread(u)
        PROVE  Same(threads[t], threads'[t])
    <3>1. Same(threads[u], EmptyThread)
      BY DEF EmptyThread, NoEntries
    <3>2. threads' = [threads EXCEPT ![u] = EmptyThread]
      BY <2>5 DEF DeleteThread
    <3> HIDE DEF Same
    <3> QED
      BY <3>1, <3>2, <2>0, <2>r
  <2> QED
    BY <2>1, <2>2, <2>3, <2>4, <2>5 DEF StoreNext
<1>2. StoreSpec => [][Keeps]_vars
  BY <1>1, PastInvariant, PTL DEF StoreSpec
<1> QED
  BY <1>2 DEF CheckpointsImmutable
=============================================================================
