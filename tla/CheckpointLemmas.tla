-------------------------- MODULE CheckpointLemmas --------------------------
(***************************************************************************)
(* What the three things that can happen to a thread of a durable store,   *)
(* an append, a Prune and a deletion, keep true of its record.  Nothing is *)
(* assumed of who calls them, so these lemmas serve every specification    *)
(* that keeps its threads with the operators of Checkpoints.               *)
(***************************************************************************)
EXTENDS Checkpoints, FiniteSetTheorems, TLAPS

\* The shape of a thread, whatever the bodies of its checkpoints are.
ThreadShape(th) ==
    /\ th.latestID \in Nat
    /\ th.revision \in Nat
    /\ IsFiniteSet(DOMAIN th.history)
    /\ \A c \in DOMAIN th.history :
         /\ c \in Nat \ {NoID}
         /\ th.history[c].parent \in Nat
         /\ th.history[c].revision \in Nat \ {0}

\* Ids are drawn in the order of the chain: a checkpoint's parent has a
\* smaller id, so an id that was pruned is never the latest one again.
ThreadIdsOrdered(th) ==
    \A c, d \in DOMAIN th.history :
        /\ (th.history[c].revision < th.history[d].revision) => c < d
        /\ th.history[c].parent < c

\* The invariant of one thread: with no gap in the chain and the latest
\* pointer at its end, appending at the pointer and cutting the oldest end
\* both keep it a chain.
ThreadInv(th) ==
    /\ ThreadShape(th)
    /\ ThreadLatestIsNewest(th)
    /\ ThreadChainIntact(th)
    /\ ThreadIdsOrdered(th)
    /\ ThreadSessionsReferenced(th)
    /\ ThreadSessionsInherited(th)

\* A thread that has nothing yet, or was deleted.
LEMMA EmptyThreadInv == ThreadInv(EmptyThread)
<1>1. DOMAIN NoEntries = {}
  BY DEF NoEntries
<1> QED
  BY <1>1, FS_EmptySet DEF ThreadInv, EmptyThread, ThreadShape, ThreadLatestIsNewest,
     ThreadChainIntact, ThreadIdsOrdered, ThreadSessionsReferenced,
     ThreadSessionsInherited, NoID, Live

-----------------------------------------------------------------------------
(* commitStepLocked *)

\* Appending at the latest pointer keeps the chain and the pointer.
LEMMA AppendKeepsChain ==
  ASSUME NEW th, NEW snap, NEW arts,
         ThreadShape(th), ThreadLatestIsNewest(th), ThreadChainIntact(th),
         ThreadIdsOrdered(th), CanAppend(th, snap),
         snap.id \in Nat \ {NoID}, snap.parent < snap.id
  PROVE  /\ ThreadShape(Appended(th, snap, arts))
         /\ ThreadLatestIsNewest(Appended(th, snap, arts))
         /\ ThreadChainIntact(Appended(th, snap, arts))
         /\ ThreadIdsOrdered(Appended(th, snap, arts))
<1> DEFINE new == Appended(th, snap, arts)
           H == th.history
           H2 == new.history
<1>1. /\ new.latestID = snap.id
      /\ new.revision = th.revision + 1
      /\ DOMAIN H2 = DOMAIN H \cup {snap.id}
      /\ H2[snap.id] = [parent |-> snap.parent, revision |-> th.revision + 1,
                        body |-> snap.body]
      /\ \A c \in DOMAIN H : H2[c] = H[c]
  BY DEF Appended, CanAppend
<1>2. th.revision \in Nat /\ th.latestID \in Nat
      /\ \A c \in DOMAIN H : /\ c \in Nat \ {NoID}
                             /\ H[c].parent \in Nat
                             /\ H[c].revision \in Nat \ {0}
                             /\ H[c].revision <= th.revision
  BY DEF ThreadShape, ThreadLatestIsNewest, NoID
<1>3. snap.parent = th.latestID /\ snap.id \notin DOMAIN H
  BY DEF CanAppend
<1>4. NoID = 0
  BY DEF NoID
<1>5. ThreadShape(new)
  <2>1. IsFiniteSet(DOMAIN H2)
    BY <1>1, FS_AddElement DEF ThreadShape
  <2> QED
    BY <1>1, <1>2, <1>3, <1>4, <2>1 DEF ThreadShape
<1>6. ThreadLatestIsNewest(new)
  BY <1>1, <1>2, <1>4 DEF ThreadLatestIsNewest
<1>7. ThreadChainIntact(new)
  <2> SUFFICES ASSUME NEW c \in DOMAIN H2, NEW d \in DOMAIN H2
               PROVE  /\ (H2[c].revision = H2[d].revision) => c = d
                      /\ (H2[d].revision < H2[c].revision) =>
                           /\ H2[c].parent \in DOMAIN H2
                           /\ H2[H2[c].parent].revision = H2[c].revision - 1
                      /\ (H2[c].revision = 1) <=> (H2[c].parent = NoID)
    BY DEF ThreadChainIntact
  <2>1. CASE c \in DOMAIN H /\ d \in DOMAIN H
    BY <2>1, <1>1, <1>2, <1>3 DEF ThreadChainIntact
  <2>2. CASE c \in DOMAIN H /\ d = snap.id
    BY <2>2, <1>1, <1>2, <1>3 DEF ThreadChainIntact
  <2>3. CASE c = snap.id
    BY <2>3, <1>1, <1>2, <1>3, <1>4 DEF ThreadLatestIsNewest
  <2> QED
    BY <2>1, <2>2, <2>3, <1>1
<1>8. \A c \in DOMAIN H : c <= th.latestID
  <2> SUFFICES ASSUME NEW c \in DOMAIN H, c # th.latestID PROVE c < th.latestID
    BY <1>2 DEF NoID
  <2>1. th.latestID \in DOMAIN H /\ H[c].revision < H[th.latestID].revision
    BY DEF ThreadLatestIsNewest
  <2> QED
    BY <2>1 DEF ThreadIdsOrdered
<1>9. ThreadIdsOrdered(new)
  <2> SUFFICES ASSUME NEW c \in DOMAIN H2, NEW d \in DOMAIN H2
               PROVE  /\ (H2[c].revision < H2[d].revision) => c < d
                      /\ H2[c].parent < c
    BY DEF ThreadIdsOrdered
  <2>1. CASE c \in DOMAIN H /\ d \in DOMAIN H
    BY <2>1, <1>1 DEF ThreadIdsOrdered
  <2>2. CASE c \in DOMAIN H /\ d = snap.id
    BY <2>2, <1>1, <1>2, <1>3, <1>8 DEF ThreadIdsOrdered, NoID
  <2>3. CASE c = snap.id
    BY <2>3, <1>1, <1>2, <1>3
  <2> QED
    BY <2>1, <2>2, <2>3, <1>1
<1> QED
  BY <1>5, <1>6, <1>7, <1>9

\* Appending inherits the sessions of the parent and adds the step's own.
LEMMA AppendKeepsSessions ==
  ASSUME NEW th, NEW snap, NEW arts,
         ThreadShape(th), ThreadLatestIsNewest(th), ThreadChainIntact(th),
         ThreadIdsOrdered(th), ThreadSessionsReferenced(th),
         ThreadSessionsInherited(th), CanAppend(th, snap),
         snap.id \in Nat \ {NoID}, snap.parent < snap.id
  PROVE  /\ ThreadSessionsReferenced(Appended(th, snap, arts))
         /\ ThreadSessionsInherited(Appended(th, snap, arts))
<1> DEFINE new == Appended(th, snap, arts)
           own == {SessionID(snap.id, a) : a \in DOMAIN arts}
           NR == NewRefs(th, snap, arts)
<1>1. /\ DOMAIN new.history = DOMAIN th.history \cup {snap.id}
      /\ DOMAIN new.refs = DOMAIN th.refs \cup {snap.id}
      /\ new.refs[snap.id] = NR
      /\ \A c \in DOMAIN th.history : /\ new.history[c] = th.history[c]
                                      /\ new.refs[c] = th.refs[c]
      /\ new.history[snap.id].parent = snap.parent
      /\ DOMAIN new.sessions = DOMAIN th.sessions \cup own
  BY DEF Appended, CanAppend, ThreadSessionsReferenced, NewSessions
<1>2. snap.parent = th.latestID /\ snap.id \notin DOMAIN th.history
      /\ DOMAIN th.refs = DOMAIN th.history
  BY DEF CanAppend, ThreadSessionsReferenced
<1>3. DOMAIN NoEntries = {}
  BY DEF NoEntries
<1>4. ASSUME snap.parent \in DOMAIN th.refs
      PROVE  /\ DOMAIN NR = DOMAIN arts \cup DOMAIN th.refs[snap.parent]
             /\ \A a \in DOMAIN NR :
                  NR[a] = IF a \in DOMAIN arts THEN SessionID(snap.id, a)
                                               ELSE th.refs[snap.parent][a]
  BY <1>4 DEF NewRefs
<1>5. ASSUME snap.parent \notin DOMAIN th.refs
      PROVE  /\ DOMAIN NR = DOMAIN arts
             /\ \A a \in DOMAIN NR : NR[a] = SessionID(snap.id, a)
  BY <1>5, <1>3 DEF NewRefs
<1>6. Live(new, DOMAIN new.refs) = Live(th, DOMAIN th.refs) \cup Range(NR)
  <2>1. \A s : s \in Live(new, DOMAIN new.refs)
                  <=> \E c \in DOMAIN new.refs : s \in Range(new.refs[c])
    BY DEF Live
  <2>2. \A s : s \in Live(th, DOMAIN th.refs)
                  <=> \E c \in DOMAIN th.refs : s \in Range(th.refs[c])
    BY DEF Live
  <2>3. \A c \in DOMAIN th.refs : new.refs[c] = th.refs[c]
    BY <1>1, <1>2
  <2>4. \A s : (\E c \in DOMAIN new.refs : s \in Range(new.refs[c]))
                  <=> \/ \E c \in DOMAIN th.refs : s \in Range(th.refs[c])
                      \/ s \in Range(NR)
    BY <2>3, <1>1 DEF Range
  <2> QED
    BY <2>1, <2>2, <2>4
<1>7. Live(th, DOMAIN th.refs) \cup Range(NR) = Live(th, DOMAIN th.refs) \cup own
  <2>1. CASE snap.parent \in DOMAIN th.refs
    <3>1. Range(th.refs[snap.parent]) \subseteq Live(th, DOMAIN th.refs)
      BY <2>1 DEF Live
    <3>2. Range(NR) \subseteq own \cup Range(th.refs[snap.parent])
      BY <2>1, <1>4 DEF Range
    <3>3. own \subseteq Range(NR)
      BY <2>1, <1>4 DEF Range
    <3> QED
      BY <3>1, <3>2, <3>3
  <2>2. CASE snap.parent \notin DOMAIN th.refs
    <3>1. Range(NR) = own
      BY <2>2, <1>5 DEF Range
    <3> QED
      BY <3>1
  <2> QED
    BY <2>1, <2>2
<1>8. ThreadSessionsReferenced(new)
  BY <1>1, <1>2, <1>6, <1>7 DEF ThreadSessionsReferenced
<1>9. ThreadSessionsInherited(new)
  <2> SUFFICES ASSUME NEW c \in DOMAIN new.history,
                      new.history[c].parent \in DOMAIN new.history
               PROVE  /\ DOMAIN new.refs[new.history[c].parent] \subseteq DOMAIN new.refs[c]
                      /\ \A a \in DOMAIN new.refs[c] :
                           \/ new.refs[c][a] = SessionID(c, a)
                           \/ /\ a \in DOMAIN new.refs[new.history[c].parent]
                              /\ new.refs[c][a] = new.refs[new.history[c].parent][a]
    BY DEF ThreadSessionsInherited
  <2>1. CASE c = snap.id
    <3>1. snap.parent \in DOMAIN th.history
      BY <2>1, <1>1, <1>2 DEF ThreadLatestIsNewest, NoID
    <3> QED
      BY <3>1, <2>1, <1>1, <1>2, <1>4
  <2>2. CASE c \in DOMAIN th.history
    <3>1. th.history[c].parent \in DOMAIN th.history
      \* The parent of a kept checkpoint is an older one, never the new one.
      <4>1. c \in Nat \ {NoID} /\ th.history[c].parent \in Nat
        BY <2>2 DEF ThreadShape
      <4>2. th.history[c].parent < c
        BY <2>2 DEF ThreadIdsOrdered
      <4>3. c = th.latestID \/ c < th.latestID
        BY <2>2 DEF ThreadIdsOrdered, ThreadLatestIsNewest
      <4>4. th.history[c].parent # snap.id
        BY <4>1, <4>2, <4>3, <1>2 DEF NoID, ThreadShape
      <4> QED
        BY <4>4, <2>2, <1>1
    <3> QED
      BY <3>1, <2>2, <1>1 DEF ThreadSessionsInherited
  <2> QED
    BY <2>1, <2>2, <1>1
<1> QED
  BY <1>8, <1>9

-----------------------------------------------------------------------------
(* Prune *)

\* Prune keeps the latest checkpoint and, with a checkpoint, every newer one;
\* what it reads back as the latest is the one that was the latest before.
LEMMA NewestIsTop ==
  ASSUME NEW th, ThreadShape(th), ThreadLatestIsNewest(th), ThreadChainIntact(th),
         th.latestID # NoID, NEW k \in Nat \ {0}
  PROVE  /\ Newest(th, k) \subseteq DOMAIN th.history
         /\ th.latestID \in Newest(th, k)
         /\ \A c \in Newest(th, k), d \in DOMAIN th.history :
               th.history[d].revision > th.history[c].revision => d \in Newest(th, k)
         /\ Pruned(th, k).latestID = th.latestID
         /\ Pruned(th, k).revision = th.revision
<1> DEFINE H == th.history
           keep == Newest(th, k)
           Above(c) == {d \in DOMAIN H : H[d].revision > H[c].revision}
<1>1. \A c \in DOMAIN H : H[c].revision \in Nat /\ H[c].revision <= th.revision
  BY DEF ThreadShape, ThreadLatestIsNewest
<1>2. th.latestID \in DOMAIN H /\ H[th.latestID].revision = th.revision
      /\ th.revision \in Nat
  BY DEF ThreadLatestIsNewest, ThreadShape
<1>3. keep = {c \in DOMAIN H : Cardinality(Above(c)) < k}
  BY DEF Newest
<1>4. \A c \in DOMAIN H : IsFiniteSet(Above(c)) /\ Cardinality(Above(c)) \in Nat
  BY FS_Subset, FS_CardinalityType DEF ThreadShape
<1>5. th.latestID \in keep
  <2>1. Above(th.latestID) = {}
    BY <1>1, <1>2
  <2>2. Cardinality(Above(th.latestID)) < k
    BY <2>1, FS_EmptySet
  <2> HIDE DEF Above, keep
  <2> QED
    BY <2>2, <1>2, <1>3
<1>6. ASSUME NEW c \in keep, NEW d \in DOMAIN H, H[d].revision > H[c].revision
      PROVE  d \in keep
  <2>1. c \in DOMAIN H /\ Cardinality(Above(c)) < k
    BY <1>3
  <2>2. Above(d) \subseteq Above(c)
    BY <2>1, <1>1, <1>6
  <2> HIDE DEF Above
  <2>3. Cardinality(Above(d)) <= Cardinality(Above(c))
    BY <2>1, <2>2, <1>4, FS_Subset
  <2> QED
    BY <2>1, <2>3, <1>3, <1>4
<1>7. keep \subseteq DOMAIN H
  BY <1>3
<1>8. Pruned(th, k).latestID = th.latestID
  <2> HIDE DEF keep
  <2> DEFINE top == CHOOSE c \in keep : \A d \in keep : H[d].revision <= H[c].revision
  <2>1. \A d \in keep : H[d].revision <= H[th.latestID].revision
    BY <1>1, <1>2, <1>7
  <2>2. top \in keep /\ \A d \in keep : H[d].revision <= H[top].revision
    BY <2>1, <1>5
  <2> HIDE DEF top
  <2>3. H[top].revision = H[th.latestID].revision
    BY <2>1, <2>2, <1>1, <1>5, <1>7
  <2>4. top = th.latestID
    BY <2>2, <2>3, <1>2, <1>7 DEF ThreadChainIntact
  <2> QED
    BY <2>4 DEF Pruned, top, keep
<1>9. Pruned(th, k).revision = th.revision
  BY <1>8, <1>2 DEF Pruned
<1> QED
  BY <1>5, <1>6, <1>7, <1>8, <1>9

\* Prune keeps the invariant of a thread.
LEMMA PruneKeepsInv ==
  ASSUME NEW th, ThreadInv(th), NEW k \in Nat \ {0}, th.latestID # NoID
  PROVE  ThreadInv(Pruned(th, k))
<1> DEFINE new == Pruned(th, k)
           keep == Newest(th, k)
<1> USE DEF ThreadInv
<1>1. /\ keep \subseteq DOMAIN th.history
      /\ th.latestID \in keep
      /\ \A c \in keep, d \in DOMAIN th.history :
            th.history[d].revision > th.history[c].revision => d \in keep
      /\ new.latestID = th.latestID
      /\ new.revision = th.revision
  BY NewestIsTop
<1>2. /\ new.history = [c \in keep |-> th.history[c]]
      /\ new.refs = [c \in keep |-> th.refs[c]]
      /\ DOMAIN new.sessions = DOMAIN th.sessions \cap Live(th, keep)
  BY DEF Pruned, Restrict
<1> HIDE DEF new, keep
<1>3. ThreadShape(new)
  BY <1>1, <1>2, FS_Subset DEF ThreadShape
<1>4. ThreadLatestIsNewest(new)
  BY <1>1, <1>2 DEF ThreadLatestIsNewest
<1>5. \A c \in DOMAIN th.history : th.history[c].revision \in Nat
  BY DEF ThreadShape
<1>6. ThreadChainIntact(new)
  <2> SUFFICES ASSUME NEW c \in keep, NEW d \in keep
               PROVE  /\ (th.history[c].revision = th.history[d].revision) => c = d
                      /\ (th.history[d].revision < th.history[c].revision) =>
                           /\ th.history[c].parent \in keep
                           /\ th.history[th.history[c].parent].revision
                                = th.history[c].revision - 1
                      /\ (th.history[c].revision = 1) <=> (th.history[c].parent = NoID)
    BY <1>2 DEF ThreadChainIntact
  <2>1. ASSUME th.history[d].revision < th.history[c].revision
        PROVE  th.history[c].parent \in keep
    <3> DEFINE p == th.history[c].parent
    <3>1. p \in DOMAIN th.history
          /\ th.history[p].revision = th.history[c].revision - 1
      BY <2>1, <1>1 DEF ThreadChainIntact
    <3>2. p = d \/ th.history[p].revision > th.history[d].revision
      BY <3>1, <2>1, <1>1, <1>5 DEF ThreadChainIntact
    <3> QED
      BY <3>1, <3>2, <1>1
  <2> QED
    BY <2>1, <1>1 DEF ThreadChainIntact
<1>7. ThreadIdsOrdered(new)
  BY <1>1, <1>2 DEF ThreadIdsOrdered
<1>8. ThreadSessionsReferenced(new)
  <2>1. Live(th, keep) \subseteq Live(th, DOMAIN th.refs)
    BY <1>1 DEF Live, ThreadSessionsReferenced
  <2>2. Live(new, keep) = Live(th, keep)
    BY <1>2 DEF Live
  <2> QED
    BY <2>1, <2>2, <1>1, <1>2 DEF ThreadSessionsReferenced
<1>9. ThreadSessionsInherited(new)
  BY <1>1, <1>2 DEF ThreadSessionsInherited
<1> QED
  BY <1>3, <1>4, <1>6, <1>7, <1>8, <1>9 DEF new

-----------------------------------------------------------------------------
(* The past *)

\* Sessions are those of checkpoints up to the latest one.
ThreadSessionsOld(th) ==
    \A s \in DOMAIN th.sessions : s[1] \in Nat \ {NoID} /\ s[1] <= th.latestID

\* No kept checkpoint has a larger id than the latest one.
LEMMA HistoryUpToLatest ==
  ASSUME NEW th, ThreadInv(th)
  PROVE  \A c \in DOMAIN th.history : c <= th.latestID
<1> SUFFICES ASSUME NEW c \in DOMAIN th.history, c # th.latestID
             PROVE  c < th.latestID
  BY DEF ThreadInv, ThreadShape, NoID
<1>1. th.latestID \in DOMAIN th.history
      /\ th.history[c].revision < th.history[th.latestID].revision
  BY DEF ThreadInv, ThreadLatestIsNewest
<1> QED
  BY <1>1 DEF ThreadInv, ThreadIdsOrdered

\* An append changes nothing of the checkpoints that were there, nor what their
\* sessions are.
LEMMA AppendKeepsCheckpoints ==
  ASSUME NEW th, NEW snap, NEW arts, ThreadInv(th), ThreadSessionsOld(th),
         CanAppend(th, snap), snap.id \in Nat \ {NoID}, snap.parent < snap.id,
         NEW c \in DOMAIN th.history
  PROVE  /\ Appended(th, snap, arts).history[c] = th.history[c]
         /\ Appended(th, snap, arts).refs[c] = th.refs[c]
         /\ \A a \in DOMAIN th.refs[c] :
              AgentSession(Appended(th, snap, arts), c, a) = AgentSession(th, c, a)
<1> DEFINE new == Appended(th, snap, arts)
<1>1. c # snap.id /\ c \in DOMAIN th.refs
  BY DEF CanAppend, ThreadInv, ThreadSessionsReferenced
<1>2. new.history[c] = th.history[c] /\ new.refs[c] = th.refs[c]
  BY <1>1 DEF Appended
<1>3. ASSUME NEW a \in DOMAIN th.refs[c]
      PROVE  AgentSession(new, c, a) = AgentSession(th, c, a)
  <2> DEFINE s == th.refs[c][a]
  <2>1. s \in DOMAIN th.sessions
    BY <1>1 DEF ThreadInv, ThreadSessionsReferenced, Live, Range
  <2>2. s[1] # snap.id
    BY <2>1
       DEF ThreadSessionsOld, CanAppend, ThreadInv, ThreadShape, NoID
  <2> HIDE DEF s
  <2>3. s \notin {SessionID(snap.id, b) : b \in DOMAIN arts}
    BY <2>2 DEF SessionID
  <2>4. new.sessions[s] = th.sessions[s]
    BY <2>1, <2>3 DEF Appended, NewSessions
  <2> QED
    BY <1>2, <2>4 DEF AgentSession, s
<1> QED
  BY <1>2, <1>3

\* Prune changes nothing of the checkpoints it keeps.
LEMMA PruneKeepsCheckpoints ==
  ASSUME NEW th, NEW k, ThreadInv(th), NEW c \in Newest(th, k)
  PROVE  /\ Pruned(th, k).history[c] = th.history[c]
         /\ Pruned(th, k).refs[c] = th.refs[c]
         /\ \A a \in DOMAIN th.refs[c] :
              AgentSession(Pruned(th, k), c, a) = AgentSession(th, c, a)
<1> DEFINE new == Pruned(th, k)
           keep == Newest(th, k)
<1>1. /\ new.history[c] = th.history[c]
      /\ new.refs[c] = th.refs[c]
      /\ new.sessions = [s \in DOMAIN th.sessions \cap Live(th, keep) |-> th.sessions[s]]
  BY DEF Pruned, Restrict
<1>2. c \in DOMAIN th.refs
  BY DEF Newest, ThreadInv, ThreadSessionsReferenced
<1>3. \A a \in DOMAIN th.refs[c] :
        th.refs[c][a] \in DOMAIN th.sessions \cap Live(th, keep)
  BY <1>2 DEF ThreadInv, ThreadSessionsReferenced, Live, Range
<1> QED
  BY <1>1, <1>3 DEF AgentSession

\* What a checkpoint refers to is there.
LEMMA SessionsAreThere ==
  ASSUME NEW th, ThreadInv(th), NEW c, NEW a
  PROVE  HasSession(th, c, a) <=> c \in DOMAIN th.history /\ a \in DOMAIN th.refs[c]
BY DEF HasSession, ThreadInv, ThreadSessionsReferenced, Live, Range

\* The sessions of a new checkpoint: those of its step, and for the other
\* agents those of its parent.
LEMMA AppendSession ==
  ASSUME NEW th, NEW snap, NEW arts, ThreadInv(th), ThreadSessionsOld(th),
         CanAppend(th, snap), snap.id \in Nat \ {NoID}, snap.parent < snap.id, NEW a
  PROVE  LET new == Appended(th, snap, arts)  c == snap.id  p == snap.parent IN
         /\ a \in DOMAIN arts =>
              HasSession(new, c, a) /\ AgentSession(new, c, a) = arts[a]
         /\ a \notin DOMAIN arts =>
              /\ HasSession(new, c, a) <=> HasSession(th, p, a)
              /\ HasSession(th, p, a) => AgentSession(new, c, a) = AgentSession(th, p, a)
<1> DEFINE new == Appended(th, snap, arts)
           c == snap.id
           p == snap.parent
           ids == {SessionID(c, b) : b \in DOMAIN arts}
<1>1. /\ c \in DOMAIN new.refs /\ new.refs[c] = NewRefs(th, snap, arts)
      /\ DOMAIN new.sessions = DOMAIN th.sessions \cup ids
      /\ \A s \in DOMAIN new.sessions :
           new.sessions[s] = IF s \in ids THEN arts[s[2]] ELSE th.sessions[s]
  BY DEF Appended, NewSessions
<1>2. ASSUME a \in DOMAIN arts
      PROVE  HasSession(new, c, a) /\ AgentSession(new, c, a) = arts[a]
  <2>1. a \in DOMAIN new.refs[c] /\ new.refs[c][a] = SessionID(c, a)
    BY <1>1, <1>2 DEF NewRefs
  <2>2. SessionID(c, a) \in ids /\ SessionID(c, a)[2] = a
    BY <1>2 DEF SessionID
  <2> HIDE DEF new, c, ids
  <2> QED
    BY <1>1, <2>1, <2>2 DEF HasSession, AgentSession
<1>3. ASSUME a \notin DOMAIN arts
      PROVE  /\ HasSession(new, c, a) <=> HasSession(th, p, a)
             /\ HasSession(th, p, a) => AgentSession(new, c, a) = AgentSession(th, p, a)
  <2>1. CASE p \notin DOMAIN th.refs
    <3>1. a \notin DOMAIN new.refs[c]
      BY <1>1, <1>3, <2>1 DEF NewRefs, NoEntries
    <3> QED
      BY <2>1, <3>1 DEF HasSession
  <2>2. CASE p \in DOMAIN th.refs
    <3>1. a \in DOMAIN new.refs[c] <=> a \in DOMAIN th.refs[p]
      BY <1>1, <1>3, <2>2 DEF NewRefs
    <3>2. ASSUME a \in DOMAIN th.refs[p]
          PROVE  /\ new.refs[c][a] = th.refs[p][a]
                 /\ th.refs[p][a] \in DOMAIN th.sessions /\ th.refs[p][a] \notin ids
      <4>1. new.refs[c][a] = th.refs[p][a]
        BY <1>1, <1>3, <2>2, <3>2 DEF NewRefs
      <4> DEFINE s == th.refs[p][a]
      <4>2. s \in DOMAIN th.sessions
        BY <2>2, <3>2 DEF ThreadInv, ThreadSessionsReferenced, Live, Range
      <4>3. s[1] # c
        BY <4>2 DEF ThreadSessionsOld, CanAppend, ThreadInv, ThreadShape, NoID
      <4> HIDE DEF s
      <4>4. s \notin ids
        BY <4>3 DEF SessionID
      <4> QED
        BY <4>1, <4>2, <4>4 DEF s
    <3> HIDE DEF new, c, p, ids
    <3> QED
      BY <1>1, <2>2, <3>1, <3>2 DEF HasSession, AgentSession
  <2> QED
    BY <2>1, <2>2
<1> QED
  BY <1>2, <1>3

\* Sessions stay those of checkpoints up to the latest one.
LEMMA AppendKeepsOld ==
  ASSUME NEW th, NEW snap, NEW arts, ThreadInv(th), ThreadSessionsOld(th),
         CanAppend(th, snap), snap.id \in Nat \ {NoID}, snap.parent < snap.id
  PROVE  ThreadSessionsOld(Appended(th, snap, arts))
<1> DEFINE new == Appended(th, snap, arts)
<1>1. /\ new.latestID = snap.id
      /\ DOMAIN new.sessions = DOMAIN th.sessions \cup {SessionID(snap.id, b) : b \in DOMAIN arts}
  BY DEF Appended, NewSessions
<1>2. th.latestID \in Nat /\ th.latestID < snap.id
  BY DEF ThreadInv, ThreadShape, CanAppend
<1>3. \A b : SessionID(snap.id, b)[1] = snap.id
  BY DEF SessionID
<1> QED
  BY <1>1, <1>2, <1>3 DEF ThreadSessionsOld, NoID
=============================================================================
