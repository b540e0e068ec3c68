------------------------ MODULE ExecutionLeaseProofs ------------------------
(***************************************************************************)
(* What the execution lease promises, for any sets of threads, runs and    *)
(* lifetimes.  The type invariant is inductive; the three action           *)
(* properties follow from it and from the shape of each method.            *)
(***************************************************************************)
EXTENDS ExecutionLease, TLAPS

\* One method call keeps leases well formed.
LEMMA LeaseTypeStep ==
  ASSUME LeaseTypeOK, [LeaseNext]_leases
  PROVE  LeaseTypeOK'
<1> USE LeaseAssumption DEF LeaseTypeOK, Lease
<1>1. ASSUME NEW t \in Threads, NEW r \in Runs, NEW ttl \in TTLs,
             Acquire(t, r, ttl)
      PROVE  LeaseTypeOK'
  BY <1>1 DEF Acquire, ExtendLease, TakeLease, Active
<1>2. ASSUME NEW g \in Grants, NEW ttl \in TTLs, Renew(g, ttl)
      PROVE  LeaseTypeOK'
  BY <1>2 DEF Renew, Holds, Grants
<1>3. ASSUME NEW g \in Grants, Release(g) PROVE LeaseTypeOK'
  BY <1>3 DEF Release, Grants
<1>4. CASE Tick
  BY <1>4 DEF Tick
<1>5. CASE UNCHANGED leases
  BY <1>5
<1> QED
  BY <1>1, <1>2, <1>3, <1>4, <1>5 DEF LeaseNext

\* MemoryLease only ever holds well-formed leases (MemoryLease.Acquire,
\* Renew, Release).
THEOREM LeaseTypeCorrect == LeaseSpec => []LeaseTypeOK
<1>1. LeaseInit => LeaseTypeOK
  BY LeaseAssumption DEF LeaseInit, LeaseTypeOK, Lease
<1>2. LeaseTypeOK /\ [LeaseNext]_leases => LeaseTypeOK'
  BY LeaseTypeStep
<1> QED
  BY <1>1, <1>2, PTL DEF LeaseSpec

\* One method call keeps every lost grant lost.
LEMMA LostStaysLost ==
  ASSUME LeaseTypeOK, [LeaseNext]_leases, NEW g \in Grants,
         g.epoch <= leases[g.thread].epoch, ~Holds(g)
  PROVE  ~Holds(g)'
<1> USE LeaseAssumption DEF LeaseTypeOK, Lease, Grants, Holds
<1>1. ASSUME NEW t \in Threads, NEW r \in Runs, NEW ttl \in TTLs,
             Acquire(t, r, ttl)
      PROVE  ~Holds(g)'
  BY <1>1 DEF Acquire, ExtendLease, TakeLease, Active
<1>2. ASSUME NEW h \in Grants, NEW ttl \in TTLs, Renew(h, ttl)
      PROVE  ~Holds(g)'
  BY <1>2 DEF Renew
<1>3. ASSUME NEW h \in Grants, Release(h) PROVE ~Holds(g)'
  BY <1>3 DEF Release
<1>4. CASE Tick
  BY <1>4 DEF Tick
<1>5. CASE UNCHANGED leases
  BY <1>5
<1> QED
  BY <1>1, <1>2, <1>3, <1>4, <1>5 DEF LeaseNext

\* A grant that was lost is never valid again.
THEOREM LostGrantsStayLost == LeaseSpec => LostIsForever
<1>1. LeaseTypeOK /\ [LeaseNext]_leases
        => [\A g \in Grants :
              (g.epoch <= leases[g.thread].epoch /\ ~Holds(g)) => ~Holds(g)']_leases
  BY LostStaysLost
<1> QED
  BY <1>1, LeaseTypeCorrect, PTL DEF LeaseSpec, LostIsForever

\* What one method call does to the lease of a thread.
EpochKept(t) ==
    \/ leases'[t].epoch > leases[t].epoch
    \/ /\ leases'[t].epoch = leases[t].epoch
       /\ leases'[t].runID \in {leases[t].runID, NoRun}

OwnerKept(t) ==
    (Active(t) /\ Active(t)') =>
        /\ leases'[t].runID = leases[t].runID
        /\ leases'[t].epoch = leases[t].epoch

\* One method call changes the owner only with the epoch, and not while the
\* lease is active.
LEMMA EpochStep ==
  ASSUME LeaseTypeOK, [LeaseNext]_leases, NEW t \in Threads
  PROVE  EpochKept(t) /\ OwnerKept(t)
<1> USE LeaseAssumption DEF LeaseTypeOK, Lease, Active, EpochKept, OwnerKept
<1>1. ASSUME NEW u \in Threads, NEW r \in Runs, NEW ttl \in TTLs,
             Acquire(u, r, ttl)
      PROVE  EpochKept(t) /\ OwnerKept(t)
  BY <1>1 DEF Acquire, ExtendLease, TakeLease
<1>2. ASSUME NEW h \in Grants, NEW ttl \in TTLs, Renew(h, ttl)
      PROVE  EpochKept(t) /\ OwnerKept(t)
  BY <1>2 DEF Renew, Grants
<1>3. ASSUME NEW h \in Grants, Release(h)
      PROVE  EpochKept(t) /\ OwnerKept(t)
  BY <1>3 DEF Release, Grants
<1>4. CASE Tick
  BY <1>4 DEF Tick
<1>5. CASE UNCHANGED leases
  BY <1>5
<1> QED
  BY <1>1, <1>2, <1>3, <1>4, <1>5 DEF LeaseNext

\* An epoch has one owner for ever, and epochs of a thread never go back.
THEOREM EpochsIdentifyOwners == LeaseSpec => EpochHasOneOwner
<1>1. LeaseTypeOK /\ [LeaseNext]_leases
        => [\A t \in Threads :
              \/ leases'[t].epoch > leases[t].epoch
              \/ /\ leases'[t].epoch = leases[t].epoch
                 /\ leases'[t].runID \in {leases[t].runID, NoRun}]_leases
  BY EpochStep DEF EpochKept
<1> QED
  BY <1>1, LeaseTypeCorrect, PTL DEF LeaseSpec, EpochHasOneOwner

\* No run takes the lease of a run whose lease is still active.
THEOREM ActiveLeaseIsNotStolen == LeaseSpec => NoSteal
<1>1. LeaseTypeOK /\ [LeaseNext]_leases
        => [\A t \in Threads :
              (Active(t) /\ Active(t)') =>
                 /\ leases'[t].runID = leases[t].runID
                 /\ leases'[t].epoch = leases[t].epoch]_leases
  BY EpochStep DEF OwnerKept
<1> QED
  BY <1>1, LeaseTypeCorrect, PTL DEF LeaseSpec, NoSteal
=============================================================================
