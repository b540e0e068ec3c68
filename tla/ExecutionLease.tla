--------------------------- MODULE ExecutionLease ---------------------------
(***************************************************************************)
(* The per-thread execution lease (graph/lease.go) as MemoryLease          *)
(* implements it (checkpoint/lease_memory.go).  A lease names its owner, a *)
(* fencing epoch and an expiry; every method runs under the store's mutex, *)
(* so each is one atomic action.                                           *)
(*                                                                         *)
(* The expiry is kept as the time that REMAINS, expiresAt - now, counted   *)
(* down by Tick and never below zero: every test in the code compares      *)
(* expiresAt with now, and never two expiries with one another.            *)
(*                                                                         *)
(* A grant is a value the client keeps, so Renew and Release are enabled   *)
(* for any grant at any time: the call of a run that lost its lease long   *)
(* ago, or a call made twice, is a step of this specification.             *)
(***************************************************************************)
EXTENDS Integers

CONSTANTS
    Threads,    \* thread ids
    Runs,       \* run ids (prepareRun draws a fresh one per Invoke or Resume)
    NoRun,      \* the empty run id of a lease nobody owns
    TTLs,       \* the lifetimes a caller may ask for, in ticks
    MaxEpoch    \* bound: epochs the model lets a thread use

ASSUME LeaseAssumption ==
    /\ NoRun \notin Runs
    /\ TTLs \subseteq Nat \ {0}
    /\ MaxEpoch \in Nat

VARIABLE leases     \* MemoryLease.leases

Lease == [runID : Runs \cup {NoRun}, epoch : 0..MaxEpoch, remaining : Nat]

Grants == [thread : Threads, runID : Runs, epoch : 1..MaxEpoch]

Grant(t, r, e) == [thread |-> t, runID |-> r, epoch |-> e]

\* The map of MemoryLease is empty at first; an absent entry and a fresh
\* memLeaseState{} answer every method alike.
LeaseInit ==
    leases = [t \in Threads |-> [runID |-> NoRun, epoch |-> 0, remaining |-> 0]]

-----------------------------------------------------------------------------
\* st.runID != "" && st.expiresAt.After(now)
Active(t) == leases[t].runID # NoRun /\ leases[t].remaining > 0

\* validateActiveLocked: the check of Renew and of CommitStepFenced.
Holds(g) ==
    /\ leases[g.thread].runID = g.runID
    /\ leases[g.thread].epoch = g.epoch
    /\ leases[g.thread].remaining > 0

-----------------------------------------------------------------------------
\* Acquire by the run that owns the active lease: keep epoch, extend expiry.
ExtendLease(t, r, ttl) ==
    /\ Active(t)
    /\ leases[t].runID = r
    /\ leases' = [leases EXCEPT ![t].remaining = ttl]

\* Mutant of TakeLease: the epoch++ forgotten.
MutTakeSameEpoch(t, r, ttl) ==
    /\ ~Active(t)
    /\ leases' = [leases EXCEPT ![t].runID = r, ![t].remaining = ttl]

\* Mutant of TakeLease: the test for another owner's active lease forgotten.
MutTakeHeld(t, r, ttl) ==
    /\ leases[t].epoch < MaxEpoch
    /\ leases' = [leases EXCEPT ![t] =
                    [runID |-> r, epoch |-> @.epoch + 1, remaining |-> ttl]]

\* Acquire of a lease that is free or has expired: a new epoch.
TakeLease(t, r, ttl) ==
    /\ ~Active(t)
    /\ leases[t].epoch < MaxEpoch
    /\ leases' = [leases EXCEPT ![t] =
                    [runID |-> r, epoch |-> @.epoch + 1, remaining |-> ttl]]

\* Acquire returns ErrLeaseHeld, and nothing changes.
LeaseHeld(t, r) == Active(t) /\ leases[t].runID # r

Acquire(t, r, ttl) == ExtendLease(t, r, ttl) \/ TakeLease(t, r, ttl)

\* Mutant of Renew: owner and epoch compared, the expiry not.
MutRenewExpired(g, ttl) ==
    /\ leases[g.thread].runID = g.runID
    /\ leases[g.thread].epoch = g.epoch
    /\ leases' = [leases EXCEPT ![g.thread].remaining = ttl]

\* Renew of a grant that is still the lease; of any other it returns
\* ErrLeaseLost and nothing changes.
Renew(g, ttl) ==
    /\ Holds(g)
    /\ leases' = [leases EXCEPT ![g.thread].remaining = ttl]

\* Mutant of Release: the owner cleared, the expiry left.
MutReleaseKeepsExpiry(g) ==
    /\ leases[g.thread].runID = g.runID
    /\ leases[g.thread].epoch = g.epoch
    /\ leases' = [leases EXCEPT ![g.thread].runID = NoRun]

\* Release looks at owner and epoch, never at the expiry, and keeps the epoch.
Release(g) ==
    /\ leases[g.thread].runID = g.runID
    /\ leases[g.thread].epoch = g.epoch
    /\ leases' = [leases EXCEPT ![g.thread].runID = NoRun,
                                ![g.thread].remaining = 0]

\* Time passes for every lease alike.
Tick ==
    /\ \E t \in Threads : leases[t].remaining > 0
    /\ leases' = [t \in Threads |->
                    [leases[t] EXCEPT !.remaining = IF @ > 0 THEN @ - 1 ELSE 0]]

LeaseNext ==
    \/ \E t \in Threads, r \in Runs, ttl \in TTLs : Acquire(t, r, ttl)
    \/ \E g \in Grants, ttl \in TTLs : Renew(g, ttl)
    \/ \E g \in Grants : Release(g)
    \/ Tick

LeaseSpec == LeaseInit /\ [][LeaseNext]_leases

-----------------------------------------------------------------------------
(***************************************************************************)
(* Properties.                                                             *)
(***************************************************************************)

\* Every lease is a memLeaseState; one nobody owns has no time left, so that
\* Release really makes the thread available at once, and one that somebody
\* owns was taken in an epoch.
LeaseTypeOK ==
    /\ leases \in [Threads -> Lease]
    /\ \A t \in Threads : IF leases[t].runID = NoRun THEN leases[t].remaining = 0
                                                    ELSE leases[t].epoch > 0

\* A grant that was once issued and is no longer valid never becomes valid
\* again, whatever Acquire, Renew and Release do later, in whatever order
\* they arrive (MemoryLease.Acquire, Renew, Release).  Without it a run that
\* lost its lease could commit again after the thread was handed on.
LostIsForever ==
    [][\A g \in Grants :
         (g.epoch <= leases[g.thread].epoch /\ ~Holds(g)) => ~Holds(g)']_leases

\* A fencing epoch has one owner for ever: while the epoch of a thread stays
\* the same, its lease is only kept, released or left to expire, and the
\* epoch itself never goes back (Acquire, and the retained epoch of Release).
EpochHasOneOwner ==
    [][\A t \in Threads :
         \/ leases'[t].epoch > leases[t].epoch
         \/ /\ leases'[t].epoch = leases[t].epoch
            /\ leases'[t].runID \in {leases[t].runID, NoRun}]_leases

\* An active lease is never taken from its owner: it must be released or run
\* out before another run, or another epoch, can be active (Acquire's
\* ErrLeaseHeld).
NoSteal ==
    [][\A t \in Threads :
         (Active(t) /\ Active(t)') =>
            /\ leases'[t].runID = leases[t].runID
            /\ leases'[t].epoch = leases[t].epoch]_leases
=============================================================================
