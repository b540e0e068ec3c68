----------------------------- MODULE MCSupervisor -----------------------------
(***************************************************************************)
(* Supervisor for TLC: a worker that may be called freely and one that     *)
(* needs an approval, one agent each.                                      *)
(***************************************************************************)
EXTENDS Supervisor, TLC

MCWorkers == {"coder", "deployer"}
MCNodes == MCWorkers \cup {"supervisor"}
MCSucc == [n \in MCNodes |-> IF n = "supervisor" THEN MCWorkers \cup {"END"}
                                                 ELSE {"supervisor"}]
MCAgentsOf == [n \in MCNodes |-> {n} \cap MCWorkers]
MCBeforeGate == [n \in MCNodes |-> {}]
MCOneTick == {1}

\* One thread for each kind of store.
MCEveryStore == {"fenced", "durable", "memory", "sqlite"}
MCStoreOf == [t \in Threads |-> t]

Perms == Permutations(Runs)
=============================================================================
