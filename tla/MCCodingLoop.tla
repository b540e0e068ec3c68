----------------------------- MODULE MCCodingLoop -----------------------------
(* CodingLoop for TLC. *)
EXTENDS CodingLoop, TLC

MCNodes == {"implementer", "verifier", "updater"}
MCSucc == [n \in MCNodes |-> CASE n = "implementer" -> {"verifier"}
                               [] n = "verifier"    -> {"updater", "END"}
                               [] n = "updater"     -> {"implementer"}]
MCAgentsOf == [n \in MCNodes |-> {}]
MCBeforeGate == [n \in MCNodes |-> {}]
MCStoreOf == [t \in Threads |-> t]
MCResume == {NoCommand}
MCOneTick == {1}

Perms == Permutations(Runs)
=============================================================================
