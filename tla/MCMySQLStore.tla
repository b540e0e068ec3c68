---------------------------- MODULE MCMySQLStore ----------------------------
(* MySQLStore for TLC. *)
EXTENDS MySQLStore, TLC

MCOneTick == {1}
Perms == Permutations(Clients) \cup Permutations(Runs)
=============================================================================
