-------------------------- MODULE MCCheckpointStore --------------------------
(* CheckpointStore for TLC. *)
EXTENDS CheckpointStore, TLC

Perms == Permutations(Agents)
=============================================================================
