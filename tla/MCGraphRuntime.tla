---------------------------- MODULE MCGraphRuntime ----------------------------
(***************************************************************************)
(* GraphRuntime for TLC: "plan" does some work, "ask" is gated and leads   *)
(* either to the end or back to "plan".  The agent "coder" takes a turn in *)
(* "plan" only, so "ask" must carry its session along; "writer" takes one  *)
(* in both, and in "ask" it prepares what a human is asked about.  A run   *)
(* may leave one of them out.                                              *)
(***************************************************************************)
EXTENDS GraphRuntime, TLC

MCNodes == {"plan", "ask"}
MCSucc == [n \in MCNodes |-> IF n = "plan" THEN {"ask"} ELSE {"END", "plan"}]
MCAgentsOf == [n \in MCNodes |->
    Agents \cap IF n = "plan" THEN {"coder", "writer"} ELSE {"writer"}]
MCBeforeGate == [n \in MCNodes |-> Agents \cap IF n = "ask" THEN {"writer"} ELSE {}]

MCFenced == [t \in Threads |-> "fenced"]
MCDurable == [t \in Threads |-> "durable"]

MCOneTick == {1}
MCTwoTicks == {2}

Approve == [NoCommand EXCEPT !.resume = TRUE]
ApproveSeen == [Approve EXCEPT !.expect = TRUE]
ApprovePatch == [Approve EXCEPT !.update = TRUE]

MCCommands == {NoCommand, ApproveSeen}
MCPatchCommands == {NoCommand, ApprovePatch}

Perms == Permutations(Runs)
=============================================================================
