-------------------------- MODULE MCCapsuleTransfer --------------------------
(* A letter to three guardians.                                            *)
EXTENDS CapsuleTransfer

Letters == {[n |-> 3, unreached |-> {}, letter |-> "text", files |-> "none", threshold |-> 0]}

(* The first two shards of a block share a file name.                      *)
Names == [id \in ShardId |-> IF id[2] <= 2 THEN "d3f0" ELSE "41a7"]
=============================================================================
