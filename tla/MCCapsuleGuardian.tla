-------------------------- MODULE MCCapsuleGuardian --------------------------
(* One guardian against every stream an owner may write to it: connections *)
(* are independent of each other, so one is enough.                        *)
EXTENDS CapsuleGuardian

(* Shards of two blocks share a file name.                                 *)
Names == [id \in ShardId |-> IF id[2] = 1 THEN "d3f0" ELSE "41a7"]
=============================================================================
