----------------------------- MODULE ErasureCode -----------------------------
(***************************************************************************)
(* Package dataredundancy: a block becomes a code word of dataShardNum     *)
(* pieces and parityShardNum more, of which any dataShardNum determine it  *)
(* (the Reed-Solomon library's promise).  A shard is the byte that numbers *)
(* it and its piece, which stands here for the whole code word; a missing  *)
(* shard is empty.                                                         *)
(***************************************************************************)
EXTENDS Naturals, Sequences, FiniteSets

CONSTANTS dataShardNum, parityShardNum

totalShards == dataShardNum + parityShardNum

(* The number of a shard is one byte, and the library takes no more.       *)
ASSUME ErasureAssumption == /\ dataShardNum \in Nat \ {0} /\ parityShardNum \in Nat
                            /\ dataShardNum + parityShardNum <= 256

Missing == <<>>
Failed  == <<>>   \* no data was written

Index(shard) == shard[1]
Piece(shard) == shard[2]

(* The length in front of the data lets Reconstruct drop the padding.      *)
Erasure(data) == [i \in 1 .. totalShards |-> <<i - 1, data>>]

Available(shards) == {i \in 1 .. Len(shards) : shards[i] # Missing}
Indices(shards)   == {Index(shards[i]) : i \in Available(shards)}
Pieces(shards)    == {Piece(shards[i]) : i \in Available(shards)}

(* encoder.Reconstruct and Verify: too few places filled, or pieces of     *)
(* different blocks.                                                       *)
Decodable(shards) == /\ Cardinality(Indices(shards)) >= dataShardNum
                     /\ Cardinality(Pieces(shards)) = 1

(* Shards may stand in any order: each is put back where its number says.  *)
(* The count of those available counts one that comes twice twice.         *)
Reconstruct(shards) ==
  IF /\ Len(shards) = totalShards
     /\ Indices(shards) \subseteq 0 .. totalShards - 1
     /\ Cardinality(Available(shards)) >= dataShardNum
     /\ Decodable(shards)
  THEN CHOOSE data \in Pieces(shards) : TRUE
  ELSE Failed
=============================================================================
