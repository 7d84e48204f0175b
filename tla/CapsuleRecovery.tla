--------------------------- MODULE CapsuleRecovery ---------------------------
(***************************************************************************)
(* How a capsule is put together again from what some of its guardians     *)
(* were sent: the round trip the repository's tests play, since the        *)
(* program has no operation for it yet.                                    *)
(***************************************************************************)
EXTENDS CapsuleOwner, ErasureCode, SequencesExt

ASSUME ShardNumAssumption == ShardsPerBlock = totalShards

(* What each guardian has in hand: the shards and the share whose data     *)
(* came with them.                                                         *)
Captured(p, kind) == {sent[p][i] : i \in {j \in 1 .. Len(sent[p]) :
                        sent[p][j].kind = kind /\ sent[p][j].whole}}

KeyShares(Q) == UNION {Captured(p, "share") : p \in Q}

(* Any threshold different shares give the master key back.                *)
Combines(Q) == Cardinality({s.index : s \in KeyShares(Q)}) >= Threshold(payload)

ShardsOf(Q, g) == {s \in UNION {Captured(p, "shard") : p \in Q} : s.group = g}

(* Block g as an erasure coded shard of it carries it.                     *)
AsShard(s) == <<s.index - 1, <<s.group, s.size>>>>

(* The slots handed to Reconstruct: the shards collected, then nil.        *)
Slots(Q, g) == LET found == SetToSeq({AsShard(s) : s \in ShardsOf(Q, g)})
               IN  [i \in 1 .. totalShards |-> IF i <= Len(found) THEN found[i] ELSE Missing]

RecoveredBlock(Q, g) == Reconstruct(Slots(Q, g))

(* How much comes out, block after block of the manifest.                  *)
RecoveredSize(Q) ==
  LET Add(n, g) == n + (IF RecoveredBlock(Q, g) = Failed THEN 0 ELSE RecoveredBlock(Q, g)[2])
  IN  FoldLeft(Add, 0, manifest)

Suffices(Q) == /\ Combines(Q)
               /\ \A j \in 1 .. Len(manifest) :
                    Cardinality(ShardsOf(Q, manifest[j])) >= dataShardNum

-----------------------------------------------------------------------------
(* The guardians reached by a call that returned nil have, together,       *)
(* enough shards of every block and, if they are as many as the threshold, *)
(* enough shares of the key.                                               *)
ActiveSuffice ==
  pc = "ok" =>
    /\ \A j \in 1 .. Len(manifest) : Cardinality(ShardsOf(Active, manifest[j])) >= dataShardNum
    /\ Cardinality(Active) >= Threshold(payload) => Combines(Active)

(* "Original data is recovered successfully": once a call on a capsule     *)
(* below one block returned nil, any guardians with enough shares and      *)
(* shards between them get back as many bytes as were archived, and all of *)
(* them together have enough.                                              *)
ArchiveIsRecovered ==
  /\ ActiveSuffice
  /\ pc = "ok" => \A Q \in SUBSET Active : Suffices(Q) => RecoveredSize(Q) = written

(* Fewer guardians than the threshold never have enough shares between     *)
(* them, wherever the call is and although shares are handed out along a   *)
(* slice that was compacted in place.                                      *)
FewerCannotCombine ==
  \A Q \in SUBSET Peer : Combines(Q) => Cardinality(Q) >= Threshold(payload)

(* "Block IDs start at 1, not 0 (important!)": recovery derives the key of *)
(* a block from its place in the manifest, so that place must be the       *)
(* number the block was encrypted under, through blocks that fail and are  *)
(* tried again.                                                            *)
BlockKeyIsItsPlace == pc = "block" => blockID = Len(manifest) + 1
=============================================================================
