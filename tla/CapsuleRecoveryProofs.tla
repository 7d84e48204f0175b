------------------------ MODULE CapsuleRecoveryProofs -----------------------
(* That what a call of CreateAndSendCapsule leaves with the guardians      *)
(* brings the capsule back, and the lemmas it rests on about the erasure   *)
(* code and the threshold, for every value of the constants.               *)
EXTENDS CapsuleRecovery, CapsuleOwnerStreamProofs

-----------------------------------------------------------------------------
(***************************************************************************)
(* The erasure code.                                                       *)
(***************************************************************************)

(* A slot holds a shard of the data, as Erasure made it, or nothing.       *)
ShardOf(data, s) == s = Missing \/ \E j \in 1 .. totalShards : s = Erasure(data)[j]

LEMMA TotalIsNat == totalShards \in Nat /\ dataShardNum <= totalShards
BY ErasureAssumption DEF totalShards

(* A shard carries the number of its place and the data.                   *)
LEMMA ShardParts ==
  ASSUME NEW data, NEW j \in 1 .. totalShards
  PROVE  /\ Index(Erasure(data)[j]) = j - 1 /\ Piece(Erasure(data)[j]) = data
         /\ Erasure(data)[j] # Missing
<1>1. Erasure(data)[j] = <<j - 1, data>>  BY DEF Erasure
<1>  QED  BY <1>1 DEF Index, Piece, Missing

(* There are no more different numbers than filled slots.                  *)
LEMMA IndicesBound ==
  ASSUME NEW shards, Len(shards) = totalShards
  PROVE  /\ IsFiniteSet(Available(shards)) /\ IsFiniteSet(Indices(shards))
         /\ Cardinality(Indices(shards)) <= Cardinality(Available(shards))
<1>  DEFINE A == Available(shards)
            f == [i \in A |-> Index(shards[i])]
<1>1. IsFiniteSet(1 .. totalShards)  BY FS_Interval, TotalIsNat
<1>2. IsFiniteSet(A)  BY <1>1, FS_Subset DEF Available
<1>3. f \in Surjection(A, Indices(shards))  BY DEF Surjection, Indices
<1>  HIDE DEF f
<1>  QED  BY <1>2, <1>3, FS_Surjection

(* "Reconstruct rebuilds original data from available shards": whatever    *)
(* order they come in, and whichever of them come twice, dataShardNum      *)
(* different shards of a block give its data back.                         *)
THEOREM AnyShardsWillDo ==
  ASSUME NEW data, NEW shards, Len(shards) = totalShards,
         \A i \in 1 .. Len(shards) : ShardOf(data, shards[i]),
         Cardinality(Indices(shards)) >= dataShardNum
  PROVE  Reconstruct(shards) = data
<1>1. \A i \in Available(shards) :
        Index(shards[i]) \in 0 .. totalShards - 1 /\ Piece(shards[i]) = data
  <2>  TAKE i \in Available(shards)
  <2>1. PICK j \in 1 .. totalShards : shards[i] = Erasure(data)[j]
    BY DEF Available, ShardOf
  <2>  QED  BY <2>1, ShardParts, TotalIsNat
<1>2. Indices(shards) \subseteq 0 .. totalShards - 1  BY <1>1 DEF Indices
<1>3. /\ Cardinality(Available(shards)) >= dataShardNum
      /\ Available(shards) # {}
  <2>1. /\ Cardinality(Indices(shards)) \in Nat /\ Cardinality(Available(shards)) \in Nat
        /\ Cardinality(Indices(shards)) <= Cardinality(Available(shards))
    BY IndicesBound, FS_CardinalityType
  <2>2. dataShardNum \in Nat \ {0}  BY ErasureAssumption
  <2>3. Available(shards) = {} => Cardinality(Available(shards)) = 0  BY FS_EmptySet
  <2>  QED  BY <2>1, <2>2, <2>3
<1>4. Pieces(shards) = {data}  BY <1>1, <1>3 DEF Pieces
<1>5. Cardinality(Pieces(shards)) = 1  BY <1>4, FS_Singleton
<1>6. (CHOOSE d \in Pieces(shards) : TRUE) = data  BY <1>4
<1>  QED  BY <1>2, <1>3, <1>5, <1>6 DEF Reconstruct, Decodable

(* The slots of a block some of whose shards are lost.                     *)
Surviving(data, lost) == [i \in 1 .. totalShards |->
                            IF i \in lost THEN Missing ELSE Erasure(data)[i]]

(* A block survives the loss of any parityShardNum of its shards, and of   *)
(* no more.                                                                *)
THEOREM ParityIsSlack ==
  ASSUME NEW data, NEW lost \in SUBSET (1 .. totalShards)
  PROVE  Reconstruct(Surviving(data, lost)) =
           IF Cardinality(lost) <= parityShardNum THEN data ELSE Failed
<1>  DEFINE shards == Surviving(data, lost)
            left == (1 .. totalShards) \ lost
            f == [i \in left |-> i - 1]
<1>1. Len(shards) = totalShards /\ \A i \in 1 .. Len(shards) : ShardOf(data, shards[i])
  BY TotalIsNat DEF Surviving, ShardOf
<1>2. /\ IsFiniteSet(left) /\ Cardinality(left) \in Nat
      /\ Cardinality(lost) <= parityShardNum <=> Cardinality(left) >= dataShardNum
  <2>1. IsFiniteSet(1 .. totalShards) /\ Cardinality(1 .. totalShards) = totalShards
    BY FS_Interval, TotalIsNat
  <2>2. /\ IsFiniteSet(left)
        /\ Cardinality(left) = totalShards - Cardinality((1 .. totalShards) \cap lost)
    BY <2>1, FS_Difference
  <2>3. (1 .. totalShards) \cap lost = lost  OBVIOUS
  <2>4. IsFiniteSet(lost) /\ Cardinality(lost) \in Nat  BY <2>1, FS_Subset, FS_CardinalityType
  <2>5. Cardinality(left) \in Nat  BY <2>2, FS_CardinalityType
  <2>6. Cardinality(left) = (dataShardNum + parityShardNum) - Cardinality(lost)
    BY <2>2, <2>3 DEF totalShards
  <2>7. \A c, l, d, p \in Nat : c = (d + p) - l => (l <= p <=> c >= d)  OBVIOUS
  <2>  HIDE DEF left
  <2>  QED  BY <2>2, <2>4, <2>5, <2>6, <2>7, ErasureAssumption
<1>3. Available(shards) = left
  BY <1>1, ShardParts DEF Available, Surviving
<1>4. Indices(shards) = {i - 1 : i \in left}
  <2>1. \A i \in left : Index(shards[i]) = i - 1  BY ShardParts DEF Surviving
  <2>  HIDE DEF shards, left
  <2>  QED  BY <1>3, <2>1 DEF Indices
<1>5. Cardinality(Indices(shards)) = Cardinality(left)
  <2>1. f \in Surjection(left, Indices(shards))  BY <1>4 DEF Surjection
  <2>2. f \in Injection(left, Indices(shards))
    <3>1. f \in [left -> Indices(shards)]  BY <1>4
    <3>2. \A a, b \in left : f[a] = f[b] => a = b  BY TotalIsNat
    <3>  QED  BY <3>1, <3>2 DEF Injection, IsInjective
  <2>  HIDE DEF f, left, shards
  <2>3. Cardinality(Indices(shards)) = Cardinality(left) <=> f \in Injection(left, Indices(shards))
    BY <1>2, <2>1, FS_Surjection
  <2>  QED  BY <2>2, <2>3
<1>6. CASE Cardinality(lost) <= parityShardNum
  <2>1. Cardinality(Indices(shards)) >= dataShardNum  BY <1>2, <1>5, <1>6
  <2>2. Reconstruct(shards) = data  BY <1>1, <2>1, AnyShardsWillDo
  <2>  QED  BY <1>6, <2>2
<1>7. CASE ~(Cardinality(lost) <= parityShardNum)
  <2>1. ~(Cardinality(Available(shards)) >= dataShardNum)  BY <1>2, <1>3, <1>7
  <2>2. Reconstruct(shards) = Failed  BY <2>1 DEF Reconstruct
  <2>  QED  BY <1>7, <2>2
<1>  QED  BY <1>6, <1>7

-----------------------------------------------------------------------------
(***************************************************************************)
(* The threshold.                                                          *)
(***************************************************************************)

(* The default threshold of three or more guardians is a majority of them, *)
(* so no two disjoint groups of guardians can both recover the key, and it *)
(* leaves out at least one, so the key survives the loss of any guardian.  *)
THEOREM DefaultThresholdIsMajority ==
  ASSUME NEW n \in Nat, n >= 3
  PROVE  LET t == calculateDefaultThreshold(n)
         IN t \in 2 .. (n - 1) /\ 2 * t > n
<1>1. CASE n <= 3
  BY <1>1 DEF calculateDefaultThreshold
<1>2. CASE n > 3 /\ n <= 5
  BY <1>2 DEF calculateDefaultThreshold
<1>3. CASE n > 5 /\ n <= 7
  BY <1>3 DEF calculateDefaultThreshold
<1>4. CASE n > 7
  <2>1. calculateDefaultThreshold(n) = (3 * n + 2) \div 5
    BY <1>4 DEF calculateDefaultThreshold
  <2>. QED BY <1>4, <2>1
<1>. QED BY <1>1, <1>2, <1>3, <1>4

(* validate never refuses a payload over a threshold it chose itself.      *)
THEOREM DefaultThresholdIsAccepted ==
  ASSUME NEW pl \in Payload, pl.threshold = 0,
         MinGuardians <= pl.n, pl.n <= MaxGuardians,
         pl.letter = "text", pl.files # "missing"
  PROVE  validate(pl)
<1>1. pl.n \in Nat /\ pl.n >= 3
  BY MinGuardiansAssumption, MaxGuardiansAssumption DEF Payload
<1>2. Threshold(pl) \in 2 .. (pl.n - 1)
  BY <1>1, DefaultThresholdIsMajority DEF Threshold
<1>. QED BY <1>1, <1>2 DEF validate

-----------------------------------------------------------------------------
(***************************************************************************)
(* A capsule below one block.                                              *)
(***************************************************************************)

(* One of the guardians of the capsule cannot be written to any more.      *)
Broken == \E p \in Active : ~up[p]

(* What was archived went out as the shards of one last block.             *)
Small == /\ written < BlockSize /\ Len(manifest) <= 1
         /\ \A s \in ShardMsg : Written(s) => s.final /\ s.size = written

(* Nothing but chunks for the buffer, and they do not fill it.             *)
Fresh == /\ manifest = <<>> /\ bufLen = written /\ written < BlockSize
         /\ \A s \in ShardMsg : ~Written(s)

(* A full block never comes to an end, for Write keeps it in the buffer:   *)
(* the archiver gets past it only over a connection that breaks, which the *)
(* loop over the guardians has still to come to.                           *)
RoundInv ==
  /\ Announcing \/ (pc = "archive" /\ during # "close") => Fresh
  /\ pc = "archive" /\ during = "close" => Broken \/ Fresh
  /\ pc = "block" /\ during = "close" =>
       Broken \/ (Small /\ manifest = <<>> /\ bufLen = written)
  /\ pc = "manifest" => Small \/ \E j \in k .. active : ~up[guardians[j]]
  /\ pc \in {"share", "ok"} => Small

(* The loop over the guardians starts at the first.                        *)
LEMMA BrokenAhead ==
  ASSUME Broken, k = 1
  PROVE  \E j \in k .. active : ~up[guardians[j]]
<1>  QED  BY DEF Broken, Active

LEMMA FreshIsSmall == Fresh => Small
<1>1. Len(<<>>) = 0  OBVIOUS
<1>  QED  BY <1>1 DEF Fresh, Small

LEMMA RoundEarly ==
  ASSUME OwnerInv, SafetyInv, SafetyInv', RoundInv, Announcing,
         \/ Reject \/ PanicWithoutLetter \/ OpenFails \/ PanicOnUnreached \/ SplitKey
         \/ Announce \/ AnnounceFails \/ CheckActive
  PROVE  RoundInv'
<1>1. /\ UNCHANGED <<manifest, bufLen, written, during>>
      /\ pc' \in {"start", "announce", "archive", "failed", "panicked"}
      /\ (sent' = sent \/ Announcing')
  BY DEF Announcing, Reject, PanicWithoutLetter, OpenFails, PanicOnUnreached, SplitKey,
         Announce, AnnounceFails, CheckActive, sinkVars, wireVars
<1>2. Fresh  BY DEF RoundInv
<1>3. \A s \in ShardMsg : ~Written(s)'
  <2>1. CASE sent' = sent  BY <1>2, <2>1 DEF Fresh, Written
  <2>2. CASE Announcing'
    <3>1. \A p \in Peer : OnlyKinds(p, {"stream"})'  BY <2>2 DEF SafetyInv, GrammarInv
    <3>  QED  BY <3>1 DEF OnlyKinds, Written
  <2>  QED  BY <1>1, <2>1, <2>2
<1>4. Fresh'  BY <1>1, <1>2, <1>3 DEF Fresh
<1>  QED  BY <1>1, <1>4 DEF RoundInv

LEMMA RoundArchive ==
  ASSUME OwnerInv, RoundInv,
         SinkWrite \/ ArchiveEnds \/ FlushEnds \/ CloseEmpty \/ CloseFlushes
  PROVE  RoundInv'
<1>1. /\ pc = "archive" /\ UNCHANGED <<guardians, active, manifest, sent, up>>
      /\ Active' = Active /\ \A s \in ShardMsg : Written(s)' <=> Written(s)
  BY DEF SinkWrite, ArchiveEnds, FlushEnds, CloseEmpty, CloseFlushes, sinkVars, wireVars,
         Active, Written
<1>2. CASE SinkWrite
  <2>1. PICK m \in 1 .. BlockSize : written' = written + m /\ bufLen' = bufLen + m
    BY <1>2 DEF SinkWrite
  <2>2. during # "close" /\ during' = during /\ Fresh
    BY <1>1, <1>2 DEF SinkWrite, RoundInv
  <2>3. CASE bufLen' >= BlockSize
    <3>1. pc' = "block"  BY <1>2, <2>3 DEF SinkWrite, NextBlock
    <3>  QED  BY <2>2, <3>1 DEF RoundInv, Announcing
  <2>4. CASE ~(bufLen' >= BlockSize)
    <3>1. pc' = "archive"  BY <1>1, <1>2, <2>4 DEF SinkWrite
    <3>2. bufLen' = written' /\ written' < BlockSize
      BY <2>1, <2>2, <2>4, BufferTypes DEF Fresh
    <3>3. Fresh'  BY <1>1, <2>2, <3>2 DEF Fresh
    <3>  QED  BY <3>1, <3>3 DEF RoundInv, Announcing
  <2>  QED  BY <2>3, <2>4
<1>3. CASE ArchiveEnds \/ FlushEnds
  <2>1. pc' = "archive" /\ during # "close" /\ UNCHANGED <<written, bufLen>>
    BY <1>1, <1>3 DEF ArchiveEnds, FlushEnds
  <2>2. Fresh'  BY <1>1, <2>1 DEF RoundInv, Fresh
  <2>  QED  BY <2>1, <2>2 DEF RoundInv, Announcing
<1>4. CASE CloseEmpty
  <2>1. /\ pc' \in {"manifest", "failed"} /\ k' = 1 /\ during = "close"
        /\ UNCHANGED <<written, bufLen>>
    BY <1>4 DEF CloseEmpty, AfterArchive, sinkVars
  <2>2. CASE Broken
    <3>1. Broken'  BY <1>1, <2>2 DEF Broken
    <3>2. \E j \in k' .. active' : ~up'[guardians'[j]]
      BY <2>1, <3>1 DEF Broken, Active
    <3>  QED  BY <2>1, <3>2 DEF RoundInv, Announcing
  <2>3. CASE Fresh
    <3>1. Small  BY <2>3, FreshIsSmall
    <3>2. Small'  BY <1>1, <2>1, <3>1 DEF Small
    <3>  QED  BY <2>1, <3>2 DEF RoundInv, Announcing
  <2>  QED  BY <1>1, <2>1, <2>2, <2>3 DEF RoundInv
<1>5. CASE CloseFlushes
  <2>1. pc' = "block" /\ during = "close" /\ UNCHANGED <<during, written, bufLen>>
    BY <1>5 DEF CloseFlushes, NextBlock
  <2>2. CASE Broken
    <3>1. Broken'  BY <1>1, <2>2 DEF Broken
    <3>  QED  BY <2>1, <3>1 DEF RoundInv, Announcing
  <2>3. CASE Fresh
    <3>1. Small /\ manifest = <<>> /\ bufLen = written  BY <2>3, FreshIsSmall DEF Fresh
    <3>2. Small'  BY <1>1, <2>1, <3>1 DEF Small
    <3>  QED  BY <1>1, <2>1, <3>1, <3>2 DEF RoundInv, Announcing
  <2>  QED  BY <1>1, <2>1, <2>2, <2>3 DEF RoundInv
<1>  QED  BY <1>2, <1>3, <1>4, <1>5

(* The shards there are after one more of the last block.                  *)
LEMMA LastBlockWritten ==
  ASSUME OwnerInv, SafetyInv, SendShard, isFinal, bufLen = written,
         \A s \in ShardMsg : Written(s) => s.final /\ s.size = written
  PROVE  \A s \in ShardMsg : Written(s)' => s.final /\ s.size = written
<1>1. PICK p \in PickRemotePeer(shard) : Delivered(p, ShardItem)  BY DEF SendShard
<1>2. p \in Peer /\ WireTypeOK /\ pc = "block"
  BY <1>1, BlockTypes DEF PickRemotePeer, SafetyInv, ReachedInv, SendShard
<1>3. PICK item \in Item :
        item = ShardItem /\ item.kind = "shard" /\ item.whole /\ item.final /\ item.size = written
  BY <1>2, ItemTypes DEF ShardItem
<1>4. Sent(p, item)  BY <1>1, <1>3 DEF Delivered, Sent
<1>  QED  BY <1>2, <1>3, <1>4, WrittenAfter

LEMMA RoundShard ==
  ASSUME OwnerInv, SafetyInv, RoundInv, SendShard \/ SendShardFails
  PROVE  RoundInv'
<1>1. /\ pc = "block" /\ UNCHANGED <<guardians, active, written>> /\ Active' = Active
  BY DEF SendShard, SendShardFails, BlockFails, Active
<1>2. CASE SendShard /\ ~isFinal
  <2>1. during # "close" /\ during' = during /\ pc' = "block"
    BY <1>1, <1>2, BufferTypes DEF SendShard, BlockSent, KeepAfterBlock, NextBlock, isFinal
  <2>  QED  BY <2>1 DEF RoundInv, Announcing
<1>3. CASE SendShard /\ isFinal
  <2>1. /\ during = "close" /\ during' = during /\ up' = up
        /\ \/ pc' = "block" /\ UNCHANGED <<manifest, bufLen>>
           \/ pc' \in {"manifest", "failed"} /\ k' = 1 /\ manifest' = Append(manifest, group)
    <3>1. during = "close" /\ during' = during /\ up' = up
      BY <1>3 DEF SendShard, Delivered, isFinal
    <3>2. CASE LastShard
      BY <1>3, <3>1, <3>2 DEF SendShard, BlockSent, AfterArchive
    <3>3. CASE ~LastShard
      BY <1>1, <1>3, <3>1, <3>3 DEF SendShard
    <3>  QED  BY <3>1, <3>2, <3>3
  <2>2. CASE Broken
    <3>1. Broken'  BY <1>1, <2>1, <2>2 DEF Broken
    <3>2. k' = 1 => \E j \in k' .. active' : ~up'[guardians'[j]]
      BY <3>1 DEF Broken, Active
    <3>  QED  BY <2>1, <3>1, <3>2 DEF RoundInv, Announcing
  <2>3. CASE Small /\ manifest = <<>> /\ bufLen = written
    <3>1. \A s \in ShardMsg : Written(s)' => s.final /\ s.size = written
      BY <1>3, <2>3, LastBlockWritten DEF Small
    <3>2. Len(manifest') <= 1
      <4>1. Len(Append(<<>>, group)) = 1 /\ Len(<<>>) = 0  OBVIOUS
      <4>2. manifest' = <<>> \/ manifest' = Append(<<>>, group)  BY <2>1, <2>3
      <4>3. Len(manifest') = 0 \/ Len(manifest') = 1  BY <4>1, <4>2
      <4>  QED  BY <4>3
    <3>3. Small'  BY <1>1, <2>3, <3>1, <3>2 DEF Small
    <3>  QED  BY <1>1, <2>1, <2>3, <3>3 DEF RoundInv, Announcing
  <2>  QED  BY <1>1, <2>1, <2>2, <2>3 DEF RoundInv
<1>4. CASE SendShardFails
  <2>1. /\ during' = "close" /\ pc' \in {"archive", "manifest", "failed"}
        /\ pc' = "manifest" => k' = 1
    BY <1>4 DEF SendShardFails, BlockFails, AfterArchive
  <2>2. Broken'
    <3>1. PICK p \in PickRemotePeer(shard) : NotDelivered(p, ShardItem)
      BY <1>4 DEF SendShardFails
    <3>2. p \in Active /\ p \in Peer /\ WireTypeOK
      BY <3>1, BlockTypes DEF PickRemotePeer, SafetyInv, ReachedInv
    <3>  QED  BY <1>1, <3>1, <3>2 DEF Broken, NotDelivered, WireTypeOK
  <2>3. k' = 1 => \E j \in k' .. active' : ~up'[guardians'[j]]
    BY <2>2 DEF Broken, Active
  <2>  QED  BY <2>1, <2>2, <2>3 DEF RoundInv, Announcing
<1>  QED  BY <1>2, <1>3, <1>4

LEMMA RoundLoop ==
  ASSUME OwnerInv, SafetyInv, RoundInv,
         SendManifest \/ SendManifestFails \/ SendShare \/ SendShareFails
  PROVE  RoundInv'
<1>1. /\ pc \in {"manifest", "share"} /\ pc' \in {"manifest", "share", "ok", "failed"}
      /\ UNCHANGED <<guardians, active, written, manifest>>
  BY DEF SendManifest, SendManifestFails, SendShare, SendShareFails, sinkVars
<1>2. WireTypeOK  BY BlockTypes
<1>3. PICK p \in Active : p = guardians[k] /\ p \in Peer  BY <1>1, LoopSends
<1>4. PICK item \in Item :
        /\ item.kind # "shard" /\ (HasData(item) => item.whole)
        /\ Delivered(p, item) \/ NotDelivered(p, item)
  <2>1. CASE SendManifest \/ SendManifestFails
    BY <1>1, <1>3, <2>1, LoopSends DEF SendManifest, SendManifestFails
  <2>2. CASE SendShare \/ SendShareFails
    BY <1>1, <1>3, <2>2, LoopSends DEF SendShare, SendShareFails
  <2>  QED  BY <2>1, <2>2
<1>5. Lost \/ \E x \in Item : Sent(p, x) /\ x.kind # "shard"
  BY <1>2, <1>3, <1>4, SendCases
<1>6. ASSUME NEW s \in ShardMsg, Written(s)'  PROVE Written(s)
  <2>1. CASE Lost  BY <1>6, <2>1 DEF Lost, Written
  <2>2. ASSUME NEW x \in Item, Sent(p, x), x.kind # "shard"  PROVE Written(s)
    BY <1>2, <1>3, <1>6, <2>2, WrittenAfter
  <2>  QED  BY <1>5, <2>1, <2>2
<1>7. Small => Small'  BY <1>1, <1>6 DEF Small
<1>8. CASE SendManifest
  <2>1. /\ pc = "manifest" /\ up[guardians[k]] /\ up' = up
        /\ \/ k = Len(guardians) /\ pc' = "share"
           \/ k' = k + 1 /\ pc' = "manifest"
    BY <1>8 DEF SendManifest, Delivered
  <2>2. Len(guardians) = active  BY <2>1 DEF OwnerInv, OwnerCounters, Sending
  <2>3. ASSUME NEW j \in k .. active, ~up[guardians[j]]  PROVE j \in k + 1 .. active
    BY <2>1, <2>3, BufferTypes
  <2>4. CASE k = Len(guardians) /\ pc' = "share"
    <3>1. k + 1 .. active = {}  BY <2>2, <2>4, BufferTypes
    <3>2. Small  BY <2>1, <2>3, <3>1 DEF RoundInv
    <3>  QED  BY <1>7, <2>4, <3>2 DEF RoundInv, Announcing
  <2>5. CASE k' = k + 1 /\ pc' = "manifest"
    <3>1. Small \/ \E j \in k + 1 .. active : ~up[guardians[j]]  BY <2>1, <2>3 DEF RoundInv
    <3>  QED  BY <1>1, <1>7, <2>1, <2>5, <3>1 DEF RoundInv, Announcing
  <2>  QED  BY <2>1, <2>4, <2>5
<1>9. CASE SendManifestFails \/ SendShareFails
  <2>1. pc' = "failed"  BY <1>9 DEF SendManifestFails, SendShareFails
  <2>  QED  BY <2>1 DEF RoundInv, Announcing
<1>10. CASE SendShare
  <2>1. pc = "share" /\ pc' \in {"share", "ok"}  BY <1>10 DEF SendShare
  <2>  QED  BY <1>7, <2>1 DEF RoundInv, Announcing
<1>  QED  BY <1>8, <1>9, <1>10

LEMMA OwnerRound ==
  ASSUME "block" \notin CanFail
  PROVE  OwnerSpec => []RoundInv
<1>1. CallInit => RoundInv
  <2>  SUFFICES ASSUME CallInit  PROVE RoundInv  OBVIOUS
  <2>1. pc = "start" /\ manifest = <<>> /\ bufLen = 0 /\ written = 0
    BY DEF CallInit, OwnerInit
  <2>2. \A p \in Peer : Len(sent[p]) = 0
    BY EmptySeq DEF CallInit, WireInit
  <2>3. \A s : ~Written(s)  BY <2>2 DEF Written
  <2>4. Fresh  BY <2>1, <2>3, BlockSizeAssumption DEF Fresh
  <2>  QED  BY <2>1, <2>4 DEF RoundInv
<1>2. OwnerInv /\ SafetyInv /\ SafetyInv' /\ RoundInv /\ [OwnerNext]_OwnerAll => RoundInv'
  <2>  SUFFICES ASSUME OwnerInv, SafetyInv, SafetyInv', RoundInv, [OwnerNext]_OwnerAll
                PROVE  RoundInv'
    OBVIOUS
  <2>1. CASE \/ Reject \/ PanicWithoutLetter \/ OpenFails \/ PanicOnUnreached \/ SplitKey
             \/ Announce \/ AnnounceFails \/ CheckActive
    <3>1. Announcing
      BY <2>1 DEF Announcing, Reject, PanicWithoutLetter, OpenFails, PanicOnUnreached,
                  SplitKey, Announce, AnnounceFails, CheckActive
    <3>  QED  BY <2>1, <3>1, RoundEarly
  <2>2. CASE SinkWrite \/ ArchiveEnds \/ FlushEnds \/ CloseEmpty \/ CloseFlushes
    BY <2>2, RoundArchive
  <2>3. CASE SendShard \/ SendShardFails  BY <2>3, RoundShard
  <2>4. ~PrepareFails  BY DEF PrepareFails
  <2>5. CASE SendManifest \/ SendManifestFails \/ SendShare \/ SendShareFails
    BY <2>5, RoundLoop
  <2>6. CASE UNCHANGED OwnerAll
    <3>1. UNCHANGED <<pc, guardians, k, active, during, written, bufLen, manifest, sent, up>>
      BY <2>6 DEF OwnerAll, ownerVars, sinkVars, wireVars
    <3>2. /\ Active' = Active /\ (Broken <=> Broken')
          /\ \A s \in ShardMsg : Written(s)' <=> Written(s)
      BY <3>1 DEF Broken, Active, Written
    <3>3. (Fresh => Fresh') /\ (Small => Small')  BY <3>1, <3>2 DEF Fresh, Small
    <3>  QED  BY <3>1, <3>2, <3>3 DEF RoundInv, Announcing
  <2>  QED  BY <2>1, <2>2, <2>3, <2>4, <2>5, <2>6 DEF OwnerNext
<1>  QED  BY <1>1, <1>2, OwnerSafety, PTL DEF OwnerSpec

(* A call that returns nil archived less than one block: a bigger capsule  *)
(* hangs on the full block Write keeps or, where a connection breaks that  *)
(* off, fails at the manifest.                                             *)
THEOREM OnlyASmallCapsuleReturnsNil ==
  ASSUME "block" \notin CanFail
  PROVE  OwnerSpec => [](pc = "ok" => written < BlockSize)
<1>1. RoundInv => (pc = "ok" => written < BlockSize)  BY DEF RoundInv, Small
<1>  QED  BY <1>1, OwnerRound, PTL

(* The number a block is encrypted under is its place in the manifest, so  *)
(* the key recovery derives for it is the right one.                       *)
THEOREM KeysFollowPlaces == OwnerSpec => []BlockKeyIsItsPlace
<1>1. OwnerInv => BlockKeyIsItsPlace
  BY DEF OwnerInv, OwnerCounters, BlockKeyIsItsPlace
<1>  QED  BY <1>1, OwnerSafety, PTL

-----------------------------------------------------------------------------
(***************************************************************************)
(* Collecting what the guardians have.                                     *)
(***************************************************************************)

(* SetToSeq lists a finite set.                                            *)
LEMMA Listed ==
  ASSUME NEW S, IsFiniteSet(S)
  PROVE  /\ Len(SetToSeq(S)) = Cardinality(S) /\ Cardinality(S) \in Nat
         /\ {SetToSeq(S)[i] : i \in 1 .. Cardinality(S)} = S
<1>  DEFINE n == Cardinality(S)
            f == SetToSeq(S)
<1>1. n \in Nat /\ ExistsBijection(1 .. n, S)  BY FS_CardinalityType
<1>2. PICK g : g \in Bijection(1 .. n, S)  BY <1>1 DEF ExistsBijection
<1>3. g \in [1 .. n -> S] /\ IsInjective(g)  BY <1>2 DEF Bijection, Injection
<1>4. f \in [1 .. n -> S] /\ IsInjective(f)  BY <1>3 DEF SetToSeq
<1>5. IsFiniteSet(1 .. n) /\ Cardinality(1 .. n) = n  BY <1>1, FS_Interval
<1>  HIDE DEF f
<1>6. f \in Injection(1 .. n, S)  BY <1>4 DEF Injection
<1>7. f \in Surjection(1 .. n, S)  BY <1>5, <1>6, FS_Injection
<1>8. {f[i] : i \in 1 .. n} = S  BY <1>4, <1>7 DEF Surjection
<1>9. Len(f) = n  BY <1>1, <1>4
<1>  QED  BY <1>1, <1>8, <1>9 DEF f

(* Adding up the blocks of a manifest that lists one.                      *)
Recovered(Q, g) == IF RecoveredBlock(Q, g) = Failed THEN 0 ELSE RecoveredBlock(Q, g)[2]

LEMMA OneBlock ==
  ASSUME NEW Q, NEW g, manifest = <<g>>
  PROVE  RecoveredSize(Q) = 0 + Recovered(Q, g)
<1>  DEFINE Add(n, h) == n + Recovered(Q, h)
            Is(iter) == iter = [s \in SUBSET (DOMAIN <<g>>) |->
                          IF s = {} THEN 0 ELSE LET x == Max(s) IN Add(iter[s \ {x}], <<g>>[x])]
            it == CHOOSE iter : Is(iter)
            two == [s \in SUBSET (DOMAIN <<g>>) |-> IF s = {} THEN 0 ELSE Add(0, g)]
<1>1. RecoveredSize(Q) = it[DOMAIN <<g>>]
  BY DEF RecoveredSize, Recovered, FoldLeft, MapThenFoldSet
<1>  HIDE DEF Add
<1>2. DOMAIN <<g>> = {1} /\ <<g>>[1] = g  OBVIOUS
<1>3. Max({1}) = 1 /\ {1} \ {1} = {}
  <2>1. \A x \in Nat : Max({x}) = x  BY DEF Max
  <2>  QED  BY <2>1
<1>4. Is(two)
  <2>1. ASSUME NEW s \in SUBSET (DOMAIN <<g>>)
        PROVE  two[s] = IF s = {} THEN 0 ELSE LET x == Max(s) IN Add(two[s \ {x}], <<g>>[x])
    <3>1. CASE s = {}  BY <3>1
    <3>2. CASE s = {1}
      <4>1. two[{}] = 0  OBVIOUS
      <4>  QED  BY <1>2, <1>3, <3>2, <4>1
    <3>  QED  BY <1>2, <3>1, <3>2
  <2>  QED  BY <2>1
<1>5. Is(it)  BY <1>4
<1>6. it[{}] = 0  BY <1>2, <1>5
<1>7. it[{1}] = Add(0, g)
  <2>  HIDE DEF it
  <2>1. it[{1}] = Add(it[{1} \ {1}], <<g>>[1])
    <3>1. {1} \in SUBSET (DOMAIN <<g>>) /\ {1} # {}  BY <1>2
    <3>  QED  BY <1>3, <1>5, <3>1
  <2>  QED  BY <1>2, <1>3, <1>6, <2>1
<1>  QED  BY <1>1, <1>2, <1>7 DEF Add

(* What is captured was written, whole.                                    *)
LEMMA CapturedShards ==
  ASSUME WireTypeOK, NEW Q \in SUBSET Peer, NEW g, NEW s \in ShardsOf(Q, g)
  PROVE  s \in ShardMsg /\ Written(s) /\ s.whole /\ s.group = g
<1>1. PICK p \in Q : s \in Captured(p, "shard")  BY DEF ShardsOf
<1>2. PICK i \in 1 .. Len(sent[p]) : s = sent[p][i] /\ s.kind = "shard" /\ s.whole
  BY <1>1 DEF Captured
<1>3. s \in Item
  <2>1. sent[p] \in Seq(Item)  BY DEF WireTypeOK
  <2>  QED  BY <1>2, <2>1, ElementOfSeq
<1>4. s \in ShardMsg  BY <1>2, <1>3, KindsOfItems
<1>5. Written(s)  BY <1>2 DEF Written
<1>6. s.group = g  BY DEF ShardsOf
<1>  QED  BY <1>2, <1>4, <1>5, <1>6

(* Shards of a block that are alike in all but their number: there are as  *)
(* many as they have numbers, and AsShard makes of them what Erasure did.  *)
Numbers(S) == {s.index : s \in S}
Coded(S)   == {AsShard(s) : s \in S}

LEMMA AlikeShards ==
  ASSUME NEW S \in SUBSET ShardMsg, NEW g, NEW size,
         \A s \in S : s.group = g /\ s.size = size /\ s.final /\ s.whole
  PROVE  /\ Numbers(S) \subseteq 1 .. totalShards
         /\ IsFiniteSet(Numbers(S)) /\ Cardinality(Numbers(S)) \in Nat
         /\ IsFiniteSet(S) /\ Cardinality(S) = Cardinality(Numbers(S))
         /\ IsFiniteSet(Coded(S)) /\ Cardinality(Coded(S)) <= totalShards
         /\ \A t \in Coded(S) : \E x \in Numbers(S) : t = Erasure(<<g, size>>)[x]
         /\ \A x \in Numbers(S) : Erasure(<<g, size>>)[x] \in Coded(S)
<1>  DEFINE I == Numbers(S)
            T == Coded(S)
            f == [x \in I |-> [kind |-> "shard", group |-> g, index |-> x, size |-> size,
                               final |-> TRUE, whole |-> TRUE]]
            h == [x \in I |-> Erasure(<<g, size>>)[x]]
<1>0. /\ \A s \in S : s.index \in I
      /\ \A x \in I : \E s \in S : s.index = x
  BY DEF Numbers
<1>1. \A s \in S : s = f[s.index] /\ s.index \in 1 .. totalShards
  BY <1>0, ShardNumAssumption DEF ShardMsg
<1>2. I \subseteq 1 .. totalShards
  <2>1. \A s \in S : s.index \in 1 .. totalShards  BY <1>1
  <2>  HIDE DEF f, I
  <2>  QED  BY <1>0, <2>1
<1>3. IsFiniteSet(1 .. totalShards) /\ Cardinality(1 .. totalShards) = totalShards
  BY FS_Interval, TotalIsNat
<1>4. IsFiniteSet(I) /\ Cardinality(I) <= totalShards /\ Cardinality(I) \in Nat
  BY <1>2, <1>3, FS_Subset, FS_CardinalityType
<1>5. f \in Bijection(I, S)
  <2>1. \A x \in I : f[x] \in S /\ f[x].index = x
    <3>  TAKE x \in I
    <3>1. PICK s \in S : s.index = x  BY <1>0
    <3>2. s = f[x]  BY <1>1, <3>1
    <3>  QED  BY <3>1, <3>2
  <2>2. f \in [I -> S]  BY <2>1
  <2>3. \A x, y \in I : f[x] = f[y] => x = y  BY <2>1
  <2>  HIDE DEF f, I
  <2>4. \A s \in S : \E x \in I : f[x] = s
    <3>  TAKE s \in S
    <3>1. s.index \in I /\ f[s.index] = s  BY <1>0, <1>1
    <3>  QED  BY <3>1
  <2>  QED  BY <2>2, <2>3, <2>4 DEF Bijection, Injection, Surjection, IsInjective
<1>6. IsFiniteSet(S) /\ Cardinality(S) = Cardinality(I)
  <2>  HIDE DEF f, I
  <2>1. ExistsBijection(I, S)  BY <1>5 DEF ExistsBijection
  <2>  QED  BY <1>4, <2>1, FS_Bijection
<1>7. \A s \in S : AsShard(s) = h[s.index]
  <2>  TAKE s \in S
  <2>1. s.index \in I /\ s.index \in 1 .. totalShards  BY <1>0, <1>1
  <2>  QED  BY <2>1 DEF AsShard, Erasure
<1>8. /\ \A t \in T : \E x \in I : t = h[x]
      /\ \A x \in I : h[x] \in T
  <2>1. /\ \A s \in S : AsShard(s) \in T
        /\ \A t \in T : \E s \in S : t = AsShard(s)
    BY DEF Coded
  <2>  HIDE DEF h, I, T
  <2>  QED  BY <1>0, <1>7, <2>1
<1>9. h \in Surjection(I, T)
  <2>1. h \in [I -> T]  BY <1>8
  <2>  HIDE DEF h, I, T
  <2>  QED  BY <1>8, <2>1 DEF Surjection
<1>10. IsFiniteSet(T) /\ Cardinality(T) <= totalShards
  <2>1. IsFiniteSet(T) /\ Cardinality(T) <= Cardinality(I)
    <3>  HIDE DEF h, I, T
    <3>  QED  BY <1>4, <1>9, FS_Surjection
  <2>2. Cardinality(T) \in Nat  BY <2>1, FS_CardinalityType
  <2>  QED  BY <1>4, <2>1, <2>2, TotalIsNat
<1>  QED  BY <1>2, <1>4, <1>6, <1>8, <1>10

(* Enough shards of a block, from wherever they are, give it back.         *)
LEMMA EnoughShards ==
  ASSUME NEW Q, NEW g, NEW size,
         ShardsOf(Q, g) \in SUBSET ShardMsg,
         \A s \in ShardsOf(Q, g) : s.group = g /\ s.size = size /\ s.final /\ s.whole,
         Cardinality(ShardsOf(Q, g)) >= dataShardNum
  PROVE  RecoveredBlock(Q, g) = <<g, size>>
<1>  DEFINE I == Numbers(ShardsOf(Q, g))
            T == Coded(ShardsOf(Q, g))
            data == <<g, size>>
            found == SetToSeq(T)
            n == Cardinality(T)
            slots == Slots(Q, g)
<1>1. /\ I \subseteq 1 .. totalShards /\ IsFiniteSet(I) /\ Cardinality(I) \in Nat
      /\ Cardinality(ShardsOf(Q, g)) = Cardinality(I)
      /\ \A t \in T : \E x \in I : t = Erasure(data)[x]
      /\ \A x \in I : Erasure(data)[x] \in T
      /\ IsFiniteSet(T) /\ n <= totalShards
  BY AlikeShards
<1>2. Len(found) = n /\ n \in Nat /\ {found[i] : i \in 1 .. n} = T
  BY <1>1, Listed
<1>3. slots = [i \in 1 .. totalShards |-> IF i <= n THEN found[i] ELSE Missing]
  BY <1>2 DEF Slots, Coded
<1>  HIDE DEF slots, found, n, T, I
<1>4. Len(slots) = totalShards  BY <1>3, TotalIsNat
<1>5. /\ \A i \in 1 .. n : found[i] \in T
      /\ \A t \in T : \E i \in 1 .. n : found[i] = t
  BY <1>2
<1>6. \A i \in 1 .. n : slots[i] = found[i]  BY <1>1, <1>2, <1>3, TotalIsNat
<1>7. \A i \in 1 .. Len(slots) : ShardOf(data, slots[i])
  <2>  TAKE i \in 1 .. Len(slots)
  <2>1. CASE i <= n
    <3>1. slots[i] = found[i] /\ i \in 1 .. n  BY <1>3, <1>4, <2>1, TotalIsNat
    <3>2. PICK x \in I : found[i] = Erasure(data)[x]  BY <1>1, <1>5, <3>1
    <3>  QED  BY <1>1, <3>1, <3>2 DEF ShardOf
  <2>2. CASE ~(i <= n)  BY <1>3, <1>4, <2>2 DEF ShardOf
  <2>  QED  BY <2>1, <2>2
<1>8. Available(slots) = 1 .. n
  <2>1. \A i \in 1 .. n : i \in 1 .. totalShards /\ slots[i] # Missing
    <3>  TAKE i \in 1 .. n
    <3>1. i \in 1 .. totalShards  BY <1>1, <1>2, TotalIsNat
    <3>2. PICK x \in I : found[i] = Erasure(data)[x]  BY <1>1, <1>5
    <3>3. Erasure(data)[x] # Missing  BY <1>1, <3>2, ShardParts
    <3>  QED  BY <1>6, <3>1, <3>2, <3>3
  <2>2. \A i \in 1 .. totalShards : ~(i <= n) => slots[i] = Missing  BY <1>3
  <2>  QED  BY <1>2, <1>4, <2>1, <2>2, TotalIsNat DEF Available
<1>9. /\ \A y \in Indices(slots) : \E x \in I : y = x - 1
      /\ \A x \in I : x - 1 \in Indices(slots)
  <2>1. /\ \A y \in Indices(slots) : \E i \in 1 .. n : y = Index(slots[i])
        /\ \A i \in 1 .. n : Index(slots[i]) \in Indices(slots)
    BY <1>8 DEF Indices
  <2>2. \A x \in I : Index(Erasure(data)[x]) = x - 1  BY <1>1, ShardParts
  <2>3. \A i \in 1 .. n : \E x \in I : Index(slots[i]) = x - 1
    BY <1>1, <1>5, <1>6, <2>2
  <2>4. \A x \in I : \E i \in 1 .. n : Index(slots[i]) = x - 1
    BY <1>1, <1>5, <1>6, <2>2
  <2>5. \A y \in Indices(slots) : \E x \in I : y = x - 1  BY <2>1, <2>3
  <2>6. \A x \in I : x - 1 \in Indices(slots)  BY <2>1, <2>4
  <2>  QED  BY <2>5, <2>6
<1>10. Cardinality(Indices(slots)) = Cardinality(I)
  <2>  DEFINE f == [x \in I |-> x - 1]
  <2>1. f \in [I -> Indices(slots)]  BY <1>9
  <2>2. \A a, b \in I : f[a] = f[b] => a = b  BY <1>1, TotalIsNat
  <2>3. \A y \in Indices(slots) : \E x \in I : f[x] = y  BY <1>9
  <2>  HIDE DEF f
  <2>4. f \in Bijection(I, Indices(slots))
    BY <2>1, <2>2, <2>3 DEF Bijection, Injection, Surjection, IsInjective
  <2>5. ExistsBijection(I, Indices(slots))  BY <2>4 DEF ExistsBijection
  <2>  QED  BY <1>1, <2>5, FS_Bijection
<1>11. Cardinality(Indices(slots)) >= dataShardNum  BY <1>1, <1>10
<1>12. Reconstruct(slots) = data  BY <1>4, <1>7, <1>11, AnyShardsWillDo
<1>  QED  BY <1>12 DEF RecoveredBlock, slots

-----------------------------------------------------------------------------
(***************************************************************************)
(* What a call that returned nil left behind.                              *)
(***************************************************************************)

(* There are finitely many shards to collect.                              *)
LEMMA FiniteCapture ==
  ASSUME WireTypeOK, NEW Q \in SUBSET Peer, NEW g
  PROVE  IsFiniteSet(ShardsOf(Q, g))
<1>1. ASSUME NEW p \in Peer  PROVE IsFiniteSet(Captured(p, "shard"))
  <2>  DEFINE D == {j \in 1 .. Len(sent[p]) : sent[p][j].kind = "shard" /\ sent[p][j].whole}
              f == [i \in D |-> sent[p][i]]
  <2>1. Len(sent[p]) \in Nat  BY LenProperties DEF WireTypeOK
  <2>2. IsFiniteSet(1 .. Len(sent[p]))  BY <2>1, FS_Interval
  <2>3. IsFiniteSet(D)  BY <2>2, FS_Subset
  <2>4. f \in Surjection(D, Captured(p, "shard"))  BY DEF Surjection, Captured
  <2>  HIDE DEF f, D
  <2>  QED  BY <2>3, <2>4, FS_Surjection
<1>2. IsFiniteSet(Q)
  <2>1. IsFiniteSet(Peer)  BY FS_Interval, NumPeersAssumption DEF Peer
  <2>  QED  BY <2>1, FS_Subset
<1>  DEFINE C == {Captured(p, "shard") : p \in Q}
            h == [p \in Q |-> Captured(p, "shard")]
<1>3. IsFiniteSet(C)
  <2>1. h \in Surjection(Q, C)  BY DEF Surjection
  <2>  HIDE DEF h, C
  <2>  QED  BY <1>2, <2>1, FS_Surjection
<1>4. \A T \in C : IsFiniteSet(T)  BY <1>1
<1>5. IsFiniteSet(UNION C)
  <2>  HIDE DEF C
  <2>  QED  BY <1>3, <1>4, FS_UNION
<1>6. ShardsOf(Q, g) \in SUBSET (UNION C)  BY DEF ShardsOf
<1>  HIDE DEF C
<1>  QED  BY <1>5, <1>6, FS_Subset

(* The guardians of a call that returned nil have a different share each,  *)
(* numbered without a gap although some of those named were dropped.       *)
LEMMA SharesOfActive ==
  ASSUME OwnerInv, SafetyInv, pc = "ok"
  PROVE  {s.index : s \in KeyShares(Active)} = 1 .. active
<1>1. /\ active \in Nat /\ Active \subseteq Peer
      /\ \A j \in 1 .. active : guardians[j] \in Active
      /\ \A i, j \in 1 .. active : i # j => guardians[i] # guardians[j]
  BY BlockTypes, GuardiansOfLoop DEF SafetyInv, Sending
<1>2. ASSUME NEW s \in KeyShares(Active)  PROVE s.index \in 1 .. active
  <2>1. PICK p \in Active : s \in Captured(p, "share")  BY <1>2 DEF KeyShares
  <2>2. PICK i \in 1 .. Len(sent[p]) : s = sent[p][i] /\ s.kind = "share"
    BY <2>1 DEF Captured
  <2>3. p \in Peer  BY <1>1
  <2>  QED  BY <2>2, <2>3 DEF SafetyInv, SharesInPlace
<1>3. ASSUME NEW j \in 1 .. active  PROVE \E s \in KeyShares(Active) : s.index = j
  <2>1. Got(guardians[j], "share")  BY <1>1 DEF SafetyInv, KeyInv
  <2>2. guardians[j] \in Peer /\ guardians[j] \in Active  BY <1>1
  <2>3. PICK i \in 1 .. Len(sent[guardians[j]]) :
          /\ sent[guardians[j]][i].kind = "share" /\ sent[guardians[j]][i].whole
    BY <2>1 DEF Got, HasData
  <2>4. /\ sent[guardians[j]][i].index \in 1 .. active
        /\ guardians[sent[guardians[j]][i].index] = guardians[j]
    BY <2>2, <2>3 DEF SafetyInv, SharesInPlace
  <2>5. sent[guardians[j]][i].index = j  BY <1>1, <2>4
  <2>6. sent[guardians[j]][i] \in Captured(guardians[j], "share")  BY <2>3 DEF Captured
  <2>  QED  BY <2>2, <2>5, <2>6 DEF KeyShares
<1>  QED  BY <1>2, <1>3

(* The guardians that were reached have enough of every block between      *)
(* them, and enough of the key if they are as many as the threshold.       *)
THEOREM ActiveAreEnough == OwnerSpec => []ActiveSuffice
<1>1. OwnerInv /\ SafetyInv /\ SinkInv => ActiveSuffice
  <2>  SUFFICES ASSUME OwnerInv, SafetyInv, SinkInv, pc = "ok"
                PROVE  /\ \A j \in 1 .. Len(manifest) :
                              Cardinality(ShardsOf(Active, manifest[j])) >= dataShardNum
                       /\ Cardinality(Active) >= Threshold(payload) => Combines(Active)
    BY DEF ActiveSuffice
  <2>1. Cardinality(Active) >= Threshold(payload) => Combines(Active)
    <3>1. active \in Nat /\ Cardinality(Active) = active
      BY ActiveCount, BufferTypes DEF Sending
    <3>2. Cardinality(1 .. active) = active  BY <3>1, FS_Interval
    <3>  QED  BY <3>1, <3>2, SharesOfActive DEF Combines
  <2>2. ASSUME NEW j \in 1 .. Len(manifest)
        PROVE  Cardinality(ShardsOf(Active, manifest[j])) >= dataShardNum
    <3>  DEFINE g == manifest[j]
                S == ShardsOf(Active, g)
                f == [s \in S |-> s.index]
    <3>1. WireTypeOK /\ Active \subseteq Peer /\ g \in Group /\ InManifest(g)
      BY BlockTypes, ElementOfSeq DEF InManifest
    <3>2. \A s \in S : s.index \in Shard  BY <3>1, CapturedShards, KindsOfItems
    <3>3. \A x \in Shard : \E s \in S : s.index = x
      <4>  TAKE x \in Shard
      <4>1. PICK p \in Active : \E i \in 1 .. Len(sent[p]) :
              /\ sent[p][i].kind = "shard" /\ sent[p][i].whole
              /\ sent[p][i].group = g /\ sent[p][i].index = x
        BY <3>1 DEF SinkInv, BackedInv, ManifestIsBacked
      <4>2. PICK s \in Captured(p, "shard") : s.group = g /\ s.index = x
        BY <4>1 DEF Captured
      <4>3. s \in S  BY <4>2 DEF ShardsOf
      <4>  QED  BY <4>2, <4>3
    <3>4. IsFiniteSet(S)  BY <3>1, FiniteCapture
    <3>5. f \in Surjection(S, Shard)
      <4>  HIDE DEF S
      <4>  QED  BY <3>2, <3>3 DEF Surjection
    <3>6. Cardinality(Shard) <= Cardinality(S) /\ Cardinality(S) \in Nat
      <4>  HIDE DEF S, f
      <4>  QED  BY <3>4, <3>5, FS_Surjection, FS_CardinalityType
    <3>7. Cardinality(Shard) = totalShards
      BY FS_Interval, TotalIsNat, ShardNumAssumption DEF Shard
    <3>8. dataShardNum \in Nat  BY ErasureAssumption
    <3>  HIDE DEF S
    <3>9. Cardinality(S) >= dataShardNum  BY <3>6, <3>7, <3>8, TotalIsNat
    <3>  QED  BY <3>9 DEF S
  <2>  QED  BY <2>1, <2>2
<1>  QED  BY <1>1, OwnerSink, PTL

(* A capsule is recovered from any guardians with enough of its shards:    *)
(* there is one block, the last, which says how much of it is data.        *)
THEOREM WhatWasArchivedComesBack ==
  ASSUME "block" \notin CanFail
  PROVE  OwnerSpec => []ArchiveIsRecovered
<1>1. OwnerInv /\ SafetyInv /\ RoundInv /\ NothingLeftBehind /\ ActiveSuffice
      => ArchiveIsRecovered
  <2>  SUFFICES ASSUME OwnerInv, SafetyInv, RoundInv, NothingLeftBehind, pc = "ok",
                       NEW Q \in SUBSET Active, Suffices(Q)
                PROVE  RecoveredSize(Q) = written
    BY DEF ArchiveIsRecovered
  <2>1. Small /\ manifest # <<>>  BY DEF RoundInv, NothingLeftBehind
  <2>2. /\ WireTypeOK /\ Active \subseteq Peer /\ manifest \in Seq(Group)
        /\ Len(manifest) \in Nat /\ 1 \in Shard
    BY BlockTypes, ShardsAssumption DEF Shard
  <2>3. PICK g \in Group : manifest = <<g>>
    <3>1. Len(manifest) = 1
      <4>1. Len(manifest) # 0  BY <2>1, <2>2, EmptySeq
      <4>2. Len(manifest) <= 1  BY <2>1 DEF Small
      <4>3. \A n \in Nat : n <= 1 /\ n # 0 => n = 1  OBVIOUS
      <4>  QED  BY <2>2, <4>1, <4>2, <4>3
    <3>2. manifest[1] \in Group  BY <2>2, <3>1, ElementOfSeq
    <3>3. manifest = <<manifest[1]>>  BY <2>2, <3>1
    <3>  QED  BY <3>2, <3>3
  <2>4. Len(manifest) = 1 /\ manifest[1] = g  BY <2>3
  <2>5. Cardinality(ShardsOf(Q, g)) >= dataShardNum
    <3>1. 1 \in 1 .. Len(manifest)  BY <2>4
    <3>  QED  BY <2>4, <3>1 DEF Suffices
  <2>6. \A s \in ShardsOf(Q, g) :
          s \in ShardMsg /\ s.group = g /\ s.size = written /\ s.final /\ s.whole
    <3>1. Q \in SUBSET Peer  BY <2>2
    <3>  QED  BY <2>1, <2>2, <3>1, CapturedShards DEF Small
  <2>7. RecoveredBlock(Q, g) = <<g, written>>
    <3>1. ShardsOf(Q, g) \in SUBSET ShardMsg  BY <2>6
    <3>2. \A s \in ShardsOf(Q, g) : s.group = g /\ s.size = written /\ s.final /\ s.whole
      BY <2>6
    <3>  QED  BY <2>5, <3>1, <3>2, EnoughShards
  <2>8. Recovered(Q, g) = written  BY <2>7 DEF Recovered, Failed
  <2>  QED  BY <2>3, <2>8, OneBlock, BufferTypes
<1>  QED  BY <1>1, ActiveAreEnough, OwnerSink, OwnerRound, NothingIsLeftBehind, PTL

(* Each share has the index its guardian was announced at, and the         *)
(* guardians announced are all different: fewer of them than the threshold *)
(* hold fewer shares than the key can be combined from.                    *)
THEOREM FewerSharesAreTooFew == OwnerSpec => []FewerCannotCombine
<1>1. OwnerInv /\ SafetyInv => FewerCannotCombine
  <2>  SUFFICES ASSUME OwnerInv, SafetyInv, NEW Q \in SUBSET Peer, Combines(Q)
                PROVE  Cardinality(Q) >= Threshold(payload)
    BY DEF FewerCannotCombine
  <2>  DEFINE I == Numbers(KeyShares(Q))
              f == [x \in I |-> guardians[x]]
  <2>1. /\ active \in Nat /\ guardians \in Seq(Peer) /\ active <= Len(guardians)
    BY DEF OwnerInv, OwnerTypeOK, OwnerCounters
  <2>2. \A j \in 1 .. active : guardians[j] \in Peer  BY <2>1, ElementOfSeq, LenProperties
  <2>3. \A i, j \in 1 .. active : i # j => guardians[i] # guardians[j]
    BY <2>1, <2>2 DEF SafetyInv, ReachedInv, ActiveAreAnnounced, Peer
  <2>4. \A x \in I : x \in 1 .. active /\ guardians[x] \in Q
    <3>  TAKE x \in I
    <3>1. PICK s \in KeyShares(Q) : s.index = x  BY DEF Numbers
    <3>2. PICK p \in Q : s \in Captured(p, "share")  BY DEF KeyShares
    <3>3. PICK i \in 1 .. Len(sent[p]) : s = sent[p][i] /\ s.kind = "share"
      BY <3>2 DEF Captured
    <3>4. p \in Peer  OBVIOUS
    <3>5. s.index \in 1 .. active /\ guardians[s.index] = p
      BY <3>3, <3>4 DEF SafetyInv, SharesInPlace
    <3>  QED  BY <3>1, <3>5
  <2>5. IsFiniteSet(Q) /\ Cardinality(Q) \in Nat
    <3>1. IsFiniteSet(Peer)  BY FS_Interval, NumPeersAssumption DEF Peer
    <3>  QED  BY <3>1, FS_Subset, FS_CardinalityType
  <2>6. f \in Injection(I, Q)
    <3>  HIDE DEF I
    <3>1. f \in [I -> Q]  BY <2>4
    <3>2. \A x, y \in I : f[x] = f[y] => x = y  BY <2>3, <2>4
    <3>  QED  BY <3>1, <3>2 DEF Injection, IsInjective
  <2>7. IsFiniteSet(I) /\ Cardinality(I) <= Cardinality(Q) /\ Cardinality(I) \in Nat
    <3>  HIDE DEF I, f
    <3>  QED  BY <2>5, <2>6, FS_Injection, FS_CardinalityType
  <2>8. Cardinality(I) >= Threshold(payload)  BY DEF Combines, Numbers
  <2>9. Threshold(payload) \in Int
    <3>1. payload.n \in Nat /\ payload.threshold \in Int
      BY PayloadsAssumption DEF OwnerInv, OwnerTypeOK, Payload
    <3>  QED  BY <3>1 DEF Threshold, calculateDefaultThreshold
  <2>  HIDE DEF I
  <2>  QED  BY <2>5, <2>7, <2>8, <2>9
<1>  QED  BY <1>1, OwnerSafety, PTL

-----------------------------------------------------------------------------
(***************************************************************************)
(* When the guardians that were reached are enough for the threshold.      *)
(***************************************************************************)

(* Every guardian named is told, in its place.                             *)
AllReached ==
  /\ pc = "announce" => validate(payload)
  /\ Announcing => active = k - 1 /\ Len(guardians) = payload.n
  /\ pc \in Sending => active = payload.n /\ validate(payload)

LEMMA NobodyIsLost ==
  ASSUME Unreliable = {}
  PROVE  OwnerSpec => []AllReached
<1>1. CallInit => AllReached
  <2>  SUFFICES ASSUME CallInit  PROVE AllReached  OBVIOUS
  <2>1. /\ pc = "start" /\ k = 1 /\ active = 0 /\ payload \in Payloads
        /\ guardians = [i \in 1 .. payload.n |-> i]
    BY DEF CallInit, OwnerInit
  <2>2. payload.n \in Nat  BY <2>1, PayloadsAssumption DEF Payload
  <2>3. Len(guardians) = payload.n  BY <2>1, <2>2
  <2>4. active = k - 1 /\ pc # "announce" /\ pc \notin Sending  BY <2>1 DEF Sending
  <2>  QED  BY <2>3, <2>4 DEF AllReached
<1>2. OwnerInv /\ AllReached /\ [OwnerNext]_OwnerAll => AllReached'
  <2>  SUFFICES ASSUME OwnerInv, AllReached, [OwnerNext]_OwnerAll  PROVE AllReached'
    OBVIOUS
  <2>0. \A p, item : ~NotDelivered(p, item)  BY DEF NotDelivered
  <2>1. CASE Reject \/ PanicWithoutLetter \/ OpenFails \/ PanicOnUnreached \/ SplitKey
    <3>1. /\ pc = "start" /\ pc' \in {"announce", "failed", "panicked"}
          /\ (pc' = "announce" => validate(payload))
          /\ UNCHANGED <<payload, guardians, k, active>>
      BY <2>1 DEF Reject, PanicWithoutLetter, OpenFails, PanicOnUnreached, SplitKey, Opened
    <3>  QED  BY <3>1 DEF AllReached, Announcing, Sending, validate, Threshold, hasFilePaths
  <2>2. CASE Announce
    <3>1. /\ pc = "announce" /\ pc' = "announce" /\ payload' = payload
          /\ k' = k + 1 /\ active' = active + 1 /\ k \in Nat /\ active \in Nat
          /\ guardians' = [guardians EXCEPT ![active + 1] = guardians[k]]
          /\ guardians \in Seq(Peer) /\ active < k /\ k <= Len(guardians)
      BY <2>2 DEF Announce, Compacted, OwnerInv, OwnerTypeOK, OwnerCounters
    <3>2. Len(guardians') = Len(guardians)
      <4>1. k \in 1 .. Len(guardians)  BY <3>1, LenProperties
      <4>2. guardians[k] \in Peer /\ active + 1 \in 1 .. Len(guardians)
        BY <3>1, <4>1, ElementOfSeq, LenProperties
      <4>  QED  BY <3>1, <4>2, ExceptSeq
    <3>3. active' = k' - 1  BY <3>1 DEF AllReached, Announcing
    <3>  QED  BY <3>1, <3>2, <3>3
              DEF AllReached, Announcing, Sending, validate, Threshold, hasFilePaths
  <2>3. ~AnnounceFails  BY <2>0 DEF AnnounceFails
  <2>4. CASE CheckActive
    <3>1. /\ pc = "announce" /\ pc' \in {"archive", "failed"}
          /\ UNCHANGED <<payload, active>>
          /\ k > Len(guardians) /\ k <= Len(guardians) + 1
      BY <2>4 DEF CheckActive, OwnerInv, OwnerCounters
    <3>2. k \in Nat /\ active \in Nat /\ Len(guardians) \in Nat
      BY LenProperties DEF OwnerInv, OwnerTypeOK
    <3>3. active = k - 1 /\ Len(guardians) = payload.n /\ validate(payload)
      BY <3>1 DEF AllReached, Announcing
    <3>4. active = payload.n  BY <3>1, <3>2, <3>3
    <3>  QED  BY <3>1, <3>3, <3>4
              DEF AllReached, Announcing, Sending, validate, Threshold, hasFilePaths
  <2>5. CASE \/ SinkWrite \/ ArchiveEnds \/ FlushEnds \/ CloseEmpty \/ CloseFlushes
             \/ SendShard \/ SendShardFails \/ PrepareFails
             \/ SendManifest \/ SendManifestFails \/ SendShare \/ SendShareFails
    <3>1. pc \in Sending /\ UNCHANGED <<payload, active>>
      BY <2>5 DEF SinkWrite, ArchiveEnds, FlushEnds, CloseEmpty, CloseFlushes, SendShard,
                  SendShardFails, PrepareFails, BlockFails, SendManifest, SendManifestFails,
                  SendShare, SendShareFails, Sending
    <3>2. pc' \in Sending \cup {"failed"}
      <4>1. CASE SinkWrite \/ ArchiveEnds \/ FlushEnds \/ CloseEmpty \/ CloseFlushes
        BY <4>1 DEF SinkWrite, ArchiveEnds, FlushEnds, CloseEmpty, CloseFlushes, AfterArchive,
                    NextBlock, Sending
      <4>2. CASE SendShard \/ SendShardFails \/ PrepareFails
        BY <4>2 DEF SendShard, BlockSent, SendShardFails, PrepareFails, BlockFails,
                    AfterArchive, NextBlock, Sending
      <4>3. CASE SendManifest \/ SendManifestFails \/ SendShare \/ SendShareFails
        BY <4>3 DEF SendManifest, SendManifestFails, SendShare, SendShareFails, Sending
      <4>  QED  BY <2>5, <4>1, <4>2, <4>3
    <3>3. ~Announcing'  BY <3>2 DEF Announcing, Sending
    <3>  QED  BY <3>1, <3>3 DEF AllReached, Announcing, validate, Threshold, hasFilePaths
  <2>6. CASE UNCHANGED OwnerAll
    BY <2>6 DEF OwnerAll, ownerVars, AllReached, Announcing, validate, Threshold, hasFilePaths
  <2>  QED  BY <2>1, <2>2, <2>3, <2>4, <2>5, <2>6 DEF OwnerNext
<1>  QED  BY <1>1, <1>2, OwnerSafety, PTL DEF OwnerSpec

(* No threshold of its own, and at most one guardian above the minimum.    *)
Modest(pl) == pl.threshold = 0 /\ pl.n <= MinGuardians + 1

(* Where the call may return nil although the guardians it reached cannot  *)
(* recover the key, either a connection broke while it announced the       *)
(* capsule, or the payload asked for a threshold of its own or named more  *)
(* than one guardian above the minimum; validate compares the threshold    *)
(* with the guardians named, and nothing compares it with those reached.   *)
THEOREM ThresholdIsReached ==
  ASSUME Unreliable = {} \/ \A pl \in Payloads : Modest(pl)
  PROVE  OwnerSpec => []KeyIsRecoverable
<1>1. CASE Unreliable = {}
  <2>1. OwnerInv /\ SafetyInv /\ AllReached => KeyIsRecoverable
    <3>  SUFFICES ASSUME OwnerInv, SafetyInv, AllReached, pc = "ok"
                  PROVE  Cardinality(Active) >= Threshold(payload)
      BY DEF KeyIsRecoverable
    <3>1. Cardinality(Active) = active  BY ActiveCount DEF Sending
    <3>2. active = payload.n /\ Threshold(payload) <= payload.n
      BY DEF AllReached, Sending, validate
    <3>3. payload.n \in Nat /\ payload.threshold \in Int
      BY PayloadsAssumption DEF OwnerInv, OwnerTypeOK, Payload
    <3>4. Threshold(payload) \in Int
      BY <3>3 DEF Threshold, calculateDefaultThreshold
    <3>  QED  BY <3>1, <3>2, <3>3, <3>4
  <2>  QED  BY <1>1, <2>1, NobodyIsLost, OwnerSafety, PTL
<1>2. CASE \A pl \in Payloads : Modest(pl)
  <2>1. OwnerInv /\ SafetyInv => KeyIsRecoverable
    <3>  SUFFICES ASSUME OwnerInv, SafetyInv, pc = "ok"
                  PROVE  Cardinality(Active) >= Threshold(payload)
      BY DEF KeyIsRecoverable
    <3>1. Cardinality(Active) = active  BY ActiveCount DEF Sending
    <3>2. active >= MinGuardians /\ active \in Nat  BY BufferTypes DEF SafetyInv, KeyInv
    <3>3. payload \in Payloads /\ payload.n \in Nat
      BY PayloadsAssumption DEF OwnerInv, OwnerTypeOK, Payload
    <3>4. Threshold(payload) = calculateDefaultThreshold(payload.n)
          /\ payload.n <= MinGuardians + 1
      BY <1>2, <3>3 DEF Modest, Threshold
    <3>5. CASE payload.n <= 3
      <4>1. Threshold(payload) = 2  BY <3>3, <3>4, <3>5 DEF calculateDefaultThreshold
      <4>  QED  BY <3>1, <3>2, <4>1, MinGuardiansAssumption
    <3>6. CASE ~(payload.n <= 3)
      <4>1. Threshold(payload) \in 2 .. (payload.n - 1)
        BY <3>3, <3>4, <3>6, DefaultThresholdIsMajority
      <4>  QED  BY <3>1, <3>2, <3>3, <3>4, <4>1, MinGuardiansAssumption
    <3>  QED  BY <3>5, <3>6
  <2>  QED  BY <2>1, OwnerSafety, PTL
<1>  QED  BY <1>1, <1>2

(* Then a call that returns nil leaves the guardians it reached with all   *)
(* they need: the key, and every byte that was archived.                   *)
THEOREM ActiveBringItBack ==
  ASSUME "block" \notin CanFail,
         Unreliable = {} \/ \A pl \in Payloads : Modest(pl)
  PROVE  OwnerSpec => [](pc = "ok" => Suffices(Active) /\ RecoveredSize(Active) = written)
<1>1. KeyIsRecoverable /\ ActiveSuffice /\ ArchiveIsRecovered
        => (pc = "ok" => Suffices(Active) /\ RecoveredSize(Active) = written)
  BY DEF KeyIsRecoverable, ActiveSuffice, ArchiveIsRecovered, Suffices
<1>  QED  BY <1>1, ThresholdIsReached, ActiveAreEnough, WhatWasArchivedComesBack, PTL
=============================================================================
