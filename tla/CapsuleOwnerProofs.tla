------------------------- MODULE CapsuleOwnerProofs -------------------------
(* Proofs about CapsuleOwner, for every value of its constants.            *)
EXTENDS CapsuleOwner, SequenceTheorems, TLAPS

Sending == {"archive", "block", "manifest", "share", "ok"}

(* What the types of the counters rest on: the announce loop never runs    *)
(* over its own compaction, a full buffer stands behind every block that   *)
(* is not the last, and the manifest is shorter than the groups drawn.     *)
OwnerCounters ==
  /\ active <= Len(guardians)
  /\ pc \in {"start", "announce"} => /\ active < k /\ k <= Len(guardians) + 1
                                     /\ Len(guardians) <= NumPeers
  /\ pc \in Sending => Len(guardians) = active /\ active >= MinGuardians
  /\ pc \in {"manifest", "share"} => k <= active
  /\ bufLen <= written
  /\ pc = "block" /\ during # "close" => bufLen >= BlockSize
  /\ Len(manifest) <= group /\ blockID = Len(manifest) + 1
  /\ pc = "block" => Len(manifest) < group

OwnerInv == OwnerTypeOK /\ OwnerCounters

-----------------------------------------------------------------------------
(* A Send keeps the connections well-typed, whatever comes of it.          *)
LEMMA SendType ==
  ASSUME WireTypeOK, NEW p \in Peer, NEW item \in Item,
         Delivered(p, item) \/ NotDelivered(p, item)
  PROVE  WireTypeOK'
<1>. DEFINE cut == [item EXCEPT !.whole = FALSE]
<1>1. HasData(item) => cut \in Item
  BY DEF Item, HasData, StreamMsg, ShardMsg, ManifestMsg, ShareMsg
<1>2. \A x \in Item : Append(sent[p], x) \in Seq(Item)
  BY DEF WireTypeOK
<1>3. CASE Delivered(p, item)
  BY <1>2, <1>3 DEF Delivered, WireTypeOK
<1>4. CASE NotDelivered(p, item)
  <2>1. up' \in [Peer -> BOOLEAN]
    BY <1>4 DEF NotDelivered, WireTypeOK
  <2>2. CASE UNCHANGED sent
    BY <2>1, <2>2 DEF WireTypeOK
  <2>3. CASE HasData(item) /\ sent' = [sent EXCEPT ![p] = Append(@, cut)]
    BY <1>1, <1>2, <2>1, <2>3 DEF WireTypeOK
  <2>. QED BY <1>4, <2>2, <2>3 DEF NotDelivered
<1>. QED BY <1>3, <1>4

(* The messages of the call are messages of the protocol.                  *)
LEMMA ItemTypes ==
  ASSUME OwnerInv
  PROVE  /\ Stream \in Item
         /\ pc = "block" => ShardItem \in Item
         /\ ManifestItem \in Item
         /\ \A i \in Peer : ShareItem(i) \in Item
<1>1. Stream \in Item
  BY DEF Stream, Item, StreamMsg
<1>2. ASSUME pc = "block" PROVE ShardItem \in Item
  <2>1. group \in Group /\ shard \in 1 .. ShardsPerBlock
    BY <1>2, BoundsAssumption DEF OwnerInv, OwnerTypeOK, OwnerCounters, Group, Groups, Shard
  <2>2. (IF isFinal THEN bufLen ELSE BlockSize) \in 0 .. MaxWritten
    BY <1>2, BoundsAssumption, BlockSizeAssumption
       DEF OwnerInv, OwnerTypeOK, OwnerCounters, isFinal
  <2>3. isFinal \in BOOLEAN
    BY DEF isFinal
  <2>. QED BY <2>1, <2>2, <2>3 DEF ShardItem, Item, ShardMsg
<1>3. ManifestItem \in Item
  BY DEF OwnerInv, OwnerTypeOK, ManifestItem, Item, ManifestMsg
<1>4. \A i \in Peer : ShareItem(i) \in Item
  BY DEF ShareItem, Item, ShareMsg
<1>. QED BY <1>1, <1>2, <1>3, <1>4

(* The guardians the call talks to are connections of the payload.         *)
LEMMA ActiveArePeers ==
  ASSUME OwnerInv
  PROVE  /\ Active \subseteq Peer
         /\ \A i \in Shard : PickRemotePeer(i) \subseteq Peer
<1>1. Active \subseteq Peer
  BY ElementOfSeq, LenProperties DEF OwnerInv, OwnerTypeOK, OwnerCounters, Active
<1>2. \A i \in Shard : place[i] # 0 => place[i] \in Peer
  BY NumPeersAssumption DEF OwnerInv, OwnerTypeOK, Peer
<1>. QED BY <1>1, <1>2 DEF PickRemotePeer

(* Appending a group to a manifest shorter than the groups drawn.          *)
LEMMA AppendToManifest ==
  ASSUME manifest \in Groups, NEW g \in Group, Len(manifest) < MaxGroups
  PROVE  /\ Append(manifest, g) \in Groups
         /\ Len(Append(manifest, g)) = Len(manifest) + 1
<1>1. PICK m \in 0 .. MaxGroups : manifest \in [1 .. m -> Group]
  BY DEF Groups
<1>2. manifest \in Seq(Group) /\ Len(manifest) = m
  BY <1>1, BoundsAssumption
<1>3. /\ Append(manifest, g) \in Seq(Group)
      /\ Len(Append(manifest, g)) = m + 1
  BY <1>2
<1>4. Append(manifest, g) \in [1 .. m + 1 -> Group]
  BY <1>3, LenProperties
<1>5. m + 1 \in 0 .. MaxGroups
  BY <1>2, BoundsAssumption
<1>. QED BY <1>2, <1>3, <1>4, <1>5 DEF Groups

(* A block that fails, once the connections are seen to.                   *)
LEMMA BlockFailsInv ==
  ASSUME OwnerInv, BlockFails, pc = "block",
         WireTypeOK', place' \in [Shard -> 0 .. NumPeers]
  PROVE  OwnerInv'
<1>. USE DEF OwnerInv, OwnerTypeOK, OwnerCounters, Sending, Outcome, BlockFails
<1>1. archErr' \in BOOLEAN
  BY DEF isFinal
<1>2. pc' \in {"failed", "manifest", "archive"} /\ k' \in 1 .. (NumPeers + 1)
  BY NumPeersAssumption DEF AfterArchive
<1>3. pc' = "manifest" => k' <= active'
  BY MinGuardiansAssumption DEF isFinal
<1>. QED BY <1>1, <1>2, <1>3

(* OwnerInv is inductive: first it holds at the call.                      *)
LEMMA OwnerInvInit == WireInit /\ OwnerInit => OwnerInv
<1>. SUFFICES ASSUME WireInit, OwnerInit PROVE OwnerInv
  OBVIOUS
<1>. USE DEF WireInit, OwnerInit
<1>1. payload \in Payload /\ payload.n <= NumPeers /\ payload.n \in Nat
  BY PayloadsAssumption DEF Payload
<1>2. guardians \in Seq(Peer) /\ Len(guardians) = payload.n
  <2>1. 1 .. payload.n \subseteq Peer
    BY <1>1, NumPeersAssumption DEF Peer
  <2>. QED BY <1>1, <2>1
<1>3. manifest \in Groups /\ Len(manifest) = 0
  <2>1. <<>> \in [1 .. 0 -> Group]
    OBVIOUS
  <2>. QED BY <2>1, BoundsAssumption DEF Groups
<1>4. WireTypeOK
  BY DEF WireTypeOK
<1>5. place \in [Shard -> 0 .. NumPeers]
  BY NumPeersAssumption DEF Unplaced
<1>6. OwnerTypeOK
  <2>1. /\ pc = "start" /\ during = "files" /\ archErr = FALSE /\ payload \in Payloads
        /\ k = 1 /\ active = 0 /\ written = 0 /\ bufLen = 0
        /\ blockID = 1 /\ group = 0 /\ shard = 1
    OBVIOUS
  <2>. HIDE DEF WireInit, OwnerInit
  <2>2. /\ k \in 1 .. (NumPeers + 1) /\ active \in 0 .. NumPeers
        /\ written \in 0 .. MaxWritten /\ bufLen \in 0 .. MaxWritten
        /\ blockID \in 1 .. (MaxGroups + 1) /\ group \in 0 .. MaxGroups
    BY <2>1, NumPeersAssumption, BoundsAssumption
  <2>3. shard \in Shard
    BY <2>1, ShardsAssumption DEF Shard
  <2>. QED BY <1>2, <1>3, <1>4, <1>5, <2>1, <2>2, <2>3 DEF OwnerTypeOK
<1>7. OwnerCounters
  BY <1>1, <1>2, <1>3 DEF OwnerCounters, Sending
<1>. QED BY <1>6, <1>7 DEF OwnerInv

(* ... and no step breaks it.                                              *)
LEMMA OwnerInvNext == OwnerInv /\ [OwnerNext]_OwnerAll => OwnerInv'
<1>. SUFFICES ASSUME OwnerInv, [OwnerNext]_OwnerAll PROVE OwnerInv'
  OBVIOUS
<1>. USE NumPeersAssumption, ShardsAssumption, BoundsAssumption, BlockSizeAssumption,
         MinGuardiansAssumption
     DEF OwnerInv, OwnerTypeOK, OwnerCounters, Sending, Outcome, Shard
<1>. DEFINE Silent == \/ Reject \/ PanicWithoutLetter \/ OpenFails \/ PanicOnUnreached
                      \/ SplitKey \/ CheckActive \/ SinkWrite \/ ArchiveEnds \/ FlushEnds
                      \/ CloseEmpty \/ CloseFlushes \/ PrepareFails \/ UNCHANGED OwnerAll
<1>0. CASE Silent
  <2>. UNCHANGED wireVars
    BY <1>0 DEF OwnerAll, Reject, PanicWithoutLetter, OpenFails, PanicOnUnreached,
           SplitKey, CheckActive, SinkWrite, ArchiveEnds, FlushEnds, CloseEmpty,
           CloseFlushes, PrepareFails
  <2>. WireTypeOK'
    BY DEF wireVars, WireTypeOK
  <2>1. CASE Reject
    BY <2>1 DEF Reject, sinkVars
  <2>2. CASE PanicWithoutLetter
    BY <2>2 DEF PanicWithoutLetter, sinkVars
  <2>3. CASE OpenFails
    BY <2>3 DEF OpenFails, sinkVars
  <2>4. CASE PanicOnUnreached
    BY <2>4 DEF PanicOnUnreached, sinkVars
  <2>5. CASE SplitKey
    BY <2>5 DEF SplitKey, sinkVars
  <2>6. CASE CheckActive
    <3>1. CASE TooFew
      BY <2>6, <3>1 DEF CheckActive, TooFew, sinkVars
    <3>2. CASE ~TooFew
      <4>1. /\ guardians' \in Seq(Peer) /\ Len(guardians') = active
        <5>1. \A i \in 1 .. active : guardians[i] \in Peer
          BY ElementOfSeq
        <5>2. guardians' = SubSeq(guardians, 1, active)
          BY <2>6, <3>2 DEF CheckActive
        <5>. QED BY <5>1, <5>2, SubSeqProperties
      <4>. QED BY <2>6, <3>2, <4>1 DEF CheckActive, TooFew, sinkVars
    <3>. QED BY <3>1, <3>2
  <2>7. CASE SinkWrite
    BY <2>7 DEF SinkWrite, NextBlock
  <2>8. CASE ArchiveEnds
    BY <2>8 DEF ArchiveEnds
  <2>9. CASE FlushEnds
    BY <2>9 DEF FlushEnds
  <2>10. CASE CloseEmpty
    BY <2>10 DEF CloseEmpty, AfterArchive, sinkVars
  <2>11. CASE CloseFlushes
    BY <2>11 DEF CloseFlushes, NextBlock
  <2>12. CASE PrepareFails
    <3>1. BlockFails /\ pc = "block" /\ UNCHANGED place
      BY <2>12 DEF PrepareFails
    <3>. QED BY <3>1, BlockFailsInv
  <2>13. CASE UNCHANGED OwnerAll
    BY <2>13 DEF OwnerAll, ownerVars, sinkVars
  <2>. QED BY <1>0, <2>1, <2>2, <2>3, <2>4, <2>5, <2>6, <2>7, <2>8, <2>9, <2>10, <2>11, <2>12,
              <2>13
<1>1. CASE Announce
  <2>1. guardians[k] \in Peer
    BY <1>1, ElementOfSeq DEF Announce
  <2>2. WireTypeOK'
    BY <1>1, <2>1, SendType, ItemTypes DEF Announce
  <2>3. guardians' \in Seq(Peer) /\ Len(guardians') = Len(guardians)
    <3>1. active + 1 \in 1 .. Len(guardians)
      BY <1>1 DEF Announce
    <3>. QED BY SMTT(20), <1>1, <2>1, <3>1, ExceptSeq DEF Announce, Compacted
  <2>. QED BY <1>1, <2>2, <2>3 DEF Announce, sinkVars
<1>2. CASE AnnounceFails
  <2>1. guardians[k] \in Peer
    BY <1>2, ElementOfSeq DEF AnnounceFails
  <2>2. WireTypeOK'
    BY <1>2, <2>1, SendType, ItemTypes DEF AnnounceFails
  <2>. QED BY <1>2, <2>2 DEF AnnounceFails, sinkVars
<1>3. CASE SendShard
  <2>1. PICK p \in PickRemotePeer(shard) :
          /\ Delivered(p, ShardItem)
          /\ IF LastShard THEN BlockSent
             ELSE /\ shard' = shard + 1
                  /\ place' = [place EXCEPT ![shard] = p]
                  /\ UNCHANGED <<pc, k, bufLen, blockID, group, manifest>>
    BY <1>3 DEF SendShard
  <2>2. p \in Peer /\ pc = "block"
    BY <1>3, <2>1, ActiveArePeers DEF SendShard
  <2>3. WireTypeOK'
    BY <2>1, <2>2, SendType, ItemTypes
  <2>4. CASE ~LastShard
    <3>1. shard' \in Shard /\ place' \in [Shard -> 0 .. NumPeers]
      <4>1. shard' = shard + 1 /\ place' = [place EXCEPT ![shard] = p]
        BY <2>1, <2>4
      <4>2. shard # ShardsPerBlock /\ p \in 0 .. NumPeers
        BY <2>2, <2>4 DEF LastShard, Peer
      <4>. QED BY <4>1, <4>2
    <3>. QED BY <1>3, <2>1, <2>3, <2>4, <3>1 DEF SendShard
  <2>5. CASE LastShard
    <3>1. BlockSent
      BY <2>1, <2>5
    <3>2. group \in Group
      BY <2>2 DEF Group, Groups
    <3>3. manifest' \in Groups /\ Len(manifest') = Len(manifest) + 1
      BY <2>2, <3>1, <3>2, AppendToManifest DEF BlockSent
    <3>4. place' \in [Shard -> 0 .. NumPeers]
      BY <3>1 DEF BlockSent, Unplaced
    <3>5. UNCHANGED <<payload, guardians, active, during, archErr, written>>
      BY <1>3 DEF SendShard
    <3>6. CASE isFinal
      BY SMTT(20), <2>2, <2>3, <3>1, <3>3, <3>4, <3>5, <3>6 DEF BlockSent, AfterArchive
    <3>7. CASE ~isFinal
      <4>1. bufLen' = BlockSize /\ bufLen >= BlockSize /\ blockID' = blockID + 1
        BY <2>2, <3>1, <3>7 DEF BlockSent, KeepAfterBlock, isFinal
      <4>2. UNCHANGED k /\ NextBlock
        BY <3>1, <3>7, <4>1 DEF BlockSent
      <4>3. pc' = "block" /\ group' = group + 1 /\ group < MaxGroups /\ shard' \in Shard
        BY <4>2 DEF NextBlock
      <4>4. /\ bufLen' \in 0 .. MaxWritten /\ group' \in 0 .. MaxGroups
            /\ blockID' \in 1 .. (MaxGroups + 1) /\ bufLen' <= written
        BY <2>2, <4>1, <4>3
      <4>5. OwnerTypeOK'
        BY <2>3, <3>3, <3>4, <3>5, <4>2, <4>3, <4>4
      <4>6. OwnerCounters'
        BY <2>2, <3>3, <3>5, <4>1, <4>2, <4>3, <4>4
      <4>. QED BY <4>5, <4>6
    <3>. QED BY <3>6, <3>7
  <2>. QED BY <2>4, <2>5
<1>4. CASE SendShardFails
  <2>1. PICK p \in PickRemotePeer(shard) : /\ NotDelivered(p, ShardItem)
                                           /\ place' = [place EXCEPT ![shard] = p]
    BY <1>4 DEF SendShardFails
  <2>2. p \in Peer /\ pc = "block" /\ BlockFails
    BY <1>4, <2>1, ActiveArePeers DEF SendShardFails
  <2>3. WireTypeOK'
    BY <2>1, <2>2, SendType, ItemTypes
  <2>4. place' \in [Shard -> 0 .. NumPeers]
    BY <2>1, <2>2 DEF Peer
  <2>. QED BY <2>2, <2>3, <2>4, BlockFailsInv
<1>5. ASSUME pc \in {"manifest", "share"}
      PROVE  guardians[k] \in Peer /\ k \in Peer
  BY <1>5, ElementOfSeq DEF Peer
<1>6. CASE SendManifest \/ SendManifestFails
  <2>1. WireTypeOK'
    BY <1>5, <1>6, SendType, ItemTypes DEF SendManifest, SendManifestFails
  <2>2. CASE SendManifest
    BY <2>1, <2>2 DEF SendManifest, sinkVars
  <2>3. CASE SendManifestFails
    BY <2>1, <2>3 DEF SendManifestFails, sinkVars
  <2>. QED BY <1>6, <2>2, <2>3
<1>7. CASE SendShare \/ SendShareFails
  <2>1. WireTypeOK'
    BY <1>5, <1>7, SendType, ItemTypes DEF SendShare, SendShareFails
  <2>2. CASE SendShare
    BY <2>1, <2>2 DEF SendShare, sinkVars
  <2>3. CASE SendShareFails
    BY <2>1, <2>3 DEF SendShareFails, sinkVars
  <2>. QED BY <1>7, <2>2, <2>3
<1>. QED BY <1>0, <1>1, <1>2, <1>3, <1>4, <1>6, <1>7 DEF OwnerNext

(* Every variable of the owner keeps its type.                             *)
THEOREM OwnerTypeCorrect == OwnerSpec => []OwnerTypeOK
<1>1. WireInit /\ OwnerInit => OwnerInv
  BY OwnerInvInit
<1>2. OwnerInv /\ [OwnerNext]_OwnerAll => OwnerInv'
  BY OwnerInvNext
<1>3. OwnerInv => OwnerTypeOK
  BY DEF OwnerInv
<1>. QED BY <1>1, <1>2, <1>3, PTL DEF OwnerSpec, CallInit
=============================================================================
