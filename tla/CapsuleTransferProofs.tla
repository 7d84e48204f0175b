------------------------ MODULE CapsuleTransferProofs ------------------------
(* Proofs about CapsuleTransfer: the owner and the guardians together.     *)
EXTENDS CapsuleTransfer, CapsuleOwnerStreamProofs, CapsuleGuardianProofs

-----------------------------------------------------------------------------
(***************************************************************************)
(* Each half, in the company of the other, is what it is alone.            *)
(***************************************************************************)

(* Whatever the guardians do, the owner takes the steps it takes alone: no *)
(* message ever goes back to it.                                           *)
THEOREM OwnerIsItself == TransferSpec => OwnerSpec
<1>1. TransferInit => CallInit  BY DEF TransferInit, CallInit
<1>2. [TransferNext]_transferVars => [OwnerNext]_OwnerAll
  BY DEF TransferNext, OwnerMoves, GuardianMoves, GuardianBreaks, transferVars, OwnerAll
<1>  QED  BY <1>1, <1>2, PTL DEF TransferSpec, OwnerSpec

LEMMA OwnerSide == TransferSpec => [](OwnerInv /\ SafetyInv /\ SinkInv)
<1>  QED  BY OwnerIsItself, OwnerSink, PTL

(* What the guardians are written by the owner, through every failure of   *)
(* its own, is a stream of the protocol: all that is shown of a guardian   *)
(* against the protocol holds of a guardian of this owner.                 *)
THEOREM GuardiansAreThemselves == TransferSpec => GuardianSpec
<1>  DEFINE Next == \/ GuardianNext /\ UNCHANGED wireVars
                    \/ StreamNext /\ UNCHANGED guardianVars
<1>1. TransferInit => ReadingInit  BY DEF TransferInit, ReadingInit
<1>2. ASSUME OwnerInv, SafetyInv, SinkInv, [TransferNext]_transferVars
      PROVE  [Next]_GuardianAll
  <2>1. CASE OwnerMoves
    <3>1. [StreamNext]_wireVars  BY <1>2, <2>1, OwnerStepsFollow DEF OwnerMoves
    <3>  QED  BY <2>1, <3>1 DEF OwnerMoves, GuardianAll
  <2>2. ASSUME NEW p \in Peer, GuardianMoves(p) \/ GuardianBreaks(p)  PROVE Next
    BY <2>2 DEF GuardianMoves, GuardianBreaks, GuardianNext
  <2>3. CASE UNCHANGED transferVars  BY <2>3 DEF transferVars, GuardianAll
  <2>  QED  BY <1>2, <2>1, <2>2, <2>3 DEF TransferNext
<1>3. OwnerInv /\ SafetyInv /\ SinkInv /\ [TransferNext]_transferVars => [Next]_GuardianAll
  BY <1>2
<1>  QED  BY <1>1, <1>3, OwnerSide, PTL DEF TransferSpec, GuardianSpec

LEMMA GuardianSide == TransferSpec => []ReadingInv
<1>  QED  BY GuardiansAreThemselves, ReadingInvHolds, PTL

-----------------------------------------------------------------------------
(***************************************************************************)
(* There is one manifest.                                                  *)
(***************************************************************************)

(* Every manifest on its way is the one the owner ended with.              *)
AgreedInv == \A p \in Peer : \A i \in 1 .. Len(sent[p]) :
               sent[p][i].kind = "manifest" => sent[p][i].groups = manifest

(* A Send keeps it so: where the manifest still grows none is on its way.  *)
LEMMA AgreedStays ==
  ASSUME WireTypeOK, AgreedInv, NEW p \in Peer,
         Lost \/ \E x \in Item : Sent(p, x) /\ (x.kind = "manifest" => x.groups = manifest'),
         manifest' = manifest \/ \A q \in Peer : OnlyKinds(q, Early)
  PROVE  AgreedInv'
<1>1. ASSUME NEW q \in Peer, NEW i \in 1 .. Len(sent[q]), sent[q][i].kind = "manifest"
      PROVE  sent[q][i].groups = manifest'
  BY <1>1 DEF AgreedInv, OnlyKinds, Early
<1>2. CASE Lost  BY <1>1, <1>2 DEF Lost, AgreedInv
<1>3. ASSUME NEW x \in Item, Sent(p, x), x.kind = "manifest" => x.groups = manifest',
             NEW q \in Peer, NEW i \in 1 .. Len(sent'[q]), sent'[q][i].kind = "manifest"
      PROVE  sent'[q][i].groups = manifest'
  <2>1. CASE q # p  BY <1>1, <1>3, <2>1, SentAppends
  <2>2. CASE q = p
    <3>1. /\ Len(sent[p]) \in Nat /\ Len(sent'[p]) = Len(sent[p]) + 1
          /\ \A j \in 1 .. Len(sent[p]) : sent'[p][j] = sent[p][j]
          /\ sent'[p][Len(sent[p]) + 1] = x
      BY <1>3, SentAppends
    <3>2. CASE i \in 1 .. Len(sent[p])  BY <1>1, <1>3, <2>2, <3>1, <3>2
    <3>3. CASE i = Len(sent[p]) + 1  BY <1>3, <2>2, <3>1, <3>3
    <3>  QED  BY <1>3, <2>2, <3>1, <3>2, <3>3
  <2>  QED  BY <2>1, <2>2
<1>  QED  BY <1>2, <1>3 DEF AgreedInv

LEMMA OwnerAgrees == OwnerSpec => []AgreedInv
<1>1. CallInit => AgreedInv
  <2>  SUFFICES ASSUME CallInit, NEW p \in Peer PROVE Len(sent[p]) = 0  BY DEF AgreedInv
  <2>  QED  BY EmptySeq DEF CallInit, WireInit
<1>2. ASSUME OwnerInv, SafetyInv, AgreedInv, [OwnerNext]_OwnerAll  PROVE AgreedInv'
  <2>0. WireTypeOK /\ manifest \in Groups  BY <1>2 DEF OwnerInv, OwnerTypeOK
  <2>1. CASE sent' = sent /\ manifest' = manifest  BY <1>2, <2>1 DEF AgreedInv
  <2>2. CASE \/ Reject \/ PanicWithoutLetter \/ OpenFails \/ PanicOnUnreached \/ SplitKey
             \/ CheckActive \/ SinkWrite \/ ArchiveEnds \/ FlushEnds \/ CloseEmpty
             \/ CloseFlushes \/ PrepareFails \/ UNCHANGED OwnerAll
    BY <2>1, <2>2 DEF Reject, PanicWithoutLetter, OpenFails, PanicOnUnreached, SplitKey,
                      CheckActive, SinkWrite, ArchiveEnds, FlushEnds, CloseEmpty,
                      CloseFlushes, PrepareFails, BlockFails, sinkVars, wireVars, OwnerAll,
                      ownerVars
  <2>3. CASE Announce \/ AnnounceFails
    <3>1. guardians[k] \in Peer /\ manifest' = manifest
          /\ (Delivered(guardians[k], Stream) \/ NotDelivered(guardians[k], Stream))
      <4>1. k \in 1 .. Len(guardians) /\ guardians \in Seq(Peer)
        BY <1>2, <2>3, LenProperties DEF Announce, AnnounceFails, OwnerInv, OwnerTypeOK
      <4>  QED  BY <2>3, <4>1, ElementOfSeq DEF Announce, AnnounceFails, sinkVars
    <3>2. Stream \in Item /\ Stream.kind = "stream" /\ ~HasData(Stream)
      BY <1>2, ItemTypes DEF Stream, HasData
    <3>3. Lost \/ \E x \in Item : Sent(guardians[k], x) /\ x.kind = "stream"
      BY <2>0, <3>1, <3>2, SendCases
    <3>  QED  BY <1>2, <2>0, <3>1, <3>3, AgreedStays
  <2>4. CASE SendShard \/ SendShardFails
    <3>1. pc = "block"  BY <2>4 DEF SendShard, SendShardFails
    <3>2. PICK p \in Peer : Delivered(p, ShardItem) \/ NotDelivered(p, ShardItem)
      <4>1. shard \in Shard  BY <1>2 DEF OwnerInv, OwnerTypeOK
      <4>  QED  BY <1>2, <2>4, <4>1, ActiveArePeers DEF SendShard, SendShardFails
    <3>3. Lost \/ \E x \in Item : Sent(p, x) /\ x.kind = "shard"
      BY <1>2, <2>0, <3>1, <3>2, ItemTypes, ShardCases
    <3>4. \A q \in Peer : OnlyKinds(q, Early)  BY <1>2, <3>1 DEF SafetyInv, GrammarInv
    <3>  QED  BY <1>2, <2>0, <3>3, <3>4, AgreedStays
  <2>5. CASE SendManifest \/ SendManifestFails
    <3>1. pc = "manifest" /\ manifest' = manifest
      BY <2>5 DEF SendManifest, SendManifestFails, sinkVars
    <3>2. PICK p \in Active : p = guardians[k] /\ p \in Peer  BY <1>2, <3>1, LoopSends
    <3>3. Lost \/ (Sent(p, ManifestItem) /\ ManifestItem \in Item)
      <4>1. ManifestItem \in Item /\ ManifestItem.kind = "manifest" /\ ~HasData(ManifestItem)
        BY <1>2, <3>1, LoopSends
      <4>2. CASE Delivered(p, ManifestItem)  BY <4>1, <4>2 DEF Delivered, Sent
      <4>3. CASE NotDelivered(p, ManifestItem)
        BY <2>0, <4>1, <4>3 DEF NotDelivered, Lost, WireTypeOK
      <4>  QED  BY <2>5, <3>2, <4>2, <4>3 DEF SendManifest, SendManifestFails
    <3>4. ManifestItem.groups = manifest  BY DEF ManifestItem
    <3>  QED  BY <1>2, <2>0, <3>1, <3>2, <3>3, <3>4, AgreedStays
  <2>6. CASE SendShare \/ SendShareFails
    <3>1. pc = "share" /\ manifest' = manifest  BY <2>6 DEF SendShare, SendShareFails, sinkVars
    <3>2. PICK p \in Active : p = guardians[k] /\ p \in Peer  BY <1>2, <3>1, LoopSends
    <3>3. Lost \/ \E x \in Item : Sent(p, x) /\ x.kind = "share"
      <4>1. PICK item \in Item : /\ item.kind = "share" /\ (HasData(item) => item.whole)
                                 /\ Delivered(p, item) \/ NotDelivered(p, item)
        BY <1>2, <2>6, <3>1, <3>2, LoopSends DEF SendShare, SendShareFails
      <4>2. Lost \/ \E x \in Item : Sent(p, x) /\ x.kind = item.kind
        BY <2>0, <3>2, <4>1, SendCases
      <4>  QED  BY <4>1, <4>2
    <3>  QED  BY <1>2, <2>0, <3>1, <3>2, <3>3, AgreedStays
  <2>  QED  BY <1>2, <2>2, <2>3, <2>4, <2>5, <2>6 DEF OwnerNext
<1>3. OwnerInv /\ SafetyInv /\ AgreedInv /\ [OwnerNext]_OwnerAll => AgreedInv'  BY <1>2
<1>  QED  BY <1>1, <1>3, OwnerSafety, PTL DEF OwnerSpec

-----------------------------------------------------------------------------
(***************************************************************************)
(* What the guardians hold together.                                       *)
(***************************************************************************)

(* When every active guardian's handler returned nil, every shard of every *)
(* block the manifest lists is on record at one of them, its file its own  *)
(* or taken by a later shard's, for any number of blocks, retries and      *)
(* storage errors: the owner's manifest lists only groups written in full, *)
(* and a handler that returns nil has a row for all its connection was     *)
(* written.                                                                *)
THEOREM WhatIsReceivedIsWhole == TransferSpec => []ReceivedIsWhole
<1>1. ASSUME OwnerInv, SafetyInv, SinkInv, ReadingInv, \A p \in Active : Received(p),
             NEW j \in 1 .. Len(manifest), NEW x \in Shard
      PROVE  \E p \in Active : \E i \in 1 .. Len(sent[p]) :
               /\ IsShard(p, i) /\ Id(sent[p][i]) = <<manifest[j], x>>
               /\ <<manifest[j], x>> \in metas[p] /\ HasFile(p, i)
  <2>1. manifest[j] \in Group
    <3>1. manifest \in Seq(Group)  BY <1>1, BlockTypes
    <3>  QED  BY <1>1, <3>1, ElementOfSeq
  <2>2. PICK p \in Active : \E i \in 1 .. Len(sent[p]) :
          sent[p][i].kind = "shard" /\ sent[p][i].group = manifest[j] /\ sent[p][i].index = x
    BY <1>1, <2>1 DEF SinkInv, BackedInv, ManifestIsBacked, InManifest
  <2>3. PICK i \in 1 .. Len(sent[p]) : IsShard(p, i) /\ Id(sent[p][i]) = <<manifest[j], x>>
    BY <2>2 DEF Id, IsShard
  <2>4. p \in Peer  BY <1>1, <2>2, BlockTypes
  <2>5. Id(sent[p][i]) \in metas[p]
    BY <1>1, <2>3, <2>4 DEF ReadingInv, ReadInv, Received, AllShardsStored
  <2>6. TypesInv /\ StreamInv(p) /\ LocalInv(p)  BY <1>1, <2>4 DEF ReadingInv, GuardianInv
  <2>7. i \in 1 .. next[p] - 1  BY <2>3, <2>4, <2>5, <2>6, HeldWereRead
  <2>8. HasFile(p, i)  BY <2>3, <2>5, <2>6, <2>7 DEF LocalInv, FilesInv
  <2>  QED  BY <2>2, <2>3, <2>5, <2>8
<1>2. OwnerInv /\ SafetyInv /\ SinkInv /\ ReadingInv => ReceivedIsWhole
  BY <1>1 DEF ReceivedIsWhole
<1>  QED  BY <1>2, OwnerSide, GuardianSide, PTL

(* Two guardians never hold different manifests or the same key share,     *)
(* whichever of them crashed or gave up after storing it.                  *)
THEOREM GuardiansNeverDisagree == TransferSpec => []GuardiansAgree
<1>1. ASSUME SafetyInv, AgreedInv, ReadingInv, NEW p \in Peer, NEW q \in Peer, p # q
      PROVE  /\ manifests[p] # {} /\ manifests[q] # {} => manifests[p] = manifests[q]
             /\ shares[p] \cap shares[q] = {}
  <2>1. \A r \in Peer : /\ manifests[r] # {} => ManifestStored(r)
                        /\ shares[r] # {} => ShareStored(r)
    BY <1>1 DEF ReadingInv, ReadInv
  <2>2. \A r \in Peer : manifests[r] # {} => manifests[r] = {manifest}
    BY <1>1, <2>1 DEF AgreedInv, ManifestStored
  <2>3. SharesAreDistinct  BY <1>1 DEF SafetyInv, SharesInPlace, SharesAreDistinct
  <2>4. shares[p] \cap shares[q] = {}
    BY <1>1, <2>1, <2>3 DEF ShareStored, SharesAreDistinct
  <2>  QED  BY <2>2, <2>4
<1>2. SafetyInv /\ AgreedInv /\ ReadingInv => GuardiansAgree  BY <1>1 DEF GuardiansAgree
<1>3. TransferSpec => []AgreedInv  BY OwnerIsItself, OwnerAgrees, PTL
<1>  QED  BY <1>2, <1>3, OwnerSide, GuardianSide, PTL
=============================================================================
