----------------------- MODULE CapsuleOwnerStreamProofs -----------------------
(* The blocks of a capsule, over connections that break and blocks that    *)
(* are tried again, and the protocol the owner's messages follow.          *)
EXTENDS CapsuleOwnerSafetyProofs, StreamProtocol

-----------------------------------------------------------------------------
(***************************************************************************)
(* The invariant.                                                          *)
(***************************************************************************)

(* Shard s was written to some guardian, with its data or without.         *)
Written(s) == \E p \in Peer : \E i \in 1 .. Len(sent[p]) :
                sent[p][i].kind = "shard" /\ sent[p][i] = s

Backed(g, x) == \E p \in Active : \E i \in 1 .. Len(sent[p]) :
                  /\ sent[p][i].kind = "shard" /\ sent[p][i].whole
                  /\ sent[p][i].group = g /\ sent[p][i].index = x

(* The block cannot be completed: one of the shards still to be sent has   *)
(* its place on a connection that is broken.                               *)
Stuck == \E x \in Shard : /\ place[x] # 0 /\ ~up[place[x]]
                          /\ pc = "block" => shard <= x

(* Where the shards written belong among the groups drawn so far.          *)
ShardInv(s) ==
  /\ s.group <= group
  /\ pc = "archive" => ~s.final
  /\ pc = "block" => \/ s.group < group /\ ~s.final
                     \/ s.group = group /\ s.index < shard /\ s.final = isFinal

(* A group that was given up stays the last one.                           *)
BrokenInv(s) ==
  ~InManifest(s.group) =>
    /\ \A j \in 1 .. Len(manifest) : manifest[j] < s.group
    /\ pc = "archive" \/ (pc = "block" /\ s.group < group) => Stuck

ManifestInv ==
  /\ \A j \in 1 .. Len(manifest) : manifest[j] <= group /\ (pc = "block" => manifest[j] < group)
  /\ pc \in {"start", "announce"} => manifest = <<>>

BackedInv ==
  /\ ManifestIsBacked
  /\ pc = "block" => \A x \in 1 .. shard - 1 : Backed(group, x)

SinkInv == /\ \A s \in ShardMsg : Written(s) => ShardInv(s) /\ BrokenInv(s)
           /\ ManifestInv /\ BackedInv

-----------------------------------------------------------------------------
(***************************************************************************)
(* What a Send adds.                                                       *)
(***************************************************************************)

LEMMA KindsOfItems ==
  /\ \A x \in Item : x.kind = "shard" <=> x \in ShardMsg
  /\ \A s \in ShardMsg : /\ s.group \in Group /\ s.index \in Shard /\ s.final \in BOOLEAN
                         /\ s.whole \in BOOLEAN
<1>  QED  BY DEF Item, StreamMsg, ShardMsg, ManifestMsg, ShareMsg, Shard

(* The shards there are after a Send.                                      *)
LEMMA WrittenAfter ==
  ASSUME WireTypeOK, NEW p \in Peer, NEW x \in Item, Sent(p, x), NEW s, Written(s)'
  PROVE  Written(s) \/ (s = x /\ x.kind = "shard")
<1>1. PICK q \in Peer : \E i \in 1 .. Len(sent'[q]) : sent'[q][i].kind = "shard" /\ sent'[q][i] = s
  BY DEF Written
<1>0. PICK i \in 1 .. Len(sent'[q]) : sent'[q][i].kind = "shard" /\ sent'[q][i] = s
  BY <1>1
<1>2. CASE q # p
  BY <1>0, <1>2, SentAppends DEF Written
<1>3. CASE q = p
  <2>1. /\ Len(sent'[p]) = Len(sent[p]) + 1 /\ Len(sent[p]) \in Nat
        /\ \A j \in 1 .. Len(sent[p]) : sent'[p][j] = sent[p][j]
        /\ sent'[p][Len(sent[p]) + 1] = x
    BY SentAppends
  <2>2. CASE i \in 1 .. Len(sent[p])  BY <1>0, <1>3, <2>1, <2>2 DEF Written
  <2>3. CASE i = Len(sent[p]) + 1  BY <1>0, <1>3, <2>1, <2>3
  <2>  QED  BY <1>3, <2>1, <2>2, <2>3
<1>  QED  BY <1>2, <1>3

(* A shard that is there with its data stays.                              *)
LEMMA BackedStays ==
  ASSUME WireTypeOK, Active \subseteq Peer, Active' = Active,
         NEW p \in Peer, Lost \/ \E x \in Item : Sent(p, x),
         NEW g, NEW n, Backed(g, n)
  PROVE  Backed(g, n)'
<1>1. CASE Lost  BY <1>1 DEF Lost, Backed
<1>2. ASSUME NEW x \in Item, Sent(p, x)  PROVE Backed(g, n)'
  <2>0. PICK q \in Active : \E i \in 1 .. Len(sent[q]) :
          /\ sent[q][i].kind = "shard" /\ sent[q][i].whole
          /\ sent[q][i].group = g /\ sent[q][i].index = n
    BY DEF Backed
  <2>1. PICK i \in 1 .. Len(sent[q]) :
          /\ sent[q][i].kind = "shard" /\ sent[q][i].whole
          /\ sent[q][i].group = g /\ sent[q][i].index = n
    BY <2>0
  <2>2. i \in 1 .. Len(sent'[q]) /\ sent'[q][i] = sent[q][i]
    <3>1. CASE q # p  BY <1>2, <3>1, SentAppends
    <3>2. CASE q = p  BY <1>2, <3>2, SentAppends
    <3>  QED  BY <3>1, <3>2
  <2>  QED  BY <2>1, <2>2 DEF Backed
<1>  QED  BY <1>1, <1>2

LEMMA ManifestStaysBacked ==
  ASSUME WireTypeOK, Active \subseteq Peer, Active' = Active, manifest' = manifest,
         NEW p \in Peer, Lost \/ \E x \in Item : Sent(p, x),
         ManifestIsBacked
  PROVE  ManifestIsBacked'
<1>1. \A g \in Group : InManifest(g) => \A x \in Shard : Backed(g, x)
  BY DEF ManifestIsBacked, Backed
<1>2. ASSUME NEW g \in Group, InManifest(g)', NEW x \in Shard  PROVE Backed(g, x)'
  <2>1. Backed(g, x)  BY <1>1, <1>2 DEF InManifest
  <2>  QED  BY <2>1, BackedStays
<1>  QED  BY <1>2 DEF ManifestIsBacked, Backed

(* Sending the shard at hand: nothing is written, or that shard of that    *)
(* group is, whole if the Send returns no error.                           *)
LEMMA ShardCases ==
  ASSUME WireTypeOK, NEW p \in Peer, ShardItem \in Item,
         Delivered(p, ShardItem) \/ NotDelivered(p, ShardItem)
  PROVE  \/ Lost
         \/ \E x \in Item : /\ Sent(p, x) /\ x.kind = "shard"
                            /\ x.group = group /\ x.index = shard /\ x.final = isFinal
<1>1. /\ ShardItem.kind = "shard" /\ ShardItem.group = group /\ ShardItem.index = shard
      /\ ShardItem.final = isFinal /\ ShardItem.whole
  BY DEF ShardItem
<1>2. CASE Delivered(p, ShardItem)
  BY <1>1, <1>2 DEF Delivered, Sent
<1>3. CASE NotDelivered(p, ShardItem)
  <2>1. up' = [up EXCEPT ![p] = FALSE] /\ (\A q \in Peer : up'[q] => up[q]) /\ ~up'[p]
    BY <1>3 DEF NotDelivered, WireTypeOK
  <2>2. CASE sent' = sent  BY <2>1, <2>2 DEF Lost
  <2>3. CASE up[p] /\ sent' = [sent EXCEPT ![p] = Append(@, [ShardItem EXCEPT !.whole = FALSE])]
    <3>1. PICK item \in ShardMsg : item = ShardItem  BY <1>1, KindsOfItems
    <3>  DEFINE x == [item EXCEPT !.whole = FALSE]
    <3>2. /\ x \in ShardMsg /\ x.kind = "shard" /\ x.group = item.group
          /\ x.index = item.index /\ x.final = item.final
      BY DEF ShardMsg
    <3>3. x \in Item  BY <3>2 DEF Item
    <3>4. Sent(p, x)  BY <2>1, <2>3, <3>1 DEF Sent
    <3>  QED  BY <1>1, <3>1, <3>2, <3>3, <3>4
  <2>  QED  BY <1>3, <2>2, <2>3 DEF NotDelivered
<1>  QED  BY <1>2, <1>3

-----------------------------------------------------------------------------
(***************************************************************************)
(* No step breaks the invariant.                                           *)
(***************************************************************************)

(* Without shards or manifest there is nothing to say.                     *)
LEMMA SinkFresh ==
  ASSUME manifest' = <<>>, \A s \in ShardMsg : ~Written(s)', pc' # "block"
  PROVE  SinkInv'
<1>1. Len(<<>>) = 0  OBVIOUS
<1>2. ManifestInv' /\ ManifestIsBacked'
  BY <1>1 DEF ManifestInv, ManifestIsBacked, InManifest
<1>  QED  BY <1>2 DEF SinkInv, BackedInv

LEMMA NoShardYet ==
  ASSUME \A p \in Peer : OnlyKinds(p, {"stream"})
  PROVE  \A s : ~Written(s)
<1>  QED  BY DEF OnlyKinds, Written

LEMMA EarlySink ==
  ASSUME OwnerInv, SafetyInv, SafetyInv', SinkInv, Announcing,
         \/ Reject \/ PanicWithoutLetter \/ OpenFails \/ PanicOnUnreached \/ SplitKey
         \/ Announce \/ AnnounceFails \/ CheckActive
  PROVE  SinkInv'
<1>1. manifest = <<>> /\ manifest' = manifest /\ pc' # "block"
      /\ (sent' = sent \/ Announcing')
  BY DEF SinkInv, ManifestInv, Announcing, Reject, PanicWithoutLetter, OpenFails,
         PanicOnUnreached, SplitKey, Announce, AnnounceFails, CheckActive, sinkVars, wireVars
<1>2. CASE sent' = sent
  <2>1. \A p \in Peer : OnlyKinds(p, {"stream"})  BY DEF SafetyInv, GrammarInv
  <2>2. \A s : ~Written(s)  BY <2>1, NoShardYet
  <2>3. \A s : ~Written(s)'  BY <1>2, <2>2 DEF Written
  <2>  QED  BY <1>1, <2>3, SinkFresh
<1>3. CASE Announcing'
  <2>1. \A p \in Peer : OnlyKinds(p, {"stream"})'  BY <1>3 DEF SafetyInv, GrammarInv
  <2>2. \A s : ~Written(s)'  BY <2>1 DEF OnlyKinds, Written
  <2>  QED  BY <1>1, <2>2, SinkFresh
<1>  QED  BY <1>1, <1>2, <1>3

(* Nothing is sent.  Whether the archiver goes on or a block begins, the   *)
(* shards there are belong to groups drawn before.                         *)
LEMMA ArchiveSink ==
  ASSUME OwnerInv, OwnerInv', SinkInv, pc = "archive", UNCHANGED <<guardians, active, manifest, place, sent, up>>,
         \/ pc' \in {"archive", "manifest", "failed"} /\ group' = group
         \/ NextBlock
  PROVE  SinkInv'
<1>1. /\ group \in Nat /\ group' \in Nat
      /\ \A s \in ShardMsg : s.group \in Nat
      /\ \A j \in 1 .. Len(manifest) : manifest[j] \in Nat /\ manifest[j] <= group
  <2>1. \A s \in ShardMsg : s.group \in Nat  BY KindsOfItems, BoundsAssumption DEF Group
  <2>2. \A j \in 1 .. Len(manifest) : manifest[j] \in Nat
    <3>1. PICK m \in 0 .. MaxGroups : manifest \in [1 .. m -> Group]
      BY DEF OwnerInv, OwnerTypeOK, Groups
    <3>2. Len(manifest) = m  BY <3>1, BoundsAssumption
    <3>  QED  BY <3>1, <3>2, BoundsAssumption DEF Group
  <2>  QED  BY <2>1, <2>2, BoundsAssumption DEF OwnerInv, OwnerTypeOK, SinkInv, ManifestInv
<1>2. /\ group <= group'
      /\ pc' = "block" => group < group' /\ shard' = 1
      /\ pc' \in {"archive", "manifest", "failed", "block"}
  BY <1>1 DEF NextBlock
<1>3. Stuck => Stuck'
  <2>1. \A x \in Shard : 1 <= x  BY ShardsAssumption DEF Shard
  <2>  QED  BY <1>2, <2>1 DEF Stuck
<1>4. ASSUME NEW s \in ShardMsg, Written(s)'  PROVE ShardInv(s)' /\ BrokenInv(s)'
  <2>1. Written(s)  BY <1>4 DEF Written
  <2>2. ShardInv(s) /\ BrokenInv(s)  BY <2>1 DEF SinkInv
  <2>3. s.group <= group /\ ~s.final  BY <2>2 DEF ShardInv
  <2>4. ShardInv(s)'  BY <1>1, <1>2, <2>3 DEF ShardInv
  <2>5. BrokenInv(s)'  BY <1>2, <1>3, <2>2 DEF BrokenInv, InManifest
  <2>  QED  BY <2>4, <2>5
<1>5. ManifestInv'  BY <1>1, <1>2 DEF SinkInv, ManifestInv
<1>6. ManifestIsBacked'
  BY DEF SinkInv, BackedInv, ManifestIsBacked, InManifest, Active
<1>7. pc' = "block" => 1 .. shard' - 1 = {}  BY <1>2
<1>  QED  BY <1>4, <1>5, <1>6, <1>7 DEF SinkInv, BackedInv

(* After the last block, messages that are no shards change nothing.       *)
LEMMA LateSink ==
  ASSUME OwnerInv, SinkInv, pc \in {"manifest", "share"}, pc' \in {"manifest", "share", "ok", "failed"},
         UNCHANGED <<guardians, active, manifest, group>>, Active \subseteq Peer,
         NEW p \in Peer, Lost \/ \E x \in Item : Sent(p, x) /\ x.kind # "shard"
  PROVE  SinkInv'
<1>1. WireTypeOK /\ Active' = Active  BY DEF OwnerInv, OwnerTypeOK, Active
<1>2. ASSUME NEW s \in ShardMsg, Written(s)'  PROVE Written(s)
  <2>1. CASE Lost  BY <1>2, <2>1 DEF Lost, Written
  <2>2. ASSUME NEW x \in Item, Sent(p, x), x.kind # "shard"  PROVE Written(s)
    BY <1>1, <1>2, <2>2, WrittenAfter
  <2>  QED  BY <2>1, <2>2
<1>3. ASSUME NEW s \in ShardMsg, Written(s)'  PROVE ShardInv(s)' /\ BrokenInv(s)'
  BY <1>2, <1>3 DEF SinkInv, ShardInv, BrokenInv, InManifest
<1>4. ManifestInv'  BY DEF SinkInv, ManifestInv
<1>5. ManifestIsBacked'  BY <1>1, ManifestStaysBacked DEF SinkInv, BackedInv
<1>  QED  BY <1>3, <1>4, <1>5 DEF SinkInv, BackedInv

(* The types the steps of a block rest on.                                 *)
LEMMA BlockTypes ==
  ASSUME OwnerInv, SafetyInv
  PROVE  /\ WireTypeOK /\ Active \subseteq Peer
         /\ group \in Nat /\ shard \in Shard /\ place \in [Shard -> 0 .. NumPeers]
         /\ \A x \in Shard : x \in Nat /\ 1 <= x /\ x <= ShardsPerBlock
         /\ \A s \in ShardMsg : s.group \in Nat /\ s.index \in Shard /\ s.index \in Nat
         /\ manifest \in Seq(Group) /\ Len(manifest) \in Nat
         /\ \A j \in 1 .. Len(manifest) : manifest[j] \in Nat
<1>1. /\ WireTypeOK /\ group \in 0 .. MaxGroups /\ shard \in Shard
      /\ place \in [Shard -> 0 .. NumPeers] /\ manifest \in Groups
  BY DEF OwnerInv, OwnerTypeOK
<1>2. Active \subseteq Peer  BY DEF SafetyInv, ReachedInv, ActiveAreAnnounced
<1>3. \A x \in Shard : x \in Nat /\ 1 <= x /\ x <= ShardsPerBlock
  BY ShardsAssumption DEF Shard
<1>4. \A s \in ShardMsg : s.group \in Nat /\ s.index \in Shard
  BY KindsOfItems, BoundsAssumption DEF Group
<1>5. manifest \in Seq(Group)
  <2>1. PICK m \in 0 .. MaxGroups : manifest \in [1 .. m -> Group]  BY <1>1 DEF Groups
  <2>  QED  BY <2>1, BoundsAssumption
<1>6. \A j \in 1 .. Len(manifest) : manifest[j] \in Nat
  <2>1. \A j \in 1 .. Len(manifest) : manifest[j] \in Group  BY <1>5, ElementOfSeq
  <2>  QED  BY <2>1, BoundsAssumption DEF Group
<1>  QED  BY <1>1, <1>2, <1>3, <1>4, <1>5, <1>6, LenProperties, BoundsAssumption

(* A block that could not be prepared has put no shard on the wire.        *)
LEMMA PrepareSink ==
  ASSUME OwnerInv, SafetyInv, SinkInv, PrepareFails
  PROVE  SinkInv'
<1>1. /\ pc = "block" /\ shard = 1 /\ pc' \in {"archive", "manifest", "failed"}
      /\ UNCHANGED <<guardians, active, group, manifest, place, sent, up>>
  BY DEF PrepareFails, BlockFails, AfterArchive, wireVars
<1>2. Stuck => Stuck'  BY <1>1 DEF Stuck
<1>3. ASSUME NEW s \in ShardMsg, Written(s)'  PROVE ShardInv(s)' /\ BrokenInv(s)'
  <2>1. Written(s)  BY <1>1, <1>3 DEF Written
  <2>2. ShardInv(s) /\ BrokenInv(s)  BY <2>1 DEF SinkInv
  <2>3. s.group < group /\ ~s.final
    <3>1. 1 <= s.index /\ s.index \in Nat  BY BlockTypes
    <3>  QED  BY <1>1, <2>2, <3>1 DEF ShardInv
  <2>4. ShardInv(s)'  BY <1>1, <2>2, <2>3 DEF ShardInv
  <2>5. BrokenInv(s)'  BY <1>1, <1>2, <2>2, <2>3 DEF BrokenInv, InManifest
  <2>  QED  BY <2>4, <2>5
<1>4. ManifestInv'  BY <1>1 DEF SinkInv, ManifestInv
<1>5. ManifestIsBacked'
  BY <1>1 DEF SinkInv, BackedInv, ManifestIsBacked, InManifest, Active
<1>  QED  BY <1>1, <1>3, <1>4, <1>5 DEF SinkInv, BackedInv

(* What SendShard does before it looks whether the block is complete.      *)
LEMMA ShardDelivered ==
  ASSUME OwnerInv, SafetyInv, SinkInv, SendShard
  PROVE  /\ pc = "block" /\ Active' = Active /\ up' = up /\ isFinal' = isFinal
         /\ \A g, x : Backed(g, x) => Backed(g, x)'
         /\ \A g, x : g = group /\ x = shard => Backed(g, x)'
         /\ \E p \in Active, item \in ShardMsg :
              /\ item.group = group /\ item.index = shard /\ item.final = isFinal
              /\ \A s \in ShardMsg : Written(s)' => Written(s) \/ s = item
              /\ up[p] /\ (place[shard] # 0 => p = place[shard])
              /\ ~LastShard => place' = [place EXCEPT ![shard] = p]
<1>1. PICK p \in PickRemotePeer(shard) :
        /\ Delivered(p, ShardItem)
        /\ ~LastShard => place' = [place EXCEPT ![shard] = p]
  BY DEF SendShard
<1>2. /\ pc = "block" /\ UNCHANGED <<guardians, active, during>> /\ up' = up /\ up[p]
      /\ isFinal' = isFinal
  BY <1>1 DEF SendShard, Delivered, isFinal
<1>3. p \in Active /\ (place[shard] # 0 => p = place[shard])
  BY <1>1, BlockTypes DEF PickRemotePeer, SafetyInv, ReachedInv
<1>4. PICK item \in ShardMsg :
        /\ item \in Item /\ item = ShardItem /\ item.kind = "shard" /\ item.whole
        /\ item.group = group /\ item.index = shard /\ item.final = isFinal
  <2>1. /\ ShardItem.kind = "shard" /\ ShardItem.whole
        /\ ShardItem.group = group /\ ShardItem.index = shard /\ ShardItem.final = isFinal
    BY DEF ShardItem
  <2>2. ShardItem \in Item  BY <1>2, ItemTypes
  <2>3. ShardItem \in ShardMsg  BY <2>1, <2>2, KindsOfItems
  <2>  QED  BY <2>1, <2>2, <2>3
<1>5. Sent(p, item)  BY <1>1, <1>4 DEF Delivered, Sent
<1>6. Active' = Active /\ p \in Peer /\ WireTypeOK /\ Active \subseteq Peer
  BY <1>2, <1>3, BlockTypes DEF Active
<1>7. \A s \in ShardMsg : Written(s)' => Written(s) \/ s = item
  BY <1>4, <1>5, <1>6, WrittenAfter
<1>8. ASSUME NEW g, NEW n, Backed(g, n)  PROVE Backed(g, n)'
  BY <1>4, <1>5, <1>6, <1>8, BackedStays
<1>9. ASSUME NEW g, NEW n, g = group, n = shard  PROVE Backed(g, n)'
  <2>1. /\ Len(sent[p]) + 1 \in 1 .. Len(sent'[p])
        /\ sent'[p][Len(sent[p]) + 1] = item
    BY <1>4, <1>5, <1>6, SentAppends
  <2>2. \E i \in 1 .. Len(sent'[p]) :
          /\ sent'[p][i].kind = "shard" /\ sent'[p][i].whole
          /\ sent'[p][i].group = g /\ sent'[p][i].index = n
    BY <1>4, <1>9, <2>1
  <2>  QED  BY <1>3, <1>6, <2>2 DEF Backed
<1>  QED  BY <1>1, <1>2, <1>3, <1>4, <1>6, <1>7, <1>8, <1>9

(* A shard that is not the last of its block.                              *)
LEMMA ShardSink ==
  ASSUME OwnerInv, SafetyInv, SinkInv, SendShard, ~LastShard
  PROVE  SinkInv'
<1>1. /\ pc = "block" /\ pc' = "block" /\ group' = group /\ manifest' = manifest
      /\ shard' = shard + 1
  BY DEF SendShard
<1>2. PICK p \in Active, item \in ShardMsg :
        /\ item.group = group /\ item.index = shard /\ item.final = isFinal
        /\ \A s \in ShardMsg : Written(s)' => Written(s) \/ s = item
        /\ up[p] /\ (place[shard] # 0 => p = place[shard])
        /\ place' = [place EXCEPT ![shard] = p]
  BY ShardDelivered
<1>3. /\ Active' = Active /\ up' = up /\ isFinal' = isFinal
      /\ \A g, x : Backed(g, x) => Backed(g, x)'
      /\ \A g, x : g = group /\ x = shard => Backed(g, x)'
  BY ShardDelivered
<1>4. Stuck => Stuck'
  <2>1. ASSUME NEW x \in Shard, place[x] # 0, ~up[place[x]], shard <= x
        PROVE  place'[x] = place[x] /\ shard + 1 <= x
    <3>1. x # shard  BY <1>2, <2>1
    <3>  QED  BY <1>2, <2>1, <3>1, BlockTypes
  <2>  QED  BY <1>1, <1>3, <2>1 DEF Stuck
<1>5. ASSUME NEW s \in ShardMsg, Written(s)'  PROVE ShardInv(s)' /\ BrokenInv(s)'
  <2>1. CASE Written(s)
    <3>1. ShardInv(s) /\ BrokenInv(s)  BY <2>1 DEF SinkInv
    <3>2. ShardInv(s)'  BY <1>1, <1>3, <3>1, BlockTypes DEF ShardInv
    <3>3. BrokenInv(s)'  BY <1>1, <1>4, <3>1 DEF BrokenInv, InManifest
    <3>  QED  BY <3>2, <3>3
  <2>2. CASE s = item
    <3>1. ShardInv(s)'  BY <1>1, <1>2, <1>3, <2>2, BlockTypes DEF ShardInv
    <3>2. \A j \in 1 .. Len(manifest) : manifest[j] < s.group
      BY <1>1, <1>2, <2>2 DEF SinkInv, ManifestInv
    <3>3. s.group = group /\ ~(group < group)  BY <1>2, <2>2, BlockTypes
    <3>4. BrokenInv(s)'  BY <1>1, <3>2, <3>3 DEF BrokenInv
    <3>  QED  BY <3>1, <3>4
  <2>  QED  BY <1>2, <1>5, <2>1, <2>2
<1>6. ManifestInv'  BY <1>1 DEF SinkInv, ManifestInv
<1>7. BackedInv'
  <2>1. ASSUME NEW g \in Group, InManifest(g), NEW x \in Shard  PROVE Backed(g, x)'
    <3>1. Backed(g, x)  BY <2>1 DEF SinkInv, BackedInv, ManifestIsBacked, Backed
    <3>  QED  BY <1>3, <3>1
  <2>2. ManifestIsBacked'
    BY <1>1, <2>1 DEF ManifestIsBacked, InManifest, Backed
  <2>3. ASSUME NEW x \in 1 .. shard, NEW g, g = group  PROVE Backed(g, x)'
    <3>1. CASE x = shard  BY <1>3, <2>3, <3>1
    <3>2. CASE x # shard
      <4>1. x \in 1 .. shard - 1  BY <2>3, <3>2, BlockTypes
      <4>2. Backed(g, x)  BY <1>1, <2>3, <4>1 DEF SinkInv, BackedInv
      <4>  QED  BY <1>3, <4>2
    <3>  QED  BY <3>1, <3>2
  <2>4. shard' - 1 = shard  BY <1>1, BlockTypes
  <2>5. \A x \in 1 .. shard' - 1 : Backed(group, x)'  BY <1>1, <2>3, <2>4
  <2>  QED  BY <2>2, <2>5 DEF BackedInv
<1>  QED  BY <1>5, <1>6, <1>7 DEF SinkInv

(* The last shard of a block: nothing was in the way, so every group that  *)
(* has a shard is in the manifest.                                         *)
LEMMA BlockSentSink ==
  ASSUME OwnerInv, SafetyInv, SinkInv, SendShard, LastShard
  PROVE  SinkInv'
<1>1. /\ pc = "block" /\ shard = ShardsPerBlock /\ manifest' = Append(manifest, group)
      /\ \/ isFinal /\ pc' \in {"manifest", "failed"} /\ group' = group
         \/ ~isFinal /\ pc' = "archive" /\ group' = group
         \/ ~isFinal /\ pc' = "block" /\ group' = group + 1 /\ shard' = 1
  BY DEF SendShard, LastShard, BlockSent, AfterArchive, NextBlock
<1>2. PICK p \in Active, item \in ShardMsg :
        /\ item.group = group /\ item.index = shard /\ item.final = isFinal
        /\ \A s \in ShardMsg : Written(s)' => Written(s) \/ s = item
        /\ up[p] /\ (place[shard] # 0 => p = place[shard])
  BY ShardDelivered
<1>3. /\ Active' = Active /\ isFinal' = isFinal
      /\ \A g, x : Backed(g, x) => Backed(g, x)'
      /\ \A g, x : g = group /\ x = shard => Backed(g, x)'
  BY ShardDelivered
<1>4. group \in Group
  BY <1>1 DEF OwnerInv, OwnerTypeOK, OwnerCounters, Group
<1>5. /\ Len(manifest') = Len(manifest) + 1 /\ Len(manifest) \in Nat
      /\ \A j \in 1 .. Len(manifest) : manifest'[j] = manifest[j]
      /\ manifest'[Len(manifest) + 1] = group
  BY <1>1, <1>4, BlockTypes, AppendProperties
<1>6. ASSUME NEW g  PROVE InManifest(g)' <=> InManifest(g) \/ g = group
  <2>1. InManifest(g) => InManifest(g)'  BY <1>5 DEF InManifest
  <2>2. g = group => InManifest(g)'
    <3>1. Len(manifest) + 1 \in 1 .. Len(manifest')  BY <1>5
    <3>  QED  BY <1>5, <3>1 DEF InManifest
  <2>3. InManifest(g)' => InManifest(g) \/ g = group
    <3>1. ASSUME NEW j \in 1 .. Len(manifest'), manifest'[j] = g
          PROVE  InManifest(g) \/ g = group
      <4>1. j \in 1 .. Len(manifest) \/ j = Len(manifest) + 1  BY <1>5
      <4>  QED  BY <1>5, <3>1, <4>1 DEF InManifest
    <3>  QED  BY <3>1 DEF InManifest
  <2>  QED  BY <2>1, <2>2, <2>3
<1>7. ~Stuck
  <2>1. ASSUME NEW x \in Shard, place[x] # 0, ~up[place[x]], shard <= x  PROVE FALSE
    <3>1. x = shard  BY <1>1, <2>1, BlockTypes
    <3>  QED  BY <1>2, <2>1, <3>1
  <2>  QED  BY <1>1, <2>1 DEF Stuck
<1>8. ASSUME NEW s \in ShardMsg, Written(s)'
      PROVE  s.group <= group /\ (s.final => isFinal) /\ InManifest(s.group)'
  <2>1. CASE Written(s)
    <3>1. ShardInv(s) /\ BrokenInv(s)  BY <2>1 DEF SinkInv
    <3>2. s.group <= group /\ (s.final => isFinal)  BY <1>1, <3>1 DEF ShardInv
    <3>3. s.group < group \/ s.group = group  BY <1>1, <3>1 DEF ShardInv
    <3>4. InManifest(s.group) \/ s.group = group  BY <1>1, <1>7, <3>1, <3>3 DEF BrokenInv
    <3>  QED  BY <1>6, <3>2, <3>4
  <2>2. CASE s = item
    <3>1. s.group = group /\ s.group <= group  BY <1>2, <2>2, BlockTypes
    <3>  QED  BY <1>2, <1>6, <2>2, <3>1
  <2>  QED  BY <1>2, <1>8, <2>1, <2>2
<1>9. ASSUME NEW s \in ShardMsg, Written(s)'  PROVE ShardInv(s)' /\ BrokenInv(s)'
  <2>1. BrokenInv(s)'  BY <1>8, <1>9 DEF BrokenInv
  <2>2. ShardInv(s)'  BY <1>1, <1>8, <1>9, BlockTypes DEF ShardInv
  <2>  QED  BY <2>1, <2>2
<1>10. ManifestInv'
  <2>1. ASSUME NEW j \in 1 .. Len(manifest')  PROVE manifest'[j] <= group /\ manifest'[j] \in Nat
    <3>1. j \in 1 .. Len(manifest) \/ j = Len(manifest) + 1  BY <1>5
    <3>2. CASE j \in 1 .. Len(manifest)
      BY <1>1, <1>5, <3>2, BlockTypes DEF SinkInv, ManifestInv
    <3>3. CASE j = Len(manifest) + 1  BY <1>5, <3>3, BlockTypes
    <3>  QED  BY <3>1, <3>2, <3>3
  <2>2. group <= group' /\ (pc' = "block" => group < group') /\ group' \in Nat
    BY <1>1, BlockTypes
  <2>3. \A j \in 1 .. Len(manifest') :
          manifest'[j] <= group' /\ (pc' = "block" => manifest'[j] < group')
    BY <2>1, <2>2, BlockTypes
  <2>  QED  BY <1>1, <2>3 DEF ManifestInv
<1>11. BackedInv'
  <2>1. ASSUME NEW g \in Group, InManifest(g)', NEW x \in Shard  PROVE Backed(g, x)'
    <3>1. CASE InManifest(g)
      <4>1. Backed(g, x)  BY <3>1 DEF SinkInv, BackedInv, ManifestIsBacked, Backed
      <4>  QED  BY <1>3, <4>1
    <3>2. CASE g = group
      <4>1. CASE x = shard  BY <1>3, <3>2, <4>1
      <4>2. CASE x # shard
        <5>1. x \in 1 .. shard - 1  BY <1>1, <4>2, BlockTypes
        <5>2. Backed(g, x)  BY <1>1, <3>2, <5>1 DEF SinkInv, BackedInv
        <5>  QED  BY <1>3, <5>2
      <4>  QED  BY <4>1, <4>2
    <3>  QED  BY <1>6, <2>1, <3>1, <3>2
  <2>2. ManifestIsBacked'  BY <2>1 DEF ManifestIsBacked, Backed
  <2>3. pc' = "block" => 1 .. shard' - 1 = {}  BY <1>1
  <2>  QED  BY <2>2, <2>3 DEF BackedInv
<1>  QED  BY <1>9, <1>10, <1>11 DEF SinkInv

(* A shard that cannot be sent keeps its block from being completed.       *)
LEMMA ShardFailsSink ==
  ASSUME OwnerInv, SafetyInv, SinkInv, SendShardFails
  PROVE  SinkInv'
<1>1. /\ pc = "block" /\ UNCHANGED <<guardians, active, group, manifest>>
      /\ \/ isFinal /\ pc' \in {"manifest", "failed"}
         \/ ~isFinal /\ pc' = "archive"
  BY DEF SendShardFails, BlockFails, AfterArchive
<1>2. PICK p \in PickRemotePeer(shard) :
        NotDelivered(p, ShardItem) /\ place' = [place EXCEPT ![shard] = p]
  BY DEF SendShardFails
<1>3. p \in Active /\ p \in Peer /\ WireTypeOK /\ Active' = Active /\ Active \subseteq Peer
  BY <1>1, <1>2, BlockTypes DEF PickRemotePeer, SafetyInv, ReachedInv, Active
<1>4. Stuck'
  <2>1. place'[shard] = p /\ shard \in Shard /\ p # 0
    BY <1>2, <1>3, BlockTypes DEF Peer
  <2>2. ~up'[p]  BY <1>2, <1>3 DEF NotDelivered, WireTypeOK
  <2>3. pc' # "block"  BY <1>1
  <2>4. \E x \in Shard : place'[x] # 0 /\ ~up'[place'[x]]  BY <2>1, <2>2
  <2>  QED  BY <2>3, <2>4 DEF Stuck
<1>5. ShardItem \in Item  BY <1>1, ItemTypes
<1>6. \/ Lost
      \/ \E x \in Item : /\ Sent(p, x) /\ x.kind = "shard"
                         /\ x.group = group /\ x.index = shard /\ x.final = isFinal
  BY <1>2, <1>3, <1>5, ShardCases
<1>7. ASSUME NEW s \in ShardMsg, Written(s)'
      PROVE  Written(s) \/ (s.group = group /\ s.final = isFinal)
  <2>1. CASE Lost  BY <1>7, <2>1 DEF Lost, Written
  <2>2. ASSUME NEW x \in Item, Sent(p, x), x.group = group, x.final = isFinal
        PROVE  Written(s) \/ (s.group = group /\ s.final = isFinal)
    BY <1>3, <1>7, <2>2, WrittenAfter
  <2>  QED  BY <1>6, <2>1, <2>2
<1>8. ASSUME NEW s \in ShardMsg, Written(s)'  PROVE ShardInv(s)' /\ BrokenInv(s)'
  <2>1. /\ s.group <= group /\ (s.final => isFinal)
        /\ \A j \in 1 .. Len(manifest) : ~InManifest(s.group) => manifest[j] < s.group
    <3>1. CASE Written(s)  BY <1>1, <3>1 DEF SinkInv, ShardInv, BrokenInv
    <3>2. CASE s.group = group /\ s.final = isFinal
      <4>1. \A j \in 1 .. Len(manifest) : manifest[j] < group
        BY <1>1 DEF SinkInv, ManifestInv
      <4>  QED  BY <3>2, <4>1, BlockTypes
    <3>  QED  BY <1>7, <1>8, <3>1, <3>2
  <2>2. ShardInv(s)'  BY <1>1, <2>1 DEF ShardInv
  <2>3. BrokenInv(s)'  BY <1>1, <1>4, <2>1 DEF BrokenInv, InManifest
  <2>  QED  BY <2>2, <2>3
<1>9. ManifestInv'  BY <1>1 DEF SinkInv, ManifestInv
<1>10. ManifestIsBacked'
  <2>1. Lost \/ \E x \in Item : Sent(p, x)  BY <1>6
  <2>  QED  BY <1>1, <1>3, <2>1, ManifestStaysBacked DEF SinkInv, BackedInv
<1>  QED  BY <1>1, <1>8, <1>9, <1>10 DEF SinkInv, BackedInv

(* The manifests and the shares of the key.                                *)
LEMMA LoopSends ==
  ASSUME OwnerInv, SafetyInv, pc \in {"manifest", "share"}
  PROVE  /\ \E p \in Active : p = guardians[k] /\ p \in Peer
         /\ \E item \in Item : item = ManifestItem /\ item.kind = "manifest" /\ ~HasData(item)
         /\ pc = "share" => \E item \in Item : /\ item = ShareItem(k) /\ item.kind = "share"
                                               /\ item.whole
<1>1. k \in 1 .. active
  <2>1. k \in Nat /\ active \in Nat /\ 1 <= k
    BY DEF OwnerInv, OwnerTypeOK
  <2>  QED  BY <2>1 DEF OwnerInv, OwnerCounters
<1>2. guardians[k] \in Active /\ guardians[k] \in Peer
  BY <1>1, GuardiansOfLoop DEF SafetyInv, Sending
<1>3. ManifestItem \in Item /\ ManifestItem.kind = "manifest" /\ ~HasData(ManifestItem)
  BY ItemTypes DEF ManifestItem, HasData
<1>4. k \in Peer
  <2>1. active \in 0 .. NumPeers  BY DEF OwnerInv, OwnerTypeOK
  <2>  QED  BY <1>1, <2>1, NumPeersAssumption DEF Peer
<1>5. ShareItem(k) \in Item  BY <1>4, ItemTypes
<1>  QED  BY <1>2, <1>3, <1>5 DEF ShareItem

LEMMA LoopSink ==
  ASSUME OwnerInv, SafetyInv, SinkInv,
         SendManifest \/ SendManifestFails \/ SendShare \/ SendShareFails
  PROVE  SinkInv'
<1>1. /\ pc \in {"manifest", "share"} /\ pc' \in {"manifest", "share", "ok", "failed"}
      /\ UNCHANGED <<guardians, active, manifest, group>>
  BY DEF SendManifest, SendManifestFails, SendShare, SendShareFails, sinkVars
<1>2. WireTypeOK /\ Active \subseteq Peer  BY BlockTypes
<1>3. PICK p \in Active : p = guardians[k] /\ p \in Peer  BY <1>1, LoopSends
<1>4. PICK item \in Item :
        /\ item.kind # "shard" /\ (HasData(item) => item.whole)
        /\ Delivered(p, item) \/ NotDelivered(p, item)
  <2>1. CASE SendManifest \/ SendManifestFails
    BY <1>1, <1>3, <2>1, LoopSends DEF SendManifest, SendManifestFails
  <2>2. CASE SendShare \/ SendShareFails
    BY <1>1, <1>3, <2>2, LoopSends DEF SendShare, SendShareFails
  <2>  QED  BY <2>1, <2>2
<1>5. Lost \/ \E x \in Item : Sent(p, x) /\ x.kind # "shard"
  BY <1>2, <1>3, <1>4, SendCases
<1>  QED  BY <1>1, <1>2, <1>3, <1>5, LateSink

(* SinkInv holds in every state of every behaviour.                        *)
LEMMA OwnerSink == OwnerSpec => [](OwnerInv /\ SafetyInv /\ SinkInv)
<1>1. CallInit => OwnerInv /\ SafetyInv /\ SinkInv
  <2>  SUFFICES ASSUME CallInit  PROVE OwnerInv /\ SafetyInv /\ SinkInv  OBVIOUS
  <2>1. OwnerInv /\ SafetyInv  BY OwnerInvInit, SafetyInit DEF CallInit
  <2>2. pc = "start" /\ manifest = <<>>  BY DEF CallInit, OwnerInit
  <2>3. \A s : ~Written(s)
    <3>1. \A p \in Peer : OnlyKinds(p, {"stream"})
      BY <2>1, <2>2 DEF SafetyInv, GrammarInv, Announcing
    <3>  QED  BY <3>1, NoShardYet
  <2>4. Len(<<>>) = 0  OBVIOUS
  <2>5. ManifestInv /\ ManifestIsBacked
    BY <2>2, <2>4 DEF ManifestInv, ManifestIsBacked, InManifest
  <2>  QED  BY <2>1, <2>2, <2>3, <2>5 DEF SinkInv, BackedInv
<1>2. OwnerInv /\ SafetyInv /\ SinkInv /\ (OwnerInv /\ SafetyInv)' /\ [OwnerNext]_OwnerAll
        => SinkInv'
  <2>  SUFFICES ASSUME OwnerInv, SafetyInv, SinkInv, OwnerInv', SafetyInv', [OwnerNext]_OwnerAll
                PROVE  SinkInv'
    OBVIOUS
  <2>1. CASE \/ Reject \/ PanicWithoutLetter \/ OpenFails \/ PanicOnUnreached \/ SplitKey
             \/ Announce \/ AnnounceFails \/ CheckActive
    <3>1. Announcing
      BY <2>1 DEF Announcing, Reject, PanicWithoutLetter, OpenFails, PanicOnUnreached,
                  SplitKey, Announce, AnnounceFails, CheckActive
    <3>  QED  BY <2>1, <3>1, EarlySink
  <2>2. CASE SinkWrite \/ ArchiveEnds \/ FlushEnds \/ CloseEmpty \/ CloseFlushes
    <3>1. /\ pc = "archive" /\ UNCHANGED <<guardians, active, manifest, place, sent, up>>
          /\ \/ pc' \in {"archive", "manifest", "failed"} /\ group' = group
             \/ NextBlock
      BY <2>2 DEF SinkWrite, ArchiveEnds, FlushEnds, CloseEmpty, CloseFlushes, AfterArchive,
                  sinkVars, wireVars
    <3>  QED  BY <3>1, ArchiveSink
  <2>3. CASE SendShard  BY <2>3, ShardSink, BlockSentSink
  <2>4. CASE SendShardFails  BY <2>4, ShardFailsSink
  <2>5. CASE PrepareFails  BY <2>5, PrepareSink
  <2>6. CASE SendManifest \/ SendManifestFails \/ SendShare \/ SendShareFails
    BY <2>6, LoopSink
  <2>7. CASE UNCHANGED OwnerAll
    <3>1. UNCHANGED <<pc, guardians, active, during, group, shard, place, manifest, sent, up>>
      BY <2>7 DEF OwnerAll, ownerVars, sinkVars, wireVars
    <3>2. \A s : /\ Written(s)' => Written(s)
                 /\ ShardInv(s) => ShardInv(s)'
                 /\ BrokenInv(s) => BrokenInv(s)'
      BY <3>1 DEF Written, ShardInv, BrokenInv, Stuck, InManifest, isFinal
    <3>3. ManifestInv' /\ BackedInv'
      BY <3>1 DEF SinkInv, ManifestInv, BackedInv, ManifestIsBacked, InManifest, Backed, Active
    <3>  QED  BY <3>2, <3>3 DEF SinkInv
  <2>  QED  BY <2>1, <2>2, <2>3, <2>4, <2>5, <2>6, <2>7 DEF OwnerNext
<1>  QED  BY <1>1, <1>2, OwnerSafety, PTL DEF OwnerSpec

-----------------------------------------------------------------------------
(***************************************************************************)
(* The theorems.                                                           *)
(***************************************************************************)

(* A repair group the manifest lists has every shard, with its data, at a  *)
(* guardian of the capsule, however often blocks were tried (processBlock  *)
(* appends to the manifest after its last shard only).                     *)
THEOREM ListedGroupsAreBacked == OwnerSpec => []ManifestIsBacked
<1>1. SinkInv => ManifestIsBacked  BY DEF SinkInv, BackedInv
<1>  QED  BY <1>1, OwnerSink, PTL

(* No group completes after one that was given up: pickRemotePeer sends a  *)
(* retried block to the connection that broke.                             *)
THEOREM BrokenGroupIsLast == OwnerSpec => []NothingAfterBrokenGroup
<1>1. OwnerInv /\ SafetyInv /\ SinkInv => NothingAfterBrokenGroup
  <2>  SUFFICES ASSUME OwnerInv, SafetyInv, SinkInv, NEW p \in Peer, NEW i \in 1 .. Len(sent[p]),
                       sent[p][i].kind = "shard", ~InManifest(sent[p][i].group)
                PROVE  \A j \in 1 .. Len(manifest) : manifest[j] < sent[p][i].group
    BY DEF NothingAfterBrokenGroup
  <2>1. sent[p][i] \in ShardMsg
    <3>1. sent[p] \in Seq(Item)  BY BlockTypes DEF WireTypeOK
    <3>  QED  BY <3>1, ElementOfSeq, KindsOfItems
  <2>2. Written(sent[p][i])  BY DEF Written
  <2>  QED  BY <2>1, <2>2 DEF SinkInv, BrokenInv
<1>  QED  BY <1>1, OwnerSink, PTL

-----------------------------------------------------------------------------
(***************************************************************************)
(* The owner keeps to the protocol.                                        *)
(***************************************************************************)

(* A Send of a message that may follow is a step of the protocol; one on a *)
(* connection that is broken already changes nothing.                      *)
LEMMA SendIsFeed ==
  ASSUME WireTypeOK, NEW p \in Peer, NEW item \in Item, HasData(item) => item.whole,
         Delivered(p, item) \/ NotDelivered(p, item),
         up[p] => MayFollow(p, item)
  PROVE  [StreamNext]_wireVars
<1>1. CASE up[p]
  <2>1. Feed(p, item)  BY <1>1 DEF Feed
  <2>  QED  BY <2>1 DEF StreamNext
<1>2. CASE ~up[p]
  <2>1. NotDelivered(p, item) /\ sent' = sent  BY <1>2 DEF Delivered, NotDelivered
  <2>2. up' = up  BY <1>2, <2>1 DEF NotDelivered, WireTypeOK
  <2>  QED  BY <2>1, <2>2 DEF wireVars
<1>  QED  BY <1>1, <1>2

(* The last message on a connection, and what it may be.                   *)
LEMMA LastOfKinds ==
  ASSUME WireTypeOK, CutsEnd, NEW p \in Peer, sent[p] # <<>>, NEW kinds, OnlyKinds(p, kinds)
  PROVE  /\ Len(sent[p]) \in 1 .. Len(sent[p])
         /\ LastItem(p) \in Item /\ LastItem(p).kind \in kinds
         /\ up[p] /\ HasData(LastItem(p)) => LastItem(p).whole
         /\ LastItem(p).kind = "shard" => LastItem(p) \in ShardMsg /\ Written(LastItem(p))
<1>1. sent[p] \in Seq(Item) /\ Len(sent[p]) \in Nat
  BY LenProperties DEF WireTypeOK
<1>2. Len(sent[p]) \in 1 .. Len(sent[p])  BY <1>1, EmptySeq
<1>3. LastItem(p) = sent[p][Len(sent[p])]  BY DEF LastItem
<1>4. LastItem(p) \in Item  BY <1>1, <1>2, <1>3, ElementOfSeq
<1>5. LastItem(p).kind \in kinds  BY <1>2, <1>3 DEF OnlyKinds
<1>6. up[p] /\ HasData(LastItem(p)) => LastItem(p).whole  BY <1>2, <1>3 DEF CutsEnd
<1>7. LastItem(p).kind = "shard" => LastItem(p) \in ShardMsg /\ Written(LastItem(p))
  BY <1>2, <1>3, <1>4, KindsOfItems DEF Written
<1>  QED  BY <1>2, <1>4, <1>5, <1>6, <1>7

(* Before the announcement a guardian has been sent nothing.               *)
LEMMA AnnounceFollows ==
  ASSUME OwnerInv, SafetyInv, Announce \/ AnnounceFails
  PROVE  [StreamNext]_wireVars
<1>1. /\ pc = "announce" /\ k \in 1 .. Len(guardians) /\ k \in Nat /\ WireTypeOK
      /\ guardians \in Seq(Peer) /\ active < k /\ active \in Nat
  BY LenProperties DEF Announce, AnnounceFails, OwnerInv, OwnerTypeOK, OwnerCounters
<1>2. guardians[k] = k /\ guardians[k] \in Peer
  <2>1. k \in k .. Len(guardians)  BY <1>1, LenProperties
  <2>  QED  BY <1>1, <2>1, ElementOfSeq DEF SafetyInv, ReachedInv, Announcing
<1>3. sent[k] = <<>>
  <2>1. \A i \in 1 .. active : guardians[i] < k
    BY <1>1 DEF SafetyInv, ReachedInv, Announcing
  <2>2. k \notin Active  BY <1>1, <2>1 DEF Active
  <2>  QED  BY <1>2, <2>2 DEF SafetyInv, ReachedInv, ActiveAreAnnounced
<1>4. PICK item \in Item : item = Stream /\ item.kind = "stream" /\ ~HasData(item)
  BY ItemTypes DEF Stream, HasData
<1>5. MayFollow(k, item)  BY <1>3, <1>4 DEF MayFollow
<1>6. Delivered(k, item) \/ NotDelivered(k, item)
  BY <1>2, <1>4 DEF Announce, AnnounceFails
<1>  QED  BY <1>1, <1>2, <1>4, <1>5, <1>6, SendIsFeed

(* Shards of a block come in order, and after those of earlier groups.     *)
LEMMA ShardFollows ==
  ASSUME OwnerInv, SafetyInv, SinkInv, SendShard \/ SendShardFails
  PROVE  [StreamNext]_wireVars
<1>1. pc = "block" /\ WireTypeOK /\ CutsEnd
  BY BlockTypes DEF SendShard, SendShardFails, SafetyInv, GrammarInv
<1>2. PICK p \in PickRemotePeer(shard) : Delivered(p, ShardItem) \/ NotDelivered(p, ShardItem)
  BY DEF SendShard, SendShardFails
<1>3. p \in Peer /\ sent[p] # <<>> /\ OnlyKinds(p, Early)
  <2>1. p \in Active  BY <1>2, BlockTypes DEF PickRemotePeer, SafetyInv, ReachedInv
  <2>  QED  BY <1>1, <2>1 DEF SafetyInv, ReachedInv, ActiveAreAnnounced, GrammarInv
<1>4. PICK item \in Item :
        /\ item = ShardItem /\ item.kind = "shard" /\ item.whole
        /\ item.group = group /\ item.index = shard /\ item.final = isFinal
  BY <1>1, ItemTypes DEF ShardItem
<1>5. ASSUME up[p]  PROVE MayFollow(p, item)
  <2>1. CASE LastItem(p).kind = "stream"  BY <1>3, <1>4, <2>1 DEF MayFollow
  <2>2. CASE LastItem(p).kind = "shard"
    <3>1. LastItem(p).whole
      BY <1>1, <1>3, <1>5, <2>2, LastOfKinds DEF HasData
    <3>2. PICK s \in ShardMsg : s = LastItem(p) /\ ShardInv(s)
      BY <1>1, <1>3, <2>2, LastOfKinds DEF SinkInv
    <3>3. InOrder(s, item)  BY <1>1, <1>4, <3>2 DEF ShardInv, InOrder
    <3>  QED  BY <1>3, <1>4, <2>2, <3>1, <3>2, <3>3 DEF MayFollow
  <2>3. LastItem(p).kind \in Early  BY <1>1, <1>3, LastOfKinds
  <2>  QED  BY <2>1, <2>2, <2>3 DEF Early
<1>  QED  BY <1>1, <1>2, <1>3, <1>4, <1>5, SendIsFeed

(* The manifest comes after the announcement or a shard.                   *)
LEMMA ManifestFollows ==
  ASSUME OwnerInv, SafetyInv, SendManifest \/ SendManifestFails
  PROVE  [StreamNext]_wireVars
<1>1. pc = "manifest" /\ WireTypeOK /\ CutsEnd
  BY BlockTypes DEF SendManifest, SendManifestFails, SafetyInv, GrammarInv
<1>2. PICK p \in Active : p = guardians[k] /\ p \in Peer  BY <1>1, LoopSends
<1>3. PICK item \in Item : item = ManifestItem /\ item.kind = "manifest" /\ ~HasData(item)
  BY <1>1, LoopSends
<1>4. sent[p] # <<>> /\ OnlyKinds(p, Early)
  <2>1. k \in k .. active
    <3>1. k \in Nat /\ active \in Nat  BY DEF OwnerInv, OwnerTypeOK
    <3>  QED  BY <1>1, <3>1 DEF OwnerInv, OwnerCounters
  <2>  QED  BY <1>1, <1>2, <2>1 DEF SafetyInv, ReachedInv, ActiveAreAnnounced, GrammarInv
<1>5. ASSUME up[p]  PROVE MayFollow(p, item)
  <2>1. CASE LastItem(p).kind = "stream"  BY <1>3, <1>4, <2>1 DEF MayFollow
  <2>2. CASE LastItem(p).kind = "shard"
    <3>1. LastItem(p).whole
      BY <1>1, <1>2, <1>4, <1>5, <2>2, LastOfKinds DEF HasData
    <3>  QED  BY <1>3, <1>4, <2>2, <3>1 DEF MayFollow
  <2>3. LastItem(p).kind \in Early  BY <1>1, <1>2, <1>4, LastOfKinds
  <2>  QED  BY <2>1, <2>2, <2>3 DEF Early
<1>6. Delivered(p, item) \/ NotDelivered(p, item)
  BY <1>2, <1>3 DEF SendManifest, SendManifestFails
<1>  QED  BY <1>1, <1>2, <1>3, <1>5, <1>6, SendIsFeed

(* The share of the key comes right after the manifest.                    *)
LEMMA ShareFollows ==
  ASSUME OwnerInv, SafetyInv, SendShare \/ SendShareFails
  PROVE  [StreamNext]_wireVars
<1>1. pc = "share" /\ WireTypeOK /\ CutsEnd /\ StreamGrammar
  BY BlockTypes DEF SendShare, SendShareFails, SafetyInv, GrammarInv
<1>2. PICK p \in Active : p = guardians[k] /\ p \in Peer  BY <1>1, LoopSends
<1>3. PICK item \in Item : item = ShareItem(k) /\ item.kind = "share" /\ item.whole
  BY <1>1, LoopSends
<1>4. sent[p] # <<>> /\ OnlyKinds(p, Early \cup {"manifest"}) /\ Got(p, "manifest")
  <2>1. k \in k .. active
    <3>1. k \in Nat /\ active \in Nat  BY DEF OwnerInv, OwnerTypeOK
    <3>  QED  BY <1>1, <3>1 DEF OwnerInv, OwnerCounters
  <2>  QED  BY <1>1, <1>2, <2>1 DEF SafetyInv, ReachedInv, ActiveAreAnnounced, GrammarInv, KeyInv
<1>5. LastItem(p).kind = "manifest"
  <2>1. PICK i \in 1 .. Len(sent[p]) : sent[p][i].kind = "manifest"  BY <1>4 DEF Got
  <2>2. LastItem(p).kind \in {"stream", "shard", "manifest"} /\ Len(sent[p]) \in 1 .. Len(sent[p])
    BY <1>1, <1>2, <1>4, LastOfKinds DEF Early
  <2>3. CASE i = Len(sent[p])  BY <2>1, <2>3 DEF LastItem
  <2>4. CASE i # Len(sent[p])
    <3>1. i < Len(sent[p])  BY <2>2, <2>4
    <3>2. Rank(sent[p][i]) < Rank(LastItem(p))
      BY <1>1, <1>2, <2>1, <2>2, <3>1 DEF StreamGrammar, LastItem
    <3>  QED  BY <2>1, <2>2, <3>2 DEF Rank
  <2>  QED  BY <2>3, <2>4
<1>6. MayFollow(p, item)  BY <1>3, <1>4, <1>5 DEF MayFollow
<1>7. Delivered(p, item) \/ NotDelivered(p, item)
  BY <1>2, <1>3 DEF SendShare, SendShareFails
<1>  QED  BY <1>1, <1>2, <1>3, <1>6, <1>7, SendIsFeed

(* Each step of the owner is a step of the protocol or writes nothing.     *)
LEMMA OwnerStepsFollow ==
  ASSUME OwnerInv, SafetyInv, SinkInv, [OwnerNext]_OwnerAll
  PROVE  [StreamNext]_wireVars
<1>1. CASE UNCHANGED wireVars  BY <1>1
<1>2. CASE Announce \/ AnnounceFails  BY <1>2, AnnounceFollows
<1>3. CASE SendShard \/ SendShardFails  BY <1>3, ShardFollows
<1>4. CASE SendManifest \/ SendManifestFails  BY <1>4, ManifestFollows
<1>5. CASE SendShare \/ SendShareFails  BY <1>5, ShareFollows
<1>6. CASE \/ Reject \/ PanicWithoutLetter \/ OpenFails \/ PanicOnUnreached \/ SplitKey
           \/ CheckActive \/ SinkWrite \/ ArchiveEnds \/ FlushEnds \/ CloseEmpty
           \/ CloseFlushes \/ PrepareFails
  BY <1>1, <1>6 DEF Reject, PanicWithoutLetter, OpenFails, PanicOnUnreached, SplitKey,
                    CheckActive, SinkWrite, ArchiveEnds, FlushEnds, CloseEmpty,
                    CloseFlushes, PrepareFails
<1>7. CASE UNCHANGED OwnerAll  BY <1>1, <1>7 DEF OwnerAll
<1>  QED  BY <1>2, <1>3, <1>4, <1>5, <1>6, <1>7 DEF OwnerNext

(* The owner implements the protocol the guardian's handler is written     *)
(* for: each Send of CreateAndSendCapsule and of the block sink is a step  *)
(* of it or, on a broken connection, no step at all.                       *)
THEOREM OwnerKeepsToProtocol == OwnerSpec => StreamSpec
<1>1. CallInit => WireInit  BY DEF CallInit
<1>2. OwnerInv /\ SafetyInv /\ SinkInv /\ [OwnerNext]_OwnerAll => [StreamNext]_wireVars
  BY OwnerStepsFollow
<1>  QED  BY <1>1, <1>2, OwnerSink, PTL DEF OwnerSpec, StreamSpec

-----------------------------------------------------------------------------
(***************************************************************************)
(* What is left in the buffer when nothing but connections fails.          *)
(***************************************************************************)

Drained == bufLen = 0 /\ manifest # <<>>

(* Bytes left in the buffer are behind a broken connection, one the loop   *)
(* over the guardians has still to come to.                                *)
LeftInv ==
  /\ pc = "block" => bufLen > 0
  /\ written > 0 => bufLen > 0 \/ manifest # <<>>
  /\ during = "close" /\ ~archErr => written > 0
  /\ pc = "manifest" => Drained \/ \E j \in k .. active : ~up[guardians[j]]
  /\ pc \in {"share", "ok"} => Drained

(* The buffer, its block and the bytes counted are numbers.                *)
LEMMA BufferTypes ==
  ASSUME OwnerInv
  PROVE  /\ bufLen \in Nat /\ written \in Nat /\ bufLen <= written
         /\ BlockSize \in Nat /\ BlockSize > 0 /\ k \in Nat /\ active \in Nat
<1>  QED  BY BoundsAssumption, BlockSizeAssumption, NumPeersAssumption
             DEF OwnerInv, OwnerTypeOK, OwnerCounters

LEMMA ArchiveLeft ==
  ASSUME OwnerInv, LeftInv,
         SinkWrite \/ ArchiveEnds \/ FlushEnds \/ CloseEmpty \/ CloseFlushes
  PROVE  LeftInv'
<1>1. CASE SinkWrite
  <2>1. PICK m \in 1 .. BlockSize : written' = written + m /\ bufLen' = bufLen + m
    BY <1>1 DEF SinkWrite
  <2>2. written' > 0 /\ bufLen' > 0  BY <2>1, BufferTypes
  <2>3. pc' \in {"archive", "block"}  BY <1>1 DEF SinkWrite, NextBlock
  <2>  QED  BY <2>2, <2>3 DEF LeftInv
<1>2. CASE ArchiveEnds
  <2>1. pc' = "archive" /\ during' = "flush" /\ UNCHANGED <<written, bufLen, manifest>>
    BY <1>2 DEF ArchiveEnds
  <2>  QED  BY <2>1 DEF LeftInv
<1>3. CASE FlushEnds
  <2>1. /\ pc' = "archive" /\ (written > 0 \/ archErr)
        /\ UNCHANGED <<written, archErr, bufLen, manifest>>
    BY <1>3 DEF FlushEnds
  <2>  QED  BY <2>1 DEF LeftInv
<1>4. CASE CloseEmpty
  <2>1. /\ during = "close" /\ bufLen = 0 /\ pc' = AfterArchive
        /\ UNCHANGED <<during, archErr, written, bufLen, manifest>>
    BY <1>4 DEF CloseEmpty, sinkVars
  <2>2. pc' \in {"manifest", "failed"} /\ (pc' = "manifest" => ~archErr)
    BY <2>1 DEF AfterArchive
  <2>3. pc' = "manifest" => Drained'  BY <2>1, <2>2 DEF LeftInv, Drained
  <2>  QED  BY <2>1, <2>2, <2>3 DEF LeftInv
<1>5. CASE CloseFlushes
  <2>1. /\ pc' = "block" /\ bufLen > 0
        /\ UNCHANGED <<during, archErr, written, bufLen, manifest>>
    BY <1>5 DEF CloseFlushes, NextBlock
  <2>  QED  BY <2>1 DEF LeftInv
<1>  QED  BY <1>1, <1>2, <1>3, <1>4, <1>5

LEMMA ShardLeft ==
  ASSUME OwnerInv, OwnerInv', SafetyInv, LeftInv, SendShard \/ SendShardFails
  PROVE  LeftInv'
<1>1. pc = "block" /\ bufLen > 0 /\ written > 0 /\ written' = written
  <2>1. pc = "block" /\ written' = written  BY DEF SendShard, SendShardFails, BlockFails
  <2>2. bufLen > 0  BY <2>1 DEF LeftInv
  <2>  QED  BY <2>1, <2>2, BufferTypes
<1>2. CASE SendShard /\ LastShard
  <2>1. /\ manifest' = Append(manifest, group)
        /\ \/ bufLen' = 0 /\ pc' \in {"manifest", "failed"}
           \/ bufLen' = BlockSize /\ pc' \in {"archive", "block"}
    BY <1>2 DEF SendShard, BlockSent, AfterArchive, KeepAfterBlock, NextBlock
  <2>2. manifest' # <<>>
    <3>1. group \in Group
      BY <1>1, BoundsAssumption DEF OwnerInv, OwnerTypeOK, OwnerCounters, Group
    <3>2. manifest \in Seq(Group)
      <4>1. PICK m \in 0 .. MaxGroups : manifest \in [1 .. m -> Group]
        BY DEF OwnerInv, OwnerTypeOK, Groups
      <4>  QED  BY <4>1, BoundsAssumption
    <3>  QED  BY <2>1, <3>1, <3>2, AppendProperties
  <2>  QED  BY <1>1, <2>1, <2>2, BufferTypes DEF LeftInv, Drained
<1>3. CASE SendShard /\ ~LastShard
  <2>1. pc' = "block" /\ bufLen' = bufLen  BY <1>1, <1>3 DEF SendShard
  <2>  QED  BY <1>1, <2>1 DEF LeftInv
<1>4. CASE SendShardFails
  <2>1. /\ pc' \in {"archive", "manifest", "failed"} /\ bufLen' = bufLen
        /\ UNCHANGED <<guardians, active>> /\ (pc' = "manifest" => k' = 1)
    BY <1>4 DEF SendShardFails, BlockFails, AfterArchive
  <2>2. \E p \in Active : ~up'[p]
    <3>1. PICK p \in PickRemotePeer(shard) : NotDelivered(p, ShardItem)
      BY <1>4 DEF SendShardFails
    <3>2. p \in Active /\ p \in Peer /\ WireTypeOK
      BY <3>1, BlockTypes DEF PickRemotePeer, SafetyInv, ReachedInv
    <3>  QED  BY <3>1, <3>2 DEF NotDelivered, WireTypeOK
  <2>3. pc' = "manifest" => \E j \in k' .. active' : ~up'[guardians'[j]]
    BY <2>1, <2>2 DEF Active
  <2>  QED  BY <1>1, <2>1, <2>3 DEF LeftInv
<1>  QED  BY <1>2, <1>3, <1>4

LEMMA LoopLeft ==
  ASSUME OwnerInv, LeftInv,
         SendManifest \/ SendManifestFails \/ SendShare \/ SendShareFails
  PROVE  LeftInv'
<1>1. UNCHANGED <<guardians, active, during, archErr, written, bufLen, manifest>>
  BY DEF SendManifest, SendManifestFails, SendShare, SendShareFails, sinkVars
<1>2. CASE SendManifest
  <2>1. /\ pc = "manifest" /\ up[guardians[k]] /\ up' = up
        /\ \/ k = Len(guardians) /\ pc' = "share"
           \/ k' = k + 1 /\ pc' = "manifest"
    BY <1>2 DEF SendManifest, Delivered
  <2>2. Len(guardians) = active  BY <2>1 DEF OwnerInv, OwnerCounters, Sending
  <2>3. ASSUME NEW j \in k .. active, ~up[guardians[j]]  PROVE j \in k + 1 .. active
    BY <2>1, <2>3, BufferTypes
  <2>4. CASE k = Len(guardians) /\ pc' = "share"
    <3>1. k + 1 .. active = {}  BY <2>2, <2>4, BufferTypes
    <3>2. Drained  BY <2>1, <2>3, <3>1 DEF LeftInv
    <3>  QED  BY <1>1, <2>4, <3>2 DEF LeftInv, Drained
  <2>5. CASE k' = k + 1 /\ pc' = "manifest"
    BY <1>1, <2>1, <2>3, <2>5 DEF LeftInv, Drained
  <2>  QED  BY <2>1, <2>4, <2>5
<1>3. CASE SendManifestFails \/ SendShareFails
  <2>1. pc' = "failed"  BY <1>3 DEF SendManifestFails, SendShareFails
  <2>  QED  BY <1>1, <2>1 DEF LeftInv
<1>4. CASE SendShare
  <2>1. pc = "share" /\ pc' \in {"share", "ok"}  BY <1>4 DEF SendShare
  <2>  QED  BY <1>1, <2>1 DEF LeftInv, Drained
<1>  QED  BY <1>2, <1>3, <1>4

(* As long as blocks can be prepared, a call that returns nil has sent all *)
(* of the archive, although ArchiveStream drops the errors of the deferred *)
(* Close: the connection a block was left for fails the manifest too.      *)
THEOREM NothingIsLeftBehind ==
  ASSUME "block" \notin CanFail
  PROVE  OwnerSpec => []NothingLeftBehind
<1>1. CallInit => LeftInv
  <2>  SUFFICES ASSUME CallInit  PROVE LeftInv  OBVIOUS
  <2>1. pc = "start" /\ written = 0 /\ during = "files"  BY DEF CallInit, OwnerInit
  <2>  QED  BY <2>1 DEF LeftInv
<1>2. OwnerInv /\ SafetyInv /\ LeftInv /\ OwnerInv' /\ [OwnerNext]_OwnerAll => LeftInv'
  <2>  SUFFICES ASSUME OwnerInv, SafetyInv, LeftInv, OwnerInv', [OwnerNext]_OwnerAll
                PROVE  LeftInv'
    OBVIOUS
  <2>1. CASE \/ Reject \/ PanicWithoutLetter \/ OpenFails \/ PanicOnUnreached \/ SplitKey
             \/ Announce \/ AnnounceFails \/ CheckActive
    <3>1. /\ pc' \in {"start", "announce", "archive", "failed", "panicked"}
          /\ UNCHANGED <<during, archErr, written, bufLen, manifest>>
      BY <2>1 DEF Reject, PanicWithoutLetter, OpenFails, PanicOnUnreached, SplitKey,
                  Announce, AnnounceFails, CheckActive, sinkVars
    <3>  QED  BY <3>1 DEF LeftInv
  <2>2. CASE SinkWrite \/ ArchiveEnds \/ FlushEnds \/ CloseEmpty \/ CloseFlushes
    BY <2>2, ArchiveLeft
  <2>3. CASE SendShard \/ SendShardFails  BY <2>3, ShardLeft
  <2>4. ~PrepareFails  BY DEF PrepareFails
  <2>5. CASE SendManifest \/ SendManifestFails \/ SendShare \/ SendShareFails
    BY <2>5, LoopLeft
  <2>6. CASE UNCHANGED OwnerAll
    BY <2>6 DEF OwnerAll, ownerVars, sinkVars, wireVars, LeftInv, Drained
  <2>  QED  BY <2>1, <2>2, <2>3, <2>4, <2>5, <2>6 DEF OwnerNext
<1>3. LeftInv => NothingLeftBehind  BY DEF LeftInv, Drained, NothingLeftBehind
<1>  QED  BY <1>1, <1>2, <1>3, OwnerSafety, PTL DEF OwnerSpec
=============================================================================
