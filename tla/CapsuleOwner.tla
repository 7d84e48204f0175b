---------------------------- MODULE CapsuleOwner ----------------------------
(***************************************************************************)
(* service.CreateAndSendCapsule: one call, from validating the payload to  *)
(* the last key share, with the archiver that writes into the block sink   *)
(* and the block sink that cuts, erasure codes and spreads the blocks.     *)
(* Bytes are counted in units; a full block is BlockSize units.            *)
(***************************************************************************)
EXTENDS Wire, RecoveryThreshold, FiniteSets

CONSTANTS Payloads,   \* the payloads Create may be called with
          BlockSize,  \* blockSinkBufSize
          CanFail     \* steps of this peer that may fail: "open", "setup", "archive", "block"

ASSUME PayloadsAssumption ==
  /\ Payloads \subseteq Payload
  /\ \A pl \in Payloads : pl.n <= NumPeers /\ pl.unreached \subseteq 1 .. pl.n
ASSUME BlockSizeAssumption == BlockSize \in Nat \ {0}

VARIABLES pc,         \* where the call is; "ok", "failed" and "panicked" are its outcomes
          payload,    \* the payload it was called with
          guardians,  \* payload.RemotePeerGuardians, compacted in place
          k,          \* loop index over guardians
          active,     \* activeRemotePeerCount
          during,     \* who writes: "files", "flush" (zstdW.Close), "close" (dst.Close)
          archErr,    \* the error ArchiveStream will return
          written,    \* units archived so far
          bufLen,     \* len(blockBuf)
          blockID,    \* the block sink's block counter
          group,      \* repair groups drawn so far
          shard,      \* the shard of the block being sent
          place,      \* where pickRemotePeer puts each shard of block blockID (0: not asked)
          manifest    \* capsuleManifest.blocks

sinkVars  == <<during, archErr, written, bufLen, blockID, group, shard, place, manifest>>
ownerVars == <<pc, payload, guardians, k, active, sinkVars>>

Outcome  == {"ok", "failed", "panicked"}
Shard    == 1 .. ShardsPerBlock
Unplaced == [i \in Shard |-> 0]

OwnerInit == /\ pc = "start"
             /\ payload \in Payloads
             /\ guardians = [i \in 1 .. payload.n |-> i]
             /\ k = 1 /\ active = 0
             /\ during = "files" /\ archErr = FALSE
             /\ written = 0 /\ bufLen = 0
             /\ blockID = 1 /\ group = 0 /\ shard = 1
             /\ place = Unplaced
             /\ manifest = <<>>

-----------------------------------------------------------------------------
(* Before anything is sent.                                                *)

Reject == /\ pc = "start"
          /\ ~validate(payload)
          /\ pc' = "failed"
          /\ UNCHANGED <<payload, guardians, k, active, sinkVars, wireVars>>

(* GetNumOfFiles calls Stat on the letter, whether there is one or not.    *)
PanicWithoutLetter == /\ pc = "start"
                      /\ validate(payload) /\ payload.letter = "none"
                      /\ pc' = "panicked"
                      /\ UNCHANGED <<payload, guardians, k, active, sinkVars, wireVars>>

OpenFails == /\ pc = "start"
             /\ validate(payload) /\ payload.letter # "none"
             /\ \/ payload.files = "blank"
                \/ payload.files = "present" /\ "open" \in CanFail
             /\ pc' = "failed"
             /\ UNCHANGED <<payload, guardians, k, active, sinkVars, wireVars>>

Opened == validate(payload) /\ payload.letter # "none" /\ payload.files # "blank"

(* A guardian that could not be dialled is a nil entry; ID() is called on  *)
(* every entry.                                                            *)
PanicOnUnreached == /\ pc = "start"
                    /\ Opened /\ payload.unreached # {}
                    /\ pc' = "panicked"
                    /\ UNCHANGED <<payload, guardians, k, active, sinkVars, wireVars>>

(* The master key is drawn and split into one share per guardian named.    *)
SplitKey == /\ pc = "start"
            /\ Opened /\ payload.unreached = {}
            /\ pc' \in {"announce"} \cup (IF "setup" \in CanFail THEN {"failed"} ELSE {})
            /\ UNCHANGED <<payload, guardians, k, active, sinkVars, wireVars>>

-----------------------------------------------------------------------------
(* Announcing the capsule.                                                 *)

Stream == [kind |-> "stream"]

\* Variant: reached guardians stay where they were.
CompactedNowhere(j) == guardians

(* Guardians that were told are moved to the front of the same slice.      *)
Compacted(j) == [guardians EXCEPT ![active + 1] = guardians[j]]

Announce == /\ pc = "announce" /\ k <= Len(guardians)
            /\ Delivered(guardians[k], Stream)
            /\ guardians' = Compacted(k)
            /\ active' = active + 1
            /\ k' = k + 1
            /\ UNCHANGED <<pc, payload, sinkVars>>

AnnounceFails == /\ pc = "announce" /\ k <= Len(guardians)
                 /\ NotDelivered(guardians[k], Stream)
                 /\ k' = k + 1
                 /\ UNCHANGED <<pc, payload, guardians, active, sinkVars>>

TooFew == active < MinGuardians

\* Variant: the slice keeps its old length.
CheckActiveUncut == /\ pc = "announce" /\ k > Len(guardians)
                    /\ pc' = IF TooFew THEN "failed" ELSE "archive"
                    /\ UNCHANGED <<payload, guardians, k, active, sinkVars, wireVars>>

CheckActive == /\ pc = "announce" /\ k > Len(guardians)
               /\ \/ /\ TooFew
                     /\ pc' = "failed"
                     /\ UNCHANGED guardians
                  \/ /\ ~TooFew
                     /\ pc' \in {"archive"} \cup (IF "setup" \in CanFail THEN {"failed"} ELSE {})
                     /\ guardians' = SubSeq(guardians, 1, active)
               /\ UNCHANGED <<payload, k, active, sinkVars, wireVars>>

Active == {guardians[i] : i \in 1 .. active}

-----------------------------------------------------------------------------
(* ArchiveStream writing into the block sink.                              *)

(* What ArchiveStream returns to CreateAndSendCapsule.                     *)
AfterArchive == IF archErr THEN "failed" ELSE "manifest"

\* Variant: one repair group for all attempts.
NextBlockSameGroup == /\ group < MaxGroups
                      /\ pc' = "block"
                      /\ group' = IF group = 0 THEN 1 ELSE group
                      /\ shard' = 1

(* processBlock begins: a fresh repair group, its first shard next.        *)
NextBlock == /\ group < MaxGroups
             /\ pc' = "block"
             /\ group' = group + 1
             /\ shard' = 1

(* The compressor hands a chunk of m units to Write.                       *)
SinkWrite == /\ pc = "archive" /\ during \in {"files", "flush"}
             /\ \E m \in 1 .. BlockSize :
                  /\ written + m <= MaxWritten
                  /\ written' = written + m
                  /\ bufLen' = bufLen + m
             /\ IF bufLen' >= BlockSize THEN NextBlock ELSE UNCHANGED <<pc, group, shard>>
             /\ UNCHANGED <<payload, guardians, k, active, during, archErr, blockID, place,
                            manifest, wireVars>>

(* The loop over the files ends and the deferred calls begin.  It ends     *)
(* early when a file cannot be read or the context is done; the compressor *)
(* is flushed and the sink closed all the same.                            *)
ArchiveEnds == /\ pc = "archive" /\ during = "files"
               /\ during' = "flush"
               /\ archErr' \in {FALSE} \cup (IF "archive" \in CanFail THEN {TRUE} ELSE {})
               /\ UNCHANGED <<pc, payload, guardians, k, active, written, bufLen, blockID,
                              group, shard, place, manifest, wireVars>>

(* The archive trailer makes the stream of a finished archive non-empty.   *)
FlushEnds == /\ pc = "archive" /\ during = "flush"
             /\ written > 0 \/ archErr
             /\ during' = "close"
             /\ UNCHANGED <<pc, payload, guardians, k, active, archErr, written, bufLen,
                            blockID, group, shard, place, manifest, wireVars>>

(* Close with an empty buffer, or with a last block to send.               *)
CloseEmpty == /\ pc = "archive" /\ during = "close"
              /\ bufLen = 0
              /\ pc' = AfterArchive
              /\ k' = 1
              /\ UNCHANGED <<payload, guardians, active, sinkVars, wireVars>>

\* Variant: what is left is not flushed.
CloseForgets == /\ pc = "archive" /\ during = "close"
                /\ bufLen > 0
                /\ pc' = AfterArchive
                /\ k' = 1
                /\ UNCHANGED <<payload, guardians, active, sinkVars, wireVars>>

CloseFlushes == /\ pc = "archive" /\ during = "close"
                /\ bufLen > 0
                /\ NextBlock
                /\ UNCHANGED <<payload, guardians, k, active, during, archErr, written,
                               bufLen, blockID, place, manifest, wireVars>>

-----------------------------------------------------------------------------
(* processBlock.                                                           *)

isFinal == during = "close"

\* Variant: a random guardian each time.
PickAny(i) == Active

(* pickRemotePeer is a hash of the block, the shard and the guardian: any  *)
(* guardian, and the same one when the same block is tried again.          *)
PickRemotePeer(i) == IF place[i] # 0 THEN {place[i]} ELSE Active

\* Variant: the loop stops one shard early.
LastButOneShard == shard + 1 >= ShardsPerBlock

LastShard == shard = ShardsPerBlock

\* Variant: the last block is padded to a full one.
PaddedItem == [kind |-> "shard", group |-> group, index |-> shard,
               size |-> BlockSize, final |-> isFinal, whole |-> TRUE]

ShardItem == [kind |-> "shard", group |-> group, index |-> shard,
              size |-> IF isFinal THEN bufLen ELSE BlockSize,
              final |-> isFinal, whole |-> TRUE]

\* Variant: two blocks are cut off for one that went out.
KeepTooLittle(len) == len - 2 * BlockSize

(* What Write leaves in blockBuf after a full block went out.              *)
KeepAfterBlock(len) == BlockSize

(* A block's last shard went out.                                          *)
BlockSent ==
  /\ manifest' = Append(manifest, group)
  /\ blockID' = blockID + 1
  /\ place' = Unplaced
  /\ IF isFinal
     THEN /\ bufLen' = 0
          /\ pc' = AfterArchive
          /\ k' = 1
          /\ UNCHANGED <<group, shard>>
     ELSE /\ bufLen' = KeepAfterBlock(bufLen)
          /\ IF bufLen' >= BlockSize THEN NextBlock
             ELSE pc' = "archive" /\ UNCHANGED <<group, shard>>
          /\ UNCHANGED k

SendShard == /\ pc = "block"
             /\ \E p \in PickRemotePeer(shard) :
                  /\ Delivered(p, ShardItem)
                  /\ IF LastShard
                     THEN BlockSent
                     ELSE /\ shard' = shard + 1
                          /\ place' = [place EXCEPT ![shard] = p]
                          /\ UNCHANGED <<pc, k, bufLen, blockID, group, manifest>>
             /\ UNCHANGED <<payload, guardians, active, during, archErr, written>>

\* Variant: the block counter moves on when a block fails.
BlockFailsCounted ==
  /\ IF isFinal THEN pc' = AfterArchive /\ k' = 1 ELSE pc' = "archive" /\ UNCHANGED k
  /\ during' = "close" /\ blockID' = blockID + 1
  /\ archErr' \in {archErr} \cup (IF during = "files" THEN {TRUE} ELSE {})
  /\ UNCHANGED <<payload, guardians, active, written, bufLen, group, shard, manifest>>

(* processBlock returned an error and the block stays in blockBuf.  From   *)
(* Write it stops the compressor: what is left is dst.Close, and whether   *)
(* the loop over the files noticed depends on how much was still to come.  *)
(* From zstdW.Close or dst.Close nobody looks at it.                       *)
BlockFails == /\ IF isFinal THEN pc' = AfterArchive /\ k' = 1
                            ELSE pc' = "archive" /\ UNCHANGED k
              /\ during' = "close"
              /\ archErr' \in {archErr} \cup (IF during = "files" THEN {TRUE} ELSE {})
              /\ UNCHANGED <<payload, guardians, active, written, bufLen, blockID, group,
                             shard, manifest>>

SendShardFails == /\ pc = "block"
                  /\ \E p \in PickRemotePeer(shard) :
                       /\ NotDelivered(p, ShardItem)
                       /\ place' = [place EXCEPT ![shard] = p]
                  /\ BlockFails

(* Deriving the block key, encrypting the block or erasure coding it       *)
(* failed, before a repair group was drawn for it.                         *)
PrepareFails == /\ pc = "block" /\ shard = 1 /\ "block" \in CanFail
                /\ BlockFails
                /\ UNCHANGED <<place, wireVars>>

-----------------------------------------------------------------------------
(* The manifest and the key shares.                                        *)

ManifestItem == [kind |-> "manifest", groups |-> manifest]

SendManifest == /\ pc = "manifest"
                /\ Delivered(guardians[k], ManifestItem)
                /\ IF k = Len(guardians) THEN pc' = "share" /\ k' = 1
                                         ELSE k' = k + 1 /\ UNCHANGED pc
                /\ UNCHANGED <<payload, guardians, active, sinkVars>>

\* Variant: a guardian that cannot be sent the manifest is passed over.
SkipManifest == /\ pc = "manifest"
                /\ NotDelivered(guardians[k], ManifestItem)
                /\ IF k = Len(guardians) THEN pc' = "share" /\ k' = 1
                                         ELSE k' = k + 1 /\ UNCHANGED pc
                /\ UNCHANGED <<payload, guardians, active, sinkVars>>

SendManifestFails == /\ pc = "manifest"
                     /\ NotDelivered(guardians[k], ManifestItem)
                     /\ pc' = "failed"
                     /\ UNCHANGED <<payload, guardians, k, active, sinkVars>>

\* Variant: every guardian is sent the first share.
FirstShareItem(i) == [kind |-> "share", index |-> 1, whole |-> TRUE]

ShareItem(i) == [kind |-> "share", index |-> i, whole |-> TRUE]

SendShare == /\ pc = "share"
             /\ Delivered(guardians[k], ShareItem(k))
             /\ IF k = Len(guardians) THEN pc' = "ok" /\ UNCHANGED k
                                      ELSE k' = k + 1 /\ UNCHANGED pc
             /\ UNCHANGED <<payload, guardians, active, sinkVars>>

\* Variant: a guardian that cannot be sent its share is passed over.
SkipShare == /\ pc = "share"
             /\ NotDelivered(guardians[k], ShareItem(k))
             /\ IF k = Len(guardians) THEN pc' = "ok" /\ UNCHANGED k
                                      ELSE k' = k + 1 /\ UNCHANGED pc
             /\ UNCHANGED <<payload, guardians, active, sinkVars>>

SendShareFails == /\ pc = "share"
                  /\ NotDelivered(guardians[k], ShareItem(k))
                  /\ pc' = "failed"
                  /\ UNCHANGED <<payload, guardians, k, active, sinkVars>>

OwnerNext == \/ Reject \/ PanicWithoutLetter \/ OpenFails \/ PanicOnUnreached \/ SplitKey
             \/ Announce \/ AnnounceFails \/ CheckActive
             \/ SinkWrite \/ ArchiveEnds \/ FlushEnds \/ CloseEmpty \/ CloseFlushes
             \/ SendShard \/ SendShardFails \/ PrepareFails
             \/ SendManifest \/ SendManifestFails
             \/ SendShare \/ SendShareFails

OwnerAll == <<ownerVars, wireVars>>

CallInit == WireInit /\ OwnerInit

OwnerSpec == CallInit /\ [][OwnerNext]_OwnerAll

-----------------------------------------------------------------------------
(***************************************************************************)
(* Properties                                                              *)
(***************************************************************************)

(* Every variable keeps its type: counters stay within their bounds, the   *)
(* buffer never shrinks below empty, and each loop index stays in range.   *)
OwnerTypeOK ==
  /\ WireTypeOK
  /\ pc \in {"start", "announce", "archive", "block", "manifest", "share"} \cup Outcome
  /\ payload \in Payloads
  /\ guardians \in Seq(Peer)
  /\ k \in 1 .. (NumPeers + 1) /\ active \in 0 .. NumPeers
  /\ during \in {"files", "flush", "close"} /\ archErr \in BOOLEAN
  /\ written \in 0 .. MaxWritten /\ bufLen \in 0 .. MaxWritten
  /\ blockID \in 1 .. (MaxGroups + 1) /\ group \in 0 .. MaxGroups
  /\ shard \in Shard /\ place \in [Shard -> 0 .. NumPeers]
  /\ manifest \in Groups

(* The guardians the rest of the call talks to are exactly those whose     *)
(* announcement was written, each once and in payload order, at whatever   *)
(* point of the announce loop the slice is compacted in place.             *)
ActiveAreAnnounced ==
  /\ Active = {p \in Peer : sent[p] # <<>>}
  /\ \A i, j \in 1 .. active : i < j => guardians[i] < guardians[j]

Rank(item) == CASE item.kind = "stream" -> 1
                [] item.kind = "shard" -> 2
                [] item.kind = "manifest" -> 3
                [] item.kind = "share" -> 4

(* What ReceiveCapsuleStream expects to read is what each guardian is      *)
(* written, on every path through failures and the sink's retry of a       *)
(* block: the announcement, shards, one manifest, one share, and nothing   *)
(* after a message whose data was cut short.                               *)
StreamGrammar ==
  \A p \in Peer :
    /\ sent[p] # <<>> => sent[p][1].kind = "stream"
    /\ \A i, j \in 1 .. Len(sent[p]) : i < j =>
         /\ \/ Rank(sent[p][i]) < Rank(sent[p][j])
            \/ sent[p][i].kind = "shard" /\ sent[p][j].kind = "shard"
         /\ HasData(sent[p][i]) => sent[p][i].whole

InManifest(g) == \E j \in 1 .. Len(manifest) : manifest[j] = g

(* A repair group the manifest lists has every one of its shards written,  *)
(* with its data, to some guardian of the capsule.                         *)
ManifestIsBacked ==
  \A g \in Group : InManifest(g) =>
    \A x \in Shard : \E p \in Active : \E i \in 1 .. Len(sent[p]) :
      /\ sent[p][i].kind = "shard" /\ sent[p][i].whole
      /\ sent[p][i].group = g /\ sent[p][i].index = x

(* No repair group completes after one that broke off in the middle of its *)
(* shards: a retried block is placed on the same guardians, so it meets    *)
(* the broken connection again (pickRemotePeer, blockSinkEncoder.Close).   *)
NothingAfterBrokenGroup ==
  \A p \in Peer : \A i \in 1 .. Len(sent[p]) :
    sent[p][i].kind = "shard" /\ ~InManifest(sent[p][i].group) =>
      \A j \in 1 .. Len(manifest) : manifest[j] < sent[p][i].group

(* No part of the master key leaves the owner before every active guardian *)
(* has been written the manifest.                                          *)
KeyAfterManifests ==
  (\E p \in Peer : \E i \in 1 .. Len(sent[p]) : sent[p][i].kind = "share") =>
    \A p \in Active : Got(p, "manifest")

(* No two guardians are written the same share of the key, though shares   *)
(* are indexed after the guardians that did not answer were dropped.       *)
SharesAreDistinct ==
  \A p, q \in Peer : p # q =>
    \A i \in 1 .. Len(sent[p]), j \in 1 .. Len(sent[q]) :
      sent[p][i].kind = "share" /\ sent[q][j].kind = "share" =>
        sent[p][i].index # sent[q][j].index

(* A call that returns nil wrote the manifest and a share to at least the  *)
(* minimum number of guardians, whichever connections broke on the way.    *)
OkMeansDelivered ==
  pc = "ok" =>
    /\ Cardinality(Active) >= MinGuardians
    /\ \A p \in Active : Got(p, "manifest") /\ Got(p, "share")

(* "Close flushes remaining data in block": nothing of the archive is left *)
(* in the block buffer of a call that returns nil.  The deferred calls     *)
(* drop the sink's errors, but a connection that broke under a block fails *)
(* the manifest or the share as well; a block that could not be prepared   *)
(* goes unnoticed.                                                         *)
NothingLeftBehind == pc = "ok" => bufLen = 0 /\ manifest # <<>>

(* What the comments and the tests promise.                                *)

(* "Original data is recovered successfully": a call that returns nil gave *)
(* out at least as many key shares as it takes to recover the key.         *)
KeyIsRecoverable == pc = "ok" => Cardinality(Active) >= Threshold(payload)

(* "archive > compress > block sink(encrypt 1mb block) > shard", where     *)
(* Close "flushes remaining data": the full blocks are cut from the        *)
(* archived bytes one after the other, so that they never add up to more   *)
(* than was archived.                                                      *)
FullBlocksAreArchive == ~isFinal => Len(manifest) * BlockSize <= written
=============================================================================
