--------------------------- MODULE CapsuleGuardian ---------------------------
(***************************************************************************)
(* A guardian: the transport's read loop on a connection an owner dialled, *)
(* and service.ReceiveCapsuleStream, which the loop calls when it reads a  *)
(* stream announcement and which then takes over the connection.  Guardian *)
(* p reads connection p; what it keeps on disk survives its crash.         *)
(*                                                                         *)
(* The handler is written for an interface, transport.RemotePeer, and the  *)
(* module for two implementations of it: one that keeps the interface's    *)
(* promise, as the double of the tests can, and remotePeerConn, the one of *)
(* this code, whose Receive never fills the caller's message.              *)
(***************************************************************************)
EXTENDS StreamProtocol, FiniteSets

CONSTANTS MaxShardLen,   \* largest block, in units, whose shards fit the announced ShardSize
          MaxShards,     \* maxShards
          StorageFails,  \* whether a write to the database or the object store may fail
          Timeouts,      \* whether the message's two seconds may run out
          Receivers,     \* implementations of RemotePeer: "interface", "remotePeerConn"
          FileName,      \* names of files: the last four hexadecimal digits of a hash
          FileOf         \* the file name of each shard's hash

ShardId == Group \X (1 .. ShardsPerBlock)

ASSUME GuardianAssumption == /\ MaxShardLen \in Nat /\ MaxShards \in Nat
                             /\ StorageFails \in BOOLEAN /\ Timeouts \in BOOLEAN
ASSUME FilesAssumption    == FileOf \in [ShardId -> FileName]

VARIABLES gpc,        \* where each guardian is: in the read loop or in the handler
          next,       \* index of the next message to read
          garbled,    \* raw data nobody read stands where the next frame should
          record,     \* the capsule's row: none, or its two flags
          files,      \* the shard each file of its directory holds in whole, if any
          metas,      \* shards the database has a row for; what the row says is {}
          manifests,  \* the manifest the database holds, if any
          shares,     \* the key share the database holds, if any
          result      \* what ReceiveCapsuleStream returned

diskVars     == <<record, files, metas, manifests, shares>>
guardianVars == <<gpc, next, garbled, diskVars, result>>

Id(item) == <<item.group, item.index>>

NoRecord == [exists |-> FALSE, complete |-> FALSE, keyReceived |-> FALSE]
Record   == [exists : BOOLEAN, complete : BOOLEAN, keyReceived : BOOLEAN]

Receiving == {"shard", "manifest", "share"}
Handling  == Receiving \cup {"create", "loop", "save", "meta", "final",
                             "putManifest", "putShare", "finish"}

GuardianInit == /\ gpc = [p \in Peer |-> "reading"]
                /\ next = [p \in Peer |-> 1]
                /\ garbled = [p \in Peer |-> FALSE]
                /\ record = [p \in Peer |-> NoRecord]
                /\ files = [p \in Peer |-> [f \in FileName |-> {}]]
                /\ metas = [p \in Peer |-> {}]
                /\ manifests = [p \in Peer |-> {}]
                /\ shares = [p \in Peer |-> {}]
                /\ result = [p \in Peer |-> "none"]

Goto(p, l) == gpc' = [gpc EXCEPT ![p] = l]

\* Variant: the handler goes on to the next shard.
HandlerGoesOn(p) == /\ Goto(p, "loop")
                    /\ result' = [result EXCEPT ![p] = "failed"]

(* The handler returns an error to the read loop, which reads on.          *)
HandlerFails(p) == /\ Goto(p, "reading")
                   /\ result' = [result EXCEPT ![p] = "failed"]

(* The next message has come in whole, as far as the reader asks for data. *)
Arrived(p) == next[p] <= Len(sent[p])
Incoming(p) == sent[p][next[p]]
Current(p) == sent[p][next[p] - 1]
\* Variant: a message is skipped.
TakeTwo(p) == next' = [next EXCEPT ![p] = @ + 2]
Take(p) == next' = [next EXCEPT ![p] = @ + 1]

-----------------------------------------------------------------------------
(* The read loop (handleRemotePeerConn, onMessage).                        *)

ReadFrame(p) ==
  /\ gpc[p] = "reading" /\ ~garbled[p] /\ Arrived(p)
  /\ Take(p)
  /\ IF Incoming(p).kind = "stream" THEN Goto(p, "create") /\ UNCHANGED garbled
     ELSE /\ garbled' = [garbled EXCEPT ![p] = HasData(Incoming(p))]
          /\ UNCHANGED gpc
  /\ UNCHANGED <<diskVars, result>>

(* Raw data does not decode as a frame; the connection is dropped.         *)
ReadGarbage(p) == /\ gpc[p] = "reading" /\ garbled[p]
                  /\ Goto(p, "closed")
                  /\ UNCHANGED <<next, garbled, diskVars, result>>

(* A read fails: whoever is reading returns, and the read loop closes.     *)
LoseConnection(p) ==
  /\ p \in Unreliable /\ gpc[p] \in Receiving \cup {"reading"}
  /\ Goto(p, "closed")
  /\ result' = [result EXCEPT ![p] = IF gpc[p] = "reading" THEN @ ELSE "failed"]
  /\ UNCHANGED <<next, garbled, diskVars>>

(* The file that is being written is left short: it was truncated first.   *)
FileInHand(p) == FileOf[Id(Current(p))]
TearsFile(p) == files' = [files EXCEPT ![p][FileInHand(p)] = {}]

(* The process dies between any two steps, or while it writes a shard's    *)
(* file; nothing resumes the capsule.                                      *)
Crash(p) == /\ p \in Unreliable /\ gpc[p] # "closed"
            /\ Goto(p, "closed")
            /\ UNCHANGED files \/ (gpc[p] = "save" /\ TearsFile(p))
            /\ UNCHANGED <<next, garbled, record, metas, manifests, shares, result>>

-----------------------------------------------------------------------------
(* ReceiveCapsuleStream.                                                   *)

(* A step that writes to disk: it takes effect and goes on, or it fails    *)
(* and the handler gives up.                                               *)
Stored(p, l) == Goto(p, l) /\ UNCHANGED result

NotStored(p) == /\ StorageFails
                /\ HandlerFails(p)
                /\ UNCHANGED diskVars

CreateRecord(p) ==
  /\ gpc[p] = "create"
  /\ \/ /\ record' = [record EXCEPT ![p] = [NoRecord EXCEPT !.exists = TRUE]]
        /\ UNCHANGED <<files, metas, manifests, shares>>
        /\ Stored(p, "loop")
     \/ NotStored(p)
  /\ UNCHANGED <<next, garbled>>

(* The context is looked at here only, never while Receive waits.  Each    *)
(* shard counted so far has left its metadata behind.                      *)
LoopHead(p) ==
  /\ gpc[p] = "loop"
  /\ \/ Timeouts /\ HandlerFails(p)
     \/ Cardinality(metas[p]) >= MaxShards /\ HandlerFails(p)
     \/ Cardinality(metas[p]) < MaxShards /\ Goto(p, "shard") /\ UNCHANGED result
  /\ UNCHANGED <<next, garbled, diskVars>>

(* A shard must fit the buffer made after the announced ShardSize.         *)
Fits(item) == item.kind = "shard" => item.size <= MaxShardLen

(* Receive as the interface promises it, and as the handler uses it: the   *)
(* caller's message is filled and its data is in the caller's buffer.      *)
Receive(p, kind, l) ==
  /\ "interface" \in Receivers
  /\ gpc[p] = kind /\ Arrived(p)
  /\ Incoming(p).kind = kind /\ (HasData(Incoming(p)) => Incoming(p).whole)
  /\ Fits(Incoming(p))
  /\ Take(p) /\ Goto(p, l)
  /\ UNCHANGED <<garbled, diskVars, result>>

LeavesData(p) == garbled' = [garbled EXCEPT ![p] = HasData(Incoming(p))]

(* It meets a message of another kind, or a shard that does not fit: the   *)
(* data after it stays on the connection.                                  *)
ReceiveRefuses(p) ==
  /\ "interface" \in Receivers
  /\ gpc[p] \in Receiving /\ Arrived(p)
  /\ Incoming(p).kind # gpc[p] \/ ~Fits(Incoming(p))
  /\ Take(p) /\ LeavesData(p)
  /\ HandlerFails(p)
  /\ UNCHANGED diskVars

(* Receive as remotePeerConn has it takes the frame and leaves the caller  *)
(* empty-handed, whatever came: a manifest with another capsule's ID, the  *)
(* zero one; a shard that fits the buffer with ErrChunkSizeExceeded, and   *)
(* one that does not with that or by the panic of the slice; anything else *)
(* with ErrUnexpectedMessageType.  (That it waits for its own mutex before *)
(* it gets so far is module RemoteConn's.)                                 *)
ReceiveOfConn(p) ==
  /\ "remotePeerConn" \in Receivers
  /\ gpc[p] \in Receiving /\ Arrived(p)
  /\ Take(p) /\ LeavesData(p)
  /\ \/ HandlerFails(p)
     \/ /\ gpc[p] # "manifest" /\ ~Fits(Incoming(p))
        /\ Goto(p, "closed") /\ UNCHANGED result
  /\ UNCHANGED diskVars

\* Variant: the directories are made and nothing is written.
WritesNothing(p) == UNCHANGED files

(* SaveCAS writes over whatever has the name of the file; a write that     *)
(* fails has left the file as it was or short.                             *)
WritesFile(p) == files' = [files EXCEPT ![p][FileInHand(p)] = {Id(Current(p))}]
WriteFails(p) == StorageFails /\ (UNCHANGED files \/ TearsFile(p))

\* Variants: the error of SaveCAS is not looked at; a shard that cannot be saved is skipped.
SaveShardBlindly(p) ==
  /\ gpc[p] = "save"
  /\ WritesFile(p) \/ WriteFails(p)
  /\ Stored(p, "meta")
  /\ UNCHANGED <<next, garbled, record, metas, manifests, shares>>

SaveShardOrSkip(p) ==
  /\ gpc[p] = "save"
  /\ \/ WritesFile(p) /\ Stored(p, "meta")
     \/ WriteFails(p) /\ Stored(p, "loop")
  /\ UNCHANGED <<next, garbled, record, metas, manifests, shares>>

SaveShard(p) ==
  /\ gpc[p] = "save"
  /\ \/ WritesFile(p) /\ Stored(p, "meta")
     \/ WriteFails(p) /\ HandlerFails(p)
  /\ UNCHANGED <<next, garbled, record, metas, manifests, shares>>

(* Only a shard marked final ends the loop.                                *)
AfterShard(item) == IF item.final THEN "final" ELSE "loop"

StoreMeta(p) ==
  /\ gpc[p] = "meta"
  /\ \/ /\ metas' = [metas EXCEPT ![p] = @ \cup {Id(Current(p))}]
        /\ UNCHANGED <<record, files, manifests, shares>>
        /\ Stored(p, AfterShard(Current(p)))
     \/ NotStored(p)
  /\ UNCHANGED <<next, garbled>>

\* Variant: the break leaves something less than the loop.
AfterFinalLoop == "loop"

AfterFinal == "manifest"

MarkComplete(p) ==
  /\ gpc[p] = "final"
  /\ \/ /\ record' = [record EXCEPT ![p].complete = TRUE]
        /\ UNCHANGED <<files, metas, manifests, shares>>
        /\ Stored(p, AfterFinal)
     \/ NotStored(p)
  /\ UNCHANGED <<next, garbled>>

\* Variants: the error of storing the manifest, or the share, is not looked at.
StoreManifestBlindly(p) ==
  /\ gpc[p] = "putManifest"
  /\ \/ manifests' = [manifests EXCEPT ![p] = {Current(p).groups}]
     \/ StorageFails /\ UNCHANGED manifests
  /\ Stored(p, "share")
  /\ UNCHANGED <<next, garbled, record, files, metas, shares>>

StoreShareBlindly(p) ==
  /\ gpc[p] = "putShare"
  /\ \/ shares' = [shares EXCEPT ![p] = {Current(p).index}]
     \/ StorageFails /\ UNCHANGED shares
  /\ Stored(p, "finish")
  /\ UNCHANGED <<next, garbled, record, files, metas, manifests>>

StoreManifest(p) ==
  /\ gpc[p] = "putManifest"
  /\ \/ /\ manifests' = [manifests EXCEPT ![p] = {Current(p).groups}]
        /\ UNCHANGED <<record, files, metas, shares>>
        /\ Stored(p, "share")
     \/ NotStored(p)
  /\ UNCHANGED <<next, garbled>>

StoreShare(p) ==
  /\ gpc[p] = "putShare"
  /\ \/ /\ shares' = [shares EXCEPT ![p] = {Current(p).index}]
        /\ UNCHANGED <<record, files, metas, manifests>>
        /\ Stored(p, "finish")
     \/ NotStored(p)
  /\ UNCHANGED <<next, garbled>>

(* The row is written anew with the key flag alone, and the error of doing *)
(* so is not looked at.                                                    *)
FinalRecord == [exists |-> TRUE, complete |-> FALSE, keyReceived |-> TRUE]

Finish(p) ==
  /\ gpc[p] = "finish"
  /\ \/ record' = [record EXCEPT ![p] = FinalRecord]
     \/ StorageFails /\ UNCHANGED record
  /\ result' = [result EXCEPT ![p] = "ok"]
  /\ Goto(p, "reading")
  /\ UNCHANGED <<next, garbled, files, metas, manifests, shares>>

(* What the guardian's own goroutine does.                                 *)
GuardianStep(p) ==
  \/ ReadFrame(p) \/ ReadGarbage(p)
  \/ CreateRecord(p) \/ LoopHead(p)
  \/ Receive(p, "shard", "save") \/ SaveShard(p) \/ StoreMeta(p) \/ MarkComplete(p)
  \/ Receive(p, "manifest", "putManifest") \/ StoreManifest(p)
  \/ Receive(p, "share", "putShare") \/ StoreShare(p)
  \/ ReceiveRefuses(p) \/ ReceiveOfConn(p)
  \/ Finish(p)

GuardianFaults(p) == LoseConnection(p) \/ Crash(p)

GuardianNext == \E p \in Peer : GuardianStep(p) \/ GuardianFaults(p)

GuardianAll == <<guardianVars, wireVars>>

ReadingInit == WireInit /\ GuardianInit

GuardianSpec ==
  /\ ReadingInit
  /\ [][\/ GuardianNext /\ UNCHANGED wireVars
        \/ StreamNext /\ UNCHANGED guardianVars]_GuardianAll

-----------------------------------------------------------------------------
(***************************************************************************)
(* Properties                                                              *)
(***************************************************************************)

(* Every variable keeps its type; a handler past its first Receive has a   *)
(* current message.                                                        *)
GuardianTypeOK ==
  /\ gpc \in [Peer -> Handling \cup {"reading", "closed"}]
  /\ next \in [Peer -> Nat \ {0}]
  /\ \A p \in Peer : next[p] <= Len(sent[p]) + 1
  /\ garbled \in [Peer -> BOOLEAN]
  /\ record \in [Peer -> Record]
  /\ files \in [Peer -> [FileName -> SUBSET ShardId]] /\ metas \in [Peer -> SUBSET ShardId]
  /\ manifests \in [Peer -> SUBSET Groups] /\ shares \in [Peer -> SUBSET Peer]
  /\ result \in [Peer -> {"none", "ok", "failed"}]

IsShard(p, i) == sent[p][i].kind = "shard"

FileNamed(p, i) == FileOf[Id(sent[p][i])]

(* The file with the name of the i-th message, a shard, holds it, or what  *)
(* a later shard of that name left in its place: its own data or nothing.  *)
HasFile(p, i) ==
  \/ files[p][FileNamed(p, i)] = {Id(sent[p][i])}
  \/ \E j \in i + 1 .. next[p] - 1 :
       /\ IsShard(p, j) /\ FileNamed(p, j) = FileNamed(p, i)
       /\ files[p][FileNamed(p, i)] \subseteq {Id(sent[p][j])}

OnFile(p) == UNION {files[p][f] : f \in FileName}

(* Whatever fails or crashes between the object store and the database:    *)
(* the data of a shard on record stands in its file unless a later shard   *)
(* of the capsule, whose hash ends in the same digits, was written over it *)
(* or failed to be; and at most one shard lies in a file and has no row    *)
(* (the orphan of the TODO after the write).                               *)
RecordedHasFile ==
  \A p \in Peer :
    /\ \A i \in 1 .. next[p] - 1 :
         IsShard(p, i) /\ Id(sent[p][i]) \in metas[p] => HasFile(p, i)
    /\ Cardinality(OnFile(p) \ metas[p]) <= 1

(* The shards a guardian has on record are the first ones it was written:  *)
(* none is skipped, whatever step of storing one fails.                    *)
NoShardSkipped ==
  \A p \in Peer : \A i, j \in 1 .. Len(sent[p]) :
    i < j /\ IsShard(p, i) /\ IsShard(p, j) /\ Id(sent[p][j]) \in metas[p] =>
      Id(sent[p][i]) \in metas[p]

(* The disk alone tells how far the stream came: a key share implies the   *)
(* manifest, and the manifest implies a stored shard of the final block.   *)
DiskTellsProgress ==
  \A p \in Peer :
    /\ shares[p] # {} => manifests[p] # {}
    /\ manifests[p] # {} => \E i \in 1 .. Len(sent[p]) :
         IsShard(p, i) /\ sent[p][i].final /\ Id(sent[p][i]) \in metas[p]

(* The row, which each stage writes anew as a whole, never claims what the *)
(* disk does not hold: a capsule marked complete has a stored shard of its *)
(* final block, one marked as having its key part has the share.           *)
FlagsAreTrue ==
  \A p \in Peer :
    /\ record[p].complete => \E i \in 1 .. Len(sent[p]) :
         IsShard(p, i) /\ sent[p][i].final /\ Id(sent[p][i]) \in metas[p]
    /\ record[p].keyReceived => shares[p] # {}

(* A handler that returns nil has on record what the owner wrote to this   *)
(* guardian: the manifest, the share and a row for every one of its shards *)
(* (what stands in their files is RecordedHasFile's).                      *)
OkMeansStored ==
  \A p \in Peer : result[p] = "ok" =>
    /\ \E i, j \in 1 .. Len(sent[p]) :
         /\ sent[p][i].kind = "manifest" /\ manifests[p] = {sent[p][i].groups}
         /\ sent[p][j].kind = "share" /\ shares[p] = {sent[p][j].index}
    /\ \A i \in 1 .. Len(sent[p]) : IsShard(p, i) => Id(sent[p][i]) \in metas[p]

(* A handler that returned never stores anything again.                    *)
DoneIsDone ==
  [][\A p \in Peer : result[p] # "none" => UNCHANGED <<files[p], metas[p], manifests[p],
                                                      shares[p], record[p]>>]_GuardianAll

(* The disks as the abstract vault.                                        *)
StageOf(p) == IF shares[p] # {} THEN "keyed"
              ELSE IF manifests[p] # {} THEN "listed"
              ELSE IF record[p].complete THEN "sealed"
              ELSE IF record[p].exists THEN "open" ELSE "none"

Vault == INSTANCE GuardianVault WITH Guardians <- Peer, Shards <- ShardId,
                                     stage <- [p \in Peer |-> StageOf(p)], held <- metas

(* The guardians' disks implement the vault: through every failure and     *)
(* crash they only move forward, and no shard is added once a guardian is  *)
(* marked complete.                                                        *)
ImplementsVault == Vault!VaultSpec
=============================================================================
