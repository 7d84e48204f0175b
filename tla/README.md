# Diogel: specifications of the capsule transfer

Diogel hands a *capsule* (a letter and files) to a group of *guardians*. The
owner's node archives and compresses the data, cuts the stream into blocks,
encrypts and erasure codes each block, spreads the shards over the guardians,
and gives each guardian a manifest and one share of the key. These TLA+ modules
model that transfer, the transport and the framing under it, and what a node keeps
for it: its user's identity and its object store. TLC checks them on small
instances; TLAPS proves the theorems listed below for all values of the constants.

Paths below are relative to `src/`; `service.go`, `blocksinker.go`, `dtos.go` and
the stores are in `internal/features/capsule/`, `peer.go` in `cmd/diogel/peer/`.

## The system

| Component | State | Operations | Hard parts |
|---|---|---|---|
| Capsule service, owner (`service.go` CreateAndSendCapsule, `dtos.go`) | the guardians' slice, compacted in place; the key shares | validate, announce, archive, manifest, shares | any Send may fail; guardians drop out between splitting the key and handing it out |
| Block sink (`blocksinker.go`) | block buffer, block counter, manifest | Write, Close, processBlock, pickRemotePeer | called from the compressor's deferred closes, whose errors are dropped; a failed block stays in the buffer and is tried again |
| Archiver (`internal/archive`) | none | ArchiveStream, UnArchiveStream | order of the deferred closes |
| Capsule service, guardian (`service.go` ReceiveCapsuleStream) | the capsule's row, shard data, shard metadata, manifest, key share | one handler per announcement, reading the same connection as the read loop | errors and crashes between two stores; the sender's order is all that frames the stream |
| Remote peer connection (`internal/transport/remote_peer_conn.go`) | two mutexes, last read and write | Write, Read, Send, Receive, IsStale | a mutex locked again by its holder |
| TCP transport (`internal/transport/tcp`) | listener, wait groups, one goroutine per connection | accept, read, dial with retries, bootstrap | goroutines share wait groups and the listener without other synchronisation |
| Peer (`peer.go`) | registry of connected peers | Run, onConnect, onDisconnect, findRemotePeersBy, onMessage, Create | check under one lock, act under another; context cancelled when Run returns |
| Framing (`internal/protocol`), serializer, messages | a read deadline | both handshakes, ReadFrame, WriteFrame | the network cuts what it delivers anywhere; a deadline left behind; a reader that loses its place |
| Stores (`store_db.go`, `store_object.go`, `internal/storage`) | bbolt buckets, files named by hash | createOrUpdate, SaveCAS, GetCAS, ... | no transaction spans the two; a file is truncated before it is written |
| User identity (`internal/features/user`) | one row with the key pair | InitIdentity, GetIdentity | first run and later runs, a crash before the row is stored |
| Erasure coding (`internal/dataredundancy`), secret sharing (`internal/secret`), cryptography | none | Erasure, Reconstruct, Split, Combine, Encrypt, ... | which pieces are there, sizes |

Owner and guardian interact only through the connections, and only in one
direction: no guardian answers, and the dialling node never reads a connection
it dialled. On one node the goroutines share the registry (a mutex), two wait
groups, and `t.ln` (nothing).

What makes the parts correct: a guardian is only sent what its handler expects
to read (*grammar*); whatever fails, the key never spreads before the manifest
and never twice; a nil error means the capsule was handed out, and what was handed
out is enough to get it back; a guardian's record only moves forward and keeps up
with what it was sent; the registry never offers a closed connection; a
search for guardians returns; messages come off a connection whole and in order;
what was saved is found.

## Modules

    Wire ── StreamProtocol ── CapsuleGuardian ──┐        GuardianVault
      │            ┆ (implemented by)           │ (INSTANCE)     ┆
      └──── CapsuleOwner ── RecoveryThreshold   ├── CapsuleTransfer
               │   └────────────────────────────┘
               └── CapsuleRecovery ── ErasureCode

    FrameChannel ┄┄ Framing         PeerTransport
                    RemoteConn      UserIdentity      ObjectStore

EXTENDS is drawn solid, INSTANCE (an abstract specification and the one that
implements it) dotted. The layers meet in their promises: CapsuleOwner and
CapsuleGuardian talk over Wire, whose message boundaries Framing shows to hold on a
byte stream, and on connections PeerTransport keeps in the registry.

* **Wire** – `transport.RemotePeer`, the interface both halves of the service
  (and the repository's mocks) talk to. `sent[p]` is everything the owner wrote to
  connection p; the reader keeps an index into it. `Delivered` and `NotDelivered`
  are the outcomes of Send: after an error the connection stays broken, and a
  frame may be on it without its data. Writer and reader notice a broken
  connection independently.
* **RecoveryThreshold** – what `CreateCapsuleDTO.validate` accepts and the
  threshold it leaves behind.
* **CapsuleOwner** – one call of CreateAndSendCapsule. `pc` is the place in the
  call, `guardians`/`active`/`k` are the slice, the count and the index of its
  loops; `during` says which part of ArchiveStream is writing ("files", the
  deferred `zstdW.Close`, the deferred `dst.Close`), `bufLen`, `blockID`, `group`,
  `shard`, `manifest` are the block sink's. `place` remembers what the placement
  hash answered for the current block, so that a retried block goes to the same
  guardians and otherwise any placement is explored. Bytes are units; a block is
  `BlockSize` of them. The goroutine of the call is sequential, so each action is
  what it does between two points where an outcome is decided.
* **StreamProtocol** – abstract: which message may follow which on a connection.
  CapsuleOwner is shown to implement it (`StreamSpec`), CapsuleGuardian is run
  against everything it allows, which is more than this owner does.
* **CapsuleGuardian** – the read loop of handleRemotePeerConn and
  ReceiveCapsuleStream, one step per Receive and per write to disk, for each
  guardian. `gpc` is the place in the code, `next` the reader's index, `garbled`
  says that raw data nobody read stands before the next frame (the loop then fails
  to decode it and drops the connection). `record`, `files`, `metas`, `manifests`,
  `shares` are on disk and survive `Crash`; nothing in the code resumes a capsule.
  `shardsReceived` is `Cardinality(metas[p])`. The handler calls Receive of an
  interface, and `Receivers` says which implementations the module runs it over:
  "interface" is what the handler is written for and what its doubles can do
  (`Receive`, `ReceiveRefuses`); "remotePeerConn" is the one there is, which takes the
  frame off the connection and hands the caller nothing (`ReceiveOfConn`), so that no
  handler over it gets beyond its first Receive. `files` is the guardian's directory:
  SaveCAS writes a file named by the last four digits of the hash (`FileOf`), over
  whatever has that name, and a write that fails or is cut off by a crash may leave it
  short. The module follows the files of one capsule; others of the same node could
  take a name too. A row of `metas` says which key it is stored under and nothing else
  (its value is `{}`, all fields being unexported).
* **GuardianVault** – abstract: the stages of a guardian's disk, which only move
  forward. CapsuleGuardian implements it (`ImplementsVault`, a refinement mapping
  that reads the stage off the disk).
* **CapsuleTransfer** – owner and guardians together.
* **PeerTransport** – one node: Run, the listener goroutine, a goroutine per
  accepted connection (onConnect in two steps, the read loop, the three deferred
  calls in their order), the bootstrap goroutine, one goroutine per dial, and
  findRemotePeersBy waiting for its dials. `panic` says what ended the process:
  an address in use ("listen"), `newRemotePeer` where the listener goroutine has not
  set `t.ln` yet ("ln"), a key too short for the log line ("key"), or a Done that takes
  `ShutdownWG` below zero ("counter"); the whole node then stops.
* **FrameChannel** – abstract: messages come out whole, in order, none twice.
* **Framing** – one connection below that promise: DoClientHandshake and
  DoServerHandshake, WriteFrame, and ReadFrame as its two ReadFulls. `bytes` is what
  each side wrote, `arrived` how much the network has delivered, `read` how much
  was taken off; a Write may be cut, the network may lose the connection, the client
  may leave, the deadline may pass before any read of the handshake, and the node may
  be told to shut down (`ctxDone`), which its read loop notices before its next frame
  (`ReadLoop`). A unit of the
  stream is a version, a size, or a piece of a key or payload. Implements
  FrameChannel (`ImplementsChannel`).
* **RemoteConn** – remotePeerConn as it is, below Wire's promise: the two mutexes,
  and Send and Receive handing the connection itself to WriteFrame and ReadFrame.
* **ErasureCode** – Erasure and Reconstruct as operators. A piece remembers the
  block it is of, which is what the library's arithmetic amounts to.
* **CapsuleRecovery** – the round trip of the tests (`service_test.go`): from what
  some guardians were sent, collect key shares and shards, Reconstruct block by
  block along the manifest.
* **UserIdentity** – InitIdentity over starts and crashes; keys and ciphertexts are
  records of what they were made from and how long they are.
* **ObjectStore** – SaveCAS, GetCAS, ExistsCAS, VerifyCAS and Open over paths;
  `saved` is a history variable, not state of the code.
* **...Proofs** – the theorems: CapsuleOwnerProofs (types), CapsuleOwnerSafetyProofs
  (streams and key), CapsuleOwnerStreamProofs (blocks and protocol),
  CapsuleGuardianProofs, CapsuleTransferProofs (owner and guardians together),
  CapsuleRecoveryProofs (erasure code, threshold, what comes back), FramingProofs,
  PeerTransportProofs. Each owner module EXTENDS the one before; CapsuleTransferProofs
  and CapsuleRecoveryProofs stand on all three.
* **MC...** – constants for TLC.

Operators commented as *Variant* are plausible mistakes (a dropped check, a
skipped step, an off-by-one); PROJECT.json names the property each one breaks.

## What the runs check

| Run | Question |
|---|---|
| owner_blocks | Ten shapes of payload; four connections of which two may break at any Send, up to three repair groups of two shards, local failures at every step. Types, the compaction of the announce loop, the grammar and its refinement, what the manifest lists, where retried blocks go, under which number a block is encrypted, the order of manifest and key, distinct shares, what nil means. |
| owner_returns | All four connections may break; a capsule below one block, coded into two data shards and a parity shard. When the call returns nil its last block was sent although the deferred closes drop their errors, and any guardians that hold enough shares and shards get all of it back through Reconstruct; all of the reached ones together hold enough of every block, and of the key as soon as they are as many as the threshold; fewer guardians than the threshold never hold the key between them, wherever the call is. |
| guardian_stream | One guardian (they share nothing but the owner) against every stream of up to two blocks of two shards; both implementations of Receive; storage errors, torn files, shards whose files share a name, the two-second context, lost connections and crashes at any step; shards too large for the buffer and more shards than `MaxShards`. What the disk says is true after every step, flags of the row included; a shard on record is in its file or was overwritten by a later one; a handler that returns nil has on record all it was sent. |
| transfer_safe | Three guardians, three shards, one block; storage errors, a breaking connection, crashes. When all handlers return nil, the guardians have the capsule between them; they never disagree. |
| framing | Both handshakes and four frames of two messages, one encoded as a prefix of the other; pieces of any size, cut writes, lost connections, deadlines, a shutdown. Both sides end with the other's key, the client is never ahead of the server, the read loop never loses its place, no handshake waits for ever. |
| transport_node | Two connections come in, two guardians are dialled twice at most, any dial or handshake fails, the node shuts down at any time. The registry, the wait groups, the search, what ends the accepting loop, and that the two races of the start can end the process only while they last. |

Six runs end in a counterexample; each states something the repository says of itself:

| Run | What happens |
|---|---|
| owner_recoverable | Five guardians, threshold 4, three answer: nil is returned and the key is lost. |
| owner_full_block | Bytes that fill a block exactly: the block stays in the buffer after it went out (`blocksinker.go:53`) and is sent again, under a new repair group each time, without end. |
| transfer_final | Every shard of the last block is final; a guardian with two of them takes the second for the manifest, and one with none takes the manifest for a shard. |
| conn_send | Send holds `writeMu` while WriteFrame calls Write, which locks it: the goroutine waits for itself. |
| identity_created | The first start of a node fails with everything in order: Encrypt takes the key first, and is handed the 64-byte private key there. |
| object_found | SaveCAS writes to the bare file name, GetCAS looks below `objects/`. |

Met while modelling, and left without a run of their own:

* *Owner.* A last block that fails to encrypt goes unnoticed, for nobody looks at
  the error of `dst.Close` (`archive.go:67`); `NothingLeftBehind` holds when only
  connections fail. A payload with
  files and no letter passes validate and panics (`dtos.go:157`, against
  `service_test.go:93`), as does a guardian that was not reached (`service.go:194`);
  the default threshold of 4 and 5 guardians is 75 and 80 percent, not "~60-67%"
  (`dtos.go:221`); guardians told of a capsule the owner gives up on get no cancel
  message (`service.go:272`) and wait without a deadline; a full block's shards
  (32770 bytes) exceed the announced 19418.
* *Guardian.* The last createOrUpdate replaces the row marked complete
  (`service.go:700`); `shardMetaData` has unexported fields only, so a shard's row is `{}` and the hash of
  its file is stored nowhere. Over remotePeerConn no capsule is ever received.
* *Node.* prepFeatures leaves `MaxNumOfGuardians` at 0, so every payload is refused
  (`peer.go:210`), and passes no Logger to `user.NewService`, which is fatal; the
  first application `main` builds has no bootstrap peers, which NewPeer refuses; the
  application's directory is never set. A key of fewer than six bytes panics the
  accepting goroutine (`tcp.go:204`); a handshake that fails while NewTCPTransport is
  between starting the bootstrap goroutine and counting it can take `ShutdownWG` below
  zero (`tcp.go:283`). Run's context ends as soon as Run returns
  (`peer.go:111`), so no read loop survives its next look at it. A failed handshake
  returns from acceptLoop, which closes the listener (`tcp.go:182`); a client
  handshake that fails leaves its connection open (`tcp.go:384`); dialled
  connections never leave the registry; bootstrapping dials at most the first
  address. `peer.go` has two closing braces too many at line 316 and does not
  compile at this commit, so it is modelled as it reads.
* *Below.* Receive never fills the caller's message and refuses data that fits
  (`size <= len(data)`); `CapsuleMasterKeyShare` is not in `message.Msgs`;
  CASPathTransformFunc makes twelve levels of directories, not the eight its comment
  names; opening from a cloud returns neither a file nor an error; extraction writes
  files with equal base names over each other.

### Bounds

`MaxGroups` (processBlock calls), `MaxWritten` (units archived), `ShardsPerBlock`,
`BlockSize`, `NumPeers` for the owner; two blocks and a final one are enough for a
failed block to be retried under a new group and for a block boundary to be
crossed. The real 54 shards become 2 to 4: what matters is whether a guardian
gets none, one or several of a block. `MaxShardLen` stands for the largest block
whose shards fit the buffer made after the announced ShardSize (19418 bytes × 32),
`MaxShards` for 1000. `retryMax` 2 for the real 5. owner_returns codes three shards, two
of data and one of parity, in place of 32 and 22, so that a guardian may be missing and
may have several; four guardians are named, of whom one may drop out. owner_returns
stays below one block, for a full one never ends (owner_full_block, where two rounds of
the loop are enough to show it). Of the two shards of a block of guardian_stream one
shares its file name with that of the other block; in transfer_safe, too, two shards of
the block share one, though a guardian whose handler returns nil has one of them only.
`MaxFrames` 4 lets the reader fall behind and lose the connection in every part of a frame; keys are two and three units long and payloads one and two, so
that a size mistaken by one runs into what follows. `MaxStarts` 3: an identity is
created, found with the right password and with a wrong one. `MaxBytes` 6 with
`chunkSize` 2: data below, at and above the chunk, twice.
Deadlock is not checked (`CHECK_DEADLOCK FALSE`): a call returns, a guardian waits
for its connection, a node that shut down stops, a connection is closed, and a run
stops at its bounds.

### Fairness

`FairTransportSpec`: a dial ends and the handshake has a read deadline, so each
dialling goroutine moves on and findRemotePeersBy returns from `wg.Wait`, as long as
nothing ends the process; nothing is assumed of Accept and ReadFrame, which block until something comes in.
`FairFramingSpec`: a side's own Write returns and its read deadline passes; nothing
is assumed of the other side or of the network, which is what `HandshakeEnds` is
about. `RemoteConnSpec`: a Send that can take its next step again and again takes
it, so that its counterexample is the mutex it holds itself and not the scheduler.

## What is proved

TLAPS proves, for every value of the constants that the `ASSUME`s of the modules allow:

| Theorem | Says |
|---|---|
| OwnerTypeCorrect | `OwnerSpec => []OwnerTypeOK`: buffer, counters and loop indices keep their ranges. |
| ListedGroupsAreBacked | `[]ManifestIsBacked`: each group the manifest lists has every shard at some guardian. |
| BrokenGroupIsLast | `[]NothingAfterBrokenGroup`. |
| OwnerKeepsToProtocol | `OwnerSpec => StreamSpec`: the owner implements the stream protocol. |
| NothingIsLeftBehind | `[]NothingLeftBehind`, if blocks can be prepared (`"block" \notin CanFail`). |
| GuardianTypes, RecordsHaveFiles | `GuardianSpec => []GuardianTypeOK`, `[]RecordedHasFile`: a shard on record is in its file or a later one of that name took it, through errors, torn writes and crashes. |
| NoShardIsSkipped, DiskTells, FlagsHold | `[]NoShardSkipped`, `[]DiskTellsProgress`, `[]FlagsAreTrue`. |
| OkIsStored, DoneStaysDone | `[]OkMeansStored`: nil means the manifest, the share and a row for every shard this guardian was written are in its database; a handler that returned stores nothing any more. |
| DisksImplementVault | `GuardianSpec => ImplementsVault`: the two stores and the crashes between them implement GuardianVault. |
| FramingTypes, HandshakeGivesTheKey, ServerIsDoneFirst | `FramingSpec => []FramingTypeOK`, `[]KeysMatch`, `[]ClientDoneMeansServerDone`. |
| LoopEndsLast | `[]LoopEndsWithConnection`: the reader never loses its place; its loop ends over a shutdown, a lost connection, or one that was closed and read out. |
| FramesImplementChannel | `FramingSpec => ImplementsChannel`. |
| OwnerIsItself, GuardiansAreThemselves | `TransferSpec => OwnerSpec` and `TransferSpec => GuardianSpec`: what is proved of each half alone holds of them together. |
| WhatIsReceivedIsWhole | `TransferSpec => []ReceivedIsWhole`: if every active handler returned nil, every shard of every block listed is on record at one of them, and in its file unless a later one took the name. |
| GuardiansNeverDisagree | `TransferSpec => []GuardiansAgree`: no two different manifests, no share twice. |
| AnyShardsWillDo, ParityIsSlack | Reconstruct gives a block back from any `dataShardNum` different shards, in any order; with more than `parityShardNum` lost it fails, and returns nothing else. |
| KeysFollowPlaces | `[]BlockKeyIsItsPlace`. |
| OnlyASmallCapsuleReturnsNil | nil is returned for less than one block of data only, if blocks can be prepared. |
| WhatWasArchivedComesBack | `[]ArchiveIsRecovered`, if blocks can be prepared: any guardians with enough shares and shards get back all that was archived. |
| ActiveAreEnough | `[]ActiveSuffice`, its first part, without that hypothesis: the guardians reached have enough of every block, and of the key if they are as many as the threshold. |
| FewerSharesAreTooFew | `[]FewerCannotCombine`: fewer than the threshold never have the key. |
| ThresholdIsReached | `[]KeyIsRecoverable`, if no connection breaks, or no threshold is asked for and at most `MinGuardians + 1` guardians are named: outside of that owner_recoverable finds its counterexample. |
| ActiveBringItBack | Both at once: nil then means the guardians reached can recover every byte. |
| ActiveWereTold | `[]ActiveAreAnnounced`: compacting the slice in place leaves those that were told, in order. |
| StreamsAreReadable | `[]StreamGrammar`: every guardian is written a stream ReceiveCapsuleStream can read. |
| KeyComesLast, SharesDiffer | `[]KeyAfterManifests`, `[]SharesAreDistinct`. |
| NilMeansDelivered | `[]OkMeansDelivered`: nil means a manifest and a share for at least `MinGuardians` guardians. |
| TransportTypeCorrect | `TransportSpec => []TransportTypeOK`: one connection at most in its handshake, at most `retryMax` dials. |
| RegistryIsSound | `[]RegisteredAreOpen` for any number of connections and dials. |
| WaitGroupsAreRight, ShutdownLeavesNothing | `[]WaitGroupsCount`, `[]ShutdownIsClean`. |
| ListenerStopsForAReason, PanicsOnlyAtStart | `[]StopsForAReason`, `[]RacesEndWithTheStart`: no race panics a node that listens and whose transport is made. |
| SearchIsSound | `[]FoundAreConnected`: what findRemotePeersBy returns. |
| DefaultThresholdIsMajority | for n >= 3 the default threshold is in 2..n-1 and more than n/2. |
| DefaultThresholdIsAccepted | validate never refuses a payload over a threshold it chose. |

Assumed: `MinGuardians >= 3` (Defaults in `peer.go`), positive `BlockSize` and
`ShardsPerBlock`, payloads that fit the connections, finitely many incoming
connections and guardians, addresses apart from incoming connections, a positive
`retryMax` and at least one bootstrap address; keys and encodings that are not empty
(a raw public key, a gob stream), messages that differ encoded differently
(`PayloadsDiffer`), and at most 256 shards to a block, whose number is one byte. The
theorems about Framing bound neither the keys nor the payloads; a size fits its
field, as the code takes for granted. Theorems with a hypothesis of their own state it:
`"block" \notin CanFail` (every block can be encrypted and encoded; without it a last
block may go missing unnoticed, which is a bug named above), and `Unreliable = {}` or
`Modest` payloads for the two about the threshold, where the hypothesis is the point.

**The owner.** `OwnerTypeOK` is not inductive: that the next group fits the
manifest, or that a block taken from the buffer is in it, rests on how the counters
move together. `OwnerCounters` adds that: the announce loop stays behind its own
compaction (`active < k`), a full buffer stands behind every block but the last,
the manifest is shorter than the groups drawn. `OwnerInv` is both.

On top of it `SafetyInv` (CapsuleOwnerSafetyProofs) is the history of the streams
read off the place in the call. `ReachedInv`: guardians from `k` on are where the
payload named them, those in front are below `k`, and a shard is only placed with
an active one; without the first part the compaction could overwrite a guardian
not asked yet. `GrammarInv`: what each guardian has been written so far, by phase
and by whether a loop has passed it, plus `CutsEnd` (data cut short means a broken
connection), which is what lets a message be appended without looking further.
`KeyInv`: the loops leave nobody out. `SharesInPlace`: the index of a share is its
guardian's place in the slice, hence no two are the same. A Send is split once
(`SendCases`) into nothing written or one message appended, and the lemma of each
step says which message that is.

`SinkInv` (CapsuleOwnerStreamProofs) says where the shards on the wire stand among
the repair groups. `BrokenInv` is its heart: a group with a shard written that the
manifest does not list is behind every listed one and, while the sink may still
begin a block, the block is `Stuck`: some shard still to be sent has its place
(`place`, what the placement hash answered before) on a connection that is down.
`NothingAfterBrokenGroup` alone does not survive a step, for nothing in it keeps the
retry from succeeding. With `ShardInv`, which orders the shards, every Send is a step of
StreamProtocol; on a connection already down it is a stutter, and that is where
the refinement needs `CutsEnd`. `LeftInv` follows bytes left in the buffer to the
broken connection that will fail the manifest.

**A guardian.** `GuardianInv`: `PlaceInv` ties the disk to the place in the handler,
`HeldInv` the message in hand to the next write, `RecordInv` and the `...Stored`
parts what each flag and each stage rests on. A crash keeps the disk and drops the
place, so the parts about the disk alone must carry the properties after it. The
refinement of GuardianVault reads the stage off the disk: `Moves` has one case per
store, and all other steps are stutters. Two invariants follow the stream rather than
the disk: `OrderInv` says how what was written to a guardian is ordered, as far as the
protocol fixes it, and `ReadInv` where the reader stands in it and what it has stored
once it is done. From them a handler that returns nil has passed every shard
(`OkMeansStored`). They hold over either implementation of Receive; that a handler
returns nil at all takes the interface's.

**Owner and guardians.** Each half leaves the other's variables alone except for `sent`
and `up`, so a step of the composed system maps to a step of the half alone
(`OwnerIsItself`); on the guardian's side the owner's steps have to be steps of the
protocol, which is `OwnerStepsFollow`, the heart of the refinement of StreamProtocol,
used again. The invariants of both halves then hold together. `WhatIsReceivedIsWhole`
joins `ManifestIsBacked` and the guardians' `OkMeansStored`; for `GuardiansAgree` the
manifest on a disk is tied to the owner's own, which no longer grows (`AgreedInv`).

**Getting it back.** `RoundInv` explains why nil means a small capsule: the full
block stays in the buffer, so after it the call goes on only over a connection that
broke (`Broken`), which the manifest will meet; otherwise nothing but one, final block
was cut (`Small`). The manifest of a call that returned nil thus has one block, and the
fold over it is unfolded by hand. `EnoughShards` counts: the shards
collected carry different numbers, SetToSeq lists them without repetition, hence
`dataShardNum` of them make Reconstruct answer. That the guardians have enough counts the
other way: shares are numbered `1 .. active` without a gap, each held by the one guardian
in that place of the slice, so shares and guardians are equally many. `AllReached` is
what `Unreliable = {}` adds.

**A connection.** `FramingInv` is `Types`, `HandInv` and `FrameInv`. In the handshake
the bytes written are a prefix of the key message, and the reader stands at one of
its three boundaries. `FrameInv` says there is a layout of the client's bytes
(`Layout`: where each frame of `put` begins), that behind it there is nothing or the
beginning of a frame that was cut (`Rest`), and that the reader stands at the
beginning of frame `Len(got) + 1` or behind its header (`Reader`). The layout is the
induction over the frames, held in the state as an existential, since induction over
data is out of reach.

**Erasure coding.** Both theorems are counting arguments over the sets of shards
that are there.

**One node.** `TransportInv`: `AcceptedInv` and `DialledInv` tie a connection's
state to where its goroutine is (the deferred calls run registry first, connection
second, count last); `SearchInv` ties the filled slots to the dials that ended;
`CountInv` counts the goroutines, the bootstrap goroutine from when its count is added,
which may be after it is done; while it is not counted the listener's count stands in, so
that `ShutdownWG` goes negative only if the listener has ended as well; `ListenerInv`
says that the connection between Accept and its goroutine is one, and that a listener that ended by itself waited for all of them.
`RegisteredAreOpen` alone is not inductive: onConnect may store a connection between
any two steps of the others, and only the goroutine's own place shows it is open.

Only model-checked: liveness (`SearchEnds`, `HandshakeEnds`), since fairness and
ENABLED are out of the prover's reach. A manifest of more than one block would need induction over data in `ArchiveIsRecovered`; that there is
none is `OnlyASmallCapsuleReturnsNil`. The six properties that fail have no theorem,
except for `KeyIsRecoverable` under the hypotheses of `ThresholdIsReached`.

## Not modelled, and what could come next

* Code without a caller: `blockWriter`, UnArchiveStream with the store's Create and
  MkdirAll, closeConnectedPeers, the transport's Close, GetTotalSize, deriveShardKey,
  find and delete of the database stores, the staleness times of a connection. The
  Re- and Continue-stream handlers are `panic("unimplemented")`, the stream ciphers of
  `cipher.go` and most of its file are commented out, the rendezvous server and the
  config package are empty.
* Pure computation and I/O: gob, AES and key derivation beyond the sizes they
  accept, the arithmetic of the erasure code and of the secret sharing, compression,
  opening the database, the command line, errors and their wording, and the file ports.
* Five hazards have no property of their own: the missing cancel message
  (`service.go:271`), for which the code has no step; the nil dereferences of
  `dtos.go:157` and `service.go:194` and the short key of `tcp.go:204`, which a property
  would only restate; Accept and ReadFrame keeping their goroutines through a shutdown
  (`tcp.go:146`), where nothing is assumed to come in; and the last write of the row
  losing `IsComplete` (`service.go:700`), which nothing reads.
* Next: what the disks alone give back, joining CapsuleTransfer and CapsuleRecovery; the
  parts of ObjectStore, UserIdentity and RemoteConn that do work, stated and proved; a
  model of a resumed capsule once those handlers exist.
