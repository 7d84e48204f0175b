------------------------ MODULE CapsuleGuardianProofs ------------------------
(* Proofs about CapsuleGuardian: any number of guardians, streams of any   *)
(* length the protocol allows, storage errors, timeouts and crashes.       *)
EXTENDS CapsuleGuardian, FiniteSetTheorems, SequenceTheorems, TLAPS

-----------------------------------------------------------------------------
(***************************************************************************)
(* The invariant.                                                          *)
(***************************************************************************)

(* One announcement, in front, and no shard twice: what the protocol makes *)
(* of the messages to guardian p.                                          *)
Before(s, t) == s.group < t.group \/ (s.group = t.group /\ s.index < t.index)

StreamInv(p) ==
  /\ sent[p] # <<>> => sent[p][1].kind = "stream"
  /\ \A i \in 1 .. Len(sent[p]) : sent[p][i].kind = "stream" => i = 1
  /\ \A i, j \in 1 .. Len(sent[p]) :
       i < j /\ IsShard(p, i) /\ IsShard(p, j) => Before(sent[p][i], sent[p][j])

(* The shards among the first messages, up to but without the m-th.        *)
IdsBefore(p, m) == {Id(sent[p][i]) : i \in {j \in 1 .. m - 1 : IsShard(p, j)}}

Nothing(p) == /\ record[p] = NoRecord /\ result[p] = "none"
              /\ OnFile(p) = {} /\ metas[p] = {} /\ manifests[p] = {} /\ shares[p] = {}

FinalStored(p) == \E i \in 1 .. Len(sent[p]) :
                    IsShard(p, i) /\ sent[p][i].final /\ Id(sent[p][i]) \in metas[p]
ManifestStored(p) == \E i \in 1 .. Len(sent[p]) :
                       sent[p][i].kind = "manifest" /\ manifests[p] = {sent[p][i].groups}
ShareStored(p) == \E i \in 1 .. Len(sent[p]) :
                    sent[p][i].kind = "share" /\ shares[p] = {sent[p][i].index}

(* Where the handler is tells which message it has in hand.                *)
PlaceInv(p) ==
  /\ next[p] <= Len(sent[p]) + 1
  /\ next[p] = 1 => gpc[p] \in {"reading", "closed"} /\ Nothing(p)
  /\ gpc[p] = "create" => next[p] = 2 /\ Nothing(p)
  /\ gpc[p] \in Handling => next[p] > 1 /\ result[p] = "none"
  /\ gpc[p] \in {"save", "meta"} => Current(p).kind = "shard"
  /\ gpc[p] = "putManifest" => Current(p).kind = "manifest"
  /\ gpc[p] = "putShare" => Current(p).kind = "share"

(* The shards on record are those among the first messages read.           *)
HeldInv(p) ==
  /\ \E m \in 1 .. next[p] : metas[p] = IdsBefore(p, m)
  /\ gpc[p] \in {"save", "meta"} => metas[p] = IdsBefore(p, next[p] - 1)
  /\ gpc[p] \in Handling \ {"save", "meta"} => metas[p] = IdsBefore(p, next[p])

(* Each of them has its file or lost it to a later one; the shard saved    *)
(* last may have a file and no record yet, or none ever.                   *)
FilesInv(p) ==
  /\ \A i \in 1 .. next[p] - 1 : IsShard(p, i) /\ Id(sent[p][i]) \in metas[p] => HasFile(p, i)
  /\ \E x : OnFile(p) \subseteq metas[p] \cup {x}
  /\ gpc[p] \in Handling \ {"meta"} => OnFile(p) \subseteq metas[p]
  /\ gpc[p] = "meta" => /\ OnFile(p) \subseteq metas[p] \cup {Id(Current(p))}
                        /\ files[p][FileInHand(p)] = {Id(Current(p))}

(* What the row, the manifests and the shares say goes with the place.     *)
RecordInv(p) ==
  /\ gpc[p] \in {"loop", "shard", "save", "meta", "final"} =>
       /\ record[p].exists /\ ~record[p].complete /\ ~record[p].keyReceived
       /\ manifests[p] = {} /\ shares[p] = {}
  /\ gpc[p] \in {"manifest", "putManifest", "share", "putShare", "finish"} =>
       record[p].exists /\ record[p].complete /\ ~record[p].keyReceived
  /\ gpc[p] \in {"manifest", "putManifest"} => manifests[p] = {}
  /\ gpc[p] \in {"manifest", "putManifest", "share", "putShare"} => shares[p] = {}
  /\ gpc[p] \in {"share", "putShare", "finish"} => ManifestStored(p)
  /\ gpc[p] = "finish" => ShareStored(p)
  /\ gpc[p] = "final" => FinalStored(p)
  /\ record[p].complete \/ manifests[p] # {} => FinalStored(p)
  /\ shares[p] # {} => manifests[p] # {}
  /\ record[p].keyReceived => shares[p] # {}
  /\ result[p] = "ok" => ManifestStored(p) /\ ShareStored(p)

LocalInv(p) == PlaceInv(p) /\ HeldInv(p) /\ FilesInv(p) /\ RecordInv(p)

FilesTyped == files \in [Peer -> [FileName -> SUBSET ShardId]]

(* The types but for the place in the messages, which LocalInv gives.      *)
TypesInv ==
  /\ WireTypeOK
  /\ gpc \in [Peer -> Handling \cup {"reading", "closed"}]
  /\ next \in [Peer -> Nat \ {0}]
  /\ garbled \in [Peer -> BOOLEAN]
  /\ record \in [Peer -> Record]
  /\ FilesTyped /\ metas \in [Peer -> SUBSET ShardId]
  /\ manifests \in [Peer -> SUBSET Groups] /\ shares \in [Peer -> SUBSET Peer]
  /\ result \in [Peer -> {"none", "ok", "failed"}]

GuardianInv == TypesInv /\ \A p \in Peer : StreamInv(p) /\ LocalInv(p)

-----------------------------------------------------------------------------
(***************************************************************************)
(* The messages grow.                                                      *)
(***************************************************************************)

Grows == \A q \in Peer : /\ Len(sent'[q]) \in Nat /\ Len(sent'[q]) >= Len(sent[q])
                         /\ \A i \in 1 .. Len(sent[q]) : sent'[q][i] = sent[q][i]

Cut(item) == [item EXCEPT !.whole = FALSE]

(* One Send adds one message to one connection, or none.                   *)
LEMMA FeedAdds ==
  ASSUME WireTypeOK, NEW p \in Peer, NEW item \in Item, Feed(p, item)
  PROVE  /\ WireTypeOK'
         /\ \/ sent' = sent
            \/ \E x \in Item : /\ sent' = [sent EXCEPT ![p] = Append(@, x)]
                               /\ x = item \/ (HasData(item) /\ x = Cut(item))
<1>1. HasData(item) => Cut(item) \in Item
  BY DEF Cut, Item, HasData, StreamMsg, ShardMsg, ManifestMsg, ShareMsg
<1>2. \A x \in Item : Append(sent[p], x) \in Seq(Item)  BY DEF WireTypeOK
<1>3. CASE Delivered(p, item)  BY <1>2, <1>3 DEF Delivered, WireTypeOK
<1>4. CASE NotDelivered(p, item)
  <2>1. up' \in [Peer -> BOOLEAN]  BY <1>4 DEF NotDelivered, WireTypeOK
  <2>2. \/ UNCHANGED sent
        \/ HasData(item) /\ sent' = [sent EXCEPT ![p] = Append(@, Cut(item))]
    BY <1>4 DEF NotDelivered, Cut
  <2>  QED  BY <1>1, <1>2, <2>1, <2>2 DEF WireTypeOK
<1>  QED  BY <1>3, <1>4 DEF Feed

(* What Append makes of the messages.                                      *)
LEMMA Appended ==
  ASSUME WireTypeOK, NEW p \in Peer, NEW x \in Item,
         sent' = [sent EXCEPT ![p] = Append(@, x)]
  PROVE  /\ \A q \in Peer : sent[q] \in Seq(Item) /\ Len(sent[q]) \in Nat
         /\ \A q \in Peer \ {p} : sent'[q] = sent[q]
         /\ Len(sent'[p]) = Len(sent[p]) + 1
         /\ \A i \in 1 .. Len(sent[p]) : sent'[p][i] = sent[p][i]
         /\ sent'[p][Len(sent[p]) + 1] = x
<1>1. \A q \in Peer : sent[q] \in Seq(Item) /\ Len(sent[q]) \in Nat
  BY LenProperties DEF WireTypeOK
<1>2. sent'[p] = Append(sent[p], x) /\ \A q \in Peer \ {p} : sent'[q] = sent[q]
  BY DEF WireTypeOK
<1>  QED  BY <1>1, <1>2, AppendProperties

(* The protocol keeps the announcement alone in front and the shards       *)
(* ascending.                                                              *)
LEMMA StreamInvariance ==
  ASSUME WireTypeOK, \A q \in Peer : StreamInv(q), NEW p \in Peer, NEW item \in Item,
         Feed(p, item)
  PROVE  WireTypeOK' /\ Grows /\ \A q \in Peer : StreamInv(q)'
<1>1. CASE sent' = sent
  BY <1>1, FeedAdds, LenProperties DEF Grows, StreamInv, IsShard, WireTypeOK
<1>2. ASSUME NEW x \in Item, sent' = [sent EXCEPT ![p] = Append(@, x)],
             x = item \/ (HasData(item) /\ x = Cut(item))
      PROVE  Grows /\ \A q \in Peer : StreamInv(q)'
  <2>1. /\ x.kind = item.kind
        /\ x.kind = "shard" => x.group = item.group /\ x.index = item.index
    BY <1>2 DEF Cut, Item, HasData, StreamMsg, ShardMsg, ManifestMsg, ShareMsg
  <2>2. Grows  BY <1>2, Appended DEF Grows
  <2>3. ASSUME NEW q \in Peer \ {p}  PROVE StreamInv(q)'
    <3>1. sent'[q] = sent[q]  BY <1>2, Appended
    <3>  QED  BY <3>1 DEF StreamInv, IsShard
  <2>4. StreamInv(p)'
    <3>  DEFINE n == Len(sent[p])
    <3>1. n \in Nat /\ (n = 0 <=> sent[p] = <<>>) /\ \A i \in 1 .. n : sent[p][i] \in Item
      BY Appended, <1>2, EmptySeq, ElementOfSeq DEF WireTypeOK
    <3>2. MayFollow(p, item)  BY DEF Feed
    <3>3. n = 0 => x.kind = "stream"  BY <2>1, <3>1, <3>2 DEF MayFollow
    <3>4. n # 0 => x.kind # "stream"  BY <2>1, <3>1, <3>2 DEF MayFollow
    <3>5. sent'[p][1].kind = "stream"
      <4>1. CASE n = 0
        <5>1. sent'[p][n + 1] = x  BY <1>2, Appended
        <5>  QED  BY <3>3, <4>1, <5>1
      <4>2. CASE n # 0
        <5>1. sent'[p][1] = sent[p][1]  BY <1>2, <3>1, <4>2, Appended
        <5>  QED  BY <3>1, <4>2, <5>1 DEF StreamInv
      <4>  QED  BY <4>1, <4>2
    <3>6. ASSUME NEW i \in 1 .. Len(sent'[p]), sent'[p][i].kind = "stream"  PROVE i = 1
      <4>1. CASE i \in 1 .. n  BY <1>2, <3>1, <3>6, <4>1, Appended DEF StreamInv
      <4>2. CASE i = n + 1  BY <1>2, <3>1, <3>4, <3>6, <4>2, Appended
      <4>  QED  BY <1>2, <3>1, <3>6, <4>1, <4>2, Appended
    <3>7. ASSUME NEW i \in 1 .. n, IsShard(p, i), x.kind = "shard"  PROVE Before(sent[p][i], x)
      <4>1. n # 0 /\ item.kind = "shard"  BY <2>1, <3>1, <3>7
      <4>2. LastItem(p).kind = "shard" /\ InOrder(LastItem(p), item)
        <5>1. n \in 1 .. n /\ LastItem(p) = sent[p][n]  BY <3>1, <4>1 DEF LastItem
        <5>2. StreamInv(p)  OBVIOUS
        <5>3. LastItem(p).kind = "stream" => n = 1  BY <5>1, <5>2 DEF StreamInv
        <5>4. n = 1 => LastItem(p) = sent[p][i]  BY <3>7, <5>1
        <5>  QED  BY <3>1, <3>2, <3>7, <4>1, <5>3, <5>4 DEF MayFollow, IsShard
      <4>3. Before(LastItem(p), x)  BY <2>1, <4>1, <4>2 DEF InOrder, Before
      <4>4. i = n \/ Before(sent[p][i], LastItem(p))
        BY <3>1, <3>7, <4>2 DEF StreamInv, LastItem, IsShard
      <4>5. \A s \in {sent[p][i], LastItem(p), x} : s \in Item /\ s.kind = "shard"
        BY <3>1, <3>7, <4>1, <4>2 DEF LastItem, IsShard
      <4>6. \A s \in Item : s.kind = "shard" => s.group \in Nat /\ s.index \in Nat
        BY DEF Item, StreamMsg, ShardMsg, ManifestMsg, ShareMsg, Group
      <4>  QED  BY <4>3, <4>4, <4>5, <4>6 DEF Before, LastItem
    <3>8. ASSUME NEW i \in 1 .. Len(sent'[p]), NEW j \in 1 .. Len(sent'[p]),
                 i < j, IsShard(p, i)', IsShard(p, j)'
          PROVE  Before(sent'[p][i], sent'[p][j])
      <4>1. i \in 1 .. n /\ sent'[p][i] = sent[p][i]  BY <1>2, <3>1, <3>8, Appended
      <4>2. CASE j \in 1 .. n
        BY <1>2, <3>8, <4>1, <4>2, Appended DEF StreamInv, IsShard
      <4>3. CASE j = n + 1  BY <1>2, <3>7, <3>8, <4>1, <4>3, Appended DEF IsShard
      <4>  QED  BY <1>2, <3>1, <3>8, <4>2, <4>3, Appended
    <3>  QED  BY <3>5, <3>6, <3>8 DEF StreamInv
  <2>  QED  BY <2>2, <2>3, <2>4
<1>  QED  BY <1>1, <1>2, FeedAdds

-----------------------------------------------------------------------------
(***************************************************************************)
(* A guardian that does not move.                                          *)
(***************************************************************************)

(* Later messages do not change what the earlier ones were.                *)
LEMMA SameIds ==
  ASSUME Grows, NEW p \in Peer, Len(sent[p]) \in Nat, NEW m \in Nat, m <= Len(sent[p]) + 1
  PROVE  IdsBefore(p, m)' = IdsBefore(p, m)
<1>1. \A i \in 1 .. m - 1 : sent'[p][i] = sent[p][i]  BY DEF Grows
<1>  QED  BY <1>1 DEF IdsBefore, IsShard, Id

(* No shard comes twice.                                                   *)
LEMMA SameShard ==
  ASSUME TypesInv, NEW p \in Peer, StreamInv(p),
         NEW i \in 1 .. Len(sent[p]), NEW j \in 1 .. Len(sent[p]),
         IsShard(p, i), IsShard(p, j), Id(sent[p][i]) = Id(sent[p][j])
  PROVE  i = j
<1>1. Len(sent[p]) \in Nat /\ sent[p][j] \in Item
  BY LenProperties, ElementOfSeq DEF TypesInv, WireTypeOK
<1>2. /\ sent[p][i].group = sent[p][j].group /\ sent[p][i].index = sent[p][j].index
  BY DEF Id
<1>3. sent[p][j].group \in Nat /\ sent[p][j].index \in Nat
  BY <1>1 DEF Item, StreamMsg, ShardMsg, ManifestMsg, ShareMsg, Group, IsShard
<1>4. ~Before(sent[p][i], sent[p][j]) /\ ~Before(sent[p][j], sent[p][i])
  BY <1>2, <1>3 DEF Before
<1>  QED  BY <1>1, <1>4 DEF StreamInv

(* A shard on record was read; while one is being stored it is not yet the *)
(* one at hand.                                                            *)
LEMMA HeldWereRead ==
  ASSUME TypesInv, NEW p \in Peer, StreamInv(p), LocalInv(p), NEW i \in 1 .. Len(sent[p]),
         IsShard(p, i), Id(sent[p][i]) \in metas[p]
  PROVE  /\ i \in 1 .. next[p] - 1
         /\ gpc[p] \in {"save", "meta"} => i \in 1 .. next[p] - 2
<1>1. /\ Len(sent[p]) \in Nat /\ next[p] \in Nat \ {0} /\ next[p] <= Len(sent[p]) + 1
      /\ gpc[p] \in {"save", "meta"} => next[p] > 1
  BY LenProperties DEF TypesInv, WireTypeOK, LocalInv, PlaceInv, Handling
<1>2. ASSUME NEW m \in 1 .. next[p], metas[p] = IdsBefore(p, m)
      PROVE  i \in 1 .. m - 1
  <2>1. PICK k \in 1 .. m - 1 : IsShard(p, k) /\ Id(sent[p][k]) = Id(sent[p][i])
    BY <1>2 DEF IdsBefore
  <2>2. k \in 1 .. Len(sent[p])  BY <1>1, <1>2, <2>1
  <2>3. k = i  BY <2>1, <2>2, SameShard
  <2>  QED  BY <2>1, <2>3
<1>3. i \in 1 .. next[p] - 1
  <2>1. PICK m \in 1 .. next[p] : metas[p] = IdsBefore(p, m)  BY DEF LocalInv, HeldInv
  <2>2. i \in 1 .. m - 1  BY <1>2, <2>1
  <2>  QED  BY <1>1, <2>1, <2>2
<1>4. gpc[p] \in {"save", "meta"} => i \in 1 .. next[p] - 2
  <2>  SUFFICES ASSUME gpc[p] \in {"save", "meta"} PROVE i \in 1 .. next[p] - 2  OBVIOUS
  <2>1. metas[p] = IdsBefore(p, next[p] - 1)  BY DEF LocalInv, HeldInv
  <2>2. next[p] - 1 \in 1 .. next[p]  BY <1>1
  <2>3. i \in 1 .. (next[p] - 1) - 1  BY <1>2, <2>1, <2>2
  <2>  QED  BY <1>1, <2>3
<1>  QED  BY <1>3, <1>4

(* The files and the records stay; the handler moves on or leaves.         *)
LEMMA FilesKeep ==
  ASSUME TypesInv, NEW p \in Peer, StreamInv(p), LocalInv(p), Grows,
         next'[p] \in {next[p], next[p] + 1}, next'[p] <= Len(sent[p]) + 1,
         files'[p] = files[p], metas'[p] = metas[p],
         \/ gpc'[p] \notin Handling
         \/ gpc'[p] # "meta" /\ (OnFile(p) = {} \/ gpc[p] \in Handling \ {"meta"})
         \/ gpc'[p] = gpc[p] /\ next'[p] = next[p]
  PROVE  FilesInv(p)'
<1>1. /\ Len(sent[p]) \in Nat /\ next[p] \in Nat \ {0}
      /\ \A i \in 1 .. Len(sent[p]) : sent'[p][i] = sent[p][i]
  BY LenProperties DEF TypesInv, WireTypeOK, Grows
<1>2. \A i \in 1 .. next'[p] - 1 : i \in 1 .. Len(sent[p])  BY <1>1
<1>3. ASSUME NEW i \in 1 .. next'[p] - 1, IsShard(p, i)', Id(sent[p][i])' \in metas'[p]
      PROVE  HasFile(p, i)'
  <2>1. i \in 1 .. Len(sent[p]) /\ sent'[p][i] = sent[p][i]  BY <1>1, <1>2, <1>3
  <2>2. IsShard(p, i) /\ Id(sent[p][i]) \in metas[p]  BY <1>3, <2>1 DEF IsShard, Id
  <2>3. i \in 1 .. next[p] - 1  BY <2>1, <2>2, HeldWereRead
  <2>4. HasFile(p, i)  BY <2>2, <2>3 DEF LocalInv, FilesInv
  <2>5. CASE files[p][FileNamed(p, i)] = {Id(sent[p][i])}
    BY <2>1, <2>5 DEF HasFile, FileNamed, Id
  <2>6. ASSUME NEW j \in i + 1 .. next[p] - 1, IsShard(p, j), FileNamed(p, j) = FileNamed(p, i),
               files[p][FileNamed(p, i)] \subseteq {Id(sent[p][j])}
        PROVE  HasFile(p, i)'
    <3>1. j \in i + 1 .. next'[p] - 1 /\ sent'[p][j] = sent[p][j]
      <4>1. j \in i + 1 .. next'[p] - 1  BY <1>1, <2>3, <2>6
      <4>2. j \in 1 .. next'[p] - 1  BY <1>1, <2>3, <4>1
      <4>  QED  BY <1>1, <1>2, <4>1, <4>2
    <3>2. IsShard(p, j)' /\ FileNamed(p, j)' = FileNamed(p, j) /\ FileNamed(p, i)' = FileNamed(p, i)
          /\ Id(sent[p][j])' = Id(sent[p][j])
      BY <2>1, <2>6, <3>1 DEF IsShard, FileNamed, Id
    <3>  QED  BY <2>6, <3>1, <3>2 DEF HasFile
  <2>  QED  BY <2>4, <2>5, <2>6 DEF HasFile
<1>4. OnFile(p)' = OnFile(p)  BY DEF OnFile
<1>5. /\ \E x : OnFile(p) \subseteq metas[p] \cup {x}
      /\ gpc[p] \in Handling \ {"meta"} => OnFile(p) \subseteq metas[p]
      /\ gpc[p] = "meta" => /\ OnFile(p) \subseteq metas[p] \cup {Id(Current(p))}
                            /\ files[p][FileInHand(p)] = {Id(Current(p))}
  BY DEF LocalInv, FilesInv
<1>6. gpc'[p] \in Handling \ {"meta"} => OnFile(p)' \subseteq metas'[p]  BY <1>4, <1>5
<1>7. gpc'[p] = "meta" => /\ OnFile(p)' \subseteq metas'[p] \cup {Id(Current(p))'}
                          /\ files'[p][FileInHand(p)'] = {Id(Current(p))'}
  <2>  SUFFICES ASSUME gpc'[p] = "meta"
                PROVE  /\ OnFile(p)' \subseteq metas'[p] \cup {Id(Current(p))'}
                       /\ files'[p][FileInHand(p)'] = {Id(Current(p))'}
    OBVIOUS
  <2>1. gpc[p] = "meta" /\ next'[p] = next[p]  BY DEF Handling, Receiving
  <2>2. next[p] - 1 \in 1 .. Len(sent[p])
    BY <1>1, <2>1 DEF LocalInv, PlaceInv, Handling, Receiving
  <2>3. Current(p)' = Current(p) /\ Id(Current(p))' = Id(Current(p))
        /\ FileInHand(p)' = FileInHand(p)
    BY <1>1, <2>1, <2>2 DEF Current, Id, FileInHand
  <2>  QED  BY <1>4, <1>5, <2>1, <2>3
<1>  QED  BY <1>3, <1>4, <1>5, <1>6, <1>7 DEF FilesInv

LEMMA Keeps ==
  ASSUME TypesInv, NEW p \in Peer, StreamInv(p), LocalInv(p), Grows,
         gpc'[p] = gpc[p], next'[p] = next[p], record'[p] = record[p], files'[p] = files[p],
         metas'[p] = metas[p], manifests'[p] = manifests[p], shares'[p] = shares[p],
         result'[p] = result[p]
  PROVE  LocalInv(p)'
<1>1. Len(sent[p]) \in Nat /\ next[p] \in Nat \ {0}  BY LenProperties DEF TypesInv, WireTypeOK
<1>2. next[p] <= Len(sent[p]) + 1  BY DEF LocalInv, PlaceInv
<1>3. \A i \in 1 .. Len(sent[p]) : sent'[p][i] = sent[p][i] /\ i \in 1 .. Len(sent'[p])
  BY <1>1 DEF Grows
<1>4. \A m \in 0 .. next[p] : IdsBefore(p, m)' = IdsBefore(p, m)  BY <1>1, <1>2, SameIds
<1>5. gpc[p] \in Handling => next[p] > 1 /\ Current(p)' = Current(p) /\ Id(Current(p))' = Id(Current(p))
  <2>  SUFFICES ASSUME gpc[p] \in Handling
                PROVE  next[p] > 1 /\ Current(p)' = Current(p) /\ Id(Current(p))' = Id(Current(p))
    OBVIOUS
  <2>1. next[p] > 1  BY DEF LocalInv, PlaceInv
  <2>2. next[p] - 1 \in 1 .. Len(sent[p])  BY <1>1, <1>2, <2>1
  <2>  QED  BY <1>3, <2>1, <2>2 DEF Current, Id
<1>6. PlaceInv(p)'
  <2>1. OnFile(p)' = OnFile(p)  BY DEF OnFile
  <2>  QED
    BY <1>1, <1>2, <1>5, <2>1 DEF LocalInv, PlaceInv, Nothing, Grows, Handling, Receiving
<1>7. HeldInv(p)'
  <2>  USE DEF LocalInv
  <2>1. \E m \in 1 .. next'[p] : metas'[p] = IdsBefore(p, m)'  BY <1>1, <1>4 DEF HeldInv
  <2>2. gpc[p] \in {"save", "meta"} => metas'[p] = IdsBefore(p, next[p] - 1)'
    BY <1>1, <1>4 DEF HeldInv
  <2>3. gpc[p] \in Handling \ {"save", "meta"} => metas'[p] = IdsBefore(p, next[p])'
    BY <1>1, <1>4 DEF HeldInv
  <2>  QED  BY <2>1, <2>2, <2>3 DEF HeldInv
<1>8. /\ FinalStored(p) => FinalStored(p)'
      /\ ManifestStored(p) => ManifestStored(p)'
      /\ ShareStored(p) => ShareStored(p)'
  BY <1>3 DEF FinalStored, ManifestStored, ShareStored, IsShard, Id
<1>9. RecordInv(p)'  BY <1>8 DEF LocalInv, RecordInv
<1>10. FilesInv(p)'  BY <1>1, <1>2, FilesKeep
<1>  QED  BY <1>6, <1>7, <1>9, <1>10 DEF LocalInv

-----------------------------------------------------------------------------
(***************************************************************************)
(* A guardian that moves, one lemma for each kind of step.                 *)
(***************************************************************************)

(* What a guardian's step leaves alone.                                    *)
LEMMA SameWire ==
  ASSUME TypesInv, NEW p \in Peer, LocalInv(p), UNCHANGED wireVars
  PROVE  /\ sent' = sent /\ Grows /\ WireTypeOK'
         /\ Len(sent[p]) \in Nat /\ next[p] \in Nat \ {0}
         /\ next[p] <= Len(sent[p]) + 1
         /\ \A m : IdsBefore(p, m)' = IdsBefore(p, m)
<1>1. sent' = sent /\ up' = up  BY DEF wireVars
<1>2. \A q \in Peer : Len(sent[q]) \in Nat  BY LenProperties DEF TypesInv, WireTypeOK
<1>3. Grows  BY <1>1, <1>2 DEF Grows
<1>4. ASSUME NEW m  PROVE IdsBefore(p, m)' = IdsBefore(p, m)
  BY <1>1 DEF IdsBefore, IsShard, Id
<1>  QED  BY <1>1, <1>2, <1>3, <1>4 DEF TypesInv, WireTypeOK, LocalInv, PlaceInv

(* Back to the read loop, or gone: the disk stays as it is.                *)
LEMMA GivesUp ==
  ASSUME TypesInv, NEW p \in Peer, StreamInv(p), LocalInv(p), UNCHANGED wireVars,
         gpc'[p] \in {"reading", "closed"},
         next'[p] \in {next[p], next[p] + 1}, next'[p] <= Len(sent[p]) + 1,
         result'[p] \in {result[p], "failed"}, next'[p] = 1 => result'[p] = result[p],
         record'[p] = record[p], files'[p] = files[p], metas'[p] = metas[p],
         manifests'[p] = manifests[p], shares'[p] = shares[p]
  PROVE  LocalInv(p)'
<1>  USE SameWire
<1>1. PlaceInv(p)'
  <2>1. OnFile(p)' = OnFile(p)  BY DEF OnFile
  <2>  QED  BY <2>1 DEF LocalInv, PlaceInv, Nothing, Handling, Receiving
<1>2. \E m \in 1 .. next'[p] : metas'[p] = IdsBefore(p, m)'
  <2>1. PICK m \in 1 .. next[p] : metas[p] = IdsBefore(p, m)  BY DEF LocalInv, HeldInv
  <2>2. m \in 1 .. next'[p]  BY <2>1
  <2>  QED  BY <2>1, <2>2
<1>3. HeldInv(p)'  BY <1>2 DEF LocalInv, HeldInv, Handling, Receiving
<1>4. /\ FinalStored(p) => FinalStored(p)'
      /\ ManifestStored(p) => ManifestStored(p)'
      /\ ShareStored(p) => ShareStored(p)'
  BY DEF FinalStored, ManifestStored, ShareStored, IsShard, Id
<1>5. RecordInv(p)'
  <2>1. RecordInv(p)  BY DEF LocalInv
  <2>2. result'[p] = "ok" => result[p] = "ok"  OBVIOUS
  <2>  QED  BY <1>4, <2>1, <2>2 DEF RecordInv
<1>6. FilesInv(p)'
  <2>1. gpc'[p] \notin Handling  BY DEF Handling, Receiving
  <2>  QED  BY <2>1, FilesKeep
<1>  QED  BY <1>1, <1>3, <1>5, <1>6 DEF LocalInv

(* The handler fails where it is, or after a message it refuses.           *)
LEMMA FailsKeeps ==
  ASSUME TypesInv, NEW p \in Peer, StreamInv(p), LocalInv(p), UNCHANGED wireVars, HandlerFails(p),
         UNCHANGED diskVars, gpc[p] \in Handling,
         \/ UNCHANGED next
         \/ Take(p) /\ Arrived(p)
  PROVE  LocalInv(p)'
<1>1. gpc'[p] = "reading" /\ result'[p] = "failed"  BY DEF HandlerFails, Goto, TypesInv
<1>2. next'[p] \in {next[p], next[p] + 1} /\ next'[p] <= Len(sent[p]) + 1 /\ next'[p] # 1
  BY SameWire DEF Take, Arrived, LocalInv, PlaceInv, TypesInv
<1>  QED  BY <1>1, <1>2, GivesUp DEF diskVars

LEMMA ReadFrameStep ==
  ASSUME TypesInv, NEW p \in Peer, StreamInv(p), LocalInv(p), UNCHANGED wireVars, ReadFrame(p)
  PROVE  LocalInv(p)'
<1>  USE SameWire
<1>1. /\ next'[p] = next[p] + 1 /\ result'[p] = result[p] /\ next[p] \in 1 .. Len(sent[p])
      /\ record'[p] = record[p] /\ files'[p] = files[p] /\ metas'[p] = metas[p]
      /\ manifests'[p] = manifests[p] /\ shares'[p] = shares[p]
  BY DEF ReadFrame, Take, Arrived, diskVars, TypesInv
<1>2. CASE Incoming(p).kind = "stream"
  <2>1. next[p] = 1 /\ gpc'[p] = "create" /\ next'[p] = 2 /\ sent[p][1].kind = "stream"
    BY <1>1, <1>2 DEF ReadFrame, Goto, TypesInv, Incoming, StreamInv
  <2>2. Nothing(p)' /\ OnFile(p) = {}
    BY <1>1, <2>1 DEF LocalInv, PlaceInv, Nothing, OnFile
  <2>3. IdsBefore(p, 2) = {}  BY <2>1 DEF IdsBefore, IsShard
  <2>4. PlaceInv(p)'  BY <1>1, <2>1, <2>2 DEF PlaceInv, Nothing, Handling, Receiving
  <2>5. HeldInv(p)'  BY <2>1, <2>2, <2>3 DEF HeldInv, Nothing, Handling, Receiving
  <2>6. RecordInv(p)'  BY <2>1, <2>2 DEF RecordInv, Nothing, NoRecord
  <2>7. FilesInv(p)'  BY <1>1, <2>1, <2>2, FilesKeep
  <2>  QED  BY <2>4, <2>5, <2>6, <2>7 DEF LocalInv
<1>3. CASE Incoming(p).kind # "stream"
  <2>1. gpc'[p] = "reading"  BY <1>3 DEF ReadFrame
  <2>  QED  BY <1>1, <2>1, GivesUp
<1>  QED  BY <1>2, <1>3

LEMMA CreateRecordStep ==
  ASSUME TypesInv, NEW p \in Peer, StreamInv(p), LocalInv(p), UNCHANGED wireVars, CreateRecord(p)
  PROVE  LocalInv(p)'
<1>  USE SameWire
<1>1. CASE NotStored(p)
  BY <1>1, FailsKeeps DEF CreateRecord, NotStored, Handling
<1>2. CASE ~NotStored(p)
  <2>1. /\ gpc[p] = "create" /\ gpc'[p] = "loop" /\ next'[p] = next[p] /\ result'[p] = result[p]
        /\ record'[p] = [exists |-> TRUE, complete |-> FALSE, keyReceived |-> FALSE]
        /\ files'[p] = files[p] /\ metas'[p] = metas[p]
        /\ manifests'[p] = manifests[p] /\ shares'[p] = shares[p]
    BY ZenonT(30), <1>2 DEF CreateRecord, Stored, Goto, TypesInv, NoRecord
  <2>2. PlaceInv(p)'  BY <2>1 DEF LocalInv, PlaceInv, Handling, Receiving
  <2>3. HeldInv(p)'  BY <2>1 DEF LocalInv, HeldInv, Handling, Receiving
  <2>4. RecordInv(p)'  BY <2>1 DEF LocalInv, PlaceInv, RecordInv, Nothing
  <2>5. FilesInv(p)'  BY <2>1, FilesKeep DEF Handling
  <2>  QED  BY <2>2, <2>3, <2>4, <2>5 DEF LocalInv
<1>  QED  BY <1>1, <1>2

LEMMA LoopHeadStep ==
  ASSUME TypesInv, NEW p \in Peer, StreamInv(p), LocalInv(p), UNCHANGED wireVars, LoopHead(p)
  PROVE  LocalInv(p)'
<1>  USE SameWire
<1>1. CASE HandlerFails(p)
  BY <1>1, FailsKeeps DEF LoopHead, Handling, diskVars
<1>2. CASE ~HandlerFails(p)
  <2>1. /\ gpc[p] = "loop" /\ gpc'[p] = "shard" /\ next'[p] = next[p] /\ result'[p] = result[p]
        /\ record'[p] = record[p] /\ files'[p] = files[p] /\ metas'[p] = metas[p]
        /\ manifests'[p] = manifests[p] /\ shares'[p] = shares[p]
    BY <1>2 DEF LoopHead, Goto, TypesInv, diskVars
  <2>2. PlaceInv(p)'  BY <2>1 DEF LocalInv, PlaceInv, Handling, Receiving
  <2>3. HeldInv(p)'  BY <2>1 DEF LocalInv, HeldInv, Handling, Receiving
  <2>4. RecordInv(p)'  BY <2>1 DEF LocalInv, PlaceInv, RecordInv, Handling
  <2>5. FilesInv(p)'  BY <2>1, FilesKeep DEF Handling
  <2>  QED  BY <2>2, <2>3, <2>4, <2>5 DEF LocalInv
<1>  QED  BY <1>1, <1>2

(* The message taken in is the one at hand; the store is as it was.        *)
LEMMA ReceiveStep ==
  ASSUME TypesInv, NEW p \in Peer, StreamInv(p), LocalInv(p), UNCHANGED wireVars,
         \/ Receive(p, "shard", "save")
         \/ Receive(p, "manifest", "putManifest")
         \/ Receive(p, "share", "putShare")
  PROVE  LocalInv(p)'
<1>  USE SameWire
<1>1. /\ next'[p] = next[p] + 1 /\ result'[p] = result[p] /\ next[p] \in 1 .. Len(sent[p])
      /\ record'[p] = record[p] /\ files'[p] = files[p] /\ metas'[p] = metas[p]
      /\ manifests'[p] = manifests[p] /\ shares'[p] = shares[p]
      /\ \/ gpc[p] = "shard" /\ gpc'[p] = "save" /\ sent[p][next[p]].kind = "shard"
         \/ gpc[p] = "manifest" /\ gpc'[p] = "putManifest" /\ sent[p][next[p]].kind = "manifest"
         \/ gpc[p] = "share" /\ gpc'[p] = "putShare" /\ sent[p][next[p]].kind = "share"
  BY DEF Receive, Take, Goto, Arrived, Incoming, diskVars, TypesInv
<1>2. Current(p)' = sent[p][next[p]] /\ next'[p] - 1 = next[p]  BY <1>1 DEF Current
<1>3. PlaceInv(p)'  BY <1>1, <1>2 DEF LocalInv, PlaceInv, Handling, Receiving
<1>4. ~IsShard(p, next[p]) => IdsBefore(p, next[p] + 1) = IdsBefore(p, next[p])
  BY DEF IdsBefore
<1>5. /\ next[p] \in 1 .. next'[p] /\ metas'[p] = IdsBefore(p, next[p])
      /\ gpc'[p] # "save" => metas'[p] = IdsBefore(p, next'[p])
  BY <1>1, <1>4 DEF LocalInv, HeldInv, Handling, Receiving, IsShard
<1>6. HeldInv(p)'  BY <1>1, <1>2, <1>5 DEF LocalInv, HeldInv, Handling, Receiving
<1>7. ManifestStored(p) => ManifestStored(p)'  BY <1>1 DEF ManifestStored
<1>8. FinalStored(p) => FinalStored(p)'  BY <1>1 DEF FinalStored, IsShard, Id
<1>9. result'[p] # "ok"  BY <1>1 DEF LocalInv, PlaceInv, Handling, Receiving
<1>10. RecordInv(p)'
  <2>1. RecordInv(p)  BY DEF LocalInv
  <2>  QED  BY <1>1, <1>7, <1>8, <1>9, <2>1 DEF RecordInv
<1>11. FilesInv(p)'
  <2>1. gpc[p] \in Handling \ {"meta"} /\ gpc'[p] # "meta" /\ next'[p] <= Len(sent[p]) + 1
    BY <1>1 DEF Handling, Receiving
  <2>  QED  BY <1>1, <2>1, FilesKeep
<1>  QED  BY <1>3, <1>6, <1>10, <1>11 DEF LocalInv

(* The file of the shard at hand is written over or left short: what it    *)
(* held is excused by the shard at hand, every other file is as it was.    *)
LEMMA FileGives ==
  ASSUME TypesInv, NEW p \in Peer, StreamInv(p), LocalInv(p), UNCHANGED wireVars,
         gpc[p] = "save", next'[p] = next[p], metas'[p] = metas[p],
         NEW held \in {{}, {Id(Current(p))}},
         files' = [files EXCEPT ![p][FileInHand(p)] = held]
  PROVE  /\ \A i \in 1 .. next'[p] - 1 :
              IsShard(p, i)' /\ Id(sent[p][i])' \in metas'[p] => HasFile(p, i)'
         /\ OnFile(p)' \subseteq metas[p] \cup held
         /\ Id(Current(p)) \in ShardId /\ files'[p][FileInHand(p)] = held
<1>  USE SameWire
<1>  DEFINE c == next[p] - 1
            id == Id(Current(p))
<1>1. c \in 1 .. Len(sent[p]) /\ IsShard(p, c) /\ Current(p) = sent[p][c]
  BY DEF LocalInv, PlaceInv, Handling, Receiving, IsShard, Current
<1>2. id \in ShardId /\ FileInHand(p) = FileNamed(p, c) /\ FileNamed(p, c) \in FileName
  <2>1. Current(p) \in Item  BY <1>1, ElementOfSeq DEF TypesInv, WireTypeOK
  <2>2. id \in ShardId
    BY <1>1, <2>1 DEF Item, StreamMsg, ShardMsg, ManifestMsg, ShareMsg, Id, ShardId, IsShard
  <2>  QED  BY <1>1, <2>2, FilesAssumption DEF FileInHand, FileNamed
<1>3. /\ files'[p][FileInHand(p)] = held
      /\ \A f \in FileName : f # FileInHand(p) => files'[p][f] = files[p][f]
  BY <1>2 DEF TypesInv, FilesTyped
<1>4. ASSUME NEW i \in 1 .. c, IsShard(p, i), Id(sent[p][i]) \in metas[p]
      PROVE  HasFile(p, i)'
  <2>1. i \in 1 .. Len(sent[p])  BY <1>1, <1>4
  <2>2. i \in 1 .. next[p] - 2  BY <1>4, <2>1, HeldWereRead
  <2>3. c \in i + 1 .. next'[p] - 1  BY <1>1, <2>2
  <2>4. HasFile(p, i)  BY <1>4, <2>2 DEF LocalInv, FilesInv
  <2>5. FileNamed(p, i) \in FileName
    <3>1. sent[p][i] \in Item  BY <2>1, ElementOfSeq DEF TypesInv, WireTypeOK
    <3>2. Id(sent[p][i]) \in ShardId
      BY <1>4, <3>1 DEF Item, StreamMsg, ShardMsg, ManifestMsg, ShareMsg, Id, ShardId, IsShard
    <3>  QED  BY <3>2, FilesAssumption DEF FileNamed
  <2>6. \A j : /\ FileNamed(p, j)' = FileNamed(p, j) /\ IsShard(p, j)' = IsShard(p, j)
               /\ Id(sent[p][j])' = Id(sent[p][j])
    BY DEF FileNamed, IsShard, Id
  <2>7. CASE FileNamed(p, i) = FileInHand(p)
    <3>1. files'[p][FileNamed(p, i)] \subseteq {Id(sent[p][c])}  BY <1>1, <1>3, <2>7
    <3>  QED  BY <1>1, <1>2, <2>3, <2>6, <2>7, <3>1 DEF HasFile
  <2>8. CASE FileNamed(p, i) # FileInHand(p)
    <3>1. files'[p][FileNamed(p, i)] = files[p][FileNamed(p, i)]  BY <1>3, <2>5, <2>8
    <3>  QED  BY <2>4, <2>6, <3>1 DEF HasFile
  <2>  QED  BY <2>7, <2>8
<1>5. OnFile(p)' \subseteq metas[p] \cup held
  <2>1. OnFile(p) \subseteq metas[p]  BY DEF LocalInv, FilesInv, Handling
  <2>2. \A f \in FileName : files'[p][f] \subseteq files[p][f] \cup held  BY <1>3
  <2>  QED  BY <2>1, <2>2 DEF OnFile
<1>6. \A i : IsShard(p, i)' = IsShard(p, i) /\ Id(sent[p][i])' = Id(sent[p][i])
  BY DEF IsShard, Id
<1>  QED  BY <1>2, <1>3, <1>4, <1>5, <1>6

(* A write of the file that fails, or dies, with the handler.              *)
LEMMA FileTears ==
  ASSUME TypesInv, NEW p \in Peer, StreamInv(p), LocalInv(p), UNCHANGED wireVars,
         gpc[p] = "save", gpc'[p] \in {"reading", "closed"}, result'[p] \in {result[p], "failed"},
         TearsFile(p), next' = next, record' = record, metas' = metas, manifests' = manifests,
         shares' = shares
  PROVE  LocalInv(p)'
<1>  USE SameWire
<1>1. next[p] > 1 /\ result[p] = "none"  BY DEF LocalInv, PlaceInv, Handling
<1>2. PlaceInv(p)'  BY <1>1 DEF LocalInv, PlaceInv, Handling, Receiving
<1>3. HeldInv(p)'
  <2>1. PICK m \in 1 .. next[p] : metas[p] = IdsBefore(p, m)  BY DEF LocalInv, HeldInv
  <2>2. \E n \in 1 .. next'[p] : metas'[p] = IdsBefore(p, n)'  BY <2>1
  <2>  QED  BY <2>2 DEF HeldInv, Handling, Receiving
<1>4. FilesInv(p)'
  <2>1. /\ \A i \in 1 .. next'[p] - 1 :
             IsShard(p, i)' /\ Id(sent[p][i])' \in metas'[p] => HasFile(p, i)'
        /\ OnFile(p)' \subseteq metas[p] \cup {}
    BY FileGives DEF TearsFile
  <2>  QED  BY <2>1 DEF FilesInv, Handling, Receiving
<1>5. FinalStored(p) => FinalStored(p)'  BY DEF FinalStored, IsShard, Id
<1>6. ManifestStored(p) => ManifestStored(p)'  BY DEF ManifestStored
<1>7. RecordInv(p)'
  <2>1. RecordInv(p)  BY DEF LocalInv
  <2>2. result'[p] # "ok"  BY <1>1
  <2>  QED  BY <1>5, <1>6, <2>1, <2>2 DEF RecordInv
<1>  QED  BY <1>2, <1>3, <1>4, <1>7 DEF LocalInv

LEMMA SaveShardStep ==
  ASSUME TypesInv, NEW p \in Peer, StreamInv(p), LocalInv(p), UNCHANGED wireVars, SaveShard(p)
  PROVE  LocalInv(p)'
<1>  USE SameWire
<1>0. /\ gpc[p] = "save" /\ next' = next /\ record' = record /\ metas' = metas
      /\ manifests' = manifests /\ shares' = shares
  BY DEF SaveShard
<1>1. CASE WriteFails(p) /\ HandlerFails(p)
  <2>1. gpc'[p] = "reading" /\ result'[p] = "failed"  BY <1>1 DEF HandlerFails, Goto, TypesInv
  <2>2. CASE UNCHANGED files
    BY <1>0, <1>1, <2>2, FailsKeeps DEF diskVars, Handling
  <2>3. CASE TearsFile(p)  BY <1>0, <2>1, <2>3, FileTears
  <2>  QED  BY <1>1, <2>2, <2>3 DEF WriteFails
<1>2. CASE WritesFile(p) /\ Stored(p, "meta")
  <2>1. /\ gpc'[p] = "meta" /\ result'[p] = result[p]
        /\ files' = [files EXCEPT ![p][FileInHand(p)] = {Id(Current(p))}]
    BY <1>2 DEF WritesFile, Stored, Goto, TypesInv
  <2>2. /\ Current(p)' = Current(p) /\ Id(Current(p))' = Id(Current(p))
        /\ FileInHand(p)' = FileInHand(p)
    BY <1>0 DEF Current, Id, FileInHand
  <2>3. PlaceInv(p)'  BY <1>0, <2>1, <2>2 DEF LocalInv, PlaceInv, Handling, Receiving
  <2>4. HeldInv(p)'  BY <1>0, <2>1 DEF LocalInv, HeldInv, Handling, Receiving
  <2>5. FilesInv(p)'
    <3>1. /\ \A i \in 1 .. next'[p] - 1 :
               IsShard(p, i)' /\ Id(sent[p][i])' \in metas'[p] => HasFile(p, i)'
          /\ OnFile(p)' \subseteq metas[p] \cup {Id(Current(p))}
          /\ files'[p][FileInHand(p)] = {Id(Current(p))}
      BY <1>0, <2>1, FileGives
    <3>  QED  BY <1>0, <2>1, <2>2, <3>1 DEF FilesInv
  <2>6. RecordInv(p)'  BY <1>0, <2>1 DEF LocalInv, PlaceInv, RecordInv, Handling
  <2>  QED  BY <2>3, <2>4, <2>5, <2>6 DEF LocalInv
<1>  QED  BY <1>1, <1>2 DEF SaveShard

LEMMA StoreMetaStep ==
  ASSUME TypesInv, NEW p \in Peer, StreamInv(p), LocalInv(p), UNCHANGED wireVars, StoreMeta(p)
  PROVE  LocalInv(p)'
<1>  USE SameWire
<1>1. CASE NotStored(p)
  BY <1>1, FailsKeeps DEF StoreMeta, NotStored, Handling
<1>2. CASE ~NotStored(p)
  <2>1. /\ gpc[p] = "meta" /\ gpc'[p] = AfterShard(Current(p))
        /\ next'[p] = next[p] /\ result'[p] = result[p]
        /\ metas'[p] = metas[p] \cup {Id(Current(p))}
        /\ record'[p] = record[p] /\ files'[p] = files[p]
        /\ manifests'[p] = manifests[p] /\ shares'[p] = shares[p]
    BY <1>2 DEF StoreMeta, Stored, Goto, TypesInv
  <2>2. /\ next[p] > 1 /\ result[p] = "none" /\ IsShard(p, next[p] - 1)
        /\ Current(p) = sent[p][next[p] - 1]
    BY <2>1 DEF LocalInv, PlaceInv, Handling, Current, IsShard
  <2>3. gpc'[p] \in {"loop", "final"} /\ (gpc'[p] = "final" => Current(p).final)
    BY <2>1 DEF AfterShard
  <2>4. PlaceInv(p)'  BY <2>1, <2>2, <2>3 DEF LocalInv, PlaceInv, Handling, Receiving
  <2>5. IdsBefore(p, next[p]) = IdsBefore(p, next[p] - 1) \cup {Id(Current(p))}
    BY <2>2 DEF IdsBefore
  <2>6. metas'[p] = IdsBefore(p, next[p])  BY <2>1, <2>5 DEF LocalInv, HeldInv
  <2>7. HeldInv(p)'
    <3>1. next'[p] \in 1 .. next'[p]  BY <2>1
    <3>  QED  BY <2>1, <2>3, <2>6, <3>1 DEF HeldInv, Handling, Receiving
  <2>10. FilesInv(p)'
    <3>1. /\ OnFile(p) \subseteq metas'[p] /\ OnFile(p)' = OnFile(p)
          /\ files[p][FileInHand(p)] = {Id(Current(p))}
      BY <2>1 DEF LocalInv, FilesInv, OnFile
    <3>2. ASSUME NEW i \in 1 .. next[p] - 1, IsShard(p, i), Id(sent[p][i]) \in metas'[p]
          PROVE  HasFile(p, i)
      <4>1. CASE Id(sent[p][i]) \in metas[p]  BY <3>2, <4>1 DEF LocalInv, FilesInv
      <4>2. CASE Id(sent[p][i]) = Id(Current(p))
        BY <3>1, <4>2 DEF HasFile, FileNamed, FileInHand
      <4>  QED  BY <2>1, <3>2, <4>1, <4>2
    <3>3. \A i : /\ HasFile(p, i)' = HasFile(p, i) /\ IsShard(p, i)' = IsShard(p, i)
                 /\ Id(sent[p][i])' = Id(sent[p][i])
      BY <2>1 DEF HasFile, FileNamed, IsShard, Id
    <3>  QED  BY <2>1, <2>3, <3>1, <3>2, <3>3 DEF FilesInv
  <2>8. gpc'[p] = "final" => FinalStored(p)'
    BY <2>1, <2>2, <2>3 DEF FinalStored, IsShard, Id
  <2>9. RecordInv(p)'  BY <2>1, <2>2, <2>3, <2>8 DEF LocalInv, RecordInv
  <2>  QED  BY <2>4, <2>7, <2>9, <2>10 DEF LocalInv
<1>  QED  BY <1>1, <1>2

LEMMA MarkCompleteStep ==
  ASSUME TypesInv, NEW p \in Peer, StreamInv(p), LocalInv(p), UNCHANGED wireVars, MarkComplete(p)
  PROVE  LocalInv(p)'
<1>  USE SameWire
<1>1. CASE NotStored(p)
  BY <1>1, FailsKeeps DEF MarkComplete, NotStored, Handling
<1>2. CASE ~NotStored(p)
  <2>1. /\ gpc[p] = "final" /\ gpc'[p] = "manifest" /\ next'[p] = next[p] /\ result'[p] = result[p]
        /\ record'[p] = [record[p] EXCEPT !.complete = TRUE] /\ record[p] \in Record
        /\ files'[p] = files[p] /\ metas'[p] = metas[p]
        /\ manifests'[p] = manifests[p] /\ shares'[p] = shares[p]
    BY <1>2 DEF MarkComplete, Stored, Goto, TypesInv, AfterFinal
  <2>2. /\ record'[p].exists = record[p].exists /\ record'[p].complete
        /\ record'[p].keyReceived = record[p].keyReceived
    BY <2>1 DEF Record
  <2>3. PlaceInv(p)'  BY <2>1 DEF LocalInv, PlaceInv, Handling, Receiving
  <2>4. HeldInv(p)'  BY SMTT(20), <2>1 DEF LocalInv, HeldInv, Handling, Receiving
  <2>5. FinalStored(p)'  BY <2>1 DEF LocalInv, RecordInv, FinalStored, IsShard, Id
  <2>6. RecordInv(p)'  BY <2>1, <2>2, <2>5 DEF LocalInv, PlaceInv, RecordInv, Handling
  <2>7. FilesInv(p)'  BY <2>1, FilesKeep DEF Handling
  <2>  QED  BY <2>3, <2>4, <2>6, <2>7 DEF LocalInv
<1>  QED  BY <1>1, <1>2

LEMMA StoreManifestStep ==
  ASSUME TypesInv, NEW p \in Peer, StreamInv(p), LocalInv(p), UNCHANGED wireVars, StoreManifest(p)
  PROVE  LocalInv(p)'
<1>  USE SameWire
<1>1. CASE NotStored(p)
  BY <1>1, FailsKeeps DEF StoreManifest, NotStored, Handling
<1>2. CASE ~NotStored(p)
  <2>1. /\ gpc[p] = "putManifest" /\ gpc'[p] = "share"
        /\ next'[p] = next[p] /\ result'[p] = result[p]
        /\ record'[p] = record[p] /\ files'[p] = files[p] /\ metas'[p] = metas[p]
        /\ manifests'[p] = {Current(p).groups} /\ shares'[p] = shares[p]
    BY <1>2 DEF StoreManifest, Stored, Goto, TypesInv
  <2>2. next[p] - 1 \in 1 .. Len(sent[p]) /\ sent[p][next[p] - 1].kind = "manifest"
        /\ Current(p) = sent[p][next[p] - 1]
    BY <2>1 DEF LocalInv, PlaceInv, Handling, Current
  <2>3. PlaceInv(p)'  BY <2>1 DEF LocalInv, PlaceInv, Handling, Receiving
  <2>4. HeldInv(p)'  BY ZenonT(30), <2>1 DEF LocalInv, HeldInv, Handling, Receiving
  <2>5. ManifestStored(p)'  BY <2>1, <2>2 DEF ManifestStored
  <2>6. FinalStored(p)'  BY <2>1 DEF LocalInv, RecordInv, FinalStored, IsShard, Id
  <2>7. RecordInv(p)'
    BY <2>1, <2>5, <2>6 DEF LocalInv, PlaceInv, RecordInv, Handling, Receiving
  <2>8. FilesInv(p)'  BY <2>1, FilesKeep DEF Handling, Receiving
  <2>  QED  BY <2>3, <2>4, <2>7, <2>8 DEF LocalInv
<1>  QED  BY <1>1, <1>2

LEMMA StoreShareStep ==
  ASSUME TypesInv, NEW p \in Peer, StreamInv(p), LocalInv(p), UNCHANGED wireVars, StoreShare(p)
  PROVE  LocalInv(p)'
<1>  USE SameWire
<1>1. CASE NotStored(p)
  BY <1>1, FailsKeeps DEF StoreShare, NotStored, Handling
<1>2. CASE ~NotStored(p)
  <2>1. /\ gpc[p] = "putShare" /\ gpc'[p] = "finish"
        /\ next'[p] = next[p] /\ result'[p] = result[p]
        /\ record'[p] = record[p] /\ files'[p] = files[p] /\ metas'[p] = metas[p]
        /\ manifests'[p] = manifests[p] /\ shares'[p] = {Current(p).index}
    BY <1>2 DEF StoreShare, Stored, Goto, TypesInv
  <2>2. next[p] - 1 \in 1 .. Len(sent[p]) /\ sent[p][next[p] - 1].kind = "share"
        /\ Current(p) = sent[p][next[p] - 1]
    BY <2>1 DEF LocalInv, PlaceInv, Handling, Current
  <2>3. PlaceInv(p)'  BY <2>1 DEF LocalInv, PlaceInv, Handling, Receiving
  <2>4. HeldInv(p)'  BY ZenonT(30), <2>1 DEF LocalInv, HeldInv, Handling, Receiving
  <2>5. ShareStored(p)'  BY <2>1, <2>2 DEF ShareStored
  <2>6. FinalStored(p)' /\ ManifestStored(p)'
    BY <2>1 DEF LocalInv, RecordInv, FinalStored, ManifestStored, IsShard, Id
  <2>7. manifests[p] # {}  BY <2>1 DEF LocalInv, RecordInv, ManifestStored
  <2>8. RecordInv(p)'
    BY <2>1, <2>5, <2>6, <2>7 DEF LocalInv, PlaceInv, RecordInv, Handling, Receiving
  <2>9. FilesInv(p)'  BY <2>1, FilesKeep DEF Handling
  <2>  QED  BY <2>3, <2>4, <2>8, <2>9 DEF LocalInv
<1>  QED  BY <1>1, <1>2

LEMMA FinishStep ==
  ASSUME TypesInv, NEW p \in Peer, StreamInv(p), LocalInv(p), UNCHANGED wireVars, Finish(p)
  PROVE  LocalInv(p)'
<1>  USE SameWire
<1>1. /\ gpc[p] = "finish" /\ gpc'[p] = "reading" /\ next'[p] = next[p] /\ result'[p] = "ok"
      /\ files'[p] = files[p] /\ metas'[p] = metas[p]
      /\ manifests'[p] = manifests[p] /\ shares'[p] = shares[p]
      /\ \/ record'[p] = record[p]
         \/ record'[p] = FinalRecord
  BY DEF Finish, Goto, TypesInv
<1>2. next'[p] > 1  BY <1>1 DEF LocalInv, PlaceInv, Handling
<1>3. PlaceInv(p)'  BY <1>1, <1>2 DEF LocalInv, PlaceInv, Handling, Receiving
<1>4. \E m \in 1 .. next'[p] : metas'[p] = IdsBefore(p, m)'
  <2>1. PICK m \in 1 .. next[p] : metas[p] = IdsBefore(p, m)  BY DEF LocalInv, HeldInv
  <2>  QED  BY <1>1, <2>1
<1>5. HeldInv(p)'  BY <1>1, <1>4 DEF LocalInv, HeldInv, Handling, Receiving
<1>6. FinalStored(p)' /\ ManifestStored(p)' /\ ShareStored(p)'
  BY ZenonT(30), <1>1 DEF LocalInv, RecordInv, FinalStored, ManifestStored, ShareStored, IsShard, Id
<1>7. manifests[p] # {} /\ shares[p] # {}
  BY <1>1 DEF LocalInv, RecordInv, ManifestStored, ShareStored
<1>8. RecordInv(p)'  BY <1>1, <1>6, <1>7 DEF RecordInv
<1>9. FilesInv(p)'
  <2>1. gpc'[p] \notin Handling  BY <1>1 DEF Handling, Receiving
  <2>  QED  BY <1>1, <2>1, FilesKeep
<1>  QED  BY <1>3, <1>5, <1>8, <1>9 DEF LocalInv

(* The rest gives up.                                                      *)
LEMMA OtherSteps ==
  ASSUME TypesInv, NEW p \in Peer, StreamInv(p), LocalInv(p), UNCHANGED wireVars,
         ReadGarbage(p) \/ ReceiveRefuses(p) \/ ReceiveOfConn(p) \/ GuardianFaults(p)
  PROVE  LocalInv(p)'
<1>  USE SameWire
<1>1. CASE ReceiveRefuses(p)
  BY <1>1, FailsKeeps DEF ReceiveRefuses, Handling
<1>2. CASE ReadGarbage(p) \/ (Crash(p) /\ UNCHANGED files)
  <2>1. gpc'[p] = "closed" /\ next' = next /\ result' = result /\ UNCHANGED diskVars
    BY <1>2 DEF ReadGarbage, Crash, Goto, TypesInv, diskVars
  <2>  QED  BY <2>1, GivesUp DEF diskVars
<1>4. CASE Crash(p) /\ gpc[p] = "save" /\ TearsFile(p)
  <2>1. gpc'[p] = "closed" /\ next' = next /\ result' = result /\ record' = record
        /\ metas' = metas /\ manifests' = manifests /\ shares' = shares
    BY <1>4 DEF Crash, Goto, TypesInv
  <2>  QED  BY <1>4, <2>1, FileTears
<1>5. CASE ReceiveOfConn(p)
  <2>1. /\ next'[p] = next[p] + 1 /\ next'[p] <= Len(sent[p]) + 1 /\ UNCHANGED diskVars
        /\ gpc[p] \in Handling
    BY <1>5 DEF ReceiveOfConn, Take, Arrived, TypesInv, Handling
  <2>2. CASE HandlerFails(p)  BY <1>5, <2>1, <2>2, FailsKeeps DEF ReceiveOfConn
  <2>3. CASE Goto(p, "closed") /\ UNCHANGED result
    <3>1. gpc'[p] = "closed" /\ result'[p] = result[p]  BY <2>3 DEF Goto, TypesInv
    <3>  QED  BY <2>1, <3>1, GivesUp DEF diskVars
  <2>  QED  BY <1>5, <2>2, <2>3 DEF ReceiveOfConn
<1>3. CASE LoseConnection(p)
  <2>1. /\ gpc'[p] = "closed" /\ next' = next /\ UNCHANGED diskVars
        /\ result'[p] \in {result[p], "failed"}
        /\ gpc[p] = "reading" => result'[p] = result[p]
    BY <1>3 DEF LoseConnection, Goto, TypesInv
  <2>2. next'[p] = 1 => result'[p] = result[p]
    BY <1>3, <2>1 DEF LoseConnection, LocalInv, PlaceInv, Receiving
  <2>  QED  BY <2>1, <2>2, GivesUp DEF diskVars
<1>  QED  BY <1>1, <1>2, <1>3, <1>4, <1>5 DEF GuardianFaults, Crash

-----------------------------------------------------------------------------
(***************************************************************************)
(* The invariant holds.                                                    *)
(***************************************************************************)

(* The message at hand is of its kind, so what is stored of it is typed.   *)
LEMMA CurrentTyped ==
  ASSUME TypesInv, NEW p \in Peer, LocalInv(p), gpc[p] \in Handling
  PROVE  /\ gpc[p] \in {"save", "meta"} => Id(Current(p)) \in ShardId
         /\ gpc[p] = "putManifest" => Current(p).groups \in Groups
         /\ gpc[p] = "putShare" => Current(p).index \in Peer
<1>1. sent[p] \in Seq(Item) /\ next[p] \in Nat \ {0}  BY DEF TypesInv, WireTypeOK
<1>2. next[p] - 1 \in 1 .. Len(sent[p])
  BY <1>1, LenProperties DEF LocalInv, PlaceInv
<1>3. Current(p) \in Item  BY <1>1, <1>2, ElementOfSeq DEF Current
<1>  QED
  BY <1>3 DEF LocalInv, PlaceInv, Item, StreamMsg, ShardMsg, ManifestMsg, ShareMsg, Id, ShardId

LEMMA TypesKeep ==
  ASSUME TypesInv, NEW p \in Peer, LocalInv(p), UNCHANGED wireVars,
         GuardianStep(p) \/ GuardianFaults(p)
  PROVE  TypesInv'
<1>  USE DEF TypesInv, diskVars, Goto, HandlerFails, Stored, NotStored, Handling, Receiving
<1>00. files' = files => FilesTyped'  BY DEF FilesTyped
<1>0. WireTypeOK'  BY DEF wireVars, WireTypeOK
<1>1. CASE ReadFrame(p)
  <2>1. garbled' \in [Peer -> BOOLEAN]
    <3>1. HasData(Incoming(p)) \in BOOLEAN  BY DEF HasData
    <3>2. \/ garbled' = garbled
          \/ garbled' = [garbled EXCEPT ![p] = HasData(Incoming(p))]
      BY <1>1 DEF ReadFrame
    <3>  QED  BY <3>1, <3>2
  <2>2. gpc' \in [Peer -> Handling \cup {"reading", "closed"}]  BY <1>1 DEF ReadFrame
  <2>3. next' \in [Peer -> Nat \ {0}]  BY <1>1 DEF ReadFrame, Take
  <2>  QED  BY <1>0, <1>00, <1>1, <2>1, <2>2, <2>3 DEF ReadFrame
<1>2. CASE ReadGarbage(p)  BY <1>0, <1>00, <1>2 DEF ReadGarbage
<1>3. CASE CreateRecord(p)
  <2>1. [NoRecord EXCEPT !.exists = TRUE] \in Record
    <3>1. NoRecord \in Record  BY DEF NoRecord, Record
    <3>  QED  BY Zenon, <3>1 DEF Record
  <2>2. record' \in [Peer -> Record]
    <3>  DEFINE fresh == [NoRecord EXCEPT !.exists = TRUE]
    <3>1. record' = record \/ record' = [record EXCEPT ![p] = fresh]  BY <1>3 DEF CreateRecord
    <3>2. fresh \in Record  BY <2>1
    <3>  HIDE DEF fresh
    <3>  QED  BY <3>1, <3>2
  <2>3. gpc' \in [Peer -> Handling \cup {"reading", "closed"}]  BY <1>3 DEF CreateRecord
  <2>  QED  BY <1>0, <1>00, <1>3, <2>2, <2>3 DEF CreateRecord
<1>4. CASE LoopHead(p)  BY <1>0, <1>00, <1>4 DEF LoopHead
<1>5. CASE \/ Receive(p, "shard", "save")
           \/ Receive(p, "manifest", "putManifest")
           \/ Receive(p, "share", "putShare")
  BY <1>0, <1>00, <1>5 DEF Receive, Take
<1>6. ASSUME gpc[p] = "save", WritesFile(p) \/ TearsFile(p)
      PROVE  FilesTyped'
  <2>1. Id(Current(p)) \in ShardId  BY <1>6, CurrentTyped
  <2>2. PICK held \in SUBSET ShardId : files' = [files EXCEPT ![p][FileInHand(p)] = held]
    BY <1>6, <2>1 DEF WritesFile, TearsFile
  <2>  QED  BY <2>2 DEF FilesTyped
<1>15. CASE SaveShard(p)
  <2>1. FilesTyped'  BY <1>00, <1>6, <1>15 DEF SaveShard, WriteFails
  <2>2. gpc' \in [Peer -> Handling \cup {"reading", "closed"}]  BY <1>15 DEF SaveShard
  <2>  QED  BY <1>0, <1>15, <2>1, <2>2 DEF SaveShard
<1>7. CASE StoreMeta(p)  BY <1>0, <1>00, <1>7, CurrentTyped DEF StoreMeta, AfterShard
<1>8. CASE MarkComplete(p)
  <2>1. [record[p] EXCEPT !.complete = TRUE] \in Record  BY ZenonT(30) DEF Record
  <2>2. record' \in [Peer -> Record]  BY ZenonT(30), <1>8, <2>1 DEF MarkComplete
  <2>  QED  BY <1>0, <1>00, <1>8, <2>2 DEF MarkComplete, AfterFinal
<1>9. CASE StoreManifest(p)  BY <1>0, <1>00, <1>9, CurrentTyped DEF StoreManifest
<1>10. CASE StoreShare(p)  BY <1>0, <1>00, <1>10, CurrentTyped DEF StoreShare
<1>11. CASE ReceiveRefuses(p)
  BY <1>0, <1>00, <1>11 DEF ReceiveRefuses, LeavesData, Take, HasData
<1>16. CASE ReceiveOfConn(p)
  <2>1. garbled' \in [Peer -> BOOLEAN]  BY <1>16 DEF ReceiveOfConn, LeavesData, HasData
  <2>2. next' \in [Peer -> Nat \ {0}]  BY <1>16 DEF ReceiveOfConn, Take
  <2>3. /\ gpc' \in [Peer -> Handling \cup {"reading", "closed"}]
        /\ result' \in [Peer -> {"none", "ok", "failed"}]
    BY <1>16 DEF ReceiveOfConn
  <2>4. UNCHANGED diskVars  BY <1>16 DEF ReceiveOfConn
  <2>  QED  BY <1>0, <1>00, <2>1, <2>2, <2>3, <2>4
<1>12. CASE Finish(p)
  <2>1. FinalRecord \in Record  BY DEF FinalRecord, Record
  <2>  QED  BY <1>0, <1>00, <1>12, <2>1 DEF Finish
<1>13. CASE LoseConnection(p)  BY <1>0, <1>00, <1>13 DEF LoseConnection
<1>14. CASE Crash(p)
  <2>1. FilesTyped'  BY <1>00, <1>6, <1>14 DEF Crash
  <2>  QED  BY <1>0, <1>14, <2>1 DEF Crash
<1>  QED  BY <1>1, <1>2, <1>3, <1>4, <1>5, <1>7, <1>8, <1>9, <1>10, <1>11, <1>12, <1>13, <1>14,
             <1>15, <1>16 DEF GuardianStep, GuardianFaults

(* A guardian's step touches nothing of another guardian.                  *)
LEMMA OthersKeep ==
  ASSUME TypesInv, NEW p \in Peer, NEW q \in Peer, p # q, GuardianStep(p) \/ GuardianFaults(p)
  PROVE  /\ gpc'[q] = gpc[q] /\ next'[q] = next[q] /\ record'[q] = record[q] /\ files'[q] = files[q]
         /\ metas'[q] = metas[q] /\ manifests'[q] = manifests[q] /\ shares'[q] = shares[q]
         /\ result'[q] = result[q]
<1>  USE DEF TypesInv, FilesTyped, diskVars, Goto, HandlerFails, Stored, NotStored, Take
<1>  QED
  BY DEF GuardianStep, GuardianFaults, ReadFrame, ReadGarbage, CreateRecord, LoopHead, Receive,
         SaveShard, WritesFile, WriteFails, TearsFile, StoreMeta, MarkComplete, StoreManifest,
         StoreShare, ReceiveRefuses, ReceiveOfConn, Finish, LoseConnection, Crash

LEMMA InvInit == ReadingInit => GuardianInv
<1>  SUFFICES ASSUME ReadingInit PROVE GuardianInv  OBVIOUS
<1>  USE DEF ReadingInit, WireInit, GuardianInit
<1>1. TypesInv
  BY EmptySeq DEF TypesInv, FilesTyped, WireTypeOK, Record, NoRecord, Handling
<1>2. ASSUME NEW p \in Peer  PROVE StreamInv(p) /\ LocalInv(p)
  <2>1. sent[p] = <<>> /\ Len(sent[p]) = 0  BY EmptySeq
  <2>2. IdsBefore(p, 1) = {}  BY DEF IdsBefore
  <2>3. OnFile(p) = {}  BY DEF OnFile
  <2>4. StreamInv(p) /\ PlaceInv(p) /\ HeldInv(p) /\ RecordInv(p)
    BY <2>1, <2>2, <2>3
    DEF StreamInv, PlaceInv, HeldInv, RecordInv, Nothing, NoRecord, Handling, Receiving
  <2>5. FilesInv(p)  BY <2>3 DEF FilesInv, Handling, Receiving
  <2>  QED  BY <2>4, <2>5 DEF LocalInv
<1>  QED  BY <1>1, <1>2 DEF GuardianInv

LEMMA InvNext ==
  ASSUME GuardianInv,
         [\/ GuardianNext /\ UNCHANGED wireVars
          \/ StreamNext /\ UNCHANGED guardianVars]_GuardianAll
  PROVE  GuardianInv'
<1>  USE DEF GuardianInv
<1>1. CASE GuardianNext /\ UNCHANGED wireVars
  <2>1. PICK p \in Peer : GuardianStep(p) \/ GuardianFaults(p)  BY <1>1 DEF GuardianNext
  <2>2. TypesInv'  BY <1>1, <2>1, TypesKeep
  <2>3. ASSUME NEW q \in Peer  PROVE StreamInv(q)'
    <3>1. sent' = sent  BY <1>1 DEF wireVars
    <3>  QED  BY <3>1 DEF StreamInv, IsShard
  <2>4. LocalInv(p)'
    <3>1. CASE GuardianFaults(p)  BY <1>1, <3>1, OtherSteps
    <3>2. CASE GuardianStep(p)
      BY <1>1, <3>2, ReadFrameStep, OtherSteps, CreateRecordStep, LoopHeadStep, ReceiveStep,
         SaveShardStep, StoreMetaStep, MarkCompleteStep, StoreManifestStep, StoreShareStep,
         FinishStep DEF GuardianStep
    <3>  QED  BY <2>1, <3>1, <3>2
  <2>5. ASSUME NEW q \in Peer, q # p  PROVE LocalInv(q)'
    BY <1>1, <2>1, <2>5, OthersKeep, SameWire, Keeps
  <2>  QED  BY <2>2, <2>3, <2>4, <2>5
<1>2. CASE StreamNext /\ UNCHANGED guardianVars
  <2>1. PICK p \in Peer, item \in Item : Feed(p, item)  BY <1>2 DEF StreamNext
  <2>2. WireTypeOK' /\ Grows /\ \A q \in Peer : StreamInv(q)'
    BY <2>1, StreamInvariance DEF TypesInv
  <2>3. TypesInv'  BY <1>2, <2>2 DEF TypesInv, FilesTyped, guardianVars, diskVars
  <2>4. ASSUME NEW q \in Peer  PROVE LocalInv(q)'
    BY <1>2, <2>2, Keeps DEF guardianVars, diskVars
  <2>  QED  BY <2>2, <2>3, <2>4
<1>3. CASE UNCHANGED GuardianAll
  <2>1. sent' = sent /\ UNCHANGED guardianVars  BY <1>3 DEF GuardianAll, wireVars
  <2>2. TypesInv'  BY <1>3 DEF GuardianAll, wireVars, guardianVars, diskVars, TypesInv, FilesTyped, WireTypeOK
  <2>3. ASSUME NEW q \in Peer  PROVE StreamInv(q)' /\ LocalInv(q)'
    <3>1. StreamInv(q)'  BY <2>1 DEF StreamInv, IsShard
    <3>2. Grows  BY <1>3, SameWire DEF GuardianAll
    <3>  QED  BY <2>1, <3>1, <3>2, Keeps DEF guardianVars, diskVars
  <2>  QED  BY <2>2, <2>3
<1>  QED  BY <1>1, <1>2, <1>3

LEMMA InvHolds == GuardianSpec => []GuardianInv
<1>  QED  BY InvInit, InvNext, PTL DEF GuardianSpec

-----------------------------------------------------------------------------
(***************************************************************************)
(* What it says.                                                           *)
(***************************************************************************)

(* Every variable of the guardians keeps its type.                         *)
THEOREM GuardianTypes == GuardianSpec => []GuardianTypeOK
<1>1. GuardianInv => GuardianTypeOK
  BY DEF GuardianInv, TypesInv, FilesTyped, LocalInv, PlaceInv, GuardianTypeOK
<1>  QED  BY <1>1, InvHolds, PTL

(* The data of a shard on record stands in its file but for what a later   *)
(* shard of the same name did to it, through every write that fails or     *)
(* dies half-way, and one shard at most has a file and no row.             *)
THEOREM RecordsHaveFiles == GuardianSpec => []RecordedHasFile
<1>1. ASSUME GuardianInv, NEW p \in Peer
      PROVE  Cardinality(OnFile(p) \ metas[p]) <= 1
  <2>1. PICK x : OnFile(p) \subseteq metas[p] \cup {x}
    BY <1>1 DEF GuardianInv, LocalInv, FilesInv
  <2>2. IsFiniteSet({x}) /\ Cardinality({x}) = 1  BY FS_Singleton
  <2>3. Cardinality(OnFile(p) \ metas[p]) <= Cardinality({x})  BY <2>1, <2>2, FS_Subset
  <2>  QED  BY <2>2, <2>3
<1>2. GuardianInv => RecordedHasFile
  BY <1>1 DEF GuardianInv, LocalInv, FilesInv, RecordedHasFile
<1>  QED  BY <1>2, InvHolds, PTL

(* Whatever fails, the shards on record are the first ones written.        *)
THEOREM NoShardIsSkipped == GuardianSpec => []NoShardSkipped
<1>1. ASSUME GuardianInv, NEW p \in Peer, NEW i \in 1 .. Len(sent[p]), NEW j \in 1 .. Len(sent[p]),
             i < j, IsShard(p, i), IsShard(p, j), Id(sent[p][j]) \in metas[p]
      PROVE  Id(sent[p][i]) \in metas[p]
  <2>1. next[p] \in Nat \ {0} /\ Len(sent[p]) \in Nat
    BY <1>1, LenProperties DEF GuardianInv, TypesInv, WireTypeOK
  <2>2. PICK m \in 1 .. next[p] : metas[p] = IdsBefore(p, m)
    BY <1>1 DEF GuardianInv, LocalInv, HeldInv
  <2>3. PICK k \in 1 .. m - 1 : IsShard(p, k) /\ Id(sent[p][k]) = Id(sent[p][j])
    BY <1>1, <2>2 DEF IdsBefore
  <2>4. m - 1 <= Len(sent[p])
    BY <1>1, <2>1, <2>2 DEF GuardianInv, LocalInv, PlaceInv
  <2>5. k \in 1 .. Len(sent[p])  BY <2>1, <2>2, <2>3, <2>4
  <2>6. k = j  BY <1>1, <2>3, <2>5, SameShard DEF GuardianInv
  <2>  QED  BY <1>1, <2>1, <2>2, <2>6 DEF IdsBefore
<1>2. GuardianInv => NoShardSkipped  BY <1>1 DEF NoShardSkipped
<1>  QED  BY <1>2, InvHolds, PTL

(* A share on disk implies the manifest, and that a final shard.           *)
THEOREM DiskTells == GuardianSpec => []DiskTellsProgress
<1>1. GuardianInv => DiskTellsProgress
  BY DEF GuardianInv, LocalInv, RecordInv, FinalStored, DiskTellsProgress
<1>  QED  BY <1>1, InvHolds, PTL

(* The row never claims what the disk does not hold.                       *)
THEOREM FlagsHold == GuardianSpec => []FlagsAreTrue
<1>1. GuardianInv => FlagsAreTrue
  BY DEF GuardianInv, LocalInv, RecordInv, FinalStored, FlagsAreTrue
<1>  QED  BY <1>1, InvHolds, PTL

(* A handler that returned, well or not, never touches the disk again.     *)
THEOREM DoneStaysDone == GuardianSpec => DoneIsDone
<1>  DEFINE Next == \/ GuardianNext /\ UNCHANGED wireVars
                    \/ StreamNext /\ UNCHANGED guardianVars
            Still(p) == UNCHANGED <<files[p], metas[p], manifests[p], shares[p], record[p]>>
<1>1. ASSUME GuardianInv, [Next]_GuardianAll, NEW p \in Peer, result[p] # "none"
      PROVE  Still(p)
  <2>1. gpc[p] \notin Handling
    BY <1>1 DEF GuardianInv, LocalInv, PlaceInv
  <2>2. CASE UNCHANGED guardianVars  BY <2>2 DEF guardianVars, diskVars
  <2>3. ASSUME NEW q \in Peer, q # p, GuardianStep(q) \/ GuardianFaults(q)  PROVE Still(p)
    BY <1>1, <2>3, OthersKeep DEF GuardianInv
  <2>4. CASE GuardianStep(p) \/ GuardianFaults(p)
    <3>1. ReadFrame(p) \/ ReadGarbage(p) \/ GuardianFaults(p)
      BY <2>1, <2>4 DEF GuardianStep, CreateRecord, LoopHead, Receive, SaveShard, StoreMeta,
                        MarkComplete, StoreManifest, StoreShare, ReceiveRefuses, ReceiveOfConn,
                        Finish, Handling, Receiving
    <3>2. gpc[p] # "save"  BY <2>1 DEF Handling
    <3>  QED
      BY <3>1, <3>2 DEF ReadFrame, ReadGarbage, GuardianFaults, LoseConnection, Crash, diskVars
  <2>  QED  BY <1>1, <2>2, <2>3, <2>4 DEF GuardianNext, GuardianAll
<1>2. GuardianInv /\ [Next]_GuardianAll =>
        [\A p \in Peer : result[p] # "none" => Still(p)]_GuardianAll
  BY <1>1
<1>  QED  BY <1>2, InvHolds, PTL DEF GuardianSpec, DoneIsDone

-----------------------------------------------------------------------------
(***************************************************************************)
(* What a handler has read.                                                *)
(***************************************************************************)

(* What the protocol says of whole streams: shards follow nothing but the  *)
(* announcement and shards.                                                *)
OrderInv(p) == \A i, j \in 1 .. Len(sent[p]) :
                 i < j /\ IsShard(p, j) => sent[p][i].kind \in {"stream", "shard"}

AllShardsStored(p) == \A i \in 1 .. Len(sent[p]) : IsShard(p, i) => Id(sent[p][i]) \in metas[p]

(* What a handler that returned nil had read.                              *)
ReadInv(p) ==
  /\ gpc[p] = "finish" => Current(p).kind = "share"
  /\ manifests[p] # {} => ManifestStored(p)
  /\ shares[p] # {} => ShareStored(p)
  /\ result[p] = "ok" => AllShardsStored(p)

(* The protocol keeps it so.                                               *)
LEMMA OrderInvariance ==
  ASSUME WireTypeOK, \A q \in Peer : StreamInv(q) /\ OrderInv(q), NEW p \in Peer,
         NEW item \in Item, Feed(p, item)
  PROVE  \A q \in Peer : OrderInv(q)'
<1>1. CASE sent' = sent
  BY <1>1 DEF OrderInv, IsShard
<1>2. ASSUME NEW x \in Item, sent' = [sent EXCEPT ![p] = Append(@, x)],
             x = item \/ (HasData(item) /\ x = Cut(item))
      PROVE  \A q \in Peer : OrderInv(q)'
  <2>1. x.kind = item.kind
    BY <1>2 DEF Cut, Item, HasData, StreamMsg, ShardMsg, ManifestMsg, ShareMsg
  <2>2. ASSUME NEW q \in Peer \ {p}  PROVE OrderInv(q)'
    <3>1. sent'[q] = sent[q]  BY <1>2, Appended
    <3>  QED  BY <3>1 DEF OrderInv, IsShard
  <2>3. OrderInv(p)'
    <3>  DEFINE n == Len(sent[p])
    <3>1. n \in Nat /\ (n = 0 <=> sent[p] = <<>>)
      BY Appended, <1>2, EmptySeq DEF WireTypeOK
    <3>2. /\ Len(sent'[p]) = n + 1 /\ sent'[p][n + 1] = x
          /\ \A i \in 1 .. n : sent'[p][i] = sent[p][i]
      BY <1>2, Appended
    <3>3. MayFollow(p, item)  BY DEF Feed
    <3>4. n # 0 /\ x.kind = "shard" => sent[p][n].kind \in {"stream", "shard"}
      BY <2>1, <3>1, <3>3 DEF MayFollow, LastItem
    <3>5. StreamInv(p) /\ OrderInv(p)  OBVIOUS
    <3>6. ASSUME NEW i \in 1 .. n, x.kind = "shard"
          PROVE  sent[p][i].kind \in {"stream", "shard"}
      <4>1. n # 0 /\ n \in 1 .. n  BY <3>1, <3>6
      <4>2. sent[p][n].kind = "stream" => n = 1  BY <3>5, <4>1 DEF StreamInv
      <4>3. CASE i = n  BY <3>4, <3>6, <4>1, <4>3
      <4>4. CASE i # n
        <5>1. i < n /\ n # 1
          <6>1. \A m \in Nat : \A l \in 1 .. m : l # m => l < m /\ m # 1  OBVIOUS
          <6>  QED  BY <3>1, <4>4, <6>1
        <5>2. IsShard(p, n)  BY <3>4, <3>6, <4>1, <4>2, <5>1 DEF IsShard
        <5>  QED  BY <3>5, <3>6, <4>1, <5>1, <5>2 DEF OrderInv
      <4>  QED  BY <4>3, <4>4
    <3>7. ASSUME NEW i \in 1 .. n + 1, NEW j \in 1 .. n + 1, i < j, IsShard(p, j)'
          PROVE  sent'[p][i].kind \in {"stream", "shard"}
      <4>1. i \in 1 .. n /\ sent'[p][i] = sent[p][i]  BY <3>1, <3>2, <3>7
      <4>2. CASE j \in 1 .. n
        BY <3>2, <3>5, <3>7, <4>1, <4>2 DEF OrderInv, IsShard
      <4>3. CASE j = n + 1  BY <3>2, <3>6, <3>7, <4>1, <4>3 DEF IsShard
      <4>  QED  BY <3>1, <4>2, <4>3
    <3>  QED  BY <3>2, <3>7 DEF OrderInv
  <2>  QED  BY <2>2, <2>3
<1>  QED  BY <1>1, <1>2, FeedAdds

(* A guardian that does not move.                                          *)
LEMMA ReadKeeps ==
  ASSUME TypesInv, NEW p \in Peer, LocalInv(p), ReadInv(p), Grows, OrderInv(p)',
         gpc'[p] = gpc[p], next'[p] = next[p], metas'[p] = metas[p],
         manifests'[p] = manifests[p], shares'[p] = shares[p], result'[p] = result[p]
  PROVE  ReadInv(p)'
<1>1. /\ Len(sent[p]) \in Nat /\ Len(sent'[p]) \in Nat /\ Len(sent'[p]) >= Len(sent[p])
      /\ next[p] \in Nat \ {0} /\ next[p] <= Len(sent[p]) + 1
  BY LenProperties DEF TypesInv, WireTypeOK, Grows, LocalInv, PlaceInv
<1>2. \A i \in 1 .. Len(sent[p]) : i \in 1 .. Len(sent'[p]) /\ sent'[p][i] = sent[p][i]
  BY <1>1 DEF Grows
<1>3. gpc[p] \in Handling => next[p] - 1 \in 1 .. Len(sent[p]) /\ Current(p)' = Current(p)
  BY <1>1, <1>2 DEF LocalInv, PlaceInv, Current
<1>4. /\ ManifestStored(p) => ManifestStored(p)'
      /\ ShareStored(p) => ShareStored(p)'
  BY <1>2 DEF ManifestStored, ShareStored
<1>5. result[p] = "ok" => AllShardsStored(p)'
  <2>1. SUFFICES ASSUME result[p] = "ok", NEW j \in 1 .. Len(sent'[p]), IsShard(p, j)'
                 PROVE  Id(sent'[p][j]) \in metas'[p]
    BY DEF AllShardsStored
  <2>2. AllShardsStored(p) /\ ManifestStored(p)  BY <2>1 DEF LocalInv, RecordInv, ReadInv
  <2>3. PICK i \in 1 .. Len(sent[p]) : sent[p][i].kind = "manifest"  BY <2>2 DEF ManifestStored
  <2>4. j \in 1 .. Len(sent[p])
    <3>1. ~(i < j)  BY <1>2, <2>1, <2>3 DEF OrderInv
    <3>  QED  BY <1>1, <2>1, <2>3, <3>1
  <2>  QED  BY <1>2, <2>1, <2>2, <2>4 DEF AllShardsStored, IsShard, Id
<1>  QED  BY <1>3, <1>4, <1>5 DEF ReadInv, Handling

(* A guardian that moves.                                                  *)
LEMMA ReadMoves ==
  ASSUME TypesInv, NEW p \in Peer, StreamInv(p), OrderInv(p), LocalInv(p), ReadInv(p),
         UNCHANGED wireVars, GuardianStep(p) \/ GuardianFaults(p)
  PROVE  ReadInv(p)'
<1>  USE DEF Goto, Stored, HandlerFails
<1>0. /\ sent' = sent /\ Len(sent[p]) \in Nat /\ next[p] \in Nat \ {0}
      /\ next[p] <= Len(sent[p]) + 1
  BY LenProperties DEF wireVars, TypesInv, WireTypeOK, LocalInv, PlaceInv
<1>1. LocalInv(p)'
  BY ReadFrameStep, OtherSteps, CreateRecordStep, LoopHeadStep, ReceiveStep, SaveShardStep,
     StoreMetaStep, MarkCompleteStep, StoreManifestStep, StoreShareStep, FinishStep
  DEF GuardianStep
<1>2. ASSUME manifests'[p] = manifests[p], shares'[p] = shares[p], metas'[p] = metas[p],
             result'[p] \in {result[p], "failed"}, gpc'[p] # "finish"
      PROVE  ReadInv(p)'
  BY <1>0, <1>2 DEF ReadInv, ManifestStored, ShareStored, AllShardsStored, IsShard, Id
<1>3. ASSUME NotStored(p)  PROVE ReadInv(p)'
  BY <1>2, <1>3 DEF NotStored, diskVars, TypesInv
<1>4. CASE ReadFrame(p) \/ ReadGarbage(p)
  <2>1. gpc'[p] # "finish"  BY <1>4 DEF ReadFrame, ReadGarbage, TypesInv
  <2>  QED  BY <1>2, <1>4, <2>1 DEF ReadFrame, ReadGarbage, diskVars
<1>5. CASE GuardianFaults(p)
  BY <1>2, <1>5 DEF GuardianFaults, LoseConnection, Crash, diskVars, TypesInv
<1>6. CASE ReceiveRefuses(p) \/ ReceiveOfConn(p)
  BY <1>2, <1>6 DEF ReceiveRefuses, ReceiveOfConn, diskVars, TypesInv
<1>7. CASE CreateRecord(p) /\ ~NotStored(p)
  <2>1. gpc'[p] = "loop" /\ UNCHANGED <<manifests, shares, metas, result>>
    BY <1>7 DEF CreateRecord, TypesInv
  <2>  QED  BY <1>2, <2>1
<1>8. CASE LoopHead(p)
  <2>1. gpc'[p] \in {"reading", "shard"} /\ result'[p] \in {result[p], "failed"}
    BY <1>8 DEF LoopHead, TypesInv
  <2>  QED  BY <1>2, <1>8, <2>1 DEF LoopHead, diskVars
<1>9. CASE \/ Receive(p, "shard", "save")
           \/ Receive(p, "manifest", "putManifest")
           \/ Receive(p, "share", "putShare")
  BY <1>2, <1>9 DEF Receive, diskVars, TypesInv
<1>10. CASE SaveShard(p)
  <2>1. gpc'[p] \in {"reading", "meta"} /\ result'[p] \in {result[p], "failed"}
    BY <1>10 DEF SaveShard, TypesInv
  <2>  QED  BY <1>2, <1>10, <2>1 DEF SaveShard
<1>11. CASE StoreMeta(p) /\ ~NotStored(p)
  <2>1. /\ gpc[p] = "meta" /\ gpc'[p] \in {"loop", "final"} /\ result' = result
        /\ manifests' = manifests /\ shares' = shares
    BY <1>11 DEF StoreMeta, AfterShard, TypesInv
  <2>2. result[p] = "none"  BY <2>1 DEF LocalInv, PlaceInv, Handling
  <2>  QED  BY <1>0, <2>1, <2>2 DEF ReadInv, ManifestStored, ShareStored
<1>12. CASE MarkComplete(p) /\ ~NotStored(p)
  <2>1. gpc'[p] = "manifest" /\ UNCHANGED <<manifests, shares, metas, result>>
    BY <1>12 DEF MarkComplete, AfterFinal, TypesInv
  <2>  QED  BY <1>2, <2>1
<1>13. CASE StoreManifest(p) /\ ~NotStored(p)
  <2>1. gpc[p] = "putManifest" /\ gpc'[p] = "share" /\ result' = result /\ shares' = shares
    BY <1>13 DEF StoreManifest, TypesInv
  <2>2. ManifestStored(p)' /\ result[p] = "none" /\ shares[p] = {}
    BY <1>1, <2>1 DEF LocalInv, PlaceInv, RecordInv, Handling, Receiving
  <2>  QED  BY <2>1, <2>2 DEF ReadInv
<1>14. CASE StoreShare(p) /\ ~NotStored(p)
  <2>1. gpc[p] = "putShare" /\ gpc'[p] = "finish" /\ next' = next /\ result' = result
    BY <1>14 DEF StoreShare, TypesInv
  <2>2. Current(p)'.kind = "share"  BY <1>0, <2>1 DEF LocalInv, PlaceInv, Current
  <2>3. ManifestStored(p)' /\ ShareStored(p)' /\ result'[p] = "none"
    BY <1>1, <2>1 DEF LocalInv, PlaceInv, RecordInv, Handling
  <2>  QED  BY <2>1, <2>2, <2>3 DEF ReadInv
<1>15. CASE Finish(p)
  <2>1. gpc[p] = "finish" /\ gpc'[p] = "reading" /\ result'[p] = "ok" /\ metas' = metas
    BY <1>15 DEF Finish, TypesInv
  <2>2. ManifestStored(p)' /\ ShareStored(p)'  BY <1>1, <2>1 DEF LocalInv, RecordInv
  <2>3. /\ metas[p] = IdsBefore(p, next[p]) /\ next[p] - 1 \in 1 .. Len(sent[p])
        /\ sent[p][next[p] - 1].kind = "share"
    BY <1>0, <2>1 DEF LocalInv, PlaceInv, HeldInv, ReadInv, Handling, Current
  <2>4. AllShardsStored(p)'
    <3>1. SUFFICES ASSUME NEW j \in 1 .. Len(sent[p]), IsShard(p, j)
                   PROVE  Id(sent[p][j]) \in metas[p]
      BY <1>0, <2>1 DEF AllShardsStored, IsShard, Id
    <3>2. ~(next[p] - 1 < j)  BY <2>3, <3>1 DEF OrderInv
    <3>3. j \in 1 .. next[p] - 1  BY <1>0, <3>1, <3>2
    <3>  QED  BY <2>3, <3>1, <3>3 DEF IdsBefore
  <2>  QED  BY <2>1, <2>2, <2>4 DEF ReadInv
<1>  QED
  BY <1>3, <1>4, <1>5, <1>6, <1>7, <1>8, <1>9, <1>10, <1>11, <1>12, <1>13, <1>14, <1>15
  DEF GuardianStep

ReadingInv == GuardianInv /\ \A p \in Peer : OrderInv(p) /\ ReadInv(p)

LEMMA ReadingInvHolds == GuardianSpec => []ReadingInv
<1>  DEFINE Next == \/ GuardianNext /\ UNCHANGED wireVars
                    \/ StreamNext /\ UNCHANGED guardianVars
            Rest == \A p \in Peer : OrderInv(p) /\ ReadInv(p)
<1>1. ReadingInit => Rest
  <2>  SUFFICES ASSUME ReadingInit, NEW p \in Peer PROVE OrderInv(p) /\ ReadInv(p)  OBVIOUS
  <2>1. sent[p] = <<>> /\ Len(sent[p]) = 0 /\ gpc[p] = "reading" /\ result[p] = "none"
        /\ manifests[p] = {} /\ shares[p] = {}
    BY EmptySeq DEF ReadingInit, WireInit, GuardianInit
  <2>  QED  BY <2>1 DEF OrderInv, ReadInv
<1>2. ASSUME GuardianInv, GuardianInv', Rest, [Next]_GuardianAll  PROVE Rest'
  <2>  USE DEF GuardianInv
  <2>1. CASE GuardianNext /\ UNCHANGED wireVars
    <3>1. PICK p \in Peer : GuardianStep(p) \/ GuardianFaults(p)  BY <2>1 DEF GuardianNext
    <3>2. \A q \in Peer : OrderInv(q)'
      <4>1. sent' = sent  BY <2>1 DEF wireVars
      <4>  QED  BY <1>2, <4>1 DEF OrderInv, IsShard
    <3>3. ReadInv(p)'  BY <1>2, <2>1, <3>1, ReadMoves
    <3>4. ASSUME NEW q \in Peer, q # p  PROVE ReadInv(q)'
      BY <1>2, <2>1, <3>1, <3>2, <3>4, OthersKeep, SameWire, ReadKeeps
    <3>  QED  BY <3>2, <3>3, <3>4
  <2>2. CASE StreamNext /\ UNCHANGED guardianVars
    <3>1. PICK p \in Peer, item \in Item : Feed(p, item)  BY <2>2 DEF StreamNext
    <3>2. Grows  BY <1>2, <3>1, StreamInvariance DEF TypesInv
    <3>3. \A q \in Peer : OrderInv(q)'  BY <1>2, <3>1, OrderInvariance DEF TypesInv
    <3>4. ASSUME NEW q \in Peer  PROVE ReadInv(q)'
      BY <1>2, <2>2, <3>2, <3>3, ReadKeeps DEF guardianVars, diskVars
    <3>  QED  BY <3>3, <3>4
  <2>3. CASE UNCHANGED GuardianAll
    <3>1. sent' = sent /\ UNCHANGED guardianVars /\ UNCHANGED wireVars
      BY <2>3 DEF GuardianAll, wireVars
    <3>2. \A q \in Peer : OrderInv(q)'
      BY <1>2, <3>1 DEF OrderInv, IsShard
    <3>3. ASSUME NEW q \in Peer  PROVE ReadInv(q)'
      BY <1>2, <3>1, <3>2, SameWire, ReadKeeps DEF guardianVars, diskVars
    <3>  QED  BY <3>2, <3>3
  <2>  QED  BY <1>2, <2>1, <2>2, <2>3
<1>3. GuardianInv /\ GuardianInv' /\ Rest /\ [Next]_GuardianAll => Rest'  BY <1>2
<1>4. ReadingInv <=> GuardianInv /\ Rest  BY DEF ReadingInv
<1>  HIDE DEF Rest
<1>  QED  BY <1>1, <1>3, <1>4, InvHolds, PTL DEF GuardianSpec

(* A handler that returns nil has on record the manifest, the share and a  *)
(* row for every shard the owner wrote to this guardian.                   *)
THEOREM OkIsStored == GuardianSpec => []OkMeansStored
<1>1. ReadingInv => OkMeansStored
  BY DEF ReadingInv, GuardianInv, LocalInv, RecordInv, ManifestStored, ShareStored, ReadInv,
         AllShardsStored, OkMeansStored
<1>  QED  BY <1>1, ReadingInvHolds, PTL

-----------------------------------------------------------------------------
(***************************************************************************)
(* The guardians' disks implement the vault.                               *)
(***************************************************************************)

stages == [p \in Peer |-> StageOf(p)]

(* What a step of guardian p does to its stage and its shards.             *)
Advances(p, from, to) == StageOf(p) = from /\ StageOf(p)' = to /\ metas'[p] = metas[p]

Moves(p) ==
  \/ StageOf(p)' = StageOf(p) /\ metas'[p] = metas[p]
  \/ Advances(p, "none", "open")
  \/ /\ StageOf(p) = "open" /\ StageOf(p)' = "open"
     /\ \E s \in ShardId : metas'[p] = metas[p] \cup {s}
  \/ /\ metas[p] # {}
     /\ \/ Advances(p, "open", "sealed")
        \/ Advances(p, "sealed", "listed")
        \/ Advances(p, "listed", "keyed")

LEMMA DiskMoves ==
  ASSUME TypesInv, NEW p \in Peer, LocalInv(p), UNCHANGED wireVars,
         GuardianStep(p) \/ GuardianFaults(p)
  PROVE  Moves(p)
<1>1. ASSUME record'[p] = record[p], metas'[p] = metas[p], manifests'[p] = manifests[p],
             shares'[p] = shares[p]
      PROVE  Moves(p)
  BY <1>1 DEF Moves, StageOf
<1>2. CASE UNCHANGED diskVars  BY <1>1, <1>2 DEF diskVars
<1>3. CASE CreateRecord(p) /\ ~NotStored(p)
  <2>1. /\ record[p] = NoRecord /\ manifests[p] = {} /\ shares[p] = {}
        /\ record'[p] = [exists |-> TRUE, complete |-> FALSE, keyReceived |-> FALSE]
        /\ metas' = metas /\ manifests' = manifests /\ shares' = shares
    BY ZenonT(30), <1>3 DEF CreateRecord, LocalInv, PlaceInv, Nothing, NoRecord, TypesInv
  <2>  QED  BY <2>1 DEF Moves, Advances, StageOf, NoRecord
<1>4. CASE SaveShard(p)  BY <1>1, <1>4 DEF SaveShard
<1>11. CASE Crash(p)  BY <1>1, <1>11 DEF Crash
<1>5. CASE StoreMeta(p) /\ ~NotStored(p)
  <2>1. /\ metas'[p] = metas[p] \cup {Id(Current(p))} /\ Id(Current(p)) \in ShardId
        /\ record' = record /\ manifests' = manifests /\ shares' = shares
    BY <1>5, CurrentTyped DEF StoreMeta, TypesInv, Handling
  <2>2. record[p].exists /\ ~record[p].complete /\ manifests[p] = {} /\ shares[p] = {}
    BY <1>5 DEF StoreMeta, LocalInv, RecordInv
  <2>  QED  BY <2>1, <2>2 DEF Moves, StageOf
<1>6. FinalStored(p) => metas[p] # {}  BY DEF FinalStored
<1>7. CASE MarkComplete(p) /\ ~NotStored(p)
  <2>1. /\ record'[p] = [record[p] EXCEPT !.complete = TRUE] /\ record[p] \in Record
        /\ metas' = metas /\ manifests' = manifests /\ shares' = shares
    BY <1>7 DEF MarkComplete, TypesInv
  <2>2. /\ record[p].exists /\ ~record[p].complete /\ manifests[p] = {} /\ shares[p] = {}
        /\ FinalStored(p)
    BY <1>7 DEF MarkComplete, LocalInv, RecordInv
  <2>  QED  BY <1>6, <2>1, <2>2 DEF Moves, Advances, StageOf, Record
<1>8. CASE StoreManifest(p) /\ ~NotStored(p)
  <2>1. /\ manifests'[p] = {Current(p).groups}
        /\ metas' = metas /\ record' = record /\ shares' = shares
    BY <1>8 DEF StoreManifest, TypesInv
  <2>2. record[p].complete /\ manifests[p] = {} /\ shares[p] = {} /\ FinalStored(p)
    BY <1>8 DEF StoreManifest, LocalInv, RecordInv
  <2>  QED  BY <1>6, <2>1, <2>2 DEF Moves, Advances, StageOf
<1>9. CASE StoreShare(p) /\ ~NotStored(p)
  <2>1. /\ shares'[p] = {Current(p).index}
        /\ metas' = metas /\ record' = record /\ manifests' = manifests
    BY <1>9 DEF StoreShare, TypesInv
  <2>2. manifests[p] # {} /\ shares[p] = {} /\ FinalStored(p)
    BY <1>9 DEF StoreShare, LocalInv, RecordInv, ManifestStored
  <2>  QED  BY <1>6, <2>1, <2>2 DEF Moves, Advances, StageOf
<1>10. CASE Finish(p)
  <2>1. shares[p] # {}  BY <1>10 DEF Finish, LocalInv, RecordInv, ShareStored
  <2>2. metas' = metas /\ shares' = shares  BY <1>10 DEF Finish
  <2>  QED  BY <2>1, <2>2 DEF Moves, StageOf
<1>  QED
  BY <1>2, <1>3, <1>4, <1>5, <1>7, <1>8, <1>9, <1>10, <1>11
  DEF GuardianStep, GuardianFaults, ReadFrame, ReadGarbage, LoopHead, Receive, ReceiveRefuses,
      ReceiveOfConn, LoseConnection, CreateRecord, StoreMeta, MarkComplete, StoreManifest,
      StoreShare, NotStored

(* Through every failure and crash the guardians' disks only move forward, *)
(* and no shard is added once a guardian is marked complete.               *)
THEOREM DisksImplementVault == GuardianSpec => ImplementsVault
<1>  DEFINE Next == \/ GuardianNext /\ UNCHANGED wireVars
                    \/ StreamNext /\ UNCHANGED guardianVars
<1>1. ReadingInit => Vault!VaultInit
  <2>  SUFFICES ASSUME ReadingInit PROVE Vault!VaultInit  OBVIOUS
  <2>1. \A p \in Peer : StageOf(p) = "none"
    BY DEF ReadingInit, GuardianInit, StageOf, NoRecord
  <2>  QED  BY <2>1 DEF ReadingInit, GuardianInit, Vault!VaultInit
<1>2. ASSUME GuardianInv, GuardianInv', [Next]_GuardianAll
      PROVE  [Vault!VaultNext]_Vault!vaultVars
  <2>1. CASE UNCHANGED guardianVars
    <3>1. \A p \in Peer : StageOf(p)' = StageOf(p)
      BY <2>1 DEF guardianVars, diskVars, StageOf
    <3>2. metas' = metas  BY <2>1 DEF guardianVars, diskVars
    <3>  QED  BY <3>1, <3>2 DEF Vault!vaultVars
  <2>2. ASSUME NEW p \in Peer, GuardianStep(p) \/ GuardianFaults(p), UNCHANGED wireVars
        PROVE  [Vault!VaultNext]_Vault!vaultVars
    <3>1. Moves(p)  BY <1>2, <2>2, DiskMoves DEF GuardianInv
    <3>2. \A q \in Peer : q # p => StageOf(q)' = StageOf(q) /\ metas'[q] = metas[q]
      BY <1>2, <2>2, OthersKeep DEF GuardianInv, StageOf
    <3>3. metas \in [Peer -> SUBSET ShardId] /\ metas' \in [Peer -> SUBSET ShardId]
      BY <1>2 DEF GuardianInv, TypesInv
    <3>4. stages' = [stages EXCEPT ![p] = StageOf(p)']
      BY <3>2 DEF stages
    <3>5. metas' = [metas EXCEPT ![p] = metas'[p]]  BY <3>2, <3>3
    <3>6. CASE StageOf(p)' = StageOf(p) /\ metas'[p] = metas[p]
      <4>1. stages' = stages /\ metas' = metas  BY <3>2, <3>3, <3>4, <3>6 DEF stages
      <4>  QED  BY <4>1 DEF Vault!vaultVars, stages
    <3>7. ASSUME NEW from, NEW to, Advances(p, from, to)
          PROVE  Vault!Advance(p, from, to) /\ metas' = metas
      <4>1. metas' = metas  BY <3>2, <3>3, <3>7 DEF Advances
      <4>2. stages[p] = from /\ stages' = [stages EXCEPT ![p] = to]
        BY <3>4, <3>7 DEF Advances, stages
      <4>  QED  BY <4>1, <4>2 DEF Vault!Advance, stages
    <3>8. CASE Advances(p, "none", "open")
      BY <3>7, <3>8 DEF Vault!VaultNext, Vault!Open
    <3>9. CASE /\ StageOf(p) = "open" /\ StageOf(p)' = "open"
               /\ \E s \in ShardId : metas'[p] = metas[p] \cup {s}
      <4>1. stages[p] = "open" /\ stages' = stages  BY <3>4, <3>9 DEF stages
      <4>2. PICK s \in ShardId : metas' = [metas EXCEPT ![p] = @ \cup {s}]
        BY <3>3, <3>5, <3>9
      <4>  QED  BY <4>1, <4>2 DEF Vault!VaultNext, Vault!Keep, stages
    <3>10. CASE /\ metas[p] # {}
                /\ \/ Advances(p, "open", "sealed")
                   \/ Advances(p, "sealed", "listed")
                   \/ Advances(p, "listed", "keyed")
      BY <3>7, <3>10 DEF Vault!VaultNext, Vault!Close
    <3>  QED  BY <3>1, <3>6, <3>8, <3>9, <3>10 DEF Moves
  <2>  QED  BY <1>2, <2>1, <2>2 DEF GuardianNext, GuardianAll
<1>3. GuardianInv /\ GuardianInv' /\ [Next]_GuardianAll => [Vault!VaultNext]_Vault!vaultVars
  BY <1>2
<1>  QED  BY <1>1, <1>3, InvHolds, PTL DEF GuardianSpec, ImplementsVault, Vault!VaultSpec
=============================================================================
