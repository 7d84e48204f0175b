---------------------- MODULE CapsuleOwnerSafetyProofs ----------------------
(* What reaches the guardians, proved for every value of the constants of  *)
(* CapsuleOwner.                                                           *)
EXTENDS CapsuleOwnerProofs, FiniteSetTheorems

Announcing == pc \in {"start", "announce"}

(* Everything p was written is of one of these kinds.                      *)
OnlyKinds(p, kinds) == \A i \in 1 .. Len(sent[p]) : sent[p][i].kind \in kinds

Early == {"stream", "shard"}

(* The guardians already told are those before k, in front and in order,   *)
(* and those from k on are still where the payload named them.             *)
ReachedInv ==
  /\ Announcing => /\ \A j \in k .. Len(guardians) : guardians[j] = j
                   /\ \A i \in 1 .. active : guardians[i] < k
  /\ ActiveAreAnnounced
  /\ \A i \in Shard : place[i] \in {0} \cup Active

(* A message cut short ends its connection.                                *)
CutsEnd == \A p \in Peer : \A i \in 1 .. Len(sent[p]) :
             HasData(sent[p][i]) => sent[p][i].whole \/ ~up[p]

(* What a guardian may still be written comes after all it was.            *)
GrammarInv ==
  /\ StreamGrammar /\ CutsEnd
  /\ \A p \in Peer :
       /\ Announcing => OnlyKinds(p, {"stream"})
       /\ pc \in {"archive", "block"} => OnlyKinds(p, Early)
       /\ pc = "manifest" => OnlyKinds(p, Early \cup {"manifest"})
  /\ pc = "manifest" => \A j \in k .. active : OnlyKinds(guardians[j], Early)
  /\ pc = "share" => \A j \in k .. active : OnlyKinds(guardians[j], Early \cup {"manifest"})

(* The loops over the guardians leave nobody out.                          *)
KeyInv ==
  /\ KeyAfterManifests
  /\ pc = "manifest" => \A j \in 1 .. k - 1 : Got(guardians[j], "manifest")
  /\ pc \in {"share", "ok"} => \A p \in Active : Got(p, "manifest")
  /\ pc = "share" => \A j \in 1 .. k - 1 : Got(guardians[j], "share")
  /\ pc = "ok" => active >= MinGuardians /\ \A p \in Active : Got(p, "share")

(* The share a guardian is written has its place in the slice for an index. *)
SharesInPlace ==
  \A p \in Peer : \A i \in 1 .. Len(sent[p]) :
    sent[p][i].kind = "share" =>
      sent[p][i].index \in 1 .. active /\ guardians[sent[p][i].index] = p

SafetyInv == ReachedInv /\ GrammarInv /\ KeyInv /\ SharesInPlace

-----------------------------------------------------------------------------
(***************************************************************************)
(* What one Send does.                                                     *)
(***************************************************************************)

(* Nothing is written, or x is, which is cut short only as the connection  *)
(* breaks.                                                                 *)
Lost == sent' = sent /\ \A q \in Peer : up'[q] => up[q]

Sent(p, x) == /\ up[p]
              /\ sent' = [sent EXCEPT ![p] = Append(@, x)]
              /\ \A q \in Peer : up'[q] => up[q]
              /\ HasData(x) => x.whole \/ ~up'[p]

(* A Send writes nothing, or its message up to the data's end.             *)
LEMMA SendCases ==
  ASSUME WireTypeOK, NEW p \in Peer, NEW item \in Item, HasData(item) => item.whole,
         Delivered(p, item) \/ NotDelivered(p, item)
  PROVE  Lost \/ \E x \in Item : /\ Sent(p, x) /\ x.kind = item.kind
                                 /\ item.kind = "share" => x.index = item.index
<1>1. CASE Delivered(p, item)
  BY <1>1 DEF Delivered, Sent
<1>2. CASE NotDelivered(p, item)
  <2>1. /\ up' = [up EXCEPT ![p] = FALSE]
        /\ \A q \in Peer : up'[q] => up[q]
        /\ ~up'[p]
    BY <1>2 DEF NotDelivered, WireTypeOK
  <2>2. CASE sent' = sent
    BY <2>1, <2>2 DEF Lost
  <2>3. CASE /\ up[p] /\ HasData(item)
             /\ sent' = [sent EXCEPT ![p] = Append(@, [item EXCEPT !.whole = FALSE])]
    <3>  DEFINE x == [item EXCEPT !.whole = FALSE]
    <3>1. /\ x \in Item /\ x.kind = item.kind
          /\ item.kind = "share" => x.index = item.index
      BY <2>3 DEF Item, HasData, StreamMsg, ShardMsg, ManifestMsg, ShareMsg
    <3>2. Sent(p, x)  BY <2>1, <2>3 DEF Sent
    <3>  QED  BY <3>1, <3>2
  <2>  QED  BY <1>2, <2>2, <2>3 DEF NotDelivered
<1>  QED  BY <1>1, <1>2

(* What was written stays, and x comes last.                               *)
LEMMA SentAppends ==
  ASSUME WireTypeOK, NEW p \in Peer, NEW x \in Item, Sent(p, x)
  PROVE  /\ \A q \in Peer : q # p => sent'[q] = sent[q]
         /\ \A q \in Peer : sent[q] \in Seq(Item) /\ Len(sent[q]) \in Nat
         /\ Len(sent'[p]) = Len(sent[p]) + 1
         /\ \A i \in 1 .. Len(sent[p]) : sent'[p][i] = sent[p][i]
         /\ sent'[p][Len(sent[p]) + 1] = x
         /\ sent'[p] # <<>>
<1>1. \A q \in Peer : sent[q] \in Seq(Item) /\ Len(sent[q]) \in Nat
  BY LenProperties DEF WireTypeOK
<1>2. sent'[p] = Append(sent[p], x) /\ \A q \in Peer : q # p => sent'[q] = sent[q]
  BY DEF Sent, WireTypeOK
<1>  QED  BY <1>1, <1>2, AppendProperties

(* A message that comes after all there was keeps the grammar.             *)
LEMMA GrammarKept ==
  ASSUME WireTypeOK, StreamGrammar, CutsEnd, NEW p \in Peer, NEW x \in Item, Sent(p, x),
         sent[p] = <<>> => x.kind = "stream",
         \A i \in 1 .. Len(sent[p]) : \/ Rank(sent[p][i]) < Rank(x)
                                      \/ sent[p][i].kind = "shard" /\ x.kind = "shard"
  PROVE  StreamGrammar' /\ CutsEnd'
<1>1. CutsEnd'
  BY SentAppends DEF CutsEnd, Sent
<1>2. ASSUME NEW q \in Peer, q # p
      PROVE  /\ sent'[q] # <<>> => sent'[q][1].kind = "stream"
             /\ \A i, j \in 1 .. Len(sent'[q]) : i < j =>
                  /\ \/ Rank(sent'[q][i]) < Rank(sent'[q][j])
                     \/ sent'[q][i].kind = "shard" /\ sent'[q][j].kind = "shard"
                  /\ HasData(sent'[q][i]) => sent'[q][i].whole
  BY <1>2, SentAppends DEF StreamGrammar
<1>3. sent'[p][1].kind = "stream"
  <2>1. CASE sent[p] = <<>>  BY <2>1, SentAppends, EmptySeq
  <2>2. CASE sent[p] # <<>>
    <3>1. 1 \in 1 .. Len(sent[p])  BY <2>2, SentAppends, EmptySeq
    <3>  QED  BY <2>2, <3>1, SentAppends DEF StreamGrammar
  <2>  QED  BY <2>1, <2>2
<1>4. ASSUME NEW i \in 1 .. Len(sent'[p]), NEW j \in 1 .. Len(sent'[p]), i < j
      PROVE  /\ \/ Rank(sent'[p][i]) < Rank(sent'[p][j])
                \/ sent'[p][i].kind = "shard" /\ sent'[p][j].kind = "shard"
             /\ HasData(sent'[p][i]) => sent'[p][i].whole
  <2>1. i \in 1 .. Len(sent[p]) /\ sent'[p][i] = sent[p][i]
    BY <1>4, SentAppends
  <2>2. CASE j \in 1 .. Len(sent[p])
    BY <1>4, <2>1, <2>2, SentAppends DEF StreamGrammar
  <2>3. CASE j = Len(sent[p]) + 1
    BY <2>1, <2>3, SentAppends DEF CutsEnd, Sent
  <2>  QED  BY <1>4, <2>2, <2>3, SentAppends
<1>5. StreamGrammar'
  BY <1>2, <1>3, <1>4 DEF StreamGrammar
<1>  QED  BY <1>1, <1>5

(* What a guardian has got it keeps.                                       *)
LEMMA GotStays ==
  ASSUME WireTypeOK, NEW p \in Peer, Lost \/ \E x \in Item : Sent(p, x),
         NEW q \in Peer, NEW kind, Got(q, kind)
  PROVE  Got(q, kind)'
<1>1. CASE Lost  BY <1>1 DEF Lost, Got
<1>2. ASSUME NEW x \in Item, Sent(p, x)  PROVE Got(q, kind)'
  <2>1. PICK i \in 1 .. Len(sent[q]) : /\ sent[q][i].kind = kind
                                       /\ HasData(sent[q][i]) => sent[q][i].whole
    BY DEF Got
  <2>2. i \in 1 .. Len(sent'[q]) /\ sent'[q][i] = sent[q][i]
    BY <1>2, SentAppends
  <2>  QED  BY <2>1, <2>2 DEF Got
<1>  QED  BY <1>1, <1>2

(* A Send without an error is got.                                         *)
LEMMA DeliveredIsGot ==
  ASSUME WireTypeOK, NEW p \in Peer, NEW item \in Item, HasData(item) => item.whole,
         Delivered(p, item)
  PROVE  Got(p, item.kind)'
<1>1. Sent(p, item)  BY DEF Delivered, Sent
<1>2. /\ Len(sent[p]) + 1 \in 1 .. Len(sent'[p])
      /\ sent'[p][Len(sent[p]) + 1] = item
  BY <1>1, SentAppends
<1>  QED  BY <1>2 DEF Got

(* A message adds its own kind and no other.                               *)
LEMMA KindAdded ==
  ASSUME WireTypeOK, NEW p \in Peer, NEW x \in Item, Sent(p, x),
         NEW kinds, OnlyKinds(p, kinds)
  PROVE  OnlyKinds(p, kinds \cup {x.kind})'
<1>1. ASSUME NEW i \in 1 .. Len(sent'[p])  PROVE sent'[p][i].kind \in kinds \cup {x.kind}
  <2>1. CASE i \in 1 .. Len(sent[p])  BY <2>1, SentAppends DEF OnlyKinds
  <2>2. CASE i = Len(sent[p]) + 1  BY <2>2, SentAppends
  <2>  QED  BY <2>1, <2>2, SentAppends
<1>  QED  BY <1>1 DEF OnlyKinds

-----------------------------------------------------------------------------
(***************************************************************************)
(* The guardians that were told.                                           *)
(***************************************************************************)

(* Once the announcing is over, Sends go to guardians that were told.      *)
LEMMA ReachedStays ==
  ASSUME OwnerInv, ReachedInv, ~Announcing', UNCHANGED <<guardians, active>>,
         NEW p \in Active, sent' = sent \/ Lost \/ \E x \in Item : Sent(p, x),
         \A i \in Shard : place'[i] \in {0} \cup Active
  PROVE  ReachedInv'
<1>1. Active' = Active  BY DEF Active
<1>2. p \in Peer /\ sent[p] # <<>>  BY DEF ReachedInv, ActiveAreAnnounced
<1>3. \A q \in Peer : sent'[q] # <<>> <=> sent[q] # <<>>
  BY <1>2, SentAppends DEF Lost, OwnerInv, OwnerTypeOK
<1>4. ActiveAreAnnounced'  BY <1>1, <1>3 DEF ReachedInv, ActiveAreAnnounced
<1>  QED  BY <1>1, <1>4 DEF ReachedInv

(* A guardian of a loop index is an active one, and each has one index.    *)
LEMMA GuardiansOfLoop ==
  ASSUME OwnerInv, ReachedInv, pc \in Sending
  PROVE  /\ active \in Nat /\ Len(guardians) = active
         /\ Active = {guardians[j] : j \in 1 .. active}
         /\ \A j \in 1 .. active : guardians[j] \in Peer /\ guardians[j] \in Active
         /\ \A i, j \in 1 .. active : i # j => guardians[i] # guardians[j]
<1>1. active \in Nat /\ Len(guardians) = active /\ guardians \in Seq(Peer)
  BY DEF OwnerInv, OwnerTypeOK, OwnerCounters
<1>2. \A j \in 1 .. active : guardians[j] \in Peer
  BY <1>1, ElementOfSeq
<1>3. \A i, j \in 1 .. active : i # j => guardians[i] # guardians[j]
  BY <1>1, <1>2 DEF ReachedInv, ActiveAreAnnounced, Peer
<1>  QED  BY <1>1, <1>2, <1>3 DEF Active

(* Nothing but the announcement and shards has gone out: the grammar and   *)
(* the key are safe whatever comes next.                                   *)
LEMMA BeforeManifests ==
  ASSUME OwnerInv', ReachedInv', StreamGrammar', CutsEnd',
         \A p \in Peer : OnlyKinds(p, Early)',
         \/ pc' \in {"archive", "block", "failed", "panicked"}
         \/ pc' = "manifest" /\ k' = 1
  PROVE  SafetyInv'
<1>1. \A p \in Peer : OnlyKinds(p, Early \cup {"manifest"})'
  BY DEF OnlyKinds
<1>2. \A p \in Peer : \A i \in 1 .. Len(sent'[p]) : sent'[p][i].kind # "share"
  BY DEF OnlyKinds, Early
<1>3. pc' = "manifest" => \A j \in 1 .. active' : guardians'[j] \in Peer
  <2>1. pc' = "manifest" => guardians' \in Seq(Peer) /\ Len(guardians') = active'
    BY DEF OwnerInv, OwnerTypeOK, OwnerCounters, Sending
  <2>  QED  BY <2>1, ElementOfSeq
<1>4. GrammarInv'
  BY <1>1, <1>3 DEF GrammarInv, Announcing
<1>5. KeyInv'
  BY <1>2 DEF KeyInv, KeyAfterManifests
<1>6. SharesInPlace'
  BY <1>2 DEF SharesInPlace
<1>  QED  BY <1>4, <1>5, <1>6 DEF SafetyInv

-----------------------------------------------------------------------------
(***************************************************************************)
(* No step breaks the invariant.                                           *)
(***************************************************************************)

(* Until the announcing begins and when it goes wrong, nothing is sent.    *)
LEMMA StartSafe ==
  ASSUME OwnerInv, OwnerInv', SafetyInv,
         Reject \/ PanicWithoutLetter \/ OpenFails \/ PanicOnUnreached \/ SplitKey
  PROVE  SafetyInv'
<1>1. /\ pc = "start" /\ pc' \in {"announce", "failed", "panicked"}
      /\ UNCHANGED <<k, guardians, active, place, sent, up>>
  BY DEF Reject, PanicWithoutLetter, OpenFails, PanicOnUnreached, SplitKey, sinkVars, wireVars
<1>2. ReachedInv'
  BY <1>1 DEF SafetyInv, ReachedInv, ActiveAreAnnounced, Active, Announcing
<1>3. StreamGrammar' /\ CutsEnd'
  BY <1>1 DEF SafetyInv, GrammarInv, StreamGrammar, CutsEnd
<1>4. \A p \in Peer : OnlyKinds(p, {"stream"})'
  BY <1>1 DEF SafetyInv, GrammarInv, Announcing, OnlyKinds
<1>5. CASE pc' = "announce"
  <2>1. GrammarInv'  BY <1>3, <1>4, <1>5 DEF GrammarInv
  <2>2. KeyInv' /\ SharesInPlace'
    BY <1>4, <1>5 DEF KeyInv, KeyAfterManifests, SharesInPlace, OnlyKinds
  <2>  QED  BY <1>2, <2>1, <2>2 DEF SafetyInv
<1>6. CASE pc' \in {"failed", "panicked"}
  <2>1. \A p \in Peer : OnlyKinds(p, Early)'  BY <1>4 DEF OnlyKinds, Early
  <2>  QED  BY <1>2, <1>3, <1>6, <2>1, BeforeManifests
<1>  QED  BY <1>1, <1>5, <1>6

(* The slice is compacted only up to the guardian being told.              *)
LEMMA AnnounceSafe ==
  ASSUME OwnerInv, OwnerInv', SafetyInv, Announce
  PROVE  SafetyInv'
<1>1. /\ k \in 1 .. Len(guardians) /\ k \in Nat /\ active \in Nat /\ Len(guardians) \in Nat
      /\ active < k /\ guardians \in Seq(Peer) /\ WireTypeOK
      /\ pc = "announce" /\ pc' = "announce"
      /\ k' = k + 1 /\ active' = active + 1 /\ place' = place
  BY LenProperties DEF Announce, OwnerInv, OwnerTypeOK, OwnerCounters, sinkVars
<1>2. /\ guardians[k] = k /\ k \in Peer
      /\ \A j \in k .. Len(guardians) : guardians[j] = j
      /\ \A i \in 1 .. active : guardians[i] < k /\ guardians[i] \in Nat
  <2>1. \A j \in 1 .. Len(guardians) : guardians[j] \in Peer  BY <1>1, ElementOfSeq
  <2>2. /\ \A j \in k .. Len(guardians) : guardians[j] = j
        /\ \A i \in 1 .. active : guardians[i] < k
    BY <1>1 DEF SafetyInv, ReachedInv, Announcing
  <2>3. Peer \subseteq Nat  BY NumPeersAssumption DEF Peer
  <2>4. guardians[k] = k /\ k \in Peer  BY <1>1, <2>1, <2>2
  <2>5. \A i \in 1 .. active : guardians[i] \in Nat
    <3>1. \A i \in 1 .. active : i \in 1 .. Len(guardians)  BY <1>1
    <3>  QED  BY <2>1, <2>3, <3>1
  <2>  QED  BY <2>2, <2>4, <2>5
<1>3. /\ Len(guardians') = Len(guardians)
      /\ \A j \in 1 .. Len(guardians) :
           guardians'[j] = IF j = active + 1 THEN k ELSE guardians[j]
  BY <1>1, <1>2, ExceptSeq DEF Announce, Compacted
<1>4. Stream \in Item /\ Stream.kind = "stream" /\ Sent(k, Stream)
  BY <1>2 DEF Announce, Stream, Item, StreamMsg, Delivered, Sent, HasData
<1>5. sent[k] = <<>>
  <2>1. k \notin Active  BY <1>1, <1>2 DEF Active
  <2>  QED  BY <1>2, <2>1 DEF SafetyInv, ReachedInv, ActiveAreAnnounced
<1>6. ReachedInv'
  <2>1. Active' = Active \cup {k}
    <3>1. Active' = {guardians'[i] : i \in 1 .. active + 1}  BY <1>1 DEF Active
    <3>2. \A i \in 1 .. active : guardians'[i] = guardians[i]  BY <1>1, <1>3
    <3>3. guardians'[active + 1] = k  BY <1>1, <1>3
    <3>4. 1 .. active + 1 = (1 .. active) \cup {active + 1}  BY <1>1
    <3>  QED  BY <3>1, <3>2, <3>3, <3>4 DEF Active
  <2>2. \A p \in Peer : sent'[p] # <<>> <=> sent[p] # <<>> \/ p = k
    BY <1>1, <1>2, <1>4, SentAppends
  <2>3. Active' = {p \in Peer : sent'[p] # <<>>}
    BY <1>2, <2>1, <2>2 DEF SafetyInv, ReachedInv, ActiveAreAnnounced
  <2>4. \A i, j \in 1 .. active' : i < j => guardians'[i] < guardians'[j]
    BY <1>1, <1>2, <1>3 DEF SafetyInv, ReachedInv, ActiveAreAnnounced
  <2>5. /\ \A j \in k' .. Len(guardians') : guardians'[j] = j
        /\ \A i \in 1 .. active' : guardians'[i] < k'
    BY <1>1, <1>2, <1>3
  <2>6. \A i \in Shard : place'[i] \in {0} \cup Active'
    BY <1>1, <2>1 DEF SafetyInv, ReachedInv
  <2>  QED  BY <2>3, <2>4, <2>5, <2>6 DEF ReachedInv, ActiveAreAnnounced
<1>7. StreamGrammar' /\ CutsEnd'
  <2>1. Len(sent[k]) = 0  BY <1>5, EmptySeq
  <2>  QED  BY <1>1, <1>2, <1>4, <1>5, <2>1, GrammarKept DEF SafetyInv, GrammarInv
<1>8. \A p \in Peer : OnlyKinds(p, {"stream"})'
  <2>1. \A p \in Peer : OnlyKinds(p, {"stream"})
    BY <1>1 DEF SafetyInv, GrammarInv, Announcing
  <2>2. ASSUME NEW p \in Peer, p = k  PROVE OnlyKinds(p, {"stream"})'
    <3>1. Len(sent[p]) = 0  BY <1>5, <2>2, EmptySeq
    <3>2. \A i \in 1 .. Len(sent'[p]) : sent'[p][i] = Stream
      BY <1>1, <1>4, <2>2, <3>1, SentAppends
    <3>  QED  BY <1>4, <3>2 DEF OnlyKinds
  <2>3. ASSUME NEW p \in Peer, p # k  PROVE OnlyKinds(p, {"stream"})'
    <3>1. sent'[p] = sent[p]  BY <1>1, <1>2, <1>4, <2>3, SentAppends
    <3>  QED  BY <2>1, <3>1 DEF OnlyKinds
  <2>  QED  BY <2>2, <2>3
<1>9. GrammarInv' /\ KeyInv' /\ SharesInPlace'
  BY <1>1, <1>7, <1>8
     DEF GrammarInv, KeyInv, KeyAfterManifests, SharesInPlace, OnlyKinds
<1>  QED  BY <1>6, <1>9 DEF SafetyInv

(* A guardian that could not be told is passed over.                       *)
LEMMA AnnounceFailsSafe ==
  ASSUME OwnerInv, OwnerInv', SafetyInv, AnnounceFails
  PROVE  SafetyInv'
<1>1. /\ pc = "announce" /\ k' = k + 1 /\ k \in Nat
      /\ UNCHANGED <<pc, guardians, active, place>>
  BY DEF AnnounceFails, sinkVars, OwnerInv, OwnerTypeOK
<1>2. sent' = sent /\ \A q \in Peer : up'[q] => up[q]
  BY DEF AnnounceFails, NotDelivered, Stream, HasData, OwnerInv, OwnerTypeOK, WireTypeOK
<1>3. \A i \in 1 .. active : guardians[i] < k /\ guardians[i] \in Nat
  <2>1. guardians \in Seq(Peer) /\ active <= Len(guardians) /\ active \in Nat
    BY DEF OwnerInv, OwnerTypeOK, OwnerCounters
  <2>2. \A i \in 1 .. active : guardians[i] \in Peer
    BY <2>1, ElementOfSeq, LenProperties
  <2>3. Peer \subseteq Nat  BY NumPeersAssumption DEF Peer
  <2>  QED  BY <1>1, <2>2, <2>3 DEF SafetyInv, ReachedInv, Announcing
<1>4. ReachedInv'
  BY <1>1, <1>2, <1>3 DEF SafetyInv, ReachedInv, ActiveAreAnnounced, Active, Announcing
<1>5. StreamGrammar' /\ CutsEnd'
  BY <1>2 DEF SafetyInv, GrammarInv, StreamGrammar, CutsEnd
<1>6. \A p \in Peer : OnlyKinds(p, {"stream"})'
  BY <1>1, <1>2 DEF SafetyInv, GrammarInv, Announcing, OnlyKinds
<1>7. GrammarInv' /\ KeyInv' /\ SharesInPlace'
  BY <1>1, <1>5, <1>6
     DEF GrammarInv, KeyInv, KeyAfterManifests, SharesInPlace, OnlyKinds
<1>  QED  BY <1>4, <1>7 DEF SafetyInv

(* The slice is cut to the guardians that were told.                       *)
LEMMA CheckActiveSafe ==
  ASSUME OwnerInv, OwnerInv', SafetyInv, CheckActive
  PROVE  SafetyInv'
<1>1. /\ pc = "announce" /\ pc' \in {"archive", "failed"}
      /\ UNCHANGED <<k, active, place, sent, up>>
      /\ guardians' = guardians \/ guardians' = SubSeq(guardians, 1, active)
  BY DEF CheckActive, sinkVars, wireVars
<1>2. \A i \in 1 .. active : guardians'[i] = guardians[i]
  <2>1. guardians \in Seq(Peer) /\ active <= Len(guardians) /\ active \in Nat
    BY DEF OwnerInv, OwnerTypeOK, OwnerCounters
  <2>2. \A i \in 1 .. active : guardians[i] \in Peer
    BY <2>1, ElementOfSeq, LenProperties
  <2>  QED  BY <1>1, <2>1, <2>2, SubSeqProperties
<1>3. Active' = Active  BY <1>1, <1>2 DEF Active
<1>4. ReachedInv'
  BY <1>1, <1>2, <1>3 DEF SafetyInv, ReachedInv, ActiveAreAnnounced, Announcing
<1>5. StreamGrammar' /\ CutsEnd'
  BY <1>1 DEF SafetyInv, GrammarInv, StreamGrammar, CutsEnd
<1>6. \A p \in Peer : OnlyKinds(p, Early)'
  BY <1>1 DEF SafetyInv, GrammarInv, Announcing, OnlyKinds, Early
<1>  QED  BY <1>1, <1>4, <1>5, <1>6, BeforeManifests

(* Shards go to guardians that were told, after the announcement and       *)
(* before the rest, however often a block is tried.                        *)
LEMMA ShardSafe ==
  ASSUME OwnerInv, OwnerInv', SafetyInv, pc \in {"archive", "block"},
         NEW p \in Active, Lost \/ \E x \in Item : Sent(p, x) /\ x.kind = "shard",
         UNCHANGED <<guardians, active>>,
         \A i \in Shard : place'[i] \in {0} \cup Active,
         \/ pc' \in {"archive", "block", "failed"}
         \/ pc' = "manifest" /\ k' = 1
  PROVE  SafetyInv'
<1>1. WireTypeOK /\ ReachedInv /\ StreamGrammar /\ CutsEnd
      /\ \A q \in Peer : OnlyKinds(q, Early)
  BY DEF OwnerInv, OwnerTypeOK, SafetyInv, GrammarInv
<1>2. p \in Peer /\ sent[p] # <<>>
  BY <1>1 DEF ReachedInv, ActiveAreAnnounced
<1>3. ReachedInv'
  BY <1>1, ReachedStays DEF Announcing
<1>4. CASE Lost
  <2>1. StreamGrammar' /\ CutsEnd' /\ \A q \in Peer : OnlyKinds(q, Early)'
    BY <1>1, <1>4 DEF Lost, StreamGrammar, CutsEnd, OnlyKinds
  <2>  QED  BY <1>3, <2>1, BeforeManifests
<1>5. ASSUME NEW x \in Item, Sent(p, x), x.kind = "shard"
      PROVE  SafetyInv'
  <2>1. \A i \in 1 .. Len(sent[p]) : \/ Rank(sent[p][i]) < Rank(x)
                                     \/ sent[p][i].kind = "shard" /\ x.kind = "shard"
    BY <1>1, <1>2, <1>5 DEF OnlyKinds, Early, Rank
  <2>2. StreamGrammar' /\ CutsEnd'
    BY <1>1, <1>2, <1>5, <2>1, GrammarKept
  <2>3. ASSUME NEW q \in Peer  PROVE OnlyKinds(q, Early)'
    <3>1. CASE q = p
      <4>1. OnlyKinds(p, Early \cup {x.kind})'  BY <1>1, <1>2, <1>5, KindAdded
      <4>  QED  BY <1>5, <3>1, <4>1 DEF OnlyKinds, Early
    <3>2. CASE q # p
      BY <1>1, <1>2, <1>5, <3>2, SentAppends DEF OnlyKinds
    <3>  QED  BY <3>1, <3>2
  <2>  QED  BY <1>3, <2>2, <2>3, BeforeManifests
<1>  QED  BY <1>4, <1>5

(* The archiver and the block sink between two Sends.                      *)
LEMMA SinkSafe ==
  ASSUME OwnerInv, OwnerInv', SafetyInv,
         SinkWrite \/ ArchiveEnds \/ FlushEnds \/ CloseEmpty \/ CloseFlushes \/ PrepareFails
  PROVE  SafetyInv'
<1>1. /\ pc \in {"archive", "block"}
      /\ UNCHANGED <<guardians, active, place, sent, up>>
      /\ \/ pc' \in {"archive", "block", "failed"}
         \/ pc' = "manifest" /\ k' = 1
  BY DEF SinkWrite, ArchiveEnds, FlushEnds, CloseEmpty, CloseFlushes, PrepareFails, BlockFails,
         NextBlock, AfterArchive, sinkVars, wireVars
<1>2. Lost  BY <1>1 DEF Lost
<1>3. PICK p : p \in Active
  <2>1. active >= MinGuardians /\ active \in Nat
    BY <1>1 DEF OwnerInv, OwnerTypeOK, OwnerCounters, Sending
  <2>2. 1 \in 1 .. active  BY <2>1, MinGuardiansAssumption
  <2>  QED  BY <2>2 DEF Active
<1>4. \A i \in Shard : place'[i] \in {0} \cup Active
  BY <1>1 DEF SafetyInv, ReachedInv
<1>  QED  BY <1>1, <1>2, <1>3, <1>4, ShardSafe

(* Sending a shard, and failing to.                                        *)
LEMMA SendShardSafe ==
  ASSUME OwnerInv, OwnerInv', SafetyInv, SendShard \/ SendShardFails
  PROVE  SafetyInv'
<1>1. PICK p \in PickRemotePeer(shard) :
        /\ Delivered(p, ShardItem) \/ NotDelivered(p, ShardItem)
        /\ place' \in {Unplaced, [place EXCEPT ![shard] = p]}
  BY DEF SendShard, SendShardFails, BlockSent
<1>2. pc = "block" /\ shard \in Shard /\ place \in [Shard -> 0 .. NumPeers] /\ WireTypeOK
  BY DEF SendShard, SendShardFails, OwnerInv, OwnerTypeOK
<1>3. p \in Active
  BY <1>1, <1>2 DEF PickRemotePeer, SafetyInv, ReachedInv
<1>4. p \in Peer  BY <1>3 DEF SafetyInv, ReachedInv, ActiveAreAnnounced
<1>5. Lost \/ \E x \in Item : Sent(p, x) /\ x.kind = "shard"
  <2>1. ShardItem \in Item  BY <1>2, ItemTypes
  <2>2. ShardItem.kind = "shard" /\ ShardItem.whole  BY DEF ShardItem
  <2>  QED  BY <1>1, <1>2, <1>4, <2>1, <2>2, SendCases
<1>6. \A i \in Shard : place'[i] \in {0} \cup Active
  BY <1>1, <1>2, <1>3 DEF Unplaced, SafetyInv, ReachedInv
<1>7. /\ UNCHANGED <<guardians, active>>
      /\ \/ pc' \in {"archive", "block", "failed"}
         \/ pc' = "manifest" /\ k' = 1
  <2>1. CASE SendShard
    BY <2>1 DEF SendShard, BlockSent, NextBlock, AfterArchive
  <2>2. CASE SendShardFails
    BY <2>2 DEF SendShardFails, BlockFails, AfterArchive
  <2>  QED  BY <2>1, <2>2
<1>  QED  BY <1>2, <1>3, <1>5, <1>6, <1>7, ShardSafe

(* The manifest goes to one guardian after the other, to none of them      *)
(* twice, and no share before it.                                          *)
LEMMA ManifestSafe ==
  ASSUME OwnerInv, OwnerInv', SafetyInv, SendManifest \/ SendManifestFails
  PROVE  SafetyInv'
<1>1. /\ pc = "manifest" /\ WireTypeOK /\ k \in 1 .. active /\ ReachedInv
      /\ UNCHANGED <<guardians, active, place>>
  BY DEF SendManifest, SendManifestFails, OwnerInv, OwnerTypeOK, OwnerCounters, SafetyInv,
         sinkVars
<1>2. /\ active \in Nat /\ Len(guardians) = active
      /\ Active = {guardians[j] : j \in 1 .. active}
      /\ \A j \in 1 .. active : guardians[j] \in Peer /\ guardians[j] \in Active
      /\ \A i, j \in 1 .. active : i # j => guardians[i] # guardians[j]
  BY <1>1, GuardiansOfLoop DEF Sending
<1>3. PICK p \in Peer : p = guardians[k] /\ p \in Active
  BY <1>1, <1>2
<1>4. ManifestItem \in Item /\ ManifestItem.kind = "manifest" /\ ~HasData(ManifestItem)
  BY ItemTypes DEF ManifestItem, HasData
<1>5. Lost \/ \E x \in Item : Sent(p, x) /\ x.kind = "manifest"
  <2>1. Delivered(p, ManifestItem) \/ NotDelivered(p, ManifestItem)
    BY <1>3 DEF SendManifest, SendManifestFails
  <2>  QED  BY <1>1, <1>4, <2>1, SendCases
<1>6. ReachedInv'
  <2>1. \A i \in Shard : place'[i] \in {0} \cup Active  BY <1>1 DEF ReachedInv
  <2>2. ~Announcing'
    BY <1>1 DEF SendManifest, SendManifestFails, Announcing
  <2>  QED  BY <1>1, <1>3, <1>5, <2>1, <2>2, ReachedStays
<1>7. /\ StreamGrammar /\ CutsEnd /\ OnlyKinds(p, Early) /\ sent[p] # <<>>
      /\ \A j \in k .. active : OnlyKinds(guardians[j], Early)
      /\ \A q \in Peer : OnlyKinds(q, Early \cup {"manifest"})
      /\ \A j \in 1 .. k - 1 : Got(guardians[j], "manifest")
  <2>1. sent[p] # <<>>  BY <1>1, <1>3 DEF ReachedInv, ActiveAreAnnounced
  <2>2. /\ StreamGrammar /\ CutsEnd
        /\ \A j \in k .. active : OnlyKinds(guardians[j], Early)
        /\ \A q \in Peer : OnlyKinds(q, Early \cup {"manifest"})
    BY <1>1 DEF SafetyInv, GrammarInv
  <2>3. \A j \in 1 .. k - 1 : Got(guardians[j], "manifest")
    BY <1>1 DEF SafetyInv, KeyInv
  <2>4. OnlyKinds(p, Early)
    <3>1. k \in k .. active  BY <1>1, <1>2
    <3>  QED  BY <1>3, <2>2, <3>1
  <2>  QED  BY <2>1, <2>2, <2>3, <2>4
<1>8. StreamGrammar' /\ CutsEnd'
  <2>1. CASE Lost
    BY <1>7, <2>1 DEF Lost, StreamGrammar, CutsEnd
  <2>2. ASSUME NEW x \in Item, Sent(p, x), x.kind = "manifest"
        PROVE  StreamGrammar' /\ CutsEnd'
    <3>1. \A i \in 1 .. Len(sent[p]) : Rank(sent[p][i]) < Rank(x)
      BY <1>7, <2>2 DEF OnlyKinds, Early, Rank
    <3>  QED  BY <1>1, <1>7, <2>2, <3>1, GrammarKept
  <2>  QED  BY <1>5, <2>1, <2>2
<1>9. \A q \in Peer : /\ OnlyKinds(q, Early \cup {"manifest"})'
                      /\ q # p => sent'[q] = sent[q]
  <2>1. CASE Lost  BY <1>7, <2>1 DEF Lost, OnlyKinds
  <2>2. ASSUME NEW x \in Item, Sent(p, x), x.kind = "manifest", NEW q \in Peer
        PROVE  /\ OnlyKinds(q, Early \cup {"manifest"})'
               /\ q # p => sent'[q] = sent[q]
    <3>1. CASE q = p
      <4>1. OnlyKinds(p, Early \cup {x.kind})'  BY <1>1, <1>7, <2>2, KindAdded
      <4>  QED  BY <2>2, <3>1, <4>1
    <3>2. CASE q # p
      BY <1>1, <1>7, <2>2, <3>2, SentAppends DEF OnlyKinds
    <3>  QED  BY <3>1, <3>2
  <2>  QED  BY <1>5, <2>1, <2>2
<1>10. \A q \in Peer : \A i \in 1 .. Len(sent'[q]) : sent'[q][i].kind # "share"
  BY <1>9 DEF OnlyKinds, Early
<1>11. SharesInPlace' /\ KeyAfterManifests'
  BY <1>10 DEF SharesInPlace, KeyAfterManifests
<1>12. CASE SendManifestFails
  <2>1. pc' = "failed"  BY <1>12 DEF SendManifestFails
  <2>2. GrammarInv'  BY <1>8, <2>1 DEF GrammarInv, Announcing
  <2>3. KeyInv'  BY <1>11, <2>1 DEF KeyInv
  <2>  QED  BY <1>6, <1>11, <2>2, <2>3 DEF SafetyInv
<1>13. CASE SendManifest
  <2>1. \/ k = active /\ pc' = "share" /\ k' = 1
        \/ k # active /\ pc' = "manifest" /\ k' = k + 1
    BY <1>1, <1>2, <1>13 DEF SendManifest
  <2>2. \A j \in 1 .. k : Got(guardians[j], "manifest")'
    <3>1. Got(p, "manifest")'
      <4>1. Delivered(p, ManifestItem)  BY <1>3, <1>13 DEF SendManifest
      <4>  QED  BY <1>1, <1>4, <4>1, DeliveredIsGot
    <3>2. ASSUME NEW j \in 1 .. k, NEW q \in Peer, q = guardians[j]
          PROVE  Got(q, "manifest")'
      <4>1. CASE j = k  BY <1>3, <3>1, <3>2, <4>1
      <4>2. CASE j # k
        <5>1. Got(q, "manifest")  BY <1>1, <1>2, <1>7, <3>2, <4>2
        <5>  QED  BY <1>1, <1>5, <5>1, GotStays
      <4>  QED  BY <4>1, <4>2
    <3>3. \A j \in 1 .. k : guardians[j] \in Peer /\ guardians'[j] = guardians[j]
      BY <1>1, <1>2
    <3>  QED  BY <3>2, <3>3
  <2>3. \A j \in k + 1 .. active : OnlyKinds(guardians[j], Early)'
    <3>1. ASSUME NEW j \in k + 1 .. active, NEW q \in Peer, q = guardians[j]
          PROVE  OnlyKinds(q, Early)'
      <4>1. q # p /\ OnlyKinds(q, Early)  BY <1>1, <1>2, <1>3, <1>7, <3>1
      <4>  QED  BY <1>9, <4>1 DEF OnlyKinds
    <3>2. \A j \in k + 1 .. active : guardians[j] \in Peer /\ guardians'[j] = guardians[j]
      BY <1>1, <1>2
    <3>  QED  BY <3>1, <3>2
  <2>4. GrammarInv'
    BY <1>1, <1>2, <1>8, <1>9, <2>1, <2>3 DEF GrammarInv, Announcing
  <2>5. KeyInv'
    <3>1. CASE pc' = "manifest"
      BY <1>1, <1>11, <2>1, <2>2, <3>1 DEF KeyInv
    <3>2. CASE pc' = "share"
      <4>1. \A q \in Active' : Got(q, "manifest")'
        BY <1>1, <1>2, <2>1, <2>2, <3>2 DEF Active
      <4>  QED  BY <1>11, <2>1, <3>2, <4>1 DEF KeyInv
    <3>  QED  BY <2>1, <3>1, <3>2
  <2>  QED  BY <1>6, <1>11, <2>4, <2>5 DEF SafetyInv
<1>  QED  BY <1>12, <1>13

(* Each guardian is sent the share of its own place in the slice, once all *)
(* of them have got the manifest.                                          *)
LEMMA ShareSafe ==
  ASSUME OwnerInv, OwnerInv', SafetyInv, SendShare \/ SendShareFails
  PROVE  SafetyInv'
<1>1. /\ pc = "share" /\ WireTypeOK /\ k \in 1 .. active /\ ReachedInv
      /\ UNCHANGED <<guardians, active, place>>
  BY DEF SendShare, SendShareFails, OwnerInv, OwnerTypeOK, OwnerCounters, SafetyInv, sinkVars
<1>2. /\ active \in Nat /\ Len(guardians) = active
      /\ Active = {guardians[j] : j \in 1 .. active}
      /\ \A j \in 1 .. active : guardians[j] \in Peer /\ guardians[j] \in Active
      /\ \A i, j \in 1 .. active : i # j => guardians[i] # guardians[j]
  BY <1>1, GuardiansOfLoop DEF Sending
<1>3. PICK p \in Peer : p = guardians[k] /\ p \in Active
  BY <1>1, <1>2
<1>4. PICK item \in Item :
        item = ShareItem(k) /\ item.kind = "share" /\ item.index = k /\ item.whole
  <2>1. k \in Peer
    BY <1>1, <1>2, NumPeersAssumption DEF OwnerInv, OwnerTypeOK, Peer
  <2>2. ShareItem(k) \in Item  BY <2>1, ItemTypes
  <2>  QED  BY <2>2 DEF ShareItem
<1>5. Lost \/ \E x \in Item : Sent(p, x) /\ x.kind = "share" /\ x.index = k
  <2>1. Delivered(p, item) \/ NotDelivered(p, item)
    BY <1>3, <1>4 DEF SendShare, SendShareFails
  <2>  QED  BY <1>1, <1>4, <2>1, SendCases
<1>6. ReachedInv'
  <2>1. \A i \in Shard : place'[i] \in {0} \cup Active  BY <1>1 DEF ReachedInv
  <2>2. ~Announcing'
    BY <1>1 DEF SendShare, SendShareFails, Announcing
  <2>  QED  BY <1>1, <1>3, <1>5, <2>1, <2>2, ReachedStays
<1>7. /\ StreamGrammar /\ CutsEnd /\ sent[p] # <<>>
      /\ OnlyKinds(p, Early \cup {"manifest"})
      /\ \A j \in k .. active : OnlyKinds(guardians[j], Early \cup {"manifest"})
  <2>1. sent[p] # <<>>  BY <1>1, <1>3 DEF ReachedInv, ActiveAreAnnounced
  <2>2. /\ StreamGrammar /\ CutsEnd
        /\ \A j \in k .. active : OnlyKinds(guardians[j], Early \cup {"manifest"})
    BY <1>1 DEF SafetyInv, GrammarInv
  <2>3. k \in k .. active  BY <1>1, <1>2
  <2>  QED  BY <1>3, <2>1, <2>2, <2>3
<1>8. StreamGrammar' /\ CutsEnd'
  <2>1. CASE Lost
    BY <1>7, <2>1 DEF Lost, StreamGrammar, CutsEnd
  <2>2. ASSUME NEW x \in Item, Sent(p, x), x.kind = "share"
        PROVE  StreamGrammar' /\ CutsEnd'
    <3>1. \A i \in 1 .. Len(sent[p]) : Rank(sent[p][i]) < Rank(x)
      BY <1>7, <2>2 DEF OnlyKinds, Early, Rank
    <3>  QED  BY <1>1, <1>7, <2>2, <3>1, GrammarKept
  <2>  QED  BY <1>5, <2>1, <2>2
<1>9. \A q \in Peer : q # p => sent'[q] = sent[q]
  BY <1>1, <1>5, SentAppends DEF Lost
<1>10. SharesInPlace'
  <2>1. ASSUME NEW q \in Peer, NEW i \in 1 .. Len(sent'[q]), sent'[q][i].kind = "share"
        PROVE  sent'[q][i].index \in 1 .. active /\ guardians[sent'[q][i].index] = q
    <3>1. CASE i \in 1 .. Len(sent[q]) /\ sent'[q][i] = sent[q][i]
      BY <2>1, <3>1 DEF SafetyInv, SharesInPlace
    <3>2. CASE q = p /\ sent'[q][i].index = k
      BY <1>1, <1>3, <3>2
    <3>3. \/ i \in 1 .. Len(sent[q]) /\ sent'[q][i] = sent[q][i]
          \/ q = p /\ sent'[q][i].index = k
      <4>1. CASE Lost  BY <4>1 DEF Lost
      <4>2. ASSUME NEW x \in Item, Sent(p, x), x.index = k
            PROVE  \/ i \in 1 .. Len(sent[q]) /\ sent'[q][i] = sent[q][i]
                   \/ q = p /\ sent'[q][i].index = k
        <5>1. CASE q # p  BY <1>9, <5>1
        <5>2. CASE q = p
          <6>1. /\ Len(sent'[p]) = Len(sent[p]) + 1 /\ Len(sent[p]) \in Nat
                /\ \A j \in 1 .. Len(sent[p]) : sent'[p][j] = sent[p][j]
                /\ sent'[p][Len(sent[p]) + 1] = x
            BY <1>1, <4>2, SentAppends
          <6>  QED  BY <4>2, <5>2, <6>1
        <5>  QED  BY <5>1, <5>2
      <4>  QED  BY <1>5, <4>1, <4>2
    <3>  QED  BY <3>1, <3>2, <3>3
  <2>  QED  BY <1>1, <2>1 DEF SharesInPlace
<1>11. \A q \in Active' : Got(q, "manifest")'
  <2>1. Active' = Active /\ Active \subseteq Peer
    BY <1>1, <1>2 DEF Active
  <2>2. \A q \in Active : Got(q, "manifest")  BY <1>1 DEF SafetyInv, KeyInv
  <2>  QED  BY <1>1, <1>5, <2>1, <2>2, GotStays
<1>12. KeyAfterManifests'  BY <1>11 DEF KeyAfterManifests
<1>13. CASE SendShareFails
  <2>1. pc' = "failed"  BY <1>13 DEF SendShareFails
  <2>2. GrammarInv'  BY <1>8, <2>1 DEF GrammarInv, Announcing
  <2>3. KeyInv'  BY <1>12, <2>1 DEF KeyInv
  <2>  QED  BY <1>6, <1>10, <2>2, <2>3 DEF SafetyInv
<1>14. CASE SendShare
  <2>1. \/ k = active /\ pc' = "ok"
        \/ k # active /\ pc' = "share" /\ k' = k + 1
    BY <1>1, <1>2, <1>14 DEF SendShare
  <2>2. \A j \in 1 .. k : Got(guardians[j], "share")'
    <3>1. Got(p, "share")'
      <4>1. Delivered(p, item)  BY <1>3, <1>4, <1>14 DEF SendShare
      <4>  QED  BY <1>1, <1>4, <4>1, DeliveredIsGot
    <3>2. ASSUME NEW j \in 1 .. k, NEW q \in Peer, q = guardians[j]
          PROVE  Got(q, "share")'
      <4>1. CASE j = k  BY <1>3, <3>1, <3>2, <4>1
      <4>2. CASE j # k
        <5>1. \A i \in 1 .. k - 1 : Got(guardians[i], "share")
          BY <1>1 DEF SafetyInv, KeyInv
        <5>2. Got(q, "share")  BY <1>1, <1>2, <3>2, <4>2, <5>1
        <5>  QED  BY <1>1, <1>5, <5>2, GotStays
      <4>  QED  BY <4>1, <4>2
    <3>3. \A j \in 1 .. k : guardians[j] \in Peer /\ guardians'[j] = guardians[j]
      BY <1>1, <1>2
    <3>  QED  BY <3>2, <3>3
  <2>3. \A j \in k + 1 .. active : OnlyKinds(guardians[j], Early \cup {"manifest"})'
    <3>1. ASSUME NEW j \in k + 1 .. active, NEW q \in Peer, q = guardians[j]
          PROVE  OnlyKinds(q, Early \cup {"manifest"})'
      <4>1. j \in k .. active /\ j \in 1 .. active /\ j # k  BY <1>1, <1>2
      <4>2. q # p  BY <1>1, <1>2, <1>3, <3>1, <4>1
      <4>3. OnlyKinds(q, Early \cup {"manifest"})  BY <1>7, <3>1, <4>1
      <4>  QED  BY <1>9, <4>2, <4>3 DEF OnlyKinds
    <3>2. \A j \in k + 1 .. active : guardians[j] \in Peer /\ guardians'[j] = guardians[j]
      BY <1>1, <1>2
    <3>  QED  BY <3>1, <3>2
  <2>4. GrammarInv'
    BY <1>1, <1>8, <2>1, <2>3 DEF GrammarInv, Announcing
  <2>5. KeyInv'
    <3>1. CASE pc' = "share"
      BY <1>1, <1>11, <1>12, <2>1, <2>2, <3>1 DEF KeyInv
    <3>2. CASE pc' = "ok"
      <4>1. \A q \in Active' : Got(q, "share")'
        BY <1>1, <1>2, <2>1, <2>2, <3>2 DEF Active
      <4>2. active' >= MinGuardians
        BY <1>1 DEF OwnerInv, OwnerCounters, Sending
      <4>  QED  BY <1>11, <1>12, <3>2, <4>1, <4>2 DEF KeyInv
    <3>  QED  BY <2>1, <3>1, <3>2
  <2>  QED  BY <1>6, <1>10, <2>4, <2>5 DEF SafetyInv
<1>  QED  BY <1>13, <1>14

-----------------------------------------------------------------------------
(***************************************************************************)
(* The theorems.                                                           *)
(***************************************************************************)

(* Nothing has been sent at the call.                                      *)
LEMMA SafetyInit == OwnerInv /\ CallInit => SafetyInv
<1>  SUFFICES ASSUME OwnerInv, CallInit  PROVE SafetyInv  OBVIOUS
<1>1. /\ pc = "start" /\ k = 1 /\ active = 0 /\ place = Unplaced
      /\ sent = [p \in Peer |-> <<>>]
      /\ guardians = [i \in 1 .. payload.n |-> i]
      /\ guardians \in Seq(Peer)
  BY DEF CallInit, WireInit, OwnerInit, OwnerInv, OwnerTypeOK
<1>2. \A j \in 1 .. Len(guardians) : guardians[j] = j
  <2>1. DOMAIN guardians = 1 .. Len(guardians)  BY <1>1, LenProperties
  <2>  QED  BY <1>1, <2>1
<1>3. Active = {}  BY <1>1 DEF Active
<1>4. ReachedInv
  <2>1. \A j \in k .. Len(guardians) : guardians[j] = j
    BY <1>1, <1>2, LenProperties
  <2>2. ActiveAreAnnounced  BY <1>1, <1>3 DEF ActiveAreAnnounced
  <2>3. 1 .. active = {}  BY <1>1
  <2>4. \A i \in Shard : place[i] = 0  BY <1>1 DEF Unplaced
  <2>  QED  BY <2>1, <2>2, <2>3, <2>4 DEF ReachedInv
<1>5. \A p \in Peer : Len(sent[p]) = 0 /\ sent[p] = <<>>  BY <1>1, EmptySeq
<1>6. GrammarInv
  BY <1>1, <1>5 DEF GrammarInv, StreamGrammar, CutsEnd, OnlyKinds
<1>7. KeyInv /\ SharesInPlace
  BY <1>1, <1>5 DEF KeyInv, KeyAfterManifests, SharesInPlace
<1>  QED  BY <1>4, <1>6, <1>7 DEF SafetyInv

(* SafetyInv holds in every state of every behaviour.                      *)
LEMMA OwnerSafety == OwnerSpec => [](OwnerInv /\ SafetyInv)
<1>1. CallInit => OwnerInv /\ SafetyInv
  BY OwnerInvInit, SafetyInit DEF CallInit
<1>2. OwnerInv /\ SafetyInv /\ [OwnerNext]_OwnerAll => (OwnerInv /\ SafetyInv)'
  <2>  SUFFICES ASSUME OwnerInv, SafetyInv, [OwnerNext]_OwnerAll
                PROVE  (OwnerInv /\ SafetyInv)'
    OBVIOUS
  <2>1. OwnerInv'  BY OwnerInvNext
  <2>2. CASE OwnerNext
    BY <2>1, <2>2, StartSafe, AnnounceSafe, AnnounceFailsSafe, CheckActiveSafe, SinkSafe,
       SendShardSafe, ManifestSafe, ShareSafe DEF OwnerNext
  <2>3. CASE UNCHANGED OwnerAll
    <3>  USE <2>3 DEF OwnerAll, ownerVars, sinkVars, wireVars
    <3>1. ReachedInv'  BY DEF SafetyInv, ReachedInv, ActiveAreAnnounced, Active, Announcing
    <3>2. GrammarInv'
      BY DEF SafetyInv, GrammarInv, StreamGrammar, CutsEnd, OnlyKinds, Announcing
    <3>3. KeyInv' /\ SharesInPlace'
      BY DEF SafetyInv, KeyInv, KeyAfterManifests, SharesInPlace, Got, Active
    <3>  QED  BY <2>1, <3>1, <3>2, <3>3 DEF SafetyInv
  <2>  QED  BY <2>2, <2>3
<1>  QED  BY <1>1, <1>2, PTL DEF OwnerSpec

(* The guardians the call goes on with are those it announced to, whatever *)
(* the in-place compaction of the slice in CreateAndSendCapsule does.      *)
THEOREM ActiveWereTold == OwnerSpec => []ActiveAreAnnounced
<1>1. SafetyInv => ActiveAreAnnounced  BY DEF SafetyInv, ReachedInv
<1>  QED  BY <1>1, OwnerSafety, PTL

(* Every guardian is written a stream ReceiveCapsuleStream can read,       *)
(* through any failures and retried blocks.                                *)
THEOREM StreamsAreReadable == OwnerSpec => []StreamGrammar
<1>1. SafetyInv => StreamGrammar  BY DEF SafetyInv, GrammarInv
<1>  QED  BY <1>1, OwnerSafety, PTL

(* No share of the key leaves before every active guardian has the         *)
(* manifest (the two loops that end CreateAndSendCapsule).                 *)
THEOREM KeyComesLast == OwnerSpec => []KeyAfterManifests
<1>1. SafetyInv => KeyAfterManifests  BY DEF SafetyInv, KeyInv
<1>  QED  BY <1>1, OwnerSafety, PTL

(* Two guardians are never written the same share, though shares are       *)
(* indexed after the slice was compacted.                                  *)
THEOREM SharesDiffer == OwnerSpec => []SharesAreDistinct
<1>1. SafetyInv => SharesAreDistinct
  BY DEF SafetyInv, SharesInPlace, SharesAreDistinct
<1>  QED  BY <1>1, OwnerSafety, PTL

(* There are as many active guardians as activeRemotePeerCount says.       *)
LEMMA ActiveCount ==
  ASSUME OwnerInv, SafetyInv, pc \in Sending
  PROVE  IsFiniteSet(Active) /\ Cardinality(Active) = active
<1>1. /\ active \in Nat /\ Active = {guardians[j] : j \in 1 .. active}
      /\ \A i, j \in 1 .. active : i # j => guardians[i] # guardians[j]
  BY GuardiansOfLoop DEF SafetyInv
<1>  DEFINE f == [j \in 1 .. active |-> guardians[j]]
<1>2. f \in Bijection(1 .. active, Active)
  <2>1. f \in [1 .. active -> Active]  BY <1>1
  <2>2. \A i, j \in 1 .. active : f[i] = f[j] => i = j  BY <1>1
  <2>3. \A p \in Active : \E j \in 1 .. active : f[j] = p  BY <1>1
  <2>  HIDE DEF f
  <2>4. f \in Injection(1 .. active, Active)  BY <2>1, <2>2 DEF Injection, IsInjective
  <2>5. f \in Surjection(1 .. active, Active)  BY <2>1, <2>3 DEF Surjection
  <2>  QED  BY <2>4, <2>5 DEF Bijection
<1>3. ExistsBijection(1 .. active, Active)  BY <1>2 DEF ExistsBijection
<1>4. IsFiniteSet(1 .. active) /\ Cardinality(1 .. active) = active
  BY <1>1, FS_Interval
<1>  QED  BY <1>3, <1>4, FS_Bijection

(* A call that returns nil reached enough guardians, with all they need to *)
(* know where the shards are and to give up their part of the key.         *)
THEOREM NilMeansDelivered == OwnerSpec => []OkMeansDelivered
<1>1. OwnerInv /\ SafetyInv => OkMeansDelivered
  <2>  SUFFICES ASSUME OwnerInv, SafetyInv, pc = "ok"  PROVE OkMeansDelivered
    BY DEF OkMeansDelivered
  <2>1. Cardinality(Active) = active  BY ActiveCount DEF Sending
  <2>2. /\ active >= MinGuardians
        /\ \A p \in Active : Got(p, "manifest") /\ Got(p, "share")
    BY DEF SafetyInv, KeyInv
  <2>  QED  BY <2>1, <2>2 DEF OkMeansDelivered
<1>  QED  BY <1>1, OwnerSafety, PTL
=============================================================================
