--------------------------- MODULE StreamProtocol ---------------------------
(***************************************************************************)
(* The order of messages on the connection to one guardian that the two    *)
(* halves of the capsule service agree on without a word of code saying    *)
(* so: CreateAndSendCapsule produces it (CapsuleOwner implements this      *)
(* specification) and ReceiveCapsuleStream reads it (CapsuleGuardian is    *)
(* checked against it).                                                    *)
(***************************************************************************)
EXTENDS Wire

LastItem(p) == sent[p][Len(sent[p])]

(* Shards come block by block and in their order within a block.           *)
InOrder(s, t) == \/ s.group < t.group /\ ~s.final
                 \/ s.group = t.group /\ s.index < t.index /\ s.final = t.final

MayFollow(p, item) ==
  IF sent[p] = <<>> THEN item.kind = "stream"
  ELSE CASE item.kind = "stream"   -> FALSE
         [] item.kind = "shard"    -> \/ LastItem(p).kind = "stream"
                                      \/ /\ LastItem(p).kind = "shard"
                                         /\ LastItem(p).whole
                                         /\ InOrder(LastItem(p), item)
         [] item.kind = "manifest" -> \/ LastItem(p).kind = "stream"
                                      \/ /\ LastItem(p).kind = "shard"
                                         /\ LastItem(p).whole
         [] item.kind = "share"    -> LastItem(p).kind = "manifest"

(* One Send: delivered, cut short on a connection that breaks, or refused. *)
Feed(p, item) == /\ MayFollow(p, item)
                 /\ HasData(item) => item.whole
                 /\ Delivered(p, item) \/ NotDelivered(p, item)

StreamNext == \E p \in Peer, item \in Item : Feed(p, item)

StreamSpec == WireInit /\ [][StreamNext]_wireVars
=============================================================================
