-------------------------------- MODULE Wire --------------------------------
(***************************************************************************)
(* The promise of transport.RemotePeer, the interface the capsule service  *)
(* talks to in both directions: Send writes one framed message, followed   *)
(* by its raw data when it has any, and Receive reads them back in order.  *)
(* One connection runs from the owner to each guardian; connection i is    *)
(* the one the i-th address of a payload was dialled on.                   *)
(*                                                                         *)
(* A connection is the immutable sequence of what was written to it; a     *)
(* reader keeps an index into it.  Once a write fails the connection is    *)
(* broken for good, as a TCP connection without deadlines is.  A write to  *)
(* a connection the reader already left may still succeed: the bytes wait  *)
(* in a socket buffer for nobody.                                          *)
(***************************************************************************)
EXTENDS Naturals, Sequences

CONSTANTS NumPeers,        \* connections a payload can be dialled on
          Unreliable,      \* those among them that may break
          ShardsPerBlock,  \* dataShardNum + parityShardNum
          MaxGroups,       \* bound: repair groups (calls of processBlock) of one capsule
          MaxWritten       \* bound: units of archived bytes of one capsule

ASSUME NumPeersAssumption == NumPeers \in Nat /\ Unreliable \subseteq 1 .. NumPeers
ASSUME ShardsAssumption   == ShardsPerBlock \in Nat \ {0}
ASSUME BoundsAssumption   == MaxGroups \in Nat /\ MaxWritten \in Nat

Peer  == 1 .. NumPeers
Group == 1 .. MaxGroups

(* The messages of a capsule stream.  "whole" says that the raw data that  *)
(* follows the frame was written too.                                      *)
StreamMsg == [kind : {"stream"}]
ShardMsg  == [kind : {"shard"}, group : Group, index : 1 .. ShardsPerBlock,
              size : 0 .. MaxWritten, final : BOOLEAN, whole : BOOLEAN]
Groups      == UNION {[1 .. m -> Group] : m \in 0 .. MaxGroups}
ManifestMsg == [kind : {"manifest"}, groups : Groups]
ShareMsg    == [kind : {"share"}, index : Peer, whole : BOOLEAN]
Item == StreamMsg \cup ShardMsg \cup ManifestMsg \cup ShareMsg

HasData(item) == item.kind \in {"shard", "share"}

VARIABLES sent,  \* what the owner wrote to each connection, in order
          up     \* whether the owner can still write to each connection

wireVars == <<sent, up>>

WireTypeOK == /\ sent \in [Peer -> Seq(Item)]
              /\ up \in [Peer -> BOOLEAN]

WireInit == /\ sent = [p \in Peer |-> <<>>]
            /\ up = [p \in Peer |-> TRUE]

(* Send returned no error.                                                 *)
Delivered(p, item) == /\ up[p]
                      /\ sent' = [sent EXCEPT ![p] = Append(@, item)]
                      /\ UNCHANGED up

(* Send returned an error: nothing was written, or the frame was but not   *)
(* all of the data after it.                                               *)
NotDelivered(p, item) ==
  /\ p \in Unreliable
  /\ up' = [up EXCEPT ![p] = FALSE]
  /\ \/ UNCHANGED sent
     \/ /\ up[p] /\ HasData(item)
        /\ sent' = [sent EXCEPT ![p] = Append(@, [item EXCEPT !.whole = FALSE])]

(* Has p been written a message of this kind, with all of its data?        *)
Got(p, kind) == \E i \in 1 .. Len(sent[p]) :
                  /\ sent[p][i].kind = kind
                  /\ HasData(sent[p][i]) => sent[p][i].whole
=============================================================================
