------------------------------ MODULE Framing ------------------------------
(***************************************************************************)
(* One connection as package protocol uses it: the handshake in which the  *)
(* dialling side (the client) and the accepting side (the server) exchange *)
(* public keys, then the frames the client writes and the server's read    *)
(* loop reads.  The network delivers the bytes in pieces of any size, and  *)
(* may lose the connection.  A unit of the stream is a number: a version,  *)
(* a size, or a piece of a key or of an encoded message.                   *)
(***************************************************************************)
EXTENDS Naturals, Sequences

CONSTANTS Msg,          \* the message types registered with the serializer
          Payload,      \* the encoding of each
          Key,          \* localPublicKey of each side
          MaxFrames     \* bound on the frames written

Side == {"client", "server"}
Other(s) == IF s = "client" THEN "server" ELSE "client"

ASSUME FramingAssumption ==
  /\ Payload \in [Msg -> Seq(Nat) \ {<<>>}]
  /\ Key \in [Side -> Seq(Nat) \ {<<>>}]
  /\ MaxFrames \in Nat

(* Different messages are encoded differently.                             *)
ASSUME PayloadsDiffer == \A m, n \in Msg : Payload[m] = Payload[n] => m = n

VARIABLES pc,       \* the place each side is at
          need,     \* how many units its ReadFull waits for
          key,      \* remotePublicKey
          deadline, \* whether its read deadline is set
          bytes,    \* what each side has written to the connection
          arrived,  \* how much of it has reached the other side
          read,     \* how much of it the other side has read
          lost,     \* the network lost the connection
          ctxDone,  \* the context of the accepting node is done
          put, got  \* the messages written and read

ends        == <<pc, need, key, deadline, ctxDone>>
wire        == <<bytes, arrived, read, lost>>
framingVars == <<ends, wire, put, got>>

v1 == 1
v1HeaderPayloadSize == 1   \* four bytes, one unit
v1HeaderSize == 1 + v1HeaderPayloadSize

\* Variant: both sides send their key first.
StepsAlike(s) == <<"sendKey", "keySize", "key">>

(* DoClientHandshake and DoServerHandshake.                                *)
Steps(s) == IF s = "client" THEN <<"sendKey", "keySize", "key">>
                            ELSE <<"keySize", "key", "sendKey">>

After(s) == IF pc[s] = Steps(s)[1] THEN Steps(s)[2]
            ELSE IF pc[s] = Steps(s)[2] THEN Steps(s)[3] ELSE "done"

\* Variant: the read deadline is never set.
FramingInitPatient ==
  /\ pc = [s \in Side |-> Steps(s)[1]]
  /\ need = [s \in Side |-> v1HeaderPayloadSize]
  /\ key = [s \in Side |-> <<>>]
  /\ deadline = [s \in Side |-> FALSE]
  /\ bytes = [s \in Side |-> <<>>]
  /\ arrived = [s \in Side |-> 0] /\ read = [s \in Side |-> 0]
  /\ lost = FALSE /\ ctxDone = FALSE
  /\ put = <<>> /\ got = <<>>

FramingInit ==
  /\ pc = [s \in Side |-> Steps(s)[1]]
  /\ need = [s \in Side |-> v1HeaderPayloadSize]
  /\ key = [s \in Side |-> <<>>]
  /\ deadline = [s \in Side |-> TRUE]
  /\ bytes = [s \in Side |-> <<>>]
  /\ arrived = [s \in Side |-> 0] /\ read = [s \in Side |-> 0]
  /\ lost = FALSE /\ ctxDone = FALSE
  /\ put = <<>> /\ got = <<>>

Closed(s) == pc[s] \in {"dropped", "closed"}

-----------------------------------------------------------------------------
(* The connection.                                                         *)

Write(s, p) == /\ bytes' = [bytes EXCEPT ![s] = @ \o p]
               /\ UNCHANGED <<arrived, read, lost>>

(* A Write that fails got part of its bytes out, and is the last one that  *)
(* gets any out.                                                           *)
WriteCut(s, p) == /\ \E n \in 0 .. Len(p) - 1 :
                       bytes' = [bytes EXCEPT ![s] = @ \o SubSeq(p, 1, n)]
                  /\ lost' = TRUE
                  /\ \E n \in arrived[s] .. Len(bytes'[s]) : arrived' = [arrived EXCEPT ![s] = n]
                  /\ UNCHANGED read

Pending(s) == arrived[Other(s)] - read[Other(s)]

(* The next n units the side reads.                                        *)
Taken(s, n) == SubSeq(bytes[Other(s)], read[Other(s)] + 1, read[Other(s)] + n)

\* Variant: a plain Read, which returns what has come in so far.
ReadSome(s, n) == /\ Pending(s) >= 1
                  /\ n \in 1 .. need[s] /\ n <= Pending(s)
                  /\ read' = [read EXCEPT ![Other(s)] = @ + n]
                  /\ UNCHANGED <<bytes, arrived, lost>>

\* Variant: a buffered reader, which takes more off the connection.
ReadAhead(s, n) == /\ n = need[s] /\ Pending(s) >= n
                   /\ read' = [read EXCEPT ![Other(s)] = @ + n + 1]
                   /\ UNCHANGED <<bytes, arrived, lost>>

ReadFull(s, n) == /\ n = need[s] /\ Pending(s) >= n
                  /\ read' = [read EXCEPT ![Other(s)] = @ + n]
                  /\ UNCHANGED <<bytes, arrived, lost>>

ReadFails(s) == /\ \/ deadline[s] \/ lost
                   \/ /\ Closed(Other(s)) /\ arrived[Other(s)] = Len(bytes[Other(s)])
                      /\ Pending(s) < need[s]
                /\ UNCHANGED wire

Arrive(s) == /\ ~lost /\ ~Closed(Other(s)) /\ arrived[s] < Len(bytes[s])
             /\ arrived' = [arrived EXCEPT ![s] = @ + 1]
             /\ UNCHANGED <<ends, bytes, read, lost, put, got>>

LoseConnection == /\ ~lost /\ lost' = TRUE
                  /\ UNCHANGED <<ends, bytes, arrived, read, put, got>>

(* The node is told to shut down.                                          *)
ContextEnds == /\ ~ctxDone /\ ctxDone' = TRUE
               /\ UNCHANGED <<pc, need, key, deadline, wire, put, got>>

-----------------------------------------------------------------------------
(* The handshake.                                                          *)

(* The accepting side goes on to its read loop, which looks at the context *)
(* before every frame and at no other time.                                *)
ReadLoop == IF ctxDone THEN "closed" ELSE "header"

\* Variant: the deadline stays when the handshake is done.
HandshakeGoesOn(s) ==
  /\ pc' = [pc EXCEPT ![s] = IF After(s) # "done" THEN After(s)
                             ELSE IF s = "client" THEN "open" ELSE ReadLoop]
  /\ UNCHANGED deadline

(* The deferred call clears the deadline.                                  *)
HandshakeMoves(s) ==
  /\ pc' = [pc EXCEPT ![s] = IF After(s) # "done" THEN After(s)
                             ELSE IF s = "client" THEN "open" ELSE ReadLoop]
  /\ deadline' = [deadline EXCEPT ![s] = After(s) # "done"]

(* The server closes the connection; the client leaves it open.            *)
HandshakeFails(s) ==
  /\ pc' = [pc EXCEPT ![s] = IF s = "client" THEN "failed" ELSE "dropped"]
  /\ deadline' = [deadline EXCEPT ![s] = FALSE]
  /\ UNCHANGED <<need, key, ctxDone, put, got>>

sendPublicKey(s) ==
  LET buf == <<Len(Key[s])>> \o Key[s]
  IN  /\ pc[s] = "sendKey"
      /\ \/ /\ Write(s, buf)
            /\ need' = [need EXCEPT ![s] = IF After(s) = "done" THEN v1HeaderSize ELSE @]
            /\ HandshakeMoves(s)
            /\ UNCHANGED <<key, ctxDone, put, got>>
         \/ WriteCut(s, buf) /\ HandshakeFails(s)

receiveKeySize(s) ==
  /\ pc[s] = "keySize"
  /\ \E n \in 0 .. need[s] :
       /\ ReadFull(s, n)
       /\ need' = [need EXCEPT ![s] = Taken(s, n)[n]]
  /\ HandshakeMoves(s)
  /\ UNCHANGED <<key, ctxDone, put, got>>

receivePublicKey(s) ==
  /\ pc[s] = "key"
  /\ \E n \in 0 .. need[s] : ReadFull(s, n) /\ key' = [key EXCEPT ![s] = Taken(s, n)]
  /\ HandshakeMoves(s)
  /\ UNCHANGED <<need, ctxDone, put, got>>

receiveFails(s) == /\ pc[s] \in {"keySize", "key"}
                   /\ ReadFails(s)
                   /\ HandshakeFails(s)

-----------------------------------------------------------------------------
(* Frames.                                                                 *)

FrameOf(m) == <<v1, Len(Payload[m])>> \o Payload[m]

(* One Write for the whole frame.  A message the serializer refuses is not *)
(* in Msg: WriteFrame returns before anything is written.                  *)
WriteFrame(m) ==
  /\ pc["client"] = "open" /\ Len(put) < MaxFrames
  /\ \/ Write("client", FrameOf(m)) /\ put' = Append(put, m) /\ UNCHANGED ends
     \/ /\ WriteCut("client", FrameOf(m)) /\ pc' = [pc EXCEPT !["client"] = "broken"]
        /\ UNCHANGED <<need, key, deadline, ctxDone, put>>
  /\ UNCHANGED got

(* The version is stored and not looked at.                                *)
readHeader == /\ pc["server"] = "header"
              /\ \E n \in 0 .. need["server"] :
                   /\ ReadFull("server", n)
                   /\ need' = [need EXCEPT !["server"] = Taken("server", n)[n]]
              /\ pc' = [pc EXCEPT !["server"] = "payload"]
              /\ UNCHANGED <<key, deadline, ctxDone, put, got>>

(* The messages a payload decodes to: one, or none.                        *)
Decode(p) == {m \in Msg : Payload[m] = p}

(* A payload that cannot be decoded ends the read loop; after one that can *)
(* the message is handed on and the loop comes round.                      *)
readPayload ==
  /\ pc["server"] = "payload"
  /\ \E n \in 0 .. need["server"] :
       LET msgs == Decode(Taken("server", n))
       IN  /\ ReadFull("server", n)
           /\ got' = IF msgs = {} THEN got ELSE Append(got, CHOOSE m \in msgs : TRUE)
           /\ pc' = [pc EXCEPT !["server"] = IF msgs = {} THEN "closed" ELSE ReadLoop]
  /\ need' = [need EXCEPT !["server"] = v1HeaderSize]
  /\ UNCHANGED <<key, deadline, ctxDone, put>>

(* Any error ends the loop, whose deferred call closes the connection.     *)
readFrameFails == /\ pc["server"] \in {"header", "payload"}
                  /\ ReadFails("server")
                  /\ pc' = [pc EXCEPT !["server"] = "closed"]
                  /\ UNCHANGED <<need, key, deadline, ctxDone, put, got>>

(* The dialling process ends, whatever it was doing.                       *)
ClientLeaves == /\ ~Closed("client")
                /\ pc' = [pc EXCEPT !["client"] = "closed"]
                /\ UNCHANGED <<need, key, deadline, ctxDone, wire, put, got>>

FramingNext ==
  \/ \E s \in Side : \/ Arrive(s) \/ sendPublicKey(s) \/ receiveKeySize(s)
                     \/ receivePublicKey(s) \/ receiveFails(s)
  \/ \E m \in Msg : WriteFrame(m)
  \/ readHeader \/ readPayload \/ readFrameFails
  \/ LoseConnection \/ ClientLeaves \/ ContextEnds

FramingSpec == FramingInit /\ [][FramingNext]_framingVars

(* A side's own Write returns and its deadline passes; nothing is assumed  *)
(* of the other side or of the network.                                    *)
FairFramingSpec == /\ FramingSpec
                   /\ \A s \in Side : /\ WF_framingVars(sendPublicKey(s))
                                      /\ WF_framingVars(receiveFails(s))

-----------------------------------------------------------------------------
(***************************************************************************)
(* Properties                                                              *)
(***************************************************************************)

InHandshake(s) == pc[s] \in {"sendKey", "keySize", "key"}

(* Every variable keeps its type; no more is read than has arrived, and no *)
(* more arrives than was written.                                          *)
FramingTypeOK ==
  /\ pc["client"] \in {"sendKey", "keySize", "key", "open", "broken", "failed", "closed"}
  /\ pc["server"] \in {"keySize", "key", "sendKey", "header", "payload", "dropped", "closed"}
  /\ need \in [Side -> Nat] /\ key \in [Side -> Seq(Nat)]
  /\ deadline \in [Side -> BOOLEAN] /\ ctxDone \in BOOLEAN
  /\ bytes \in [Side -> Seq(Nat)]
  /\ \A s \in Side : read[s] <= arrived[s] /\ arrived[s] <= Len(bytes[s])
  /\ put \in Seq(Msg) /\ got \in Seq(Msg)

(* A side that finished its handshake holds the other side's key, whole:   *)
(* the size in front of it and the reads in pieces never cut it or run     *)
(* into the first frame.                                                   *)
KeysMatch == \A s \in Side :
  pc[s] \in {"open", "broken", "header", "payload"} => key[s] = Key[Other(s)]

(* When the client takes the connection for usable the server has the key  *)
(* too and has gone on to its read loop: it is not left in a handshake     *)
(* that may still fail.                                                    *)
ClientDoneMeansServerDone ==
  pc["client"] \in {"open", "broken"} => pc["server"] \in {"header", "payload", "closed"}

(* The read loop of a node that is not shutting down ends because the      *)
(* connection did, never by losing its place in the stream or over the     *)
(* deadline of the handshake; on a connection that was only closed it has  *)
(* read every message written.                                             *)
LoopEndsWithConnection ==
  pc["server"] = "closed" => ctxDone \/ lost \/ (pc["client"] = "closed" /\ got = put)

Channel == INSTANCE FrameChannel

(* Frames and reads implement the channel of whole messages.               *)
ImplementsChannel == Channel!ChannelSpec

(* No handshake waits for ever on a peer that says nothing.                *)
HandshakeEnds == \A s \in Side : InHandshake(s) ~> ~InHandshake(s)
=============================================================================
