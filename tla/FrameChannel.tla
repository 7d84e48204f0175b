---------------------------- MODULE FrameChannel ----------------------------
(***************************************************************************)
(* What the framing protocol promises the layers above it: messages come   *)
(* out of a connection whole, in the order they went in, none twice and    *)
(* none made up, however the network cuts the bytes.                       *)
(***************************************************************************)
EXTENDS Naturals, Sequences

CONSTANT Msg

VARIABLES put,  \* the messages WriteFrame was done with
          got   \* the messages ReadFrame returned

ChannelInit == put = <<>> /\ got = <<>>

Put(m) == put' = Append(put, m) /\ UNCHANGED got

Get == /\ Len(got) < Len(put)
       /\ got' = Append(got, put[Len(got) + 1])
       /\ UNCHANGED put

ChannelSpec == ChannelInit /\ [][Get \/ \E m \in Msg : Put(m)]_<<put, got>>
=============================================================================
