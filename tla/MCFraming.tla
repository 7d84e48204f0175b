------------------------------ MODULE MCFraming ------------------------------
(* Two messages of which one encoding begins with the other: only the size *)
(* in the header tells them apart.                                         *)
EXTENDS Framing

CONSTANTS m1, m2

MCPayload == [m \in Msg |-> IF m = m1 THEN <<7>> ELSE <<7, 8>>]
MCKey == [s \in Side |-> IF s = "client" THEN <<3, 4>> ELSE <<5, 6, 7>>]
=============================================================================
