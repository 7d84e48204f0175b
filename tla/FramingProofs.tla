---------------------------- MODULE FramingProofs ----------------------------
(* Proofs about Framing: any keys, any message encodings that differ, any  *)
(* number of frames, and a network that cuts the bytes as it likes.        *)
EXTENDS Framing, SequenceTheorems, TLAPS

-----------------------------------------------------------------------------
(***************************************************************************)
(* The invariant.                                                          *)
(***************************************************************************)

KeyMsg(s) == <<Len(Key[s])>> \o Key[s]

(* Where the first frame of the client begins.                             *)
Base == Len(Key["client"]) + 1

AnyPlace == {"sendKey", "keySize", "key", "open", "broken", "failed", "closed", "header", "payload",
             "dropped"}

Types == /\ FramingTypeOK
         /\ arrived \in [Side -> Nat] /\ read \in [Side -> Nat] /\ lost \in BOOLEAN
         /\ pc \in [Side -> AnyPlace]

(* How far each side is in its handshake tells what it has read.           *)
HandInv ==
  /\ \A s \in Side :
       /\ \A i \in 1 .. Len(bytes[s]) : i <= Len(Key[s]) + 1 => bytes[s][i] = KeyMsg(s)[i]
       /\ pc[s] = "keySize" => read[Other(s)] = 0 /\ need[s] = 1
       /\ pc[s] = "key" => read[Other(s)] = 1 /\ need[s] = Len(Key[Other(s)])
       /\ pc[s] = "sendKey" => bytes[s] = <<>>
  /\ pc["client"] = "sendKey" => need["client"] = 1 /\ read["server"] = 0
  /\ pc["client"] \in {"open", "broken"} =>
       key["client"] = Key["server"] /\ read["server"] > Len(Key["server"])
  /\ pc["server"] \in {"keySize", "key"} => bytes["server"] = <<>>
  /\ pc["server"] = "dropped" => Len(bytes["server"]) <= Len(Key["server"])
  /\ pc["server"] = "sendKey" => read["client"] = Base
  /\ pc["server"] \in {"sendKey", "header", "payload", "closed"} =>
       key["server"] = Key["client"] /\ read["client"] >= Base
  /\ pc["server"] \in {"header", "payload", "closed"} => ~deadline["server"]

(* How many units a frame has.                                             *)
Size(m) == 2 + Len(Payload[m])

(* Where the frames written in full begin and, last, where they end.       *)
Layout(pos) ==
  /\ pos \in [1 .. Len(put) + 1 -> Nat] /\ pos[1] = Base
  /\ \A i \in 1 .. Len(put) :
       /\ pos[i + 1] = pos[i] + Size(put[i])
       /\ pos[i + 1] <= Len(bytes["client"])
       /\ \A k \in 1 .. Size(put[i]) :
            bytes["client"][pos[i] + k] = FrameOf(put[i])[k]

End(pos) == pos[Len(put) + 1]

(* After them there is nothing, or the beginning of a frame that was cut.  *)
Rest(pos) ==
  \/ Len(bytes["client"]) = End(pos)
  \/ /\ lost /\ pc["client"] \in {"broken", "closed"}
     /\ \E m \in Msg :
          /\ Len(bytes["client"]) >= End(pos)
          /\ Len(bytes["client"]) < End(pos) + Size(m)
          /\ \A k \in 1 .. Len(bytes["client"]) - End(pos) :
               bytes["client"][End(pos) + k] = FrameOf(m)[k]

(* The read loop is at a boundary of frames, or after the header of one.   *)
Reader(pos) ==
  /\ pc["server"] = "header" => read["client"] = pos[Len(got) + 1] /\ need["server"] = 2
  /\ pc["server"] = "payload" =>
       /\ read["client"] = pos[Len(got) + 1] + 2
       /\ \/ Len(got) < Len(put) /\ need["server"] + 2 = Size(put[Len(got) + 1])
          \/ /\ Len(got) = Len(put) /\ lost /\ pc["client"] \in {"broken", "closed"}
             /\ read["client"] + need["server"] > Len(bytes["client"])

FrameInv ==
  /\ Len(got) <= Len(put) /\ \A i \in 1 .. Len(got) : got[i] = put[i]
  /\ pc["server"] \in {"keySize", "key", "sendKey"} => got = <<>>
  /\ pc["client"] \in {"sendKey", "keySize", "key"} => put = <<>>
  /\ Len(bytes["client"]) < Base => put = <<>>
  /\ pc["client"] \in {"keySize", "key", "open"} => Len(bytes["client"]) >= Base
  /\ Len(bytes["client"]) >= Base => \E pos : Layout(pos) /\ Rest(pos) /\ Reader(pos)
  /\ pc["server"] = "closed" => ctxDone \/ lost \/ (pc["client"] = "closed" /\ got = put)

FramingInv == Types /\ HandInv /\ FrameInv

-----------------------------------------------------------------------------
(***************************************************************************)
(* Writing and reading.                                                    *)
(***************************************************************************)

(* What concatenation and SubSeq make of sequences of numbers.             *)
LEMMA Joined ==
  ASSUME NEW a \in Seq(Nat), NEW b \in Seq(Nat)
  PROVE  /\ a \o b \in Seq(Nat) /\ Len(a) \in Nat /\ Len(b) \in Nat
         /\ Len(a \o b) = Len(a) + Len(b)
         /\ \A i \in 1 .. Len(a) : (a \o b)[i] = a[i]
         /\ \A i \in 1 .. Len(b) : (a \o b)[Len(a) + i] = b[i]
<1>1. Len(a) \in Nat /\ Len(b) \in Nat  BY LenProperties
<1>2. /\ a \o b \in Seq(Nat) /\ Len(a \o b) = Len(a) + Len(b)
      /\ \A i \in 1 .. Len(a) + Len(b) :
           (a \o b)[i] = IF i <= Len(a) THEN a[i] ELSE b[i - Len(a)]
  BY ConcatProperties
<1>  QED  BY <1>1, <1>2

LEMMA CutOut ==
  ASSUME NEW a \in Seq(Nat), NEW from \in Nat, NEW n \in Nat, from + n <= Len(a)
  PROVE  /\ SubSeq(a, from + 1, from + n) \in Seq(Nat)
         /\ Len(SubSeq(a, from + 1, from + n)) = n
         /\ \A k \in 1 .. n : SubSeq(a, from + 1, from + n)[k] = a[from + k]
<1>  DEFINE l == from + 1
            h == from + n
<1>1. l \in Int /\ h \in Int /\ Len(a) \in Nat  BY LenProperties
<1>2. \A i \in l .. h : i \in 1 .. Len(a)  BY <1>1
<1>3. \A i \in l .. h : a[i] \in Nat  BY <1>2, ElementOfSeq
<1>4. (l <= h => h - l + 1 = n) /\ (~(l <= h) => n = 0) /\ h - l + 1 = n  OBVIOUS
<1>5. \A k \in 1 .. n : l + k - 1 = from + k  OBVIOUS
<1>  HIDE DEF l, h
<1>6. /\ SubSeq(a, l, h) \in Seq(Nat)
      /\ Len(SubSeq(a, l, h)) = IF l <= h THEN h - l + 1 ELSE 0
      /\ \A i \in 1 .. h - l + 1 : SubSeq(a, l, h)[i] = a[l + i - 1]
  BY <1>1, <1>3, SubSeqProperties
<1>7. Len(SubSeq(a, l, h)) = n  BY <1>4, <1>6
<1>8. \A k \in 1 .. n : SubSeq(a, l, h)[k] = a[from + k]  BY <1>4, <1>5, <1>6
<1>  QED  BY <1>6, <1>7, <1>8 DEF l, h

(* The k-th unit of a frame from a to b lies before v.                     *)
LEMMA Inside ==
  ASSUME NEW a \in Nat, NEW l \in Nat, NEW v \in Nat, NEW k \in 1 .. l, a + l <= v
  PROVE  a + k \in 1 .. v
<1>  QED  OBVIOUS

LEMMA KeyMsgs ==
  ASSUME NEW s \in Side
  PROVE  /\ Key[s] \in Seq(Nat) /\ Len(Key[s]) \in Nat \ {0}
         /\ KeyMsg(s) \in Seq(Nat) /\ Len(KeyMsg(s)) = Len(Key[s]) + 1
         /\ KeyMsg(s)[1] = Len(Key[s])
         /\ \A i \in 1 .. Len(Key[s]) : KeyMsg(s)[i + 1] = Key[s][i]
<1>1. Key[s] \in Seq(Nat) /\ Key[s] # <<>>  BY FramingAssumption
<1>2. Len(Key[s]) \in Nat \ {0}  BY <1>1, EmptySeq
<1>3. <<Len(Key[s])>> \in Seq(Nat) /\ Len(<<Len(Key[s])>>) = 1 /\ <<Len(Key[s])>>[1] = Len(Key[s])
  BY <1>2
<1>  DEFINE one == <<Len(Key[s])>>
<1>  HIDE DEF one
<1>4. one \in Seq(Nat) /\ Len(one) = 1 /\ one[1] = Len(Key[s])  BY <1>3 DEF one
<1>5. /\ one \o Key[s] \in Seq(Nat) /\ Len(one \o Key[s]) = 1 + Len(Key[s])
      /\ (one \o Key[s])[1] = one[1]
      /\ \A i \in 1 .. Len(Key[s]) : (one \o Key[s])[1 + i] = Key[s][i]
  <2>1. /\ one \o Key[s] \in Seq(Nat)
        /\ Len(one \o Key[s]) = Len(one) + Len(Key[s])
        /\ \A i \in 1 .. Len(one) : (one \o Key[s])[i] = one[i]
        /\ \A i \in 1 .. Len(Key[s]) : (one \o Key[s])[Len(one) + i] = Key[s][i]
    <3>1. one \in Seq(Nat) /\ Key[s] \in Seq(Nat)  BY <1>1, <1>4
    <3>  QED  BY Zenon, <3>1, Joined
  <2>2. 1 \in 1 .. Len(one)  BY <1>4
  <2>  QED  BY <1>4, <2>1, <2>2
<1>6. KeyMsg(s) = one \o Key[s]  BY DEF KeyMsg, one
<1>7. \A i \in 1 .. Len(Key[s]) : KeyMsg(s)[i + 1] = Key[s][i]  BY <1>2, <1>5, <1>6
<1>  QED  BY <1>1, <1>2, <1>4, <1>5, <1>6, <1>7

LEMMA Frames ==
  ASSUME NEW m \in Msg
  PROVE  /\ Payload[m] \in Seq(Nat) /\ Len(Payload[m]) \in Nat \ {0}
         /\ Size(m) \in Nat /\ Size(m) > 2 /\ Size(m) = Len(Payload[m]) + 2
         /\ FrameOf(m) \in Seq(Nat) /\ Len(FrameOf(m)) = Size(m)
         /\ FrameOf(m)[2] = Len(Payload[m])
         /\ \A i \in 1 .. Len(Payload[m]) : FrameOf(m)[i + 2] = Payload[m][i]
<1>1. Payload[m] \in Seq(Nat) /\ Payload[m] # <<>>  BY FramingAssumption
<1>2. Len(Payload[m]) \in Nat \ {0}  BY <1>1, EmptySeq
<1>  DEFINE two == <<v1, Len(Payload[m])>>
            l == Len(Payload[m])
<1>3. two \in Seq(Nat) /\ Len(two) = 2 /\ two[2] = Len(Payload[m])  BY <1>2 DEF v1
<1>4. FrameOf(m) = two \o Payload[m]  BY DEF FrameOf
<1>  HIDE DEF two
<1>5. /\ two \o Payload[m] \in Seq(Nat) /\ Len(two \o Payload[m]) = Size(m)
      /\ (two \o Payload[m])[2] = two[2]
      /\ \A i \in 1 .. Len(Payload[m]) : (two \o Payload[m])[2 + i] = Payload[m][i]
  <2>1. /\ two \o Payload[m] \in Seq(Nat) /\ Len(two \o Payload[m]) = Len(two) + Len(Payload[m])
        /\ \A i \in 1 .. Len(two) : (two \o Payload[m])[i] = two[i]
        /\ \A i \in 1 .. Len(Payload[m]) : (two \o Payload[m])[Len(two) + i] = Payload[m][i]
    BY <1>1, <1>3, Joined
  <2>2. Len(two \o Payload[m]) = Size(m)  BY <1>3, <2>1 DEF Size
  <2>3. (two \o Payload[m])[2] = two[2]
    <3>1. 2 \in 1 .. Len(two)  BY <1>3
    <3>  QED  BY <2>1, <3>1
  <2>4. \A i \in 1 .. Len(Payload[m]) : (two \o Payload[m])[2 + i] = Payload[m][i]
    BY <1>3, <2>1
  <2>  QED  BY <2>1, <2>2, <2>3, <2>4
<1>6. \A i \in 1 .. Len(Payload[m]) : FrameOf(m)[i + 2] = Payload[m][i]
  <2>1. ASSUME NEW i \in 1 .. Len(Payload[m])  PROVE FrameOf(m)[i + 2] = Payload[m][i]
    <3>1. i + 2 = 2 + i  BY <1>2
    <3>  QED  BY <1>4, <1>5, <3>1
  <2>  QED  BY <2>1
<1>7. l \in Nat \ {0} /\ Size(m) = 2 + l  BY <1>2 DEF Size
<1>  HIDE DEF l
<1>8. Size(m) \in Nat /\ Size(m) > 2 /\ Size(m) = l + 2  BY <1>7
<1>9. Len(FrameOf(m)) = Size(m)  BY <1>4, <1>5
<1>  QED  BY <1>1, <1>2, <1>3, <1>4, <1>5, <1>6, <1>8, <1>9 DEF l

(* The n first units of p are added to what s wrote.                       *)
Adds(s, p, n) ==
  /\ bytes' \in [Side -> Seq(Nat)] /\ bytes'[Other(s)] = bytes[Other(s)]
  /\ Len(bytes'[s]) = Len(bytes[s]) + n
  /\ \A i \in 1 .. Len(bytes[s]) : bytes'[s][i] = bytes[s][i]
  /\ \A k \in 1 .. n : bytes'[s][Len(bytes[s]) + k] = p[k]

LEMMA Concatenated ==
  ASSUME Types, NEW s \in Side, NEW p \in Seq(Nat), NEW n \in 0 .. Len(p), NEW q \in Seq(Nat),
         Len(q) = n, \A k \in 1 .. n : q[k] = p[k],
         bytes' = [bytes EXCEPT ![s] = @ \o q]
  PROVE  Adds(s, p, n)
<1>1. bytes[s] \in Seq(Nat) /\ Len(bytes[s]) \in Nat  BY LenProperties DEF Types, FramingTypeOK
<1>2. bytes'[s] = bytes[s] \o q /\ bytes'[Other(s)] = bytes[Other(s)]
  BY DEF Types, FramingTypeOK, Side, Other
<1>3. /\ bytes[s] \o q \in Seq(Nat) /\ Len(bytes[s] \o q) = Len(bytes[s]) + n
      /\ \A i \in 1 .. Len(bytes[s]) + n :
           (bytes[s] \o q)[i] = IF i <= Len(bytes[s]) THEN bytes[s][i] ELSE q[i - Len(bytes[s])]
  BY ZenonT(30), <1>1, ConcatProperties
<1>4. bytes' \in [Side -> Seq(Nat)]  BY <1>3 DEF Types, FramingTypeOK
<1>5. \A i \in 1 .. Len(bytes[s]) : bytes'[s][i] = bytes[s][i]  BY <1>1, <1>2, <1>3
<1>6. \A k \in 1 .. n : bytes'[s][Len(bytes[s]) + k] = p[k]
  <2>1. n \in Nat  BY LenProperties
  <2>  QED  BY SMTT(20), <1>1, <1>2, <1>3, <2>1
<1>  QED  BY <1>2, <1>3, <1>4, <1>5, <1>6 DEF Adds

LEMMA Written ==
  ASSUME Types, NEW s \in Side, NEW p \in Seq(Nat), Write(s, p)
  PROVE  Adds(s, p, Len(p)) /\ UNCHANGED <<arrived, read, lost>>
<1>1. Len(p) \in 0 .. Len(p)  BY LenProperties
<1>  QED  BY <1>1, Concatenated DEF Write

LEMMA WrittenCut ==
  ASSUME Types, NEW s \in Side, NEW p \in Seq(Nat), WriteCut(s, p)
  PROVE  /\ \E n \in 0 .. Len(p) - 1 : Adds(s, p, n)
         /\ lost' = TRUE /\ read' = read
         /\ arrived' \in [Side -> Nat] /\ arrived'[Other(s)] = arrived[Other(s)]
         /\ arrived'[s] >= arrived[s] /\ arrived'[s] <= Len(bytes'[s])
<1>1. Len(p) \in Nat  BY LenProperties
<1>2. PICK n \in 0 .. Len(p) - 1 : bytes' = [bytes EXCEPT ![s] = @ \o SubSeq(p, 1, n)]
  BY DEF WriteCut
<1>3. /\ SubSeq(p, 1, n) \in Seq(Nat) /\ Len(SubSeq(p, 1, n)) = n
      /\ \A k \in 1 .. n : SubSeq(p, 1, n)[k] = p[k]
  <2>1. n \in Nat /\ 0 + n <= Len(p) /\ 0 + 1 = 1 /\ 0 + n = n
        /\ \A k \in 1 .. n : 0 + k = k
    BY <1>1
  <2>2. /\ SubSeq(p, 0 + 1, 0 + n) \in Seq(Nat) /\ Len(SubSeq(p, 0 + 1, 0 + n)) = n
        /\ \A k \in 1 .. n : SubSeq(p, 0 + 1, 0 + n)[k] = p[0 + k]
    BY <2>1, CutOut
  <2>3. SubSeq(p, 0 + 1, 0 + n) = SubSeq(p, 1, n)  BY <2>1
  <2>4. \A k \in 1 .. n : SubSeq(p, 1, n)[k] = p[k]  BY <2>1, <2>2, <2>3
  <2>  QED  BY <2>2, <2>3, <2>4
<1>4. Adds(s, p, n)
  <2>  DEFINE q == SubSeq(p, 1, n)
  <2>1. q \in Seq(Nat) /\ Len(q) = n /\ (\A k \in 1 .. n : q[k] = p[k])  BY <1>3
  <2>2. bytes' = [bytes EXCEPT ![s] = @ \o q]  BY <1>2
  <2>3. n \in 0 .. Len(p)  BY <1>1
  <2>  HIDE DEF q
  <2>  QED  BY <2>1, <2>2, <2>3, Concatenated
<1>5. Len(bytes'[s]) \in Nat  BY <1>4, LenProperties DEF Adds
<1>  QED  BY SMTT(20), <1>4, <1>5 DEF WriteCut, Types, Side, Other

(* What ReadFull returns is what the other side wrote there.               *)
LEMMA WasRead ==
  ASSUME Types, NEW s \in Side, NEW n \in Nat, ReadFull(s, n)
  PROVE  /\ n = need[s] /\ UNCHANGED <<bytes, arrived, lost>>
         /\ read' \in [Side -> Nat] /\ read'[s] = read[s]
         /\ read'[Other(s)] = read[Other(s)] + n
         /\ read'[Other(s)] <= arrived[Other(s)]
         /\ arrived[Other(s)] <= Len(bytes[Other(s)])
         /\ Taken(s, n) \in Seq(Nat) /\ Len(Taken(s, n)) = n
         /\ \A k \in 1 .. n : Taken(s, n)[k] = bytes[Other(s)][read[Other(s)] + k]
<1>  DEFINE o == Other(s)
<1>1. o \in Side /\ o # s  BY DEF Other, Side
<1>2. bytes[o] \in Seq(Nat) /\ Len(bytes[o]) \in Nat /\ read[o] \in Nat /\ arrived[o] \in Nat
  BY <1>1, LenProperties DEF Types, FramingTypeOK
<1>3. read[o] + n <= arrived[o] /\ arrived[o] <= Len(bytes[o])
  BY <1>1, <1>2 DEF ReadFull, Pending, Types, FramingTypeOK
<1>4. /\ Taken(s, n) \in Seq(Nat) /\ Len(Taken(s, n)) = n
      /\ \A k \in 1 .. n : Taken(s, n)[k] = bytes[o][read[o] + k]
  <2>1. read[o] + n <= Len(bytes[o])  BY <1>2, <1>3
  <2>  QED  BY ZenonT(30), <1>2, <2>1, CutOut DEF Taken
<1>  QED  BY <1>1, <1>2, <1>3, <1>4 DEF ReadFull, Types

-----------------------------------------------------------------------------
(***************************************************************************)
(* The handshake.                                                          *)
(***************************************************************************)

LEMMA Places ==
  /\ Side = {"client", "server"} /\ Other("client") = "server" /\ Other("server") = "client"
  /\ pc["client"] = "sendKey" => After("client") = "keySize"
  /\ pc["client"] = "keySize" => After("client") = "key"
  /\ pc["client"] = "key" => After("client") = "done"
  /\ pc["server"] = "keySize" => After("server") = "key"
  /\ pc["server"] = "key" => After("server") = "sendKey"
  /\ pc["server"] = "sendKey" => After("server") = "done"
<1>  QED  BY DEF Side, Other, After, Steps

LEMMA Numbers ==
  ASSUME Types, NEW s \in Side
  PROVE  /\ bytes[s] \in Seq(Nat) /\ Len(bytes[s]) \in Nat /\ need[s] \in Nat
         /\ read[s] \in Nat /\ arrived[s] \in Nat
         /\ read[s] <= arrived[s] /\ arrived[s] <= Len(bytes[s])
<1>  QED  BY LenProperties DEF Types, FramingTypeOK

(* A step that leaves the client's bytes, the messages and the place of    *)
(* the read loop in them alone.                                            *)
LEMMA FrameKeeps ==
  ASSUME Types, FrameInv, bytes'["client"] = bytes["client"], UNCHANGED <<put, got>>,
         lost => lost', ctxDone => ctxDone',
         pc'["server"] \in {"keySize", "key", "sendKey"} => pc["server"] \in {"keySize", "key", "sendKey"},
         pc'["client"] \in {"sendKey", "keySize", "key"} => pc["client"] \in {"sendKey", "keySize", "key"},
         pc'["client"] \in {"keySize", "key", "open"} => pc["client"] \in {"keySize", "key", "open"},
         pc["client"] \in {"broken", "closed"} => pc'["client"] \in {"broken", "closed"},
         pc["client"] = "closed" => pc'["client"] = "closed",
         pc'["server"] \in {"header", "payload"} =>
           /\ pc'["server"] = pc["server"] /\ need'["server"] = need["server"]
           /\ read'["client"] = read["client"],
         pc'["server"] = "closed" => pc["server"] = "closed"
  PROVE  FrameInv'
<1>1. \A pos : /\ Layout(pos) => Layout(pos)'
               /\ Rest(pos) => Rest(pos)'
               /\ Reader(pos) => Reader(pos)'
  <2>  SUFFICES ASSUME NEW pos
                PROVE  /\ Layout(pos) => Layout(pos)'
                       /\ Rest(pos) => Rest(pos)'
                       /\ Reader(pos) => Reader(pos)'
    OBVIOUS
  <2>1. Layout(pos) => Layout(pos)'  BY DEF Layout
  <2>2. Rest(pos) => Rest(pos)'  BY DEF Rest, End
  <2>3. Reader(pos) => Reader(pos)'  BY DEF Reader
  <2>  QED  BY <2>1, <2>2, <2>3
<1>  QED  BY <1>1 DEF FrameInv

LEMMA ArriveStep ==
  ASSUME FramingInv, NEW s \in Side, Arrive(s)
  PROVE  FramingInv'
<1>  USE DEF FramingInv
<1>1. Types'
  <2>1. arrived' = [arrived EXCEPT ![s] = @ + 1] /\ arrived[s] < Len(bytes[s])
        /\ UNCHANGED <<ends, bytes, read, lost, put, got>>
    BY DEF Arrive
  <2>2. arrived' \in [Side -> Nat]  BY <2>1 DEF Types
  <2>3. ASSUME NEW r \in Side  PROVE read'[r] <= arrived'[r] /\ arrived'[r] <= Len(bytes'[r])
    BY <2>1, Numbers DEF Types
  <2>  QED  BY <2>1, <2>2, <2>3 DEF Types, FramingTypeOK, ends
<1>2. UNCHANGED <<pc, need, key, deadline, ctxDone, bytes, read, lost, put, got>>
  BY DEF Arrive, ends
<1>3. HandInv'  BY <1>2 DEF HandInv
<1>4. FrameInv'  BY <1>2, FrameKeeps
<1>  QED  BY <1>1, <1>3, <1>4

LEMMA LoseConnectionStep ==
  ASSUME FramingInv, LoseConnection
  PROVE  FramingInv'
<1>  USE DEF FramingInv
<1>1. UNCHANGED <<pc, need, key, deadline, ctxDone, bytes, arrived, read, put, got>> /\ lost' = TRUE
  BY DEF LoseConnection, ends
<1>2. Types'  BY <1>1 DEF Types, FramingTypeOK
<1>3. HandInv'  BY <1>1 DEF HandInv
<1>4. FrameInv'  BY <1>1, FrameKeeps
<1>  QED  BY <1>2, <1>3, <1>4

LEMMA ClientLeavesStep ==
  ASSUME FramingInv, ClientLeaves
  PROVE  FramingInv'
<1>  USE DEF FramingInv
<1>1. /\ UNCHANGED <<need, key, deadline, ctxDone, bytes, arrived, read, lost, put, got>>
      /\ pc' = [pc EXCEPT !["client"] = "closed"]
      /\ pc'["client"] = "closed" /\ pc'["server"] = pc["server"]
  BY Places DEF ClientLeaves, wire, Types
<1>2. Types'
  <2>1. pc' \in [Side -> AnyPlace]  BY <1>1 DEF Types, AnyPlace
  <2>  QED  BY <1>1, <2>1 DEF Types, FramingTypeOK
<1>3. HandInv'  BY <1>1, Places DEF HandInv
<1>4. FrameInv'  BY <1>1, FrameKeeps
<1>  QED  BY <1>2, <1>3, <1>4

LEMMA ContextEndsStep ==
  ASSUME FramingInv, ContextEnds
  PROVE  FramingInv'
<1>  USE DEF FramingInv
<1>1. /\ UNCHANGED <<pc, need, key, deadline, bytes, arrived, read, lost, put, got>>
      /\ ctxDone' = TRUE
  BY DEF ContextEnds, wire
<1>2. Types'  BY <1>1 DEF Types, FramingTypeOK
<1>3. HandInv'  BY <1>1 DEF HandInv
<1>4. FrameInv'  BY <1>1, FrameKeeps
<1>  QED  BY <1>2, <1>3, <1>4

(* What a failed receive or a failed send makes of the places.             *)
LEMMA FailedStep ==
  ASSUME FramingInv, NEW s \in Side, receiveFails(s)
  PROVE  FramingInv'
<1>  USE DEF FramingInv
<1>1. /\ UNCHANGED <<need, key, ctxDone, bytes, arrived, read, lost, put, got>>
      /\ pc' = [pc EXCEPT ![s] = IF s = "client" THEN "failed" ELSE "dropped"]
      /\ deadline' = [deadline EXCEPT ![s] = FALSE]
      /\ pc[s] \in {"keySize", "key"}
  BY DEF receiveFails, ReadFails, HandshakeFails, wire
<1>2. \/ s = "client" /\ pc'["client"] = "failed" /\ pc'["server"] = pc["server"]
         /\ deadline'["server"] = deadline["server"]
      \/ s = "server" /\ pc'["server"] = "dropped" /\ pc'["client"] = pc["client"]
  BY <1>1, Places DEF Types, FramingTypeOK
<1>3. Types'
  <2>1. pc' \in [Side -> AnyPlace]  BY <1>1 DEF Types, AnyPlace
  <2>2. deadline' \in [Side -> BOOLEAN]  BY <1>1 DEF Types, FramingTypeOK
  <2>  QED  BY <1>1, <1>2, <2>1, <2>2 DEF Types, FramingTypeOK
<1>4. HandInv'
  <2>1. s = "server" => bytes["server"] = <<>>  BY <1>1 DEF HandInv
  <2>2. Len(<<>>) = 0 /\ Len(Key["server"]) \in Nat  BY EmptySeq, KeyMsgs, Places
  <2>  QED  BY <1>1, <1>2, <2>1, <2>2, Places DEF HandInv
<1>5. FrameInv'  BY <1>1, <1>2, FrameKeeps
<1>  QED  BY <1>3, <1>4, <1>5

(* The size a side reads is that of the other side's key.                  *)
LEMMA KeySizeStep ==
  ASSUME FramingInv, NEW s \in Side, receiveKeySize(s)
  PROVE  FramingInv'
<1>  USE DEF FramingInv
<1>  DEFINE o == Other(s)
<1>1. o \in Side /\ o # s /\ Other(o) = s  BY DEF Other, Side
<1>2. PICK n \in 0 .. need[s] : ReadFull(s, n) /\ need' = [need EXCEPT ![s] = Taken(s, n)[n]]
  BY DEF receiveKeySize
<1>3. n \in Nat /\ pc[s] = "keySize" /\ read[o] = 0 /\ need[s] = 1
  BY <1>2, Numbers DEF receiveKeySize, HandInv
<1>4. /\ n = 1 /\ UNCHANGED <<bytes, arrived, lost>> /\ read' \in [Side -> Nat]
      /\ read'[s] = read[s] /\ read'[o] = 1 /\ read'[o] <= arrived[o]
      /\ Taken(s, n)[1] = bytes[o][1]
  BY <1>2, <1>3, WasRead
<1>5. bytes[o][1] = Len(Key[o]) /\ Len(Key[o]) \in Nat
  <2>1. 1 \in 1 .. Len(bytes[o])  BY <1>1, <1>4, Numbers
  <2>  QED  BY <1>1, <2>1, KeyMsgs DEF HandInv
<1>6. /\ pc' = [pc EXCEPT ![s] = "key"] /\ deadline' = [deadline EXCEPT ![s] = TRUE]
      /\ need' = [need EXCEPT ![s] = Len(Key[o])] /\ UNCHANGED <<key, ctxDone, put, got>>
  <2>1. After(s) = "key"  BY <1>3, Places
  <2>  QED  BY <1>2, <1>4, <1>5, <2>1 DEF receiveKeySize, HandshakeMoves
<1>7. /\ pc'[s] = "key" /\ pc'[o] = pc[o] /\ need'[s] = Len(Key[o]) /\ need'[o] = need[o]
      /\ deadline'[o] = deadline[o]
  BY <1>1, <1>6 DEF Types, FramingTypeOK
<1>8. Types'
  <2>1. pc' \in [Side -> AnyPlace]  BY <1>6 DEF Types, AnyPlace
  <2>2. deadline' \in [Side -> BOOLEAN] /\ need' \in [Side -> Nat]
    BY <1>5, <1>6 DEF Types, FramingTypeOK
  <2>3. ASSUME NEW r \in Side  PROVE read'[r] <= arrived'[r] /\ arrived'[r] <= Len(bytes'[r])
    BY <1>1, <1>4, Numbers DEF Side
  <2>4. /\ pc'["client"] \in {"sendKey", "keySize", "key", "open", "broken", "failed", "closed"}
        /\ pc'["server"] \in {"keySize", "key", "sendKey", "header", "payload", "dropped", "closed"}
    BY <1>7, Places DEF Types, FramingTypeOK
  <2>  QED  BY <1>4, <1>6, <2>1, <2>2, <2>3, <2>4 DEF Types, FramingTypeOK
<1>9. HandInv'
  <2>1. CASE s = "client"
    BY <1>3, <1>4, <1>6, <1>7, <2>1, Places DEF HandInv
  <2>2. CASE s = "server"
    BY <1>3, <1>4, <1>6, <1>7, <2>2, Places DEF HandInv
  <2>  QED  BY <2>1, <2>2, Places
<1>10. FrameInv'
  <2>1. CASE s = "client"  BY <1>3, <1>4, <1>6, <1>7, <2>1, Places, FrameKeeps
  <2>2. CASE s = "server"  BY <1>3, <1>4, <1>6, <1>7, <2>2, Places, FrameKeeps
  <2>  QED  BY <2>1, <2>2, Places
<1>  QED  BY <1>8, <1>9, <1>10

(* And the key it reads is the other side's, whole.                        *)
LEMMA PublicKeyStep ==
  ASSUME FramingInv, NEW s \in Side, receivePublicKey(s)
  PROVE  FramingInv'
<1>  USE DEF FramingInv
<1>  DEFINE o == Other(s)
<1>1. o \in Side /\ o # s /\ Other(o) = s  BY DEF Other, Side
<1>2. PICK n \in 0 .. need[s] : ReadFull(s, n) /\ key' = [key EXCEPT ![s] = Taken(s, n)]
  BY DEF receivePublicKey
<1>3. n \in Nat /\ pc[s] = "key" /\ read[o] = 1 /\ need[s] = Len(Key[o])
  BY <1>2, Numbers DEF receivePublicKey, HandInv
<1>4. /\ n = Len(Key[o]) /\ UNCHANGED <<bytes, arrived, lost>> /\ read' \in [Side -> Nat]
      /\ read'[s] = read[s] /\ read'[o] = 1 + Len(Key[o]) /\ read'[o] <= arrived[o]
      /\ Taken(s, n) \in Seq(Nat) /\ Len(Taken(s, n)) = n
      /\ \A k \in 1 .. n : Taken(s, n)[k] = bytes[o][1 + k]
  <2>1. /\ n = need[s] /\ UNCHANGED <<bytes, arrived, lost>> /\ read' \in [Side -> Nat]
        /\ read'[s] = read[s] /\ read'[o] = read[o] + n /\ read'[o] <= arrived[o]
        /\ Taken(s, n) \in Seq(Nat) /\ Len(Taken(s, n)) = n
        /\ \A k \in 1 .. n : Taken(s, n)[k] = bytes[o][read[o] + k]
    BY Zenon, <1>2, <1>3, WasRead
  <2>  QED  BY <1>3, <2>1
<1>5. Taken(s, n) = Key[o]
  <2>1. Key[o] \in Seq(Nat) /\ Len(Key[o]) \in Nat  BY <1>1, KeyMsgs
  <2>2. 1 + Len(Key[o]) <= Len(bytes[o])  BY <1>1, <1>4, <2>1, Numbers
  <2>3. ASSUME NEW k \in 1 .. n  PROVE Taken(s, n)[k] = Key[o][k]
    <3>1. k + 1 \in 1 .. Len(bytes[o]) /\ k + 1 <= Len(Key[o]) + 1 /\ k \in 1 .. Len(Key[o])
      BY SMTT(20), <1>1, <1>4, <2>1, <2>2, Numbers
    <3>2. bytes[o][k + 1] = KeyMsg(o)[k + 1]  BY <1>1, <3>1 DEF HandInv
    <3>3. KeyMsg(o)[k + 1] = Key[o][k]  BY <1>1, <3>1, KeyMsgs
    <3>4. Taken(s, n)[k] = bytes[o][1 + k] /\ 1 + k = k + 1  BY <1>4
    <3>  QED  BY <3>2, <3>3, <3>4
  <2>  QED  BY <1>4, <2>1, <2>3, SeqEqual
<1>6. /\ pc' = [pc EXCEPT ![s] = IF s = "client" THEN "open" ELSE "sendKey"]
      /\ deadline' = [deadline EXCEPT ![s] = s = "server"]
      /\ key' = [key EXCEPT ![s] = Key[o]] /\ UNCHANGED <<need, ctxDone, put, got>>
  <2>1. After(s) = IF s = "client" THEN "done" ELSE "sendKey"  BY <1>3, Places
  <2>  QED  BY <1>2, <1>5, <2>1, Places DEF receivePublicKey, HandshakeMoves
<1>7. /\ pc'[s] = (IF s = "client" THEN "open" ELSE "sendKey") /\ pc'[o] = pc[o]
      /\ key'[s] = Key[o] /\ key'[o] = key[o] /\ deadline'[o] = deadline[o]
  BY <1>1, <1>6 DEF Types, FramingTypeOK
<1>8. Types'
  <2>1. pc' \in [Side -> AnyPlace]  BY <1>6 DEF Types, AnyPlace
  <2>2. deadline' \in [Side -> BOOLEAN] /\ key' \in [Side -> Seq(Nat)]
    BY <1>1, <1>6, KeyMsgs DEF Types, FramingTypeOK
  <2>3. ASSUME NEW r \in Side  PROVE read'[r] <= arrived'[r] /\ arrived'[r] <= Len(bytes'[r])
    BY <1>1, <1>4, Numbers DEF Side
  <2>4. /\ pc'["client"] \in {"sendKey", "keySize", "key", "open", "broken", "failed", "closed"}
        /\ pc'["server"] \in {"keySize", "key", "sendKey", "header", "payload", "dropped", "closed"}
    BY <1>7, Places DEF Types, FramingTypeOK
  <2>  QED  BY <1>4, <1>6, <2>1, <2>2, <2>3, <2>4 DEF Types, FramingTypeOK
<1>9. HandInv'
  <2>1. Len(Key["client"]) \in Nat /\ Len(Key["server"]) \in Nat  BY KeyMsgs, Places
  <2>2. CASE s = "client"
    BY <1>3, <1>4, <1>6, <1>7, <2>1, <2>2, Places DEF HandInv
  <2>3. CASE s = "server"
    BY <1>3, <1>4, <1>6, <1>7, <2>1, <2>3, Places DEF HandInv, Base
  <2>  QED  BY <2>2, <2>3, Places
<1>10. FrameInv'
  <2>1. CASE s = "client"  BY <1>3, <1>4, <1>6, <1>7, <2>1, Places, FrameKeeps
  <2>2. CASE s = "server"  BY <1>3, <1>4, <1>6, <1>7, <2>2, Places, FrameKeeps
  <2>  QED  BY <2>1, <2>2, Places
<1>  QED  BY <1>8, <1>9, <1>10

(* A key that is sent stands in front of everything the side writes.       *)
LEMMA SendKeyStep ==
  ASSUME FramingInv, NEW s \in Side, sendPublicKey(s)
  PROVE  FramingInv'
<1>  USE DEF FramingInv
<1>  DEFINE o == Other(s)
            L == Len(Key[s]) + 1
<1>1. o \in Side /\ o # s /\ Other(o) = s  BY DEF Other, Side
<1>2. /\ KeyMsg(s) \in Seq(Nat) /\ Len(KeyMsg(s)) = L /\ L \in Nat /\ L > 1
      /\ Len(Key["client"]) \in Nat /\ Len(Key["server"]) \in Nat
  <2>1. KeyMsg(s) \in Seq(Nat) /\ Len(KeyMsg(s)) = Len(Key[s]) + 1 /\ Len(Key[s]) \in Nat \ {0}
    BY KeyMsgs
  <2>2. \A r \in Side : Len(Key[r]) \in Nat  BY KeyMsgs
  <2>  QED  BY <2>1, <2>2, Places
<1>3. pc[s] = "sendKey" /\ bytes[s] = <<>> /\ Len(bytes[s]) = 0 /\ read[s] = 0
  <2>1. bytes[s] = <<>>  BY DEF sendPublicKey, HandInv
  <2>2. Len(bytes[s]) = 0  BY <2>1, EmptySeq
  <2>3. read[s] \in Nat /\ arrived[s] \in Nat /\ read[s] <= arrived[s] /\ arrived[s] <= 0
    BY <2>2, Numbers
  <2>  QED  BY <2>1, <2>2, <2>3 DEF sendPublicKey
<1>4. CASE /\ Write(s, KeyMsg(s))
           /\ need' = [need EXCEPT ![s] = IF After(s) = "done" THEN v1HeaderSize ELSE @]
           /\ HandshakeMoves(s) /\ UNCHANGED <<key, ctxDone, put, got>>
  <2>1. Adds(s, KeyMsg(s), L) /\ UNCHANGED <<arrived, read, lost>>  BY <1>2, <1>4, Written
  <2>2. /\ bytes' \in [Side -> Seq(Nat)] /\ bytes'[o] = bytes[o] /\ Len(bytes'[s]) = L
        /\ \A i \in 1 .. L : bytes'[s][i] = KeyMsg(s)[i]
    BY <1>2, <1>3, <2>1 DEF Adds
  <2>3. After(s) = IF s = "client" THEN "keySize" ELSE "done"  BY <1>3, Places
  <2>4. /\ pc' = [pc EXCEPT ![s] = IF s = "client" THEN "keySize" ELSE ReadLoop]
        /\ deadline' = [deadline EXCEPT ![s] = s = "client"]
        /\ need' = [need EXCEPT ![s] = IF s = "client" THEN @ ELSE 2]
    <3>1. CASE s = "client"
      BY <1>4, <2>3, <3>1 DEF HandshakeMoves
    <3>2. CASE s = "server"
      <4>1. v1HeaderSize = 2  BY DEF v1HeaderSize, v1HeaderPayloadSize
      <4>  QED  BY <1>4, <2>3, <3>2, <4>1 DEF HandshakeMoves
    <3>  QED  BY <3>1, <3>2, Places
  <2>5. /\ pc'[s] = (IF s = "client" THEN "keySize" ELSE ReadLoop) /\ pc'[o] = pc[o]
        /\ deadline'[s] = (s = "client") /\ deadline'[o] = deadline[o]
        /\ need'[s] = (IF s = "client" THEN need[s] ELSE 2) /\ need'[o] = need[o]
    BY <1>1, <2>4 DEF Types, FramingTypeOK
  <2>6. Types'
    <3>1. pc' \in [Side -> AnyPlace]  BY <2>4 DEF Types, AnyPlace, ReadLoop
    <3>2. deadline' \in [Side -> BOOLEAN] /\ need' \in [Side -> Nat]
      BY <2>4, Numbers DEF Types, FramingTypeOK
    <3>3. ASSUME NEW r \in Side  PROVE read'[r] <= arrived'[r] /\ arrived'[r] <= Len(bytes'[r])
      <4>1. CASE r = s
        <5>1. arrived[s] \in Nat /\ read[s] <= arrived[s] /\ arrived[s] <= 0  BY <1>3, Numbers
        <5>  QED  BY <1>2, <2>1, <2>2, <4>1, <5>1
      <4>2. CASE r = o  BY <1>1, <2>1, <2>2, <4>2, Numbers
      <4>  QED  BY <1>1, <4>1, <4>2 DEF Side
    <3>4. /\ pc'["client"] \in {"sendKey", "keySize", "key", "open", "broken", "failed", "closed"}
          /\ pc'["server"] \in {"keySize", "key", "sendKey", "header", "payload", "dropped", "closed"}
      BY <2>5, Places DEF Types, FramingTypeOK, ReadLoop
    <3>  QED  BY <1>4, <2>1, <2>2, <3>1, <3>2, <3>3, <3>4 DEF Types, FramingTypeOK
  <2>7. HandInv'
    <3>1. \A r \in Side : \A i \in 1 .. Len(bytes'[r]) :
            i <= Len(Key[r]) + 1 => bytes'[r][i] = KeyMsg(r)[i]
      BY SMTT(20), <1>1, <2>2 DEF HandInv, Side
    <3>2. CASE s = "client"
      <4>1. /\ pc["client"] = "sendKey" /\ pc'["client"] = "keySize" /\ pc'["server"] = pc["server"]
            /\ deadline'["server"] = deadline["server"] /\ need' = need
            /\ bytes'["server"] = bytes["server"] /\ read' = read /\ key' = key
        <5>1. need' = need  BY <1>1, <2>4, <2>5, <3>2, Places DEF Types, FramingTypeOK
        <5>  QED  BY <1>3, <1>4, <2>1, <2>2, <2>5, <3>2, <5>1, Places
      <4>2. need["client"] = 1 /\ read["server"] = 0 /\ read["client"] = 0
        BY <1>3, <3>2, <4>1 DEF HandInv
      <4>  QED  BY <3>1, <4>1, <4>2, Places DEF HandInv
    <3>3. CASE s = "server"
      <4>1. /\ pc["server"] = "sendKey" /\ pc'["client"] = pc["client"]
            /\ pc'["server"] \in {"header", "closed"}
            /\ deadline'["server"] = FALSE /\ need'["client"] = need["client"]
            /\ bytes'["client"] = bytes["client"] /\ read' = read /\ key' = key
        BY <1>3, <1>4, <2>1, <2>2, <2>5, <3>3, Places DEF ReadLoop
      <4>2. read["client"] = Base /\ key["server"] = Key["client"] /\ Base \in Nat
        BY <1>2, <4>1 DEF HandInv, Base
      <4>  QED  BY <3>1, <4>1, <4>2, Places DEF HandInv
    <3>  QED  BY <3>2, <3>3, Places
  <2>8. FrameInv'
    <3>1. CASE s = "client"
      <4>1. pc["server"] \in {"keySize", "key", "dropped"} /\ pc'["server"] = pc["server"]
        <5>1. read["client"] = 0 /\ Base \in Nat /\ Base > 0 /\ pc'["server"] = pc["server"]
          BY <1>2, <1>3, <2>5, <3>1, Places DEF Base
        <5>2. read["client"] # Base /\ ~(read["client"] >= Base)  BY <5>1
        <5>3. pc["server"] \notin {"sendKey", "header", "payload", "closed"}  BY <5>2 DEF HandInv
        <5>  QED  BY <5>1, <5>3 DEF Types, FramingTypeOK
      <4>2. put = <<>> /\ put' = <<>> /\ got' = got /\ Len(<<>>) = 0 /\ Len(got) \in Nat
        BY <1>3, <1>4, <3>1, EmptySeq, LenProperties DEF FrameInv, Types, FramingTypeOK
      <4>3. Len(bytes'["client"]) = Base  BY <2>2, <3>1 DEF Base
      <4>  DEFINE pos == [i \in 1 .. 1 |-> Base]
      <4>4. pos \in [1 .. 1 -> Nat] /\ pos[1] = Base  BY <1>2 DEF Base
      <4>  HIDE DEF pos
      <4>5. Layout(pos)'  BY <4>2, <4>4 DEF Layout
      <4>6. Rest(pos)'  BY <4>2, <4>3, <4>4 DEF Rest, End
      <4>7. Reader(pos)'  BY <4>1 DEF Reader
      <4>8. \E r : Layout(r)' /\ Rest(r)' /\ Reader(r)'  BY <4>5, <4>6, <4>7
      <4>9. Base \in Nat  BY <1>2 DEF Base
      <4>10. pc'["server"] # "closed"  BY <4>1
      <4>  QED  BY <4>1, <4>2, <4>3, <4>8, <4>9, <4>10 DEF FrameInv
    <3>2. CASE s = "server"
      <4>1. /\ pc'["server"] = "header" \/ (pc'["server"] = "closed" /\ ctxDone')
            /\ pc'["client"] = pc["client"] /\ need'["server"] = 2
            /\ bytes'["client"] = bytes["client"] /\ read'["client"] = read["client"]
            /\ lost' = lost /\ UNCHANGED <<put, got>>
        BY <1>4, <2>1, <2>2, <2>5, <3>2, Places DEF ReadLoop
      <4>2. read["client"] = Base /\ got = <<>> /\ Len(got) = 0
        BY <1>3, <3>2, EmptySeq DEF HandInv, FrameInv
      <4>3. Len(bytes["client"]) >= Base /\ Base \in Nat
        BY SMTT(20), <1>2, <4>2, Numbers, Places DEF Base
      <4>4. PICK pos : Layout(pos) /\ Rest(pos)  BY <4>3 DEF FrameInv
      <4>5. Layout(pos)' /\ Rest(pos)'  BY <4>1, <4>4 DEF Layout, Rest, End
      <4>6. Reader(pos)'  BY <4>1, <4>2, <4>4 DEF Reader, Layout
      <4>7. \E r : Layout(r)' /\ Rest(r)' /\ Reader(r)'  BY <4>5, <4>6
      <4>  QED  BY <4>1, <4>3, <4>7 DEF FrameInv
    <3>  QED  BY <3>1, <3>2, Places
  <2>  QED  BY <2>6, <2>7, <2>8
<1>5. CASE WriteCut(s, KeyMsg(s)) /\ HandshakeFails(s)
  <2>1. PICK n \in 0 .. L - 1 : Adds(s, KeyMsg(s), n)  BY <1>2, <1>5, WrittenCut
  <2>2. /\ bytes' \in [Side -> Seq(Nat)] /\ bytes'[o] = bytes[o] /\ Len(bytes'[s]) = n
        /\ \A i \in 1 .. n : bytes'[s][i] = KeyMsg(s)[i]
    BY <1>3, <2>1 DEF Adds
  <2>3. /\ lost' = TRUE /\ read' = read /\ arrived' \in [Side -> Nat]
        /\ arrived'[o] = arrived[o] /\ arrived'[s] >= arrived[s] /\ arrived'[s] <= Len(bytes'[s])
    BY <1>2, <1>5, WrittenCut
  <2>4. /\ pc' = [pc EXCEPT ![s] = IF s = "client" THEN "failed" ELSE "dropped"]
        /\ deadline' = [deadline EXCEPT ![s] = FALSE] /\ UNCHANGED <<need, key, ctxDone, put, got>>
    BY <1>5 DEF HandshakeFails
  <2>5. /\ pc'[s] = (IF s = "client" THEN "failed" ELSE "dropped") /\ pc'[o] = pc[o]
        /\ deadline'[s] = FALSE /\ deadline'[o] = deadline[o]
    BY <1>1, <2>4 DEF Types, FramingTypeOK
  <2>6. Types'
    <3>1. pc' \in [Side -> AnyPlace]  BY <2>4 DEF Types, AnyPlace
    <3>2. deadline' \in [Side -> BOOLEAN]  BY <2>4 DEF Types, FramingTypeOK
    <3>3. ASSUME NEW r \in Side  PROVE read'[r] <= arrived'[r] /\ arrived'[r] <= Len(bytes'[r])
      BY SMTT(20), <1>1, <1>3, <2>2, <2>3, Numbers DEF Side
    <3>4. /\ pc'["client"] \in {"sendKey", "keySize", "key", "open", "broken", "failed", "closed"}
          /\ pc'["server"] \in {"keySize", "key", "sendKey", "header", "payload", "dropped", "closed"}
      BY <2>5, Places DEF Types, FramingTypeOK
    <3>  QED  BY <2>2, <2>3, <2>4, <3>1, <3>2, <3>3, <3>4 DEF Types, FramingTypeOK
  <2>7. HandInv'
    <3>1. \A r \in Side : \A i \in 1 .. Len(bytes'[r]) :
            i <= Len(Key[r]) + 1 => bytes'[r][i] = KeyMsg(r)[i]
      <4>1. \A i \in 1 .. Len(bytes'[s]) : bytes'[s][i] = KeyMsg(s)[i]  BY <2>2
      <4>2. \A i \in 1 .. Len(bytes'[o]) : i <= Len(Key[o]) + 1 => bytes'[o][i] = KeyMsg(o)[i]
        BY <1>1, <2>2 DEF HandInv
      <4>  QED  BY <1>1, <4>1, <4>2 DEF Side
    <3>2. CASE s = "client"
      BY <1>2, <1>3, <2>2, <2>3, <2>4, <2>5, <3>1, <3>2, Places DEF HandInv
    <3>3. CASE s = "server"
      <4>1. /\ pc'["server"] = "dropped" /\ pc'["client"] = pc["client"]
            /\ deadline'["server"] = FALSE /\ need' = need /\ key' = key
            /\ bytes'["client"] = bytes["client"] /\ read' = read
        BY <2>2, <2>3, <2>4, <2>5, <3>3, Places
      <4>2. Len(bytes'["server"]) <= Len(Key["server"])  BY <1>2, <2>2, <3>3
      <4>  QED  BY <3>1, <4>1, <4>2, Places DEF HandInv
    <3>  QED  BY <3>2, <3>3, Places
  <2>8. FrameInv'
    <3>1. CASE s = "client"
      <4>1. Len(bytes'["client"]) < Base /\ Len(bytes'["client"]) \in Nat /\ Base \in Nat
        BY <1>2, <2>2, <3>1 DEF Base
      <4>2. put' = <<>> /\ put = <<>> /\ got' = got /\ pc'["client"] = "failed"
        BY <1>3, <2>4, <2>5, <3>1 DEF FrameInv
      <4>3. pc["server"] \in {"keySize", "key", "dropped"} /\ pc'["server"] = pc["server"]
        <5>1. read["client"] = 0 /\ Base \in Nat /\ Base > 0 /\ pc'["server"] = pc["server"]
          BY <1>2, <1>3, <2>5, <3>1, Places DEF Base
        <5>2. read["client"] # Base /\ ~(read["client"] >= Base)  BY <5>1
        <5>3. pc["server"] \notin {"sendKey", "header", "payload", "closed"}  BY <5>2 DEF HandInv
        <5>  QED  BY <5>1, <5>3 DEF Types, FramingTypeOK
      <4>  QED  BY <4>1, <4>2, <4>3 DEF FrameInv
    <3>2. CASE s = "server"
      BY <1>3, <2>2, <2>3, <2>4, <2>5, <3>2, Places, FrameKeeps
    <3>  QED  BY <3>1, <3>2, Places
  <2>  QED  BY <2>6, <2>7, <2>8
<1>  QED  BY <1>4, <1>5 DEF sendPublicKey, KeyMsg

-----------------------------------------------------------------------------
(***************************************************************************)
(* Frames.                                                                 *)
(***************************************************************************)

LEMMA Laid ==
  ASSUME Types, FrameInv, NEW pos, Layout(pos)
  PROVE  /\ put \in Seq(Msg) /\ Len(put) \in Nat /\ got \in Seq(Msg) /\ Len(got) \in 0 .. Len(put)
         /\ \A i \in 1 .. Len(put) + 1 : pos[i] \in Nat
         /\ \A i \in 1 .. Len(put) :
              /\ put[i] \in Msg /\ Size(put[i]) \in Nat /\ Size(put[i]) > 2
              /\ pos[i + 1] = pos[i] + Size(put[i])
              /\ pos[i + 1] <= Len(bytes["client"])
<1>1. put \in Seq(Msg) /\ Len(put) \in Nat /\ got \in Seq(Msg) /\ Len(got) \in Nat
  BY LenProperties DEF Types, FramingTypeOK
<1>2. \A i \in 1 .. Len(put) : put[i] \in Msg  BY <1>1, ElementOfSeq
<1>3. \A i \in 1 .. Len(put) : Size(put[i]) \in Nat /\ Size(put[i]) > 2  BY <1>2, Frames
<1>4. \A i \in 1 .. Len(put) + 1 : pos[i] \in Nat  BY DEF Layout
<1>5. Len(got) \in 0 .. Len(put)  BY <1>1 DEF FrameInv
<1>  QED  BY <1>1, <1>2, <1>3, <1>4, <1>5 DEF Layout

(* A frame is written in one go, or the connection is broken for good.     *)
LEMMA WriteFrameStep ==
  ASSUME FramingInv, NEW m \in Msg, WriteFrame(m)
  PROVE  FramingInv'
<1>  USE DEF FramingInv
<1>  DEFINE c == "client"
            w == Len(bytes[c])
            F == FrameOf(m)
            L == Size(m)
<1>1. c \in Side /\ Other(c) = "server" /\ pc[c] = "open" /\ got' = got
  BY Places DEF WriteFrame
<1>2. F \in Seq(Nat) /\ Len(F) = L /\ L \in Nat /\ L > 2  BY Frames
<1>3. w \in Nat /\ Base \in Nat /\ w >= Base  BY <1>1, Numbers, KeyMsgs, Places DEF FrameInv, Base
<1>4. PICK pos : Layout(pos) /\ Rest(pos) /\ Reader(pos)  BY <1>3 DEF FrameInv
<1>5. w = End(pos)  BY <1>1, <1>4 DEF Rest
<1>0. w = Len(bytes[c]) /\ L = Size(m) /\ F = FrameOf(m)  OBVIOUS
<1>  HIDE DEF w, L, F
<1>6. ASSUME NEW n \in 0 .. L, Adds(c, F, n)
      PROVE  /\ bytes' \in [Side -> Seq(Nat)] /\ bytes'["server"] = bytes["server"]
             /\ Len(bytes'[c]) = w + n
             /\ \A i \in 1 .. w : bytes'[c][i] = bytes[c][i]
             /\ \A k \in 1 .. n : bytes'[c][w + k] = F[k]
             /\ \A i \in 1 .. Len(bytes'[c]) : i <= Len(Key[c]) + 1 => bytes'[c][i] = KeyMsg(c)[i]
             /\ \A i \in 1 .. Len(put) : /\ pos[i + 1] <= Len(bytes'[c])
                                         /\ \A k \in 1 .. Size(put[i]) :
                                              bytes'[c][pos[i] + k] = FrameOf(put[i])[k]
  <2>1. /\ bytes' \in [Side -> Seq(Nat)] /\ bytes'["server"] = bytes["server"]
        /\ Len(bytes'[c]) = w + n
        /\ \A i \in 1 .. w : bytes'[c][i] = bytes[c][i]
        /\ \A k \in 1 .. n : bytes'[c][w + k] = F[k]
    BY <1>0, <1>1, <1>6 DEF Adds
  <2>0. Len(bytes'[c]) = w + n /\ n \in Nat /\ w \in Nat  BY <1>2, <1>3, <2>1
  <2>2. ASSUME NEW i \in 1 .. Len(bytes'[c]), i <= Len(Key[c]) + 1
        PROVE  bytes'[c][i] = KeyMsg(c)[i]
    <3>1. i \in 1 .. w  BY <1>2, <1>3, <2>1, <2>2 DEF Base
    <3>2. bytes[c][i] = KeyMsg(c)[i]  BY <1>0, <1>1, <2>2, <3>1 DEF HandInv
    <3>  QED  BY <2>1, <3>1, <3>2
  <2>3. ASSUME NEW i \in 1 .. Len(put)
        PROVE  /\ pos[i + 1] <= Len(bytes'[c])
               /\ \A k \in 1 .. Size(put[i]) :
                    bytes'[c][pos[i] + k] = FrameOf(put[i])[k]
    <3>1. /\ pos[i] \in Nat /\ pos[i + 1] = pos[i] + Size(put[i]) /\ pos[i + 1] <= w
          /\ Size(put[i]) \in Nat
      BY <1>0, <1>4, Laid
    <3>2. pos[i + 1] <= Len(bytes'[c])  BY <2>0, <3>1
    <3>3. ASSUME NEW k \in 1 .. Size(put[i])
          PROVE  bytes'[c][pos[i] + k] = FrameOf(put[i])[k]
      <4>1. pos[i] + k \in 1 .. w
        <5>1. w \in Nat  BY <2>0
        <5>2. pos[i] + Size(put[i]) <= w  BY <3>1
        <5>  QED  BY <3>1, <5>1, <5>2, Inside
      <4>2. bytes[c][pos[i] + k] = FrameOf(put[i])[k]  BY <1>4 DEF Layout
      <4>  QED  BY <2>1, <4>1, <4>2
    <3>  QED  BY <3>2, <3>3
  <2>  QED  BY <2>1, <2>2, <2>3
<1>7. CASE Write(c, F) /\ put' = Append(put, m) /\ UNCHANGED ends
  <2>1. Adds(c, F, L) /\ UNCHANGED <<arrived, read, lost>>  BY <1>1, <1>2, <1>7, Written
  <2>2. UNCHANGED <<pc, need, key, deadline, ctxDone>>  BY <1>7 DEF ends
  <2>3. /\ bytes' \in [Side -> Seq(Nat)] /\ bytes'["server"] = bytes["server"]
        /\ Len(bytes'[c]) = w + L
        /\ \A k \in 1 .. L : bytes'[c][w + k] = F[k]
        /\ \A i \in 1 .. Len(bytes'[c]) : i <= Len(Key[c]) + 1 => bytes'[c][i] = KeyMsg(c)[i]
        /\ \A i \in 1 .. Len(put) : /\ pos[i + 1] <= Len(bytes'[c])
                                    /\ \A k \in 1 .. Size(put[i]) :
                                         bytes'[c][pos[i] + k] = FrameOf(put[i])[k]
    <3>1. L \in 0 .. L  BY <1>2
    <3>  QED  BY <1>6, <2>1, <3>1
  <2>4. /\ put' \in Seq(Msg) /\ Len(put') = Len(put) + 1 /\ Len(put) \in Nat
        /\ \A i \in 1 .. Len(put) : put'[i] = put[i]
        /\ put'[Len(put) + 1] = m /\ Len(got) \in 0 .. Len(put)
    BY <1>4, <1>7, Laid, AppendProperties
  <2>5. Types'
    <3>1. ASSUME NEW r \in Side  PROVE read'[r] <= arrived'[r] /\ arrived'[r] <= Len(bytes'[r])
      <4>1. CASE r = c
        <5>1. read[c] <= arrived[c] /\ arrived[c] <= w /\ arrived[c] \in Nat
          BY <1>0, <1>1, Numbers
        <5>  QED  BY <1>2, <1>3, <2>1, <2>3, <4>1, <5>1
      <4>2. CASE r = "server"  BY <1>1, <2>1, <2>3, <4>2, Numbers, Places
      <4>  QED  BY <4>1, <4>2, Places
    <3>  QED  BY <1>1, <2>1, <2>2, <2>3, <2>4, <3>1 DEF Types, FramingTypeOK
  <2>6. HandInv'
    <3>1. \A r \in Side : \A i \in 1 .. Len(bytes'[r]) :
            i <= Len(Key[r]) + 1 => bytes'[r][i] = KeyMsg(r)[i]
      <4>1. \A i \in 1 .. Len(bytes'["server"]) :
              i <= Len(Key["server"]) + 1 => bytes'["server"][i] = KeyMsg("server")[i]
        BY <2>3, Places DEF HandInv
      <4>  QED  BY <2>3, <4>1, Places
    <3>  QED  BY <1>1, <2>1, <2>2, <2>3, <3>1, Places DEF HandInv
  <2>7. FrameInv'
    <3>  DEFINE N == Len(put)
    <3>0. N \in Nat /\ Len(put) = N /\ Len(put') = N + 1 /\ Len(put') + 1 = N + 2
          /\ Len(got) \in 0 .. N /\ 1 \in 1 .. N + 1
      BY <2>4
    <3>a. w \in Nat /\ L \in Nat /\ w + L = w + Size(m) /\ Len(bytes'[c]) = w + L
      <4>1. L = Size(m) /\ w \in Nat /\ L \in Nat  BY <1>0, <1>2, <1>3
      <4>2. Len(bytes'[c]) = w + L  BY <2>3
      <4>  QED  BY <4>1, <4>2
    <3>  HIDE DEF N
    <3>1. pos[N + 1] = w /\ pos[1] = Base /\ \A i \in 1 .. N + 1 : pos[i] \in Nat
      BY <1>4, <1>5, Laid DEF End, Layout, N
    <3>2. PICK new : /\ new \in [1 .. N + 2 -> Nat] /\ new[N + 2] = w + L
                     /\ \A i \in 1 .. N + 1 : new[i] = pos[i]
      <4>  DEFINE n == [i \in 1 .. N + 2 |-> IF i <= N + 1 THEN pos[i] ELSE w + L]
      <4>1. n \in [1 .. N + 2 -> Nat] /\ n[N + 2] = w + L /\ \A i \in 1 .. N + 1 : n[i] = pos[i]
        BY <3>0, <3>a, <3>1
      <4>  QED  BY <4>1
    <3>3. ASSUME NEW i \in 1 .. N + 1
          PROVE  /\ new[i + 1] = new[i] + Size(put'[i])
                 /\ new[i + 1] <= Len(bytes'[c])
                 /\ \A k \in 1 .. Size(put'[i]) :
                      bytes'[c][new[i] + k] = FrameOf(put'[i])[k]
      <4>1. CASE i \in 1 .. N
        <5>a. i \in 1 .. N + 1 /\ i + 1 \in 1 .. N + 1 /\ i \in 1 .. Len(put)  BY <3>0, <4>1
        <5>1. new[i] = pos[i] /\ new[i + 1] = pos[i + 1] /\ put'[i] = put[i]
          BY <2>4, <3>2, <5>a
        <5>2. pos[i + 1] = pos[i] + Size(put[i])  BY <1>4, <3>0, <4>1, Laid
        <5>  QED  BY <2>3, <3>0, <4>1, <5>1, <5>2
      <4>2. CASE i = N + 1
        <5>1. /\ new[i] = w /\ new[i + 1] = w + L /\ put'[i] = m
          BY <2>4, <3>0, <3>1, <3>2, <4>2
        <5>2. \A k \in 1 .. Size(m) : bytes'[c][w + k] = FrameOf(m)[k]
          BY <1>0, <2>3
        <5>3. w + L <= Len(bytes'[c]) /\ w + L = w + Size(m)  BY <3>a
        <5>  QED  BY <5>1, <5>2, <5>3
      <4>  QED  BY <3>0, <4>1, <4>2
    <3>4. Layout(new)'
      <4>1. new \in [1 .. Len(put') + 1 -> Nat] /\ new[1] = Base  BY <3>0, <3>1, <3>2
      <4>2. \A i \in 1 .. Len(put') : i \in 1 .. N + 1  BY <3>0
      <4>3. \A i \in 1 .. Len(put') :
              /\ new[i + 1] = new[i] + Size(put'[i])
              /\ new[i + 1] <= Len(bytes'[c])
              /\ \A k \in 1 .. Size(put'[i]) :
                   bytes'[c][new[i] + k] = FrameOf(put'[i])[k]
        BY <3>3, <4>2
      <4>  QED  BY <4>1, <4>3 DEF Layout
    <3>5. Rest(new)'
      <4>1. End(new)' = w + L
        <5>1. End(new)' = new[Len(put') + 1]  BY DEF End
        <5>  QED  BY <3>0, <3>2, <5>1
      <4>  QED  BY <3>a, <4>1 DEF Rest
    <3>6. Reader(new)'
      <4>1. new[Len(got) + 1] = pos[Len(got) + 1]  BY <3>0, <3>2
      <4>2. Len(got) < Len(put) => /\ Len(got) < Len(put')
                                   /\ put'[Len(got) + 1] = put[Len(got) + 1]
        <5>1. Len(got) < Len(put) => Len(got) + 1 \in 1 .. Len(put) /\ Len(got) < Len(put')
          BY <3>0
        <5>  QED  BY <2>4, <5>1
      <4>  QED  BY <1>1, <1>4, <2>1, <2>2, <4>1, <4>2 DEF Reader
    <3>7. \E r : Layout(r)' /\ Rest(r)' /\ Reader(r)'  BY <3>4, <3>5, <3>6
    <3>8. Len(got') <= Len(put') /\ \A i \in 1 .. Len(got') : got'[i] = put'[i]
      BY <1>1, <2>4 DEF FrameInv
    <3>9. Len(bytes'[c]) >= Base  BY <1>2, <1>3, <2>3
    <3>10. ~(Len(bytes'[c]) < Base)  BY <1>2, <1>3, <2>3
    <3>  QED  BY <1>1, <2>1, <2>2, <3>7, <3>8, <3>9, <3>10 DEF FrameInv
  <2>  QED  BY <2>5, <2>6, <2>7
<1>8. CASE /\ WriteCut(c, F) /\ pc' = [pc EXCEPT ![c] = "broken"]
           /\ UNCHANGED <<need, key, deadline, ctxDone, put>>
  <2>1. PICK n \in 0 .. L - 1 : Adds(c, F, n)  BY <1>1, <1>2, <1>8, WrittenCut
  <2>2. /\ lost' = TRUE /\ read' = read /\ arrived' \in [Side -> Nat]
        /\ arrived'["server"] = arrived["server"] /\ arrived'[c] >= arrived[c]
        /\ arrived'[c] <= Len(bytes'[c])
    BY <1>1, <1>2, <1>8, WrittenCut
  <2>3. /\ bytes' \in [Side -> Seq(Nat)] /\ bytes'["server"] = bytes["server"]
        /\ Len(bytes'[c]) = w + n
        /\ \A k \in 1 .. n : bytes'[c][w + k] = F[k]
        /\ \A i \in 1 .. Len(bytes'[c]) : i <= Len(Key[c]) + 1 => bytes'[c][i] = KeyMsg(c)[i]
        /\ \A i \in 1 .. Len(put) : /\ pos[i + 1] <= Len(bytes'[c])
                                    /\ \A k \in 1 .. Size(put[i]) :
                                         bytes'[c][pos[i] + k] = FrameOf(put[i])[k]
    <3>1. n \in 0 .. L  BY <1>2
    <3>  QED  BY <1>6, <2>1, <3>1
  <2>4. pc'[c] = "broken" /\ pc'["server"] = pc["server"]  BY <1>8, Places DEF Types
  <2>5. Types'
    <3>1. pc' \in [Side -> AnyPlace]  BY <1>8 DEF Types, AnyPlace
    <3>2. ASSUME NEW r \in Side  PROVE read'[r] <= arrived'[r] /\ arrived'[r] <= Len(bytes'[r])
      <4>1. CASE r = c
        <5>1. arrived'[c] \in Nat /\ Len(bytes'[c]) \in Nat  BY <1>1, <1>2, <1>3, <2>2, <2>3
        <5>  QED  BY <1>1, <2>2, <4>1, <5>1, Numbers
      <4>2. CASE r = "server"  BY <2>2, <2>3, <4>2, Numbers, Places
      <4>  QED  BY <4>1, <4>2, Places
    <3>  QED  BY <1>1, <1>8, <2>2, <2>3, <2>4, <3>1, <3>2 DEF Types, FramingTypeOK
  <2>6. HandInv'
    <3>1. \A r \in Side : \A i \in 1 .. Len(bytes'[r]) :
            i <= Len(Key[r]) + 1 => bytes'[r][i] = KeyMsg(r)[i]
      <4>1. \A i \in 1 .. Len(bytes'["server"]) :
              i <= Len(Key["server"]) + 1 => bytes'["server"][i] = KeyMsg("server")[i]
        BY <2>3, Places DEF HandInv
      <4>  QED  BY <2>3, <4>1, Places
    <3>  QED  BY <1>1, <1>8, <2>2, <2>3, <2>4, <3>1, Places DEF HandInv
  <2>7. FrameInv'
    <3>1. Layout(pos)'  BY <1>4, <1>8, <2>3 DEF Layout
    <3>2. Rest(pos)'
      <4>1. End(pos)' = w  BY <1>5, <1>8 DEF End
      <4>2. Len(bytes'[c]) - w = n /\ Len(bytes'[c]) < w + Size(m)
            /\ Len(bytes'[c]) >= w
        <5>1. Len(bytes'[c]) = w + n /\ n \in Nat /\ n <= L - 1 /\ w \in Nat /\ L \in Nat
          BY <1>2, <1>3, <2>3
        <5>2. L = Size(m)  BY <1>0, <1>2
        <5>  QED  BY <5>1, <5>2
      <4>3. \A k \in 1 .. Len(bytes'[c]) - End(pos)' : bytes'[c][End(pos)' + k] = FrameOf(m)[k]
        <5>1. Len(bytes'[c]) - End(pos)' = n  BY <4>1, <4>2
        <5>2. \A k \in 1 .. n : bytes'[c][w + k] = FrameOf(m)[k]  BY <1>0, <2>3
        <5>  QED  BY <4>1, <5>1, <5>2
      <4>4. /\ lost' /\ pc'[c] \in {"broken", "closed"}
            /\ Len(bytes'[c]) >= End(pos)' /\ Len(bytes'[c]) < End(pos)' + Size(m)
        BY <2>2, <2>4, <4>1, <4>2
      <4>  QED  BY ZenonT(30), <1>0, <4>3, <4>4 DEF Rest
    <3>3. Reader(pos)'  BY <1>1, <1>4, <1>8, <2>2, <2>4 DEF Reader
    <3>4. \E r : Layout(r)' /\ Rest(r)' /\ Reader(r)'  BY <3>1, <3>2, <3>3
    <3>5. ~(Len(bytes'[c]) < Base)  BY <1>3, <2>3
    <3>  QED  BY <1>1, <1>8, <2>2, <2>4, <3>4, <3>5 DEF FrameInv
  <2>  QED  BY <2>5, <2>6, <2>7
<1>  QED  BY <1>0, <1>7, <1>8 DEF WriteFrame

(* A read of the read loop leaves the handshake and the frames laid out in *)
(* the client's bytes as they are.                                         *)
LEMMA ReadKeeps ==
  ASSUME FramingInv, pc["server"] \in {"header", "payload"}, NEW n \in Nat, ReadFull("server", n),
         NEW p \in {"header", "payload", "closed"}, NEW d \in Nat,
         pc' = [pc EXCEPT !["server"] = p], need' = [need EXCEPT !["server"] = d],
         got' \in Seq(Msg), UNCHANGED <<key, deadline, ctxDone, put>>
  PROVE  /\ Types' /\ HandInv'
         /\ pc'["client"] = pc["client"] /\ pc'["server"] = p /\ need'["server"] = d
         /\ read'["client"] = read["client"] + n /\ read["client"] \in Nat
         /\ n = need["server"] /\ read["client"] + n <= Len(bytes["client"])
         /\ Len(bytes["client"]) \in Nat
         /\ Base \in Nat /\ Len(bytes["client"]) >= Base
         /\ UNCHANGED <<bytes, lost>>
         /\ Taken("server", n) \in Seq(Nat) /\ Len(Taken("server", n)) = n
         /\ \A k \in 1 .. n : Taken("server", n)[k] = bytes["client"][read["client"] + k]
<1>  USE DEF FramingInv
<1>1. /\ n = need["server"] /\ UNCHANGED <<bytes, arrived, lost>>
      /\ read' \in [Side -> Nat] /\ read'["server"] = read["server"]
      /\ read'["client"] = read["client"] + n
      /\ read'["client"] <= arrived["client"] /\ arrived["client"] <= Len(bytes["client"])
      /\ Taken("server", n) \in Seq(Nat) /\ Len(Taken("server", n)) = n
      /\ \A k \in 1 .. n : Taken("server", n)[k] = bytes["client"][read["client"] + k]
  BY WasRead, Places
<1>2. /\ pc'["client"] = pc["client"] /\ pc'["server"] = p
      /\ need'["server"] = d /\ need'["client"] = need["client"]
  BY Places DEF Types, FramingTypeOK
<1>3. /\ read["client"] \in Nat /\ arrived["client"] \in Nat /\ Len(bytes["client"]) \in Nat
      /\ Base \in Nat
  BY Numbers, KeyMsgs, Places DEF Base
<1>4. read["client"] >= Base  BY DEF HandInv
<1>5. Types'
  <2>1. pc' \in [Side -> AnyPlace] /\ need' \in [Side -> Nat]  BY DEF Types, AnyPlace, FramingTypeOK
  <2>2. ASSUME NEW r \in Side  PROVE read'[r] <= arrived'[r] /\ arrived'[r] <= Len(bytes'[r])
    BY <1>1, Numbers, Places
  <2>  QED  BY <1>1, <1>2, <2>1, <2>2 DEF Types, FramingTypeOK
<1>6. HandInv'  BY SMTT(20), <1>1, <1>2, <1>3, <1>4, Places DEF HandInv
<1>7. read["client"] + n <= Len(bytes["client"]) /\ Len(bytes["client"]) >= Base
  BY <1>1, <1>3, <1>4
<1>  QED  BY <1>1, <1>2, <1>3, <1>5, <1>6, <1>7

LEMMA ReaderIsPastTheKey ==
  ASSUME FramingInv, pc["server"] \in {"header", "payload"}
  PROVE  /\ read["client"] >= Base /\ Base \in Nat /\ need["server"] \in Nat
         /\ read["client"] \in Nat /\ read["client"] <= Len(bytes["client"])
         /\ Len(bytes["client"]) \in Nat /\ Len(bytes["client"]) >= Base
<1>1. read["client"] >= Base  BY DEF FramingInv, HandInv
<1>2. Base \in Nat  BY KeyMsgs, Places DEF Base
<1>3. "client" \in Side /\ "server" \in Side /\ Types  BY Places DEF FramingInv
<1>4. /\ read["client"] \in Nat /\ arrived["client"] \in Nat /\ Len(bytes["client"]) \in Nat
      /\ read["client"] <= arrived["client"] /\ arrived["client"] <= Len(bytes["client"])
      /\ need["server"] \in Nat
  BY <1>3, Numbers
<1>5. read["client"] <= Len(bytes["client"])  BY <1>4
<1>6. Len(bytes["client"]) >= Base  BY <1>1, <1>2, <1>4
<1>  QED  BY <1>1, <1>2, <1>4, <1>5, <1>6

(* A frame from a on with its z units, its header read.                    *)
LEMMA FrameSums ==
  ASSUME NEW a \in Nat, NEW n \in Nat, NEW z \in Nat, n + 2 = z
  PROVE  /\ a + 2 + n = a + z
         /\ \A k \in 1 .. n : k + 2 \in 1 .. z /\ a + 2 + k = a + (k + 2)
<1>  QED  OBVIOUS

(* A whole frame is never short of what the reader waits for.              *)
LEMMA NeverShort ==
  ASSUME NEW a \in Nat, NEW z \in Nat, NEW b \in Nat, NEW r \in Nat, NEW d \in Nat,
         z > 2, a + z <= b,
         (r = a /\ d = 2) \/ (r = a + 2 /\ d + 2 = z)
  PROVE  ~(b - r < d)
<1>  QED  OBVIOUS

(* The size in a header is that of the frame it stands in front of, and a  *)
(* frame that was cut is shorter than its header says.                     *)
LEMMA ReadHeaderStep ==
  ASSUME FramingInv, readHeader
  PROVE  FramingInv'
<1>  USE DEF FramingInv
<1>1. PICK n \in 0 .. need["server"] :
        /\ ReadFull("server", n)
        /\ need' = [need EXCEPT !["server"] = Taken("server", n)[n]]
  BY DEF readHeader
<1>2. /\ pc["server"] = "header" /\ pc' = [pc EXCEPT !["server"] = "payload"]
      /\ UNCHANGED <<key, deadline, ctxDone, put, got>>
  BY DEF readHeader
<1>3. /\ read["client"] >= Base /\ Base \in Nat /\ need["server"] \in Nat
      /\ read["client"] \in Nat /\ read["client"] <= Len(bytes["client"]) /\ Len(bytes["client"]) \in Nat
      /\ Len(bytes["client"]) >= Base
  BY <1>2, ReaderIsPastTheKey
<1>4. PICK pos : Layout(pos) /\ Rest(pos) /\ Reader(pos)  BY <1>3 DEF FrameInv
<1>5. read["client"] = pos[Len(got) + 1] /\ need["server"] = 2  BY <1>2, <1>4 DEF Reader
<1>6. n = 2
  <2>1. n \in Nat  BY <1>3
  <2>  QED  BY <1>1, <1>5, <2>1, WasRead, Places
<1>  DEFINE d == Taken("server", n)[2]
<1>7. d \in Nat
  <2>1. Taken("server", n) \in Seq(Nat) /\ Len(Taken("server", n)) = 2
    BY <1>1, <1>6, WasRead, Places
  <2>  QED  BY <2>1, ElementOfSeq
<1>8. need' = [need EXCEPT !["server"] = d]  BY <1>1, <1>6
<1>9. got' \in Seq(Msg)  BY <1>2 DEF Types, FramingTypeOK
<1>  HIDE DEF d
<1>10. /\ Types' /\ HandInv'
       /\ pc'["client"] = pc["client"] /\ pc'["server"] = "payload" /\ need'["server"] = d
       /\ read'["client"] = read["client"] + 2
       /\ read["client"] + 2 <= Len(bytes["client"])
       /\ UNCHANGED <<bytes, lost>>
       /\ d = bytes["client"][read["client"] + 2]
  <2>1. n \in Nat /\ 2 \in 1 .. n /\ pc["server"] \in {"header", "payload"}
        /\ "payload" \in {"header", "payload", "closed"}
    BY <1>2, <1>6
  <2>2. /\ Types' /\ HandInv'
        /\ pc'["client"] = pc["client"] /\ pc'["server"] = "payload" /\ need'["server"] = d
        /\ read'["client"] = read["client"] + n
        /\ read["client"] + n <= Len(bytes["client"])
        /\ UNCHANGED <<bytes, lost>>
        /\ \A k \in 1 .. n : Taken("server", n)[k] = bytes["client"][read["client"] + k]
    BY ZenonT(30), <1>1, <1>2, <1>7, <1>8, <1>9, <2>1, ReadKeeps
  <2>3. d = bytes["client"][read["client"] + 2]  BY <2>1, <2>2 DEF d
  <2>  QED  BY <1>6, <2>2, <2>3
<1>11. Layout(pos)' /\ Rest(pos)'  BY <1>2, <1>4, <1>10 DEF Layout, Rest, End
<1>12. /\ put \in Seq(Msg) /\ Len(put) \in Nat /\ Len(got) \in Nat /\ Len(got) <= Len(put)
       /\ \A i \in 1 .. Len(put) + 1 : pos[i] \in Nat
       /\ \A i \in 1 .. Len(put) : put[i] \in Msg
  BY <1>4, Laid
<1>13. Reader(pos)'
  <2>1. CASE Len(got) < Len(put)
    <3>1. Len(got) + 1 \in 1 .. Len(put)  BY <1>12, <2>1
    <3>2. PICK m \in Msg : m = put[Len(got) + 1]  BY <1>12, <3>1
    <3>3. 2 \in 1 .. Size(m) /\ FrameOf(m)[2] = Len(Payload[m])  BY Frames
    <3>4. bytes["client"][pos[Len(got) + 1] + 2] = FrameOf(put[Len(got) + 1])[2]
      BY <1>4, <3>1, <3>2, <3>3 DEF Layout
    <3>5. d = Len(Payload[m])  BY <1>5, <1>10, <3>2, <3>3, <3>4
    <3>6. Size(m) = d + 2  BY <3>5, Frames
    <3>7. read'["client"] = pos[Len(got) + 1] + 2  BY <1>5, <1>10
    <3>8. need'["server"] + 2 = Size(put'[Len(got') + 1])  BY <1>2, <1>10, <3>2, <3>6
    <3>9. Len(got') < Len(put') /\ got' = got  BY <1>2, <2>1
    <3>  QED  BY <1>10, <3>7, <3>8, <3>9 DEF Reader
  <2>2. CASE Len(got) = Len(put)
    <3>1. read["client"] = End(pos) /\ End(pos) \in Nat  BY <1>3, <1>5, <2>2 DEF End
    <3>2. Len(bytes["client"]) # End(pos)  BY <1>3, <1>10, <3>1
    <3>3. PICK m \in Msg :
            /\ lost /\ pc["client"] \in {"broken", "closed"}
            /\ Len(bytes["client"]) < End(pos) + Size(m)
            /\ \A k \in 1 .. Len(bytes["client"]) - End(pos) :
                 bytes["client"][End(pos) + k] = FrameOf(m)[k]
      BY <1>4, <3>2 DEF Rest
    <3>4. 2 \in 1 .. Len(bytes["client"]) - End(pos)  BY <1>3, <1>10, <3>1
    <3>5. d = Len(Payload[m])  BY <1>10, <3>1, <3>3, <3>4, Frames
    <3>6. Size(m) = d + 2  BY <3>5, Frames
    <3>7. read'["client"] + need'["server"] > Len(bytes'["client"])
      BY <1>3, <1>7, <1>10, <3>1, <3>3, <3>6
    <3>8. read'["client"] = pos[Len(got') + 1] + 2 /\ Len(got') = Len(put')
      BY <1>2, <1>5, <1>10, <2>2
    <3>  QED  BY <1>10, <3>3, <3>7, <3>8 DEF Reader
  <2>  QED  BY <1>12, <2>1, <2>2
<1>14. FrameInv'
  <2>1. \E r : Layout(r)' /\ Rest(r)' /\ Reader(r)'  BY <1>11, <1>13
  <2>2. ~(Len(bytes'["client"]) < Base)  BY <1>3, <1>10
  <2>  QED  BY <1>2, <1>10, <2>1, <2>2 DEF FrameInv
<1>  QED  BY <1>10, <1>14

(* The payload after the header is that of the next message written.       *)
LEMMA ReadPayloadStep ==
  ASSUME FramingInv, readPayload
  PROVE  /\ FramingInv'
         /\ Len(got) < Len(put) /\ got' = Append(got, put[Len(got) + 1]) /\ put' = put
<1>  USE DEF FramingInv
<1>1. PICK n \in 0 .. need["server"] :
        LET msgs == Decode(Taken("server", n))
        IN  /\ ReadFull("server", n)
            /\ got' = IF msgs = {} THEN got ELSE Append(got, CHOOSE m \in msgs : TRUE)
            /\ pc' = [pc EXCEPT !["server"] = IF msgs = {} THEN "closed" ELSE ReadLoop]
  BY DEF readPayload
<1>2. /\ pc["server"] = "payload" /\ need' = [need EXCEPT !["server"] = 2]
      /\ UNCHANGED <<key, deadline, ctxDone, put>>
  BY DEF readPayload, v1HeaderSize, v1HeaderPayloadSize
<1>3. /\ read["client"] >= Base /\ Base \in Nat /\ need["server"] \in Nat
      /\ read["client"] \in Nat /\ read["client"] <= Len(bytes["client"]) /\ Len(bytes["client"]) \in Nat
      /\ Len(bytes["client"]) >= Base
  BY <1>2, ReaderIsPastTheKey
<1>4. PICK pos : Layout(pos) /\ Rest(pos) /\ Reader(pos)  BY <1>3 DEF FrameInv
<1>5. /\ n \in Nat /\ n = need["server"]
      /\ read["client"] + n <= Len(bytes["client"])
      /\ Taken("server", n) \in Seq(Nat) /\ Len(Taken("server", n)) = n
      /\ \A k \in 1 .. n : Taken("server", n)[k] = bytes["client"][read["client"] + k]
  <2>1. n \in Nat /\ ReadFull("server", n) /\ "server" \in Side /\ Other("server") = "client"
    BY <1>1, <1>3, Places
  <2>2. /\ n = need["server"] /\ read'["client"] = read["client"] + n
        /\ read'["client"] <= arrived["client"] /\ arrived["client"] <= Len(bytes["client"])
        /\ Taken("server", n) \in Seq(Nat) /\ Len(Taken("server", n)) = n
        /\ \A k \in 1 .. n : Taken("server", n)[k] = bytes["client"][read["client"] + k]
    BY <2>1, WasRead
  <2>3. arrived["client"] \in Nat  BY Numbers, Places
  <2>  QED  BY <1>3, <2>1, <2>2, <2>3
<1>6. /\ read["client"] = pos[Len(got) + 1] + 2
      /\ Len(got) < Len(put) /\ n + 2 = Size(put[Len(got) + 1])
  BY <1>2, <1>3, <1>4, <1>5 DEF Reader
<1>7. /\ put \in Seq(Msg) /\ Len(put) \in Nat /\ got \in Seq(Msg) /\ Len(got) \in Nat
      /\ Len(got) + 1 \in 1 .. Len(put)
      /\ \A i \in 1 .. Len(put) + 1 : pos[i] \in Nat
      /\ \A i \in 1 .. Len(put) : put[i] \in Msg /\ pos[i + 1] = pos[i] + Size(put[i])
  BY <1>4, <1>6, Laid
<1>  DEFINE i == Len(got) + 1
<1>8. PICK m \in Msg : m = put[i]  BY <1>7
<1>9. /\ i \in 1 .. Len(put) /\ pos[i] \in Nat /\ pos[i + 1] = pos[i] + Size(m)
      /\ read["client"] = pos[i] + 2 /\ n + 2 = Size(m) /\ Len(got) + 1 = i /\ i \in Nat
  <2>1. i \in 1 .. Len(put) + 1  BY <1>7
  <2>  QED  BY <1>6, <1>7, <1>8, <2>1
<1>10. /\ Payload[m] \in Seq(Nat) /\ Len(Payload[m]) \in Nat /\ Size(m) = Len(Payload[m]) + 2
       /\ \A k \in 1 .. Len(Payload[m]) : FrameOf(m)[k + 2] = Payload[m][k]
  BY Frames
<1>11. n = Len(Payload[m])  BY SMTT(20), <1>5, <1>9, <1>10
<1>  HIDE DEF i
<1>12. Taken("server", n) = Payload[m]
  <2>1. ASSUME NEW k \in 1 .. n  PROVE Taken("server", n)[k] = Payload[m][k]
    <3>1. k + 2 \in 1 .. Size(m) /\ pos[i] + 2 + k = pos[i] + (k + 2)
      <4>1. n \in Nat /\ pos[i] \in Nat /\ Size(m) \in Nat /\ n + 2 = Size(m)
        BY <1>5, <1>9, Frames
      <4>  QED  BY <4>1, FrameSums
    <3>2. bytes["client"][pos[i] + (k + 2)] = FrameOf(m)[k + 2]  BY <1>4, <1>8, <1>9, <3>1 DEF Layout
    <3>3. Taken("server", n)[k] = bytes["client"][pos[i] + 2 + k]  BY <1>5, <1>9
    <3>4. FrameOf(m)[k + 2] = Payload[m][k]  BY <1>10, <1>11
    <3>  QED  BY <3>1, <3>2, <3>3, <3>4
  <2>  QED  BY <1>5, <1>10, <1>11, <2>1, SeqEqual
<1>13. Decode(Taken("server", n)) = {m}  BY <1>12, PayloadsDiffer DEF Decode
<1>14. /\ got' = Append(got, m) /\ pc' = [pc EXCEPT !["server"] = ReadLoop]
       /\ ReadFull("server", n)
  BY <1>1, <1>13
<1>15. /\ got' \in Seq(Msg) /\ Len(got') = i /\ got'[i] = m
       /\ \A j \in 1 .. Len(got) : got'[j] = got[j]
  BY <1>7, <1>9, <1>14, AppendProperties
<1>16. /\ Types' /\ HandInv'
       /\ pc'["client"] = pc["client"] /\ pc'["server"] = ReadLoop /\ need'["server"] = 2
       /\ read'["client"] = read["client"] + n /\ UNCHANGED <<bytes, lost>>
  <2>1. 2 \in Nat /\ ReadLoop \in {"header", "payload", "closed"}
        /\ pc["server"] \in {"header", "payload"}
    BY <1>2 DEF ReadLoop
  <2>  QED  BY <1>2, <1>5, <1>14, <1>15, <2>1, ReadKeeps
<1>17. Layout(pos)' /\ Rest(pos)'  BY <1>2, <1>4, <1>16 DEF Layout, Rest, End
<1>18. Reader(pos)'
  <2>0. n \in Nat /\ pos[i] \in Nat /\ Size(m) \in Nat /\ n + 2 = Size(m)
    BY <1>5, <1>9, Frames
  <2>1. read'["client"] = pos[i + 1]
    <3>1. pos[i] + 2 + n = pos[i] + Size(m)  BY <2>0, FrameSums
    <3>  QED  BY <1>9, <1>16, <3>1
  <2>2. pos[Len(got') + 1] = pos[i + 1]  BY <1>15
  <2>  QED  BY <1>16, <2>1, <2>2 DEF Reader, ReadLoop
<1>19. FrameInv'
  <2>1. \E r : Layout(r)' /\ Rest(r)' /\ Reader(r)'  BY <1>17, <1>18
  <2>2. ~(Len(bytes'["client"]) < Base)  BY <1>3, <1>16
  <2>3. Len(got') <= Len(put')  BY <1>2, <1>7, <1>9, <1>15
  <2>4. ASSUME NEW j \in 1 .. Len(got')  PROVE got'[j] = put'[j]
    <3>1. CASE j = i  BY <1>2, <1>8, <1>15, <3>1
    <3>2. CASE j \in 1 .. Len(got)  BY <1>2, <1>15, <3>2 DEF FrameInv
    <3>  QED  BY <1>7, <1>9, <1>15, <3>1, <3>2
  <2>5. pc'["server"] = "header" \/ (pc'["server"] = "closed" /\ ctxDone')
    BY <1>2, <1>16 DEF ReadLoop
  <2>  QED  BY <1>2, <1>16, <2>1, <2>2, <2>3, <2>4, <2>5 DEF FrameInv
<1>  QED  BY <1>2, <1>6, <1>8, <1>9, <1>14, <1>16, <1>19

(* The read loop fails when the connection was lost, or when it was closed *)
(* with nothing left to read.                                              *)
LEMMA ReadFrameFailsStep ==
  ASSUME FramingInv, readFrameFails
  PROVE  FramingInv'
<1>  USE DEF FramingInv
<1>1. /\ pc["server"] \in {"header", "payload"} /\ ReadFails("server")
      /\ pc' = [pc EXCEPT !["server"] = "closed"]
      /\ UNCHANGED <<need, key, deadline, ctxDone, bytes, arrived, read, lost, put, got>>
  BY DEF readFrameFails, ReadFails, wire
<1>2. pc'["server"] = "closed" /\ pc'["client"] = pc["client"]  BY <1>1, Places DEF Types
<1>3. /\ read["client"] >= Base /\ Base \in Nat /\ need["server"] \in Nat
      /\ read["client"] \in Nat /\ read["client"] <= Len(bytes["client"]) /\ Len(bytes["client"]) \in Nat
      /\ Len(bytes["client"]) >= Base
  BY <1>1, ReaderIsPastTheKey
<1>4. PICK pos : Layout(pos) /\ Rest(pos) /\ Reader(pos)  BY <1>3 DEF FrameInv
<1>5. Types'
  <2>1. pc' \in [Side -> AnyPlace]  BY <1>1 DEF Types, AnyPlace
  <2>  QED  BY <1>1, <1>2, <2>1 DEF Types, FramingTypeOK
<1>6. HandInv'  BY <1>1, <1>2, Places DEF HandInv
<1>7. lost \/ (pc["client"] = "closed" /\ got = put)
  <2>  SUFFICES ASSUME ~lost  PROVE pc["client"] = "closed" /\ got = put
    OBVIOUS
  <2>1. ~deadline["server"]  BY <1>1 DEF HandInv
  <2>2. /\ Closed("client") /\ arrived["client"] = Len(bytes["client"])
        /\ Pending("server") < need["server"]
    BY <1>1, <2>1, Places DEF ReadFails
  <2>3. pc["client"] = "closed"  BY <2>2 DEF Closed, Types, FramingTypeOK
  <2>4. Len(bytes["client"]) - read["client"] < need["server"]  BY <2>2, Places DEF Pending
  <2>5. /\ put \in Seq(Msg) /\ Len(put) \in Nat /\ got \in Seq(Msg) /\ Len(got) \in 0 .. Len(put)
        /\ \A i \in 1 .. Len(put) + 1 : pos[i] \in Nat
        /\ \A i \in 1 .. Len(put) :
             /\ Size(put[i]) \in Nat /\ Size(put[i]) > 2
             /\ pos[i + 1] = pos[i] + Size(put[i])
             /\ pos[i + 1] <= Len(bytes["client"])
    BY <1>4, Laid
  <2>6. ~(Len(got) < Len(put))
    <3>  SUFFICES ASSUME Len(got) < Len(put)  PROVE FALSE
      OBVIOUS
    <3>  DEFINE i == Len(got) + 1
                z == Size(put[i])
    <3>1. i \in 1 .. Len(put) /\ i \in 1 .. Len(put) + 1  BY <2>5
    <3>2. z \in Nat /\ z > 2 /\ pos[i] \in Nat /\ pos[i] + z <= Len(bytes["client"])
      BY <2>5, <3>1
    <3>3. \/ read["client"] = pos[i] /\ need["server"] = 2
          \/ read["client"] = pos[i] + 2 /\ need["server"] + 2 = z
      BY <1>1, <1>4 DEF Reader
    <3>4. /\ z \in Nat /\ pos[i] \in Nat /\ Len(bytes["client"]) \in Nat
          /\ read["client"] \in Nat /\ need["server"] \in Nat
      BY <1>3, <3>2
    <3>  HIDE DEF i, z
    <3>5. ~(Len(bytes["client"]) - read["client"] < need["server"])
      BY <3>2, <3>3, <3>4, NeverShort
    <3>  QED  BY <2>4, <3>5
  <2>7. Len(got) = Len(put)  BY <2>5, <2>6
  <2>8. \A i \in 1 .. Len(got) : got[i] = put[i]  BY DEF FrameInv
  <2>  QED  BY <2>3, <2>5, <2>7, <2>8, SeqEqual
<1>8. FrameInv'
  <2>1. Layout(pos)' /\ Rest(pos)'  BY <1>1, <1>2, <1>4 DEF Layout, Rest, End
  <2>2. Reader(pos)'  BY <1>2 DEF Reader
  <2>3. \E r : Layout(r)' /\ Rest(r)' /\ Reader(r)'  BY <2>1, <2>2
  <2>4. ~(Len(bytes'["client"]) < Base)  BY <1>1, <1>3
  <2>  QED  BY <1>1, <1>2, <1>7, <2>3, <2>4 DEF FrameInv
<1>  QED  BY <1>5, <1>6, <1>8

-----------------------------------------------------------------------------
(***************************************************************************)
(* The theorems.                                                           *)
(***************************************************************************)

LEMMA InvInit == FramingInit => FramingInv
<1>  SUFFICES ASSUME FramingInit  PROVE FramingInv
  OBVIOUS
<1>1. pc["client"] = "sendKey" /\ pc["server"] = "keySize"  BY Places DEF FramingInit, Steps
<1>2. /\ \A s \in Side : bytes[s] = <<>> /\ read[s] = 0 /\ arrived[s] = 0 /\ need[s] = 1
      /\ put = <<>> /\ got = <<>>
  BY DEF FramingInit, v1HeaderPayloadSize
<1>3. Len(<<>>) = 0 /\ <<>> \in Seq(Nat) /\ <<>> \in Seq(Msg)  OBVIOUS
<1>4. Base \in Nat /\ Base > 0  BY KeyMsgs, Places DEF Base
<1>5. Types
  <2>1. pc \in [Side -> AnyPlace]  BY <1>1, Places DEF FramingInit, Steps, AnyPlace
  <2>2. \A s \in Side : read[s] <= arrived[s] /\ arrived[s] <= Len(bytes[s])  BY <1>2, <1>3
  <2>  QED  BY <1>1, <1>2, <1>3, <2>1, <2>2 DEF Types, FramingTypeOK, FramingInit, v1HeaderPayloadSize
<1>6. HandInv  BY <1>1, <1>2, <1>3, Places DEF HandInv
<1>7. FrameInv  BY <1>1, <1>2, <1>3, <1>4, Places DEF FrameInv
<1>  QED  BY <1>5, <1>6, <1>7 DEF FramingInv

LEMMA InvNext == FramingInv /\ [FramingNext]_framingVars => FramingInv'
<1>  SUFFICES ASSUME FramingInv, [FramingNext]_framingVars  PROVE FramingInv'
  OBVIOUS
<1>1. ASSUME NEW s \in Side, Arrive(s) \/ sendPublicKey(s) \/ receiveKeySize(s)
                             \/ receivePublicKey(s) \/ receiveFails(s)
      PROVE  FramingInv'
  BY <1>1, ArriveStep, SendKeyStep, KeySizeStep, PublicKeyStep, FailedStep
<1>2. ASSUME NEW m \in Msg, WriteFrame(m)  PROVE FramingInv'  BY <1>2, WriteFrameStep
<1>3. CASE readHeader  BY <1>3, ReadHeaderStep
<1>4. CASE readPayload  BY <1>4, ReadPayloadStep
<1>5. CASE readFrameFails  BY <1>5, ReadFrameFailsStep
<1>6. CASE LoseConnection \/ ClientLeaves \/ ContextEnds
  BY <1>6, LoseConnectionStep, ClientLeavesStep, ContextEndsStep
<1>7. CASE UNCHANGED framingVars
  <2>1. UNCHANGED <<pc, need, key, deadline, ctxDone, bytes, arrived, read, lost, put, got>>
    BY <1>7 DEF framingVars, ends, wire
  <2>2. Types'  BY <2>1 DEF FramingInv, Types, FramingTypeOK
  <2>3. HandInv'  BY <2>1 DEF FramingInv, HandInv
  <2>4. FrameInv'  BY <2>1, FrameKeeps DEF FramingInv
  <2>  QED  BY <2>2, <2>3, <2>4 DEF FramingInv
<1>  QED  BY <1>1, <1>2, <1>3, <1>4, <1>5, <1>6, <1>7 DEF FramingNext

LEMMA FramingInvariant == FramingSpec => []FramingInv
<1>  QED  BY InvInit, InvNext, PTL DEF FramingSpec

(* Every variable keeps its type, whatever the keys and the encodings.     *)
THEOREM FramingTypes == FramingSpec => []FramingTypeOK
<1>1. FramingInv => FramingTypeOK  BY DEF FramingInv, Types
<1>  QED  BY <1>1, FramingInvariant, PTL

(* A finished handshake leaves the other side's key, whole.                *)
THEOREM HandshakeGivesTheKey == FramingSpec => []KeysMatch
<1>1. FramingInv => KeysMatch
  BY Places DEF FramingInv, HandInv, KeysMatch, Types, FramingTypeOK
<1>  QED  BY <1>1, FramingInvariant, PTL

(* The client is done only when the server is.                             *)
THEOREM ServerIsDoneFirst == FramingSpec => []ClientDoneMeansServerDone
<1>1. FramingInv => ClientDoneMeansServerDone
  <2>  SUFFICES ASSUME FramingInv, pc["client"] \in {"open", "broken"}
                PROVE  pc["server"] \in {"header", "payload", "closed"}
    BY DEF ClientDoneMeansServerDone
  <2>1. /\ read["server"] > Len(Key["server"]) /\ Len(Key["server"]) \in Nat
        /\ read["server"] \in Nat /\ arrived["server"] \in Nat /\ Len(bytes["server"]) \in Nat
        /\ read["server"] <= arrived["server"] /\ arrived["server"] <= Len(bytes["server"])
    BY Numbers, KeyMsgs, Places DEF FramingInv, HandInv
  <2>2. Len(bytes["server"]) > Len(Key["server"])  BY <2>1
  <2>3. bytes["server"] # <<>> /\ ~(Len(bytes["server"]) <= Len(Key["server"]))
    <3>1. Len(<<>>) = 0  OBVIOUS
    <3>  QED  BY <2>1, <2>2, <3>1
  <2>  QED  BY <2>3, Places DEF FramingInv, HandInv, Types, FramingTypeOK
<1>  QED  BY <1>1, FramingInvariant, PTL

(* The read loop of a node that goes on ends because the connection did,   *)
(* and on one that was only closed with every message read.                *)
THEOREM LoopEndsLast == FramingSpec => []LoopEndsWithConnection
<1>1. FramingInv => LoopEndsWithConnection  BY DEF FramingInv, FrameInv, LoopEndsWithConnection
<1>  QED  BY <1>1, FramingInvariant, PTL

(* Frames written and read through a network that cuts them at will        *)
(* implement the channel of whole messages.                                *)
THEOREM FramesImplementChannel == FramingSpec => ImplementsChannel
<1>1. FramingInit => Channel!ChannelInit  BY DEF FramingInit, Channel!ChannelInit
<1>2. FramingInv /\ [FramingNext]_framingVars =>
        [Channel!Get \/ \E m \in Msg : Channel!Put(m)]_<<put, got>>
  <2>  SUFFICES ASSUME FramingInv, [FramingNext]_framingVars
                PROVE  [Channel!Get \/ \E m \in Msg : Channel!Put(m)]_<<put, got>>
    OBVIOUS
  <2>1. CASE readPayload  BY <2>1, ReadPayloadStep DEF Channel!Get
  <2>2. ASSUME NEW m \in Msg, WriteFrame(m)
        PROVE  Channel!Put(m) \/ UNCHANGED <<put, got>>
    BY <2>2 DEF WriteFrame, Channel!Put
  <2>3. ASSUME NEW s \in Side, Arrive(s) \/ sendPublicKey(s) \/ receiveKeySize(s)
                               \/ receivePublicKey(s) \/ receiveFails(s)
        PROVE  UNCHANGED <<put, got>>
    BY <2>3 DEF Arrive, sendPublicKey, receiveKeySize, receivePublicKey, receiveFails, HandshakeFails
  <2>4. CASE readHeader \/ readFrameFails \/ LoseConnection \/ ClientLeaves \/ ContextEnds
    BY <2>4 DEF readHeader, readFrameFails, LoseConnection, ClientLeaves, ContextEnds
  <2>5. CASE UNCHANGED framingVars  BY <2>5 DEF framingVars
  <2>  QED  BY <2>1, <2>2, <2>3, <2>4, <2>5 DEF FramingNext
<1>  QED  BY <1>1, <1>2, FramingInvariant, PTL DEF FramingSpec, ImplementsChannel, Channel!ChannelSpec
=============================================================================
