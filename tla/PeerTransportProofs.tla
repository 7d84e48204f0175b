------------------------- MODULE PeerTransportProofs -------------------------
(* Proofs about PeerTransport, for every set of connections, any number of *)
(* guardians and any number of attempts.                                   *)
EXTENDS PeerTransport, FiniteSetTheorems, TLAPS

(* Where a connection is, whose goroutine has it, and whether it is        *)
(* registered go together.                                                 *)
AcceptedInv ==
  \A c \in Incoming :
    /\ hpc[c] \in {"lookup", "store", "loop", "read", "disconnect", "close"} => conn[c] = "open"
    /\ hpc[c] \in {"count", "ended"} => conn[c] = "closed"
    /\ c \in registry => hpc[c] \in {"loop", "read", "disconnect"}

DialledInv ==
  \A a \in Addr :
    /\ conn[a] \in {"none", "open"}
    /\ dpc[a] \in {"handshake", "wrap", "lookup", "store", "report", "ended"} => conn[a] = "open"
    /\ dpc[a] \in {"report", "ended"} => a \in registry
    /\ a \in registry => conn[a] = "open"
    /\ dpc[a] = "dial" => tries[a] < retryMax
    /\ dpc[a] = "none" => tries[a] = 0
    /\ a = Bootstrap /\ bpc # "ended" => dpc[a] = "none"

SearchInv ==
  /\ rps = {a \in Guardians : dpc[a] = "ended"}
  /\ find = "idle" => \A a \in Guardians : dpc[a] = "none"
  /\ find = "returned" => \A a \in Guardians : dpc[a] \in {"ended", "failed"}

(* Before the constructor is done the bootstrap goroutine may have counted *)
(* itself off already; when the listener has too, the second of them was   *)
(* one too many.                                                           *)
Alive(pc) == IF pc = "ended" THEN 0 ELSE 1

CountInv ==
  /\ twg = Cardinality({c \in Incoming : Running(c)})
  /\ main = "new" => swg = 0 /\ lpc = "none" /\ bpc = "none"
  /\ main = "listening" => swg = Alive(lpc) /\ bpc = "none"
  /\ main = "bootstrapping" =>
       IF lpc = "ended" /\ bpc = "ended" THEN panic = "counter" ELSE swg = Alive(lpc) + Alive(bpc) - 1
  /\ main \in {"running", "returned"} => swg = Alive(lpc) + Alive(bpc)
  /\ panic = "counter" => main = "bootstrapping" /\ lpc = "ended" /\ bpc = "ended"

(* One connection at most is between Accept and its goroutine, and once    *)
(* the listener has ended no goroutine starts.                             *)
ListenerInv ==
  /\ lpc = "handshake" => \E c \in Incoming : InHand = {c}
  /\ lpc \notin {"handshake", "ended"} => InHand = {}
  /\ lpc = "ended" => \/ \E c \in Incoming : conn[c] = "closed" /\ hpc[c] = "none"
                      \/ \A c \in Incoming : ~Running(c)

Kinds ==
  /\ main \in {"new", "listening", "bootstrapping", "running", "returned"}
  /\ ln \in {"nil", "open", "closed"}
  /\ lpc \in {"none", "listen", "loop", "accept", "handshake", "wait", "ended"}
  /\ conn \in [Conn -> {"none", "pending", "open", "closed"}]
  /\ hpc \in [Incoming -> {"none", "lookup", "store", "loop", "read", "disconnect",
                           "close", "count", "ended"}]
  /\ bpc \in {"none", "run", "ended"}
  /\ dpc \in [Addr -> {"none", "dial", "handshake", "wrap", "lookup", "store", "report",
                       "ended", "failed"}]
  /\ tries \in [Addr -> 0 .. retryMax]
  /\ find \in {"idle", "waiting", "returned"}
  /\ registry \subseteq Conn
  /\ swg \in Nat
  /\ panic \in {"none", "listen", "ln", "key", "counter"}

TransportInv == Kinds /\ AcceptedInv /\ DialledInv /\ SearchInv /\ CountInv /\ ListenerInv


-----------------------------------------------------------------------------
(***************************************************************************)
(* The accepted connections that run, and their number.                    *)
(***************************************************************************)

Live == {c \in Incoming : Running(c)}

(* The running goroutines of accepted connections are finitely many.       *)
LEMMA LiveIsFinite == IsFiniteSet(Live) /\ Cardinality(Live) \in Nat
<1>1. Live \subseteq Incoming  BY DEF Live
<1>2. IsFiniteSet(Live)  BY <1>1, FS_Subset, TransportAssumption
<1>  QED  BY <1>2, FS_CardinalityType

(* A step that touches no handler leaves their number alone.               *)
LEMMA LiveUnchanged == hpc' = hpc => Cardinality(Live') = Cardinality(Live)
<1>  SUFFICES ASSUME hpc' = hpc  PROVE Live' = Live  OBVIOUS
<1>  QED  BY DEF Live, Running

(* A handler that goes on running leaves their number alone.               *)
LEMMA LiveGoesOn ==
  ASSUME Kinds, NEW c \in Incoming, NEW from, NEW to, Handler(c, from, to),
         from \notin {"none", "ended"}, to \notin {"none", "ended"}
  PROVE  Cardinality(Live') = Cardinality(Live)
<1>1. Live' = Live  BY DEF Live, Running, Handler, Kinds
<1>  QED  BY <1>1

(* A handler that starts is one more.                                      *)
LEMMA LiveStarts ==
  ASSUME Kinds, NEW c \in Incoming, hpc[c] = "none", hpc' = [hpc EXCEPT ![c] = "lookup"]
  PROVE  Cardinality(Live') = Cardinality(Live) + 1
<1>1. Live' = Live \cup {c} /\ c \notin Live  BY DEF Live, Running, Kinds
<1>  QED  BY <1>1, FS_AddElement, LiveIsFinite

(* A handler that ends is one less.                                        *)
LEMMA LiveEnds ==
  ASSUME Kinds, NEW c \in Incoming, Handler(c, "count", "ended")
  PROVE  Cardinality(Live') = Cardinality(Live) - 1
<1>1. Live' = Live \ {c} /\ c \in Live  BY DEF Live, Running, Kinds, Handler
<1>  QED  BY <1>1, FS_RemoveElement, LiveIsFinite

-----------------------------------------------------------------------------
(***************************************************************************)
(* The invariant, and what it implies.                                     *)
(***************************************************************************)

(* The invariant holds before peer.Run does anything.                      *)
LEMMA InitInv == TransportInit => TransportInv
<1>  SUFFICES ASSUME TransportInit  PROVE TransportInv  OBVIOUS
<1>  USE TransportAssumption DEF TransportInit, Conn, Addr
<1>1. Kinds  BY DEF Kinds
<1>2. AcceptedInv /\ DialledInv  BY DEF AcceptedInv, DialledInv
<1>3. SearchInv  BY DEF SearchInv
<1>4. CountInv
  <2>1. Live = {}  BY DEF Live, Running
  <2>2. Cardinality(Live) = 0  BY <2>1, FS_EmptySet
  <2>  QED  BY <2>2 DEF CountInv, Live
<1>5. ListenerInv  BY DEF ListenerInv, InHand
<1>  QED  BY <1>1, <1>2, <1>3, <1>4, <1>5 DEF TransportInv

-----------------------------------------------------------------------------
(***************************************************************************)
(* peer.Run and the bootstrap goroutine.                                   *)
(***************************************************************************)

(* The steps of peer.Run, and the one of the bootstrap goroutine, change   *)
(* what is counted and the count together.                                 *)
LEMMA MainInv ==
  ASSUME TransportInv, panic = "none", MainStep \/ Bootstraps
  PROVE  TransportInv'
<1>  USE TransportAssumption DEF TransportInv, mVars, hVars, dVars, netVars
<1>0. hpc' = hpc /\ twg' = twg /\ conn' = conn /\ registry' = registry
  BY DEF MainStep, listenAndAccept, connectBootstrapPeers, TransportMade, RunReturns, Bootstraps
<1>1. Cardinality(Live') = Cardinality(Live)  BY <1>0, LiveUnchanged
<1>2. AcceptedInv'  BY <1>0 DEF AcceptedInv
<1>3. CASE listenAndAccept
  <2>1. Kinds' /\ DialledInv' /\ SearchInv'
    BY <1>3 DEF listenAndAccept, Kinds, DialledInv, SearchInv
  <2>2. CountInv'  BY <1>1, <1>3 DEF listenAndAccept, CountInv, Live, Alive
  <2>3. ListenerInv'  BY <1>3 DEF listenAndAccept, ListenerInv, InHand, CountInv
  <2>  QED  BY <1>2, <2>1, <2>2, <2>3
<1>4. CASE MainStep /\ ~listenAndAccept
  <2>  USE <1>4 DEF MainStep, listenAndAccept, connectBootstrapPeers, TransportMade, RunReturns
  <2>1. Kinds' /\ DialledInv' /\ SearchInv'  BY DEF Kinds, DialledInv, SearchInv, CountInv
  <2>2. CountInv'  BY <1>1 DEF CountInv, Live, Alive, Kinds
  <2>3. ListenerInv'  BY DEF ListenerInv, InHand, Running
  <2>  QED  BY <1>2, <2>1, <2>2, <2>3
<1>5. CASE Bootstraps
  <2>1. Kinds'  BY <1>5 DEF Bootstraps, SwgDone, Kinds, Addr
  <2>2. DialledInv' /\ SearchInv'
    BY <1>5 DEF Bootstraps, Kinds, DialledInv, SearchInv, Addr
  <2>3. CountInv'  BY <1>1, <1>5 DEF Bootstraps, SwgDone, CountInv, Live, Alive, Kinds
  <2>4. ListenerInv'  BY <1>5 DEF Bootstraps, ListenerInv, InHand, Running
  <2>  QED  BY <1>2, <2>1, <2>2, <2>3, <2>4
<1>  QED  BY <1>3, <1>4, <1>5

-----------------------------------------------------------------------------
(***************************************************************************)
(* The listener goroutine.                                                 *)
(***************************************************************************)

(* Accept puts one connection in hand; the handshake takes it out again;   *)
(* when the listener ends, its count does.                                 *)
LEMMA ListenerInvariance ==
  ASSUME TransportInv, panic = "none", ListenerStep
  PROVE  TransportInv'
<1>  USE TransportAssumption DEF TransportInv, mVars, hVars, dVars, netVars
<1>0. UNCHANGED <<registry, dVars, bpc>>
  BY DEF ListenerStep, Listen, ListenFails, CheckDone, Accept, DoServerHandshake,
         KeyTooShort, HandshakeFails, ShutsDown, ListenerEnds
<1>1. CASE Listen \/ ListenFails \/ CheckDone \/ KeyTooShort
  <2>  USE <1>1 DEF Listen, ListenFails, CheckDone, KeyTooShort
  <2>1. Kinds' /\ AcceptedInv' /\ DialledInv' /\ SearchInv'
    BY <1>0 DEF Kinds, AcceptedInv, DialledInv, SearchInv
  <2>2. CountInv'  BY <1>0, LiveUnchanged DEF CountInv, Live, Alive, Kinds
  <2>3. ListenerInv'  BY <1>0 DEF ListenerInv, InHand, Running
  <2>  QED  BY <2>1, <2>2, <2>3
<1>2. CASE Accept
  <2>  USE <1>2 DEF Accept
  <2>1. Kinds' /\ AcceptedInv' /\ DialledInv' /\ SearchInv'
    BY <1>0 DEF Kinds, AcceptedInv, DialledInv, SearchInv, Conn, Addr
  <2>2. CountInv'  BY <1>0, LiveUnchanged DEF CountInv, Live, Alive, Kinds
  <2>3. ListenerInv'
    <3>1. CASE lpc' = "loop" /\ conn' = conn  BY <3>1 DEF ListenerInv, InHand
    <3>2. ASSUME NEW c \in Incoming, conn[c] = "pending", lpc' = "handshake",
                 conn' = [conn EXCEPT ![c] = "open"]
          PROVE  ListenerInv'
      <4>1. hpc[c] = "none"  BY <3>2 DEF AcceptedInv, Kinds
      <4>2. InHand' = {c}  BY <3>2, <4>1 DEF ListenerInv, InHand, Kinds, Conn
      <4>  QED  BY <3>2, <4>2 DEF ListenerInv
    <3>  QED  BY <3>1, <3>2
  <2>  QED  BY <2>1, <2>2, <2>3
<1>3. CASE DoServerHandshake
  <2>1. PICK c \in Incoming : InHand = {c}  BY <1>3 DEF DoServerHandshake, ListenerInv
  <2>2. /\ conn[c] = "open" /\ hpc[c] = "none"
        /\ hpc' = [hpc EXCEPT ![c] = "lookup"]
        /\ twg' = twg + 1 /\ lpc = "handshake" /\ lpc' = "loop"
        /\ UNCHANGED <<netVars, mVars, dVars>>
    BY <1>3, <2>1 DEF DoServerHandshake, InHand
  <2>3. Kinds' /\ AcceptedInv' /\ DialledInv' /\ SearchInv'
    BY <2>2 DEF Kinds, AcceptedInv, DialledInv, SearchInv, Conn, Addr
  <2>4. CountInv'  BY <2>2, LiveStarts DEF CountInv, Live, Alive
  <2>5. ListenerInv'
    <3>1. InHand' = {}  BY <2>1, <2>2 DEF InHand, Kinds
    <3>  QED  BY <3>1, <2>2 DEF ListenerInv
  <2>  QED  BY <2>3, <2>4, <2>5
<1>4. CASE HandshakeFails
  <2>1. PICK c \in Incoming : InHand = {c}  BY <1>4 DEF HandshakeFails, ListenerInv
  <2>2. /\ conn[c] = "open" /\ hpc[c] = "none"
        /\ conn' = [conn EXCEPT ![c] = "closed"]
        /\ lpc = "handshake" /\ lpc' = "ended" /\ SwgDone
        /\ ln' = "closed"
        /\ UNCHANGED <<registry, hpc, twg, main, bpc, dVars>>
    BY <1>4, <2>1 DEF HandshakeFails, ListenerEnds, InHand
  <2>3. Kinds' /\ AcceptedInv' /\ DialledInv' /\ SearchInv'
    BY <2>2 DEF SwgDone, Kinds, AcceptedInv, DialledInv, SearchInv, Conn, Addr
  <2>4. CountInv'  BY <2>2, LiveUnchanged DEF SwgDone, CountInv, Live, Alive, Kinds
  <2>5. ListenerInv'  BY <2>2 DEF ListenerInv, Kinds, Conn
  <2>  QED  BY <2>3, <2>4, <2>5
<1>5. CASE ShutsDown
  <2>  USE <1>5 DEF ShutsDown, ListenerEnds, SwgDone
  <2>1. Kinds' /\ AcceptedInv' /\ DialledInv' /\ SearchInv'
    BY DEF Kinds, AcceptedInv, DialledInv, SearchInv
  <2>2. CountInv'
    <3>1. Cardinality(Live') = Cardinality(Live)  BY LiveUnchanged
    <3>2. twg' = Cardinality(Live')  BY <3>1 DEF CountInv, Live
    <3>3. main # "new"  BY DEF CountInv
    <3>  QED  BY <3>2, <3>3 DEF CountInv, Live, Alive, Kinds
  <2>3. Live = {}
    BY LiveIsFinite, FS_EmptySet DEF CountInv, Live
  <2>4. ListenerInv'  BY <2>3 DEF ListenerInv, Live, Running
  <2>  QED  BY <2>1, <2>2, <2>4
<1>  QED  BY <1>1, <1>2, <1>3, <1>4, <1>5 DEF ListenerStep

-----------------------------------------------------------------------------
(***************************************************************************)
(* The goroutines of the accepted connections.                             *)
(***************************************************************************)

(* A handler closes its connection only after it is out of the registry,   *)
(* and counts itself off last.                                             *)
LEMMA HandlerInvariance ==
  ASSUME TransportInv, NEW c \in Incoming, RemoteDials(c) \/ HandlerStep(c)
  PROVE  TransportInv'
<1>  USE TransportAssumption DEF TransportInv, mVars, hVars, dVars, netVars
<1>1. CASE RemoteDials(c)
  <2>  USE <1>1 DEF RemoteDials
  <2>1. Kinds' /\ AcceptedInv' /\ DialledInv' /\ SearchInv'
    BY DEF Kinds, AcceptedInv, DialledInv, SearchInv, Conn, Addr
  <2>2. CountInv'  BY LiveUnchanged DEF CountInv, Live, Alive
  <2>3. InHand' = InHand  BY DEF InHand, Kinds, Conn
  <2>4. ListenerInv'  BY <2>3 DEF ListenerInv, Running, Kinds, Conn
  <2>  QED  BY <2>1, <2>2, <2>4
<1>2. CASE HandlerStep(c) /\ ~HandlerEnds(c)
  <2>1. \E from \in {"lookup", "store", "loop", "read", "disconnect", "close"},
           to \in {"store", "loop", "read", "disconnect", "close", "count"} :
          Handler(c, from, to)
    BY <1>2 DEF HandlerStep, HandlerLooksUp, HandlerStores, HandlerChecksDone, ReadFrame,
                onDisconnect, HandlerCloses, HandlerEnds, Lookup
  <2>2. Cardinality(Live') = Cardinality(Live)  BY <2>1, LiveGoesOn
  <2>3. UNCHANGED <<lpc, twg, ln, mVars, dVars>>
    BY <1>2 DEF HandlerStep, HandlerLooksUp, HandlerStores, HandlerChecksDone, ReadFrame,
                onDisconnect, HandlerCloses, HandlerEnds
  <2>4. \/ UNCHANGED <<conn, registry>>
           /\ \/ Handler(c, "lookup", "store")
              \/ Handler(c, "lookup", "loop") /\ c \in registry
              \/ Handler(c, "loop", "read") \/ Handler(c, "loop", "disconnect")
              \/ Handler(c, "read", "loop") \/ Handler(c, "read", "disconnect")
        \/ HandlerStores(c) \/ onDisconnect(c) \/ HandlerCloses(c)
    <3>1. CASE HandlerLooksUp(c)  BY <3>1 DEF HandlerLooksUp, Lookup
    <3>2. CASE HandlerChecksDone(c)  BY <3>2 DEF HandlerChecksDone
    <3>3. CASE ReadFrame(c)  BY <3>3 DEF ReadFrame
    <3>  QED  BY <1>2, <3>1, <3>2, <3>3 DEF HandlerStep
  <2>5. AcceptedInv' /\ Kinds'
    BY <2>3, <2>4 DEF HandlerStores, onDisconnect, HandlerCloses, Handler, AcceptedInv, Kinds,
                      Conn, Addr
  <2>6. DialledInv' /\ SearchInv'
    BY <2>3, <2>4 DEF HandlerStores, onDisconnect, HandlerCloses, DialledInv, SearchInv, Kinds,
                      Conn, Addr
  <2>7. CountInv'  BY <2>2, <2>3 DEF CountInv, Live, Alive
  <2>8. InHand' = InHand
    BY <2>1, <2>4 DEF HandlerStores, onDisconnect, HandlerCloses, Handler, InHand, Kinds, Conn
  <2>9. ListenerInv'
    <3>1. \A d \in Incoming : Running(d)' <=> Running(d)  BY <2>1 DEF Handler, Running, Kinds
    <3>2. \A d \in Incoming : conn[d] = "closed" /\ hpc[d] = "none" =>
                              conn'[d] = "closed" /\ hpc'[d] = "none"
      BY <2>1, <2>4 DEF HandlerStores, onDisconnect, HandlerCloses, Handler, Kinds, Conn
    <3>  QED  BY <2>3, <2>8, <3>1, <3>2 DEF ListenerInv
  <2>  QED  BY <2>5, <2>6, <2>7, <2>9
<1>3. CASE HandlerEnds(c)
  <2>  USE <1>3 DEF HandlerEnds, Handler
  <2>1. Kinds' /\ AcceptedInv' /\ DialledInv' /\ SearchInv'
    BY DEF Kinds, AcceptedInv, DialledInv, SearchInv
  <2>2. CountInv'
    <3>1. Cardinality(Live') = Cardinality(Live) - 1  BY LiveEnds
    <3>2. twg' = Cardinality(Live')  BY <3>1 DEF CountInv, Live
    <3>  QED  BY <3>2 DEF CountInv, Live, Alive
  <2>3. InHand' = InHand  BY DEF InHand, Kinds
  <2>4. ListenerInv'  BY <2>3 DEF ListenerInv, Running, Kinds
  <2>  QED  BY <2>1, <2>2, <2>4
<1>  QED  BY <1>1, <1>2, <1>3 DEF HandlerStep

-----------------------------------------------------------------------------
(***************************************************************************)
(* The goroutines that dial, and the search for guardians.                 *)
(***************************************************************************)

(* A dial reports only what is registered and open, and the search ends    *)
(* after the last of them.                                                 *)
LEMMA SearchInvariance ==
  ASSUME TransportInv, panic = "none",
         findRemotePeersBy \/ FindReturns \/ \E a \in Addr : DialStep(a)
  PROVE  TransportInv'
<1>  USE TransportAssumption DEF TransportInv, mVars, hVars, dVars, netVars
<1>1. CASE findRemotePeersBy \/ FindReturns
  <2>  USE <1>1 DEF findRemotePeersBy, FindReturns
  <2>1. Kinds'  BY DEF Kinds
  <2>2. AcceptedInv' /\ DialledInv' /\ SearchInv'
    BY DEF AcceptedInv, DialledInv, SearchInv, Kinds, Addr
  <2>3. CountInv'  BY LiveUnchanged DEF CountInv, Live, Alive
  <2>4. ListenerInv'  BY DEF ListenerInv, InHand, Running
  <2>  QED  BY <2>1, <2>2, <2>3, <2>4
<1>2. ASSUME NEW a \in Addr, DialStep(a)  PROVE TransportInv'
  <2>1. main' = main /\ (panic' = panic \/ panic' = "ln")
    BY <1>2 DEF DialStep, Dial, DialFails, DoClientHandshake, newRemotePeer, DiallerLooksUp,
                DiallerStores, DiallerEnds
  <2>2. UNCHANGED <<ln, find, bpc, swg, hVars>>
    BY <1>2 DEF DialStep, Dial, DialFails, DoClientHandshake, newRemotePeer, DiallerLooksUp,
                DiallerStores, DiallerEnds
  <2>3. CountInv'  BY <2>1, <2>2, LiveUnchanged DEF CountInv, Live, Alive
  <2>4. \A c \in Incoming : conn'[c] = conn[c] /\ (c \in registry' <=> c \in registry)
    BY <1>2 DEF DialStep, Dial, DialFails, DoClientHandshake, newRemotePeer, DiallerLooksUp,
                DiallerStores, DiallerEnds, Kinds, Conn, Addr
  <2>5. AcceptedInv'  BY <2>2, <2>4 DEF AcceptedInv
  <2>6. ListenerInv'
    <3>1. InHand' = InHand  BY <2>2, <2>4 DEF InHand
    <3>  QED  BY <2>2, <2>4, <3>1 DEF ListenerInv, Running
  <2>7. Kinds' /\ DialledInv' /\ SearchInv'
    <3>1. CASE Dial(a)
      BY <3>1 DEF Dial, Dialler, Kinds, DialledInv, SearchInv, Conn, Addr
    <3>2. CASE DialFails(a)
      BY <3>2 DEF DialFails, Dialler, Kinds, DialledInv, SearchInv, Addr
    <3>3. CASE DoClientHandshake(a)
      BY <3>3 DEF DoClientHandshake, Dialler, Kinds, DialledInv, SearchInv, Addr
    <3>4. CASE newRemotePeer(a)
      BY <3>4 DEF newRemotePeer, Dialler, Kinds, DialledInv, SearchInv, Addr
    <3>5. CASE DiallerLooksUp(a)
      BY <3>5 DEF DiallerLooksUp, Lookup, Dialler, Kinds, DialledInv, SearchInv, Addr
    <3>6. CASE DiallerStores(a)
      BY <3>6 DEF DiallerStores, Dialler, Kinds, DialledInv, SearchInv, Conn, Addr
    <3>7. CASE DiallerEnds(a)
      BY <3>7 DEF DiallerEnds, Dialler, Kinds, DialledInv, SearchInv, Addr
    <3>  QED  BY <1>2, <3>1, <3>2, <3>3, <3>4, <3>5, <3>6, <3>7 DEF DialStep
  <2>  QED  BY <2>3, <2>5, <2>6, <2>7
<1>  QED  BY <1>1, <1>2

-----------------------------------------------------------------------------
(***************************************************************************)
(* The theorems.                                                           *)
(***************************************************************************)

(* The invariant holds in every state of every behaviour.                  *)
LEMMA Invariance == TransportSpec => []TransportInv
<1>1. TransportInv /\ [TransportNext]_transportVars => TransportInv'
  <2>  SUFFICES ASSUME TransportInv, [TransportNext]_transportVars  PROVE TransportInv'
    OBVIOUS
  <2>1. CASE UNCHANGED transportVars
    <3>  USE <2>1 DEF transportVars, mVars, hVars, dVars, netVars, TransportInv
    <3>1. Kinds' /\ AcceptedInv' /\ DialledInv' /\ SearchInv'
      BY DEF Kinds, AcceptedInv, DialledInv, SearchInv
    <3>2. CountInv'  BY LiveUnchanged DEF CountInv, Live, Alive
    <3>3. ListenerInv'  BY DEF ListenerInv, InHand, Running
    <3>  QED  BY <3>1, <3>2, <3>3
  <2>2. CASE TransportNext
    BY <2>2, MainInv, ListenerInvariance, HandlerInvariance, SearchInvariance
       DEF TransportNext
  <2>  QED  BY <2>1, <2>2
<1>  QED  BY InitInv, <1>1, PTL DEF TransportSpec

(* Type correctness of one node's connections, the single connection in    *)
(* hand (acceptLoop) and the bounded number of dials (connect) included.   *)
THEOREM TransportTypeCorrect == TransportSpec => []TransportTypeOK
<1>1. TransportInv => TransportTypeOK
  <2>  SUFFICES ASSUME TransportInv  PROVE TransportTypeOK  OBVIOUS
  <2>  USE DEF TransportInv
  <2>1. lpc = "handshake" => Cardinality(InHand) = 1  BY FS_Singleton DEF ListenerInv
  <2>2. twg \in Nat  BY LiveIsFinite DEF CountInv, Live
  <2>3. rps \subseteq Guardians  BY DEF SearchInv
  <2>  QED  BY <2>1, <2>2, <2>3 DEF Kinds, TransportTypeOK
<1>  QED  BY <1>1, Invariance, PTL

(* The registry onConnect and onDisconnect keep never holds a connection   *)
(* this node has closed.                                                   *)
THEOREM RegistryIsSound == TransportSpec => []RegisteredAreOpen
<1>1. TransportInv => RegisteredAreOpen
  BY DEF TransportInv, Kinds, AcceptedInv, DialledInv, RegisteredAreOpen, Conn
<1>  QED  BY <1>1, Invariance, PTL

(* Both wait groups count what they are there to wait for.                 *)
THEOREM WaitGroupsAreRight == TransportSpec => []WaitGroupsCount
<1>1. TransportInv => WaitGroupsCount
  <2>  SUFFICES ASSUME TransportInv  PROVE WaitGroupsCount  OBVIOUS
  <2>  DEFINE left == {g \in {"listener", "bootstrap"} :
                         IF g = "listener" THEN lpc # "ended" ELSE bpc # "ended"}
  <2>1. Cardinality(left) = Alive(lpc) + Alive(bpc)
    <3>1. CASE lpc = "ended" /\ bpc = "ended"
      <4>1. left = {}  BY <3>1
      <4>  QED  BY <3>1, <4>1, FS_EmptySet DEF Alive
    <3>2. CASE lpc = "ended" /\ bpc # "ended"
      <4>1. left = {"bootstrap"}  BY <3>2
      <4>2. Cardinality({"bootstrap"}) = 1  BY FS_Singleton
      <4>  QED  BY <3>2, <4>1, <4>2 DEF Alive
    <3>3. CASE lpc # "ended" /\ bpc = "ended"
      <4>1. left = {"listener"}  BY <3>3
      <4>2. Cardinality({"listener"}) = 1  BY FS_Singleton
      <4>  QED  BY <3>3, <4>1, <4>2 DEF Alive
    <3>4. CASE lpc # "ended" /\ bpc # "ended"
      <4>1. left = {"bootstrap"} \cup {"listener"}  BY <3>4
      <4>2. IsFiniteSet({"bootstrap"}) /\ Cardinality({"bootstrap"}) = 1  BY FS_Singleton
      <4>3. Cardinality({"bootstrap"} \cup {"listener"}) = 2
        <5>1. "listener" \notin {"bootstrap"}  OBVIOUS
        <5>  QED  BY <4>2, <5>1, FS_AddElement
      <4>  QED  BY <3>4, <4>1, <4>3 DEF Alive
    <3>  QED  BY <3>1, <3>2, <3>3, <3>4
  <2>2. main \in {"running", "returned"} => swg = Cardinality(left)
    BY <2>1 DEF TransportInv, CountInv
  <2>3. twg = Cardinality({c \in Incoming : Running(c)})  BY DEF TransportInv, CountInv
  <2>  QED  BY <2>2, <2>3 DEF WaitGroupsCount
<1>  QED  BY <1>1, Invariance, PTL

(* Graceful shutdown (handleConn's deferred wait) leaves nothing behind.   *)
THEOREM ShutdownLeavesNothing == TransportSpec => []ShutdownIsClean
<1>1. TransportInv => ShutdownIsClean
  BY DEF TransportInv, AcceptedInv, ListenerInv, ShutdownIsClean, Running
<1>  QED  BY <1>1, Invariance, PTL

(* findRemotePeersBy returns registered, open connections and no others.   *)
THEOREM SearchIsSound == TransportSpec => []FoundAreConnected
<1>1. TransportInv => FoundAreConnected
  BY DEF TransportInv, DialledInv, SearchInv, FoundAreConnected, Addr
<1>  QED  BY <1>1, Invariance, PTL
-----------------------------------------------------------------------------
(***************************************************************************)
(* When the listener stops and when the process may panic.                 *)
(***************************************************************************)

(* t.ln is nil until the listener goroutine has listened; one that waits   *)
(* for its connections saw the context done; and nothing runs after a      *)
(* panic.                                                                  *)
StopInv ==
  /\ lpc \in {"none", "listen"} <=> ln = "nil"
  /\ lpc = "wait" => Done
  /\ StopsForAReason
  /\ panic = "ln" => ln = "nil"

LEMMA StopInvariance ==
  ASSUME TransportInv, StopInv, [TransportNext]_transportVars
  PROVE  StopInv'
<1>  USE DEF StopInv, StopsForAReason, Done
<1>1. CASE UNCHANGED transportVars
  BY <1>1 DEF transportVars, mVars, hVars, netVars
<1>2. CASE panic = "none" /\ (MainStep \/ Bootstraps \/ findRemotePeersBy \/ FindReturns)
  BY <1>2 DEF MainStep, SwgDone, listenAndAccept, connectBootstrapPeers, TransportMade, RunReturns,
              Bootstraps, findRemotePeersBy, FindReturns, mVars, hVars, netVars,
              TransportInv, CountInv
<1>3. CASE panic = "none" /\ ListenerStep
  <2>  USE <1>3
  <2>1. CASE Listen  BY <2>1 DEF Listen, mVars
  <2>2. CASE ListenFails  BY <2>2 DEF ListenFails, hVars, netVars
  <2>3. CASE CheckDone  BY <2>3 DEF CheckDone, mVars, netVars
  <2>4. CASE Accept  BY <2>4 DEF Accept, mVars
  <2>5. CASE DoServerHandshake  BY <2>5 DEF DoServerHandshake, netVars, mVars
  <2>6. CASE HandshakeFails
    <3>1. PICK c \in InHand : conn' = [conn EXCEPT ![c] = "closed"]
      BY <2>6 DEF HandshakeFails
    <3>2. c \in Incoming /\ conn'[c] = "closed" /\ hpc'[c] = "none"
      BY <2>6, <3>1 DEF HandshakeFails, InHand, TransportInv, Kinds, Conn
    <3>  QED  BY <2>6, <3>2 DEF HandshakeFails, ListenerEnds, SwgDone
  <2>7. CASE ShutsDown  BY <2>7 DEF ShutsDown, ListenerEnds, SwgDone
  <2>8. CASE KeyTooShort  BY <2>8 DEF KeyTooShort, hVars, netVars
  <2>  QED  BY <2>1, <2>2, <2>3, <2>4, <2>5, <2>6, <2>7, <2>8 DEF ListenerStep
<1>4. ASSUME panic = "none", NEW c \in Incoming, RemoteDials(c) \/ HandlerStep(c)  PROVE StopInv'
  <2>1. UNCHANGED <<lpc, ln, main, panic>>
    BY <1>4 DEF RemoteDials, HandlerStep, HandlerLooksUp, HandlerStores, HandlerChecksDone,
                ReadFrame, onDisconnect, HandlerCloses, HandlerEnds, mVars, hVars, netVars
  <2>2. ASSUME NEW d \in Incoming, conn[d] = "closed", hpc[d] = "none"
        PROVE  conn'[d] = "closed" /\ hpc'[d] = "none"
    BY <1>4, <2>2 DEF RemoteDials, HandlerStep, HandlerLooksUp, HandlerStores,
         HandlerChecksDone, ReadFrame, onDisconnect, HandlerCloses, HandlerEnds, Handler,
         hVars, netVars, TransportInv, Kinds, Conn
  <2>  QED  BY <2>1, <2>2
<1>5. ASSUME panic = "none", NEW a \in Addr, DialStep(a)  PROVE StopInv'
  <2>1. UNCHANGED <<lpc, ln, hpc, main, bpc>>
        /\ (panic' = panic \/ (ln = "nil" /\ panic' = "ln"))
    <3>1. CASE newRemotePeer(a)  BY <3>1 DEF newRemotePeer, hVars, netVars
    <3>2. CASE Dial(a)  BY <3>2 DEF Dial, mVars, hVars
    <3>3. CASE DiallerStores(a)  BY <3>3 DEF DiallerStores, mVars, hVars
    <3>4. CASE DialFails(a) \/ DoClientHandshake(a) \/ DiallerLooksUp(a) \/ DiallerEnds(a)
      BY <3>4 DEF DialFails, DoClientHandshake, DiallerLooksUp, DiallerEnds,
                  mVars, hVars, netVars
    <3>  QED  BY <1>5, <3>1, <3>2, <3>3, <3>4 DEF DialStep
  <2>2. \A c \in Incoming : conn'[c] = conn[c]
    BY <1>5, TransportAssumption
       DEF DialStep, Dial, DialFails, DoClientHandshake, newRemotePeer, DiallerLooksUp,
           DiallerStores, DiallerEnds, netVars, TransportInv, Kinds, Conn, Addr
  <2>  QED  BY <2>1, <2>2
<1>  QED  BY <1>1, <1>2, <1>3, <1>4, <1>5 DEF TransportNext

LEMMA StopInvHolds == TransportSpec => []StopInv
<1>1. TransportInit => StopInv
  BY DEF TransportInit, StopInv, StopsForAReason
<1>  QED  BY <1>1, StopInvariance, Invariance, PTL DEF TransportSpec

(* The accept loop ends when the context is done or over a handshake that  *)
(* failed, and for no other reason.                                        *)
THEOREM ListenerStopsForAReason == TransportSpec => []StopsForAReason
<1>1. StopInv => StopsForAReason  BY DEF StopInv
<1>  QED  BY <1>1, StopInvHolds, PTL

(* The race for t.ln, which newRemotePeer reads without a lock, and that   *)
(* for ShutdownWG, which counts the bootstrap goroutine last of all, are   *)
(* races with the start of the node and no other.                          *)
THEOREM PanicsOnlyAtStart == TransportSpec => []RacesEndWithTheStart
<1>1. TransportInv /\ StopInv => RacesEndWithTheStart
  BY DEF TransportInv, CountInv, StopInv, StopsForAReason, Done, RacesEndWithTheStart
<1>  QED  BY <1>1, Invariance, StopInvHolds, PTL
=============================================================================
