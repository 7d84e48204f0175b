---------------------------- MODULE PeerTransport ----------------------------
(***************************************************************************)
(* One node's connections: peer.Run, the transport it builds, the          *)
(* goroutine that listens and accepts, one goroutine that reads each       *)
(* accepted connection, those that dial bootstrap peers and guardians, and *)
(* the registry of connected peers they all share.                         *)
(***************************************************************************)
EXTENDS Integers, FiniteSets

CONSTANTS Incoming,      \* connections other nodes may open to this one
          Guardians,     \* addresses findRemotePeersBy is called with
          Bootstrap,     \* the first bootstrap address, the only one ever dialled
          NumBootstrap,  \* how many bootstrap addresses are configured
          retryMax       \* attempts connect makes

ASSUME TransportAssumption ==
  /\ IsFiniteSet(Incoming) /\ IsFiniteSet(Guardians)
  /\ Bootstrap \notin Guardians
  /\ Incoming \cap (Guardians \cup {Bootstrap}) = {}
  /\ NumBootstrap \in Nat \ {0} /\ retryMax \in Nat \ {0}

VARIABLES main,        \* peer.Run; its context is cancelled when it returns
          ln,          \* t.ln
          lpc,         \* the listener goroutine
          conn,        \* the connections as this node holds them
          hpc,         \* the goroutine of each accepted connection
          bpc,         \* the bootstrap goroutine
          dpc, tries,  \* the goroutine that dials each address, and its attempts
          find, rps,   \* findRemotePeersBy and the slots it filled
          registry,    \* connectedRemotePeers: a connection's ID is its own
          twg, swg,    \* t.wg and ShutdownWG
          panic        \* what ended the process, if anything did

hVars   == <<lpc, hpc, twg>>
dVars   == <<dpc, tries, find, rps>>
mVars   == <<main, bpc, swg, panic>>
netVars == <<ln, conn, registry>>
transportVars == <<mVars, hVars, dVars, netVars>>

Addr == Guardians \cup {Bootstrap}
Conn == Incoming \cup Addr

TransportInit ==
  /\ main = "new" /\ ln = "nil"
  /\ lpc = "none"
  /\ conn = [c \in Conn |-> "none"]
  /\ hpc = [c \in Incoming |-> "none"]
  /\ bpc = "none"
  /\ dpc = [a \in Addr |-> "none"] /\ tries = [a \in Addr |-> 0]
  /\ find = "idle" /\ rps = {}
  /\ registry = {}
  /\ twg = 0 /\ swg = 0
  /\ panic = "none"

Done == main = "returned"

(* ShutdownWG.Done, which panics when the counter goes negative.           *)
SwgDone == IF swg = 0 THEN panic' = "counter" /\ UNCHANGED swg
                      ELSE swg' = swg - 1 /\ UNCHANGED panic

-----------------------------------------------------------------------------
(* peer.Run and NewTCPTransport.                                           *)

listenAndAccept == /\ main = "new" /\ main' = "listening"
                   /\ swg' = swg + 1
                   /\ lpc' = "listen"
                   /\ UNCHANGED <<bpc, panic, hpc, twg, dVars, netVars>>

(* The goroutine is started first, its count added by a deferred call.     *)
connectBootstrapPeers == /\ main = "listening" /\ main' = "bootstrapping"
                         /\ bpc' = "run"
                         /\ UNCHANGED <<swg, panic, hVars, dVars, netVars>>

\* Variant: the deferred call is left out.
TransportMadeUncounted == /\ main = "bootstrapping" /\ main' = "running"
                          /\ UNCHANGED <<swg, bpc, panic, hVars, dVars, netVars>>

TransportMade == /\ main = "bootstrapping" /\ main' = "running"
                 /\ swg' = swg + 1
                 /\ UNCHANGED <<bpc, panic, hVars, dVars, netVars>>

(* Run has nothing left to do: it returns, and so cancels the context.     *)
RunReturns == /\ main = "running" /\ main' = "returned"
              /\ UNCHANGED <<bpc, swg, panic, hVars, dVars, netVars>>

(* The bootstrap loop returns from its first round; it does not wait for   *)
(* the dial, and with a single address there is none.                      *)
Bootstraps == /\ bpc = "run" /\ bpc' = "ended"
              /\ SwgDone
              /\ dpc' = IF NumBootstrap > 1 THEN [dpc EXCEPT ![Bootstrap] = "dial"] ELSE dpc
              /\ UNCHANGED <<main, tries, find, rps, hVars, netVars>>

-----------------------------------------------------------------------------
(* The listener goroutine.                                                 *)

Listen == /\ lpc = "listen" /\ lpc' = "loop"
          /\ ln' = "open"
          /\ UNCHANGED <<hpc, twg, conn, registry, mVars, dVars>>

(* The address is taken: the program is ended.                             *)
ListenFails == /\ lpc = "listen" /\ panic' = "listen"
               /\ UNCHANGED <<main, bpc, swg, hVars, dVars, netVars>>

\* Variant: the field is cleared when the listener is closed.
ListenerEndsCleared == /\ lpc' = "ended"
                       /\ ln' = "nil"
                       /\ SwgDone

(* The deferred calls of the goroutine.                                    *)
ListenerEnds == /\ lpc' = "ended"
                /\ ln' = "closed"
                /\ SwgDone

CheckDone == /\ lpc = "loop"
             /\ lpc' = IF Done THEN "wait" ELSE "accept"
             /\ UNCHANGED <<hpc, twg, netVars, mVars, dVars>>

\* Variant: an error of Accept returns.
AcceptOrEnd == /\ lpc = "accept"
               /\ \/ /\ \E c \in Incoming :
                            /\ conn[c] = "pending"
                            /\ conn' = [conn EXCEPT ![c] = "open"]
                       /\ lpc' = "handshake"
                       /\ UNCHANGED <<ln, mVars>>
                  \/ ListenerEnds /\ UNCHANGED <<conn, main, bpc>>
               /\ UNCHANGED <<hpc, twg, registry, dVars>>

Accept == /\ lpc = "accept"
          /\ \/ \E c \in Incoming :
                  /\ conn[c] = "pending"
                  /\ conn' = [conn EXCEPT ![c] = "open"]
                  /\ lpc' = "handshake"
             \/ lpc' = "loop" /\ UNCHANGED conn
          /\ UNCHANGED <<hpc, twg, ln, registry, mVars, dVars>>

(* The connection acceptLoop has in hand.                                  *)
InHand == {c \in Incoming : conn[c] = "open" /\ hpc[c] = "none"}

DoServerHandshake == /\ lpc = "handshake" /\ lpc' = "loop"
                     /\ twg' = twg + 1
                     /\ \E c \in InHand : hpc' = [hpc EXCEPT ![c] = "lookup"]
                     /\ UNCHANGED <<netVars, mVars, dVars>>

(* What is logged of the connection is the first six bytes of its key,     *)
(* which has the length the other side put in front of it.                 *)
KeyTooShort == /\ lpc = "handshake" /\ panic' = "key"
               /\ UNCHANGED <<main, bpc, swg, hVars, dVars, netVars>>

(* A handshake that fails ends acceptLoop.                                 *)
HandshakeFails == /\ lpc = "handshake"
                  /\ \E c \in InHand : conn' = [conn EXCEPT ![c] = "closed"]
                  /\ ListenerEnds
                  /\ UNCHANGED <<registry, hpc, twg, main, bpc, dVars>>

\* Variant: connections in flight are not waited for.
ShutsDownAtOnce == /\ lpc = "wait"
                   /\ ListenerEnds
                   /\ UNCHANGED <<conn, registry, hpc, twg, main, bpc, dVars>>

ShutsDown == /\ lpc = "wait" /\ twg = 0
             /\ ListenerEnds
             /\ UNCHANGED <<conn, registry, hpc, twg, main, bpc, dVars>>

ListenerStep == \/ Listen \/ ListenFails \/ CheckDone \/ Accept
                \/ DoServerHandshake \/ KeyTooShort \/ HandshakeFails \/ ShutsDown

-----------------------------------------------------------------------------
(* onConnect looks the connection up and stores it under two separate      *)
(* locks.                                                                  *)

(* Stored already: a fresh entry stays, a stale one is replaced by the     *)
(* same connection.                                                        *)
Lookup(c, stored, store) == {store} \cup (IF c \in registry THEN {stored} ELSE {})

-----------------------------------------------------------------------------
(* The goroutine of an accepted connection (handleRemotePeerConn).         *)

Handler(c, from, to) == hpc[c] = from /\ hpc' = [hpc EXCEPT ![c] = to]

HandlerLooksUp(c) == /\ \E l \in Lookup(c, "loop", "store") : Handler(c, "lookup", l)
                     /\ UNCHANGED <<lpc, twg, netVars, mVars, dVars>>

HandlerStores(c) == /\ Handler(c, "store", "loop")
                    /\ registry' = registry \cup {c}
                    /\ UNCHANGED <<lpc, twg, ln, conn, mVars, dVars>>

HandlerChecksDone(c) == /\ Handler(c, "loop", IF Done THEN "disconnect" ELSE "read")
                        /\ UNCHANGED <<lpc, twg, netVars, mVars, dVars>>

(* A frame is read and dealt with, or the read fails.                      *)
ReadFrame(c) == /\ Handler(c, "read", "loop") \/ Handler(c, "read", "disconnect")
                /\ UNCHANGED <<lpc, twg, netVars, mVars, dVars>>

\* Variant: the deferred call of OnDisconnect is missing.
NoOnDisconnect(c) == /\ Handler(c, "disconnect", "close")
                     /\ UNCHANGED <<lpc, twg, netVars, mVars, dVars>>

(* The deferred calls run last to first.                                   *)
onDisconnect(c) == /\ Handler(c, "disconnect", "close")
                   /\ registry' = registry \ {c}
                   /\ UNCHANGED <<lpc, twg, ln, conn, mVars, dVars>>

HandlerCloses(c) == /\ Handler(c, "close", "count")
                    /\ conn' = [conn EXCEPT ![c] = "closed"]
                    /\ UNCHANGED <<lpc, twg, ln, registry, mVars, dVars>>

HandlerEnds(c) == /\ Handler(c, "count", "ended")
                  /\ twg' = twg - 1
                  /\ UNCHANGED <<lpc, netVars, mVars, dVars>>

HandlerStep(c) == \/ HandlerLooksUp(c) \/ HandlerStores(c) \/ HandlerChecksDone(c)
                  \/ ReadFrame(c) \/ onDisconnect(c) \/ HandlerCloses(c) \/ HandlerEnds(c)

-----------------------------------------------------------------------------
(* The goroutines that dial (connect), and findRemotePeersBy.              *)

Dialler(a, from, to) == dpc[a] = from /\ dpc' = [dpc EXCEPT ![a] = to]

Dial(a) == /\ Dialler(a, "dial", "handshake")
           /\ conn' = [conn EXCEPT ![a] = "open"]
           /\ UNCHANGED <<tries, find, rps, ln, registry, mVars, hVars>>

\* Variant: one attempt too many.
DialFailsOnceMore(a) ==
  /\ tries' = [tries EXCEPT ![a] = @ + 1]
  /\ Dialler(a, "dial", IF tries[a] = retryMax THEN "failed" ELSE "dial")
  /\ UNCHANGED <<find, rps, netVars, mVars, hVars>>

DialFails(a) == /\ tries' = [tries EXCEPT ![a] = @ + 1]
                /\ Dialler(a, "dial", IF tries[a] + 1 = retryMax THEN "failed" ELSE "dial")
                /\ UNCHANGED <<find, rps, netVars, mVars, hVars>>

(* The client's handshake, or a connection left behind open.               *)
DoClientHandshake(a) == /\ Dialler(a, "handshake", "wrap") \/ Dialler(a, "handshake", "failed")
                        /\ UNCHANGED <<tries, find, rps, netVars, mVars, hVars>>

(* newRemotePeer asks the listener for its address: where the goroutine    *)
(* that listens has not set it yet the process panics.                     *)
newRemotePeer(a) == /\ IF ln = "nil" THEN panic' = "ln" /\ Dialler(a, "wrap", "wrap")
                       ELSE UNCHANGED panic /\ Dialler(a, "wrap", "lookup")
                    /\ UNCHANGED <<tries, find, rps, netVars, main, bpc, swg, hVars>>

DiallerLooksUp(a) == /\ \E l \in Lookup(a, "report", "store") : Dialler(a, "lookup", l)
                     /\ UNCHANGED <<tries, find, rps, netVars, mVars, hVars>>

DiallerStores(a) == /\ Dialler(a, "store", "report")
                    /\ registry' = registry \cup {a}
                    /\ UNCHANGED <<tries, find, rps, ln, conn, mVars, hVars>>

DiallerEnds(a) == /\ Dialler(a, "report", "ended")
                  /\ rps' = IF a \in Guardians THEN rps \cup {a} ELSE rps
                  /\ UNCHANGED <<tries, find, netVars, mVars, hVars>>

DialStep(a) == \/ Dial(a) \/ DialFails(a) \/ DoClientHandshake(a) \/ newRemotePeer(a)
               \/ DiallerLooksUp(a) \/ DiallerStores(a) \/ DiallerEnds(a)

findRemotePeersBy == /\ find = "idle" /\ main \in {"running", "returned"}
                     /\ find' = "waiting"
                     /\ dpc' = [a \in Addr |-> IF a \in Guardians THEN "dial" ELSE dpc[a]]
                     /\ UNCHANGED <<tries, rps, netVars, mVars, hVars>>

\* Variants: the dials are not waited for; those that fail are never counted off.
FindReturnsAtOnce == /\ find = "waiting"
                    /\ find' = "returned"
                    /\ UNCHANGED <<dpc, tries, rps, netVars, mVars, hVars>>

FindAwaitsAnswers == /\ find = "waiting" /\ rps = Guardians
                     /\ find' = "returned"
                     /\ UNCHANGED <<dpc, tries, rps, netVars, mVars, hVars>>

FindReturns == /\ find = "waiting"
               /\ \A a \in Guardians : dpc[a] \in {"ended", "failed"}
               /\ find' = "returned"
               /\ UNCHANGED <<dpc, tries, rps, netVars, mVars, hVars>>

(* Another node dials this one: the backlog takes it while ln is open.     *)
RemoteDials(c) == /\ conn[c] = "none" /\ ln = "open"
                  /\ conn' = [conn EXCEPT ![c] = "pending"]
                  /\ UNCHANGED <<ln, registry, mVars, hVars, dVars>>

MainStep == listenAndAccept \/ connectBootstrapPeers \/ TransportMade \/ RunReturns

TransportNext == /\ panic = "none"
                 /\ \/ MainStep \/ Bootstraps \/ ListenerStep
                    \/ findRemotePeersBy \/ FindReturns
                    \/ \E c \in Incoming : RemoteDials(c) \/ HandlerStep(c)
                    \/ \E a \in Addr : DialStep(a)

TransportSpec == TransportInit /\ [][TransportNext]_transportVars

(* Goroutines are scheduled; a dial, and a handshake with its read         *)
(* deadline, come to an end.  Accept and ReadFrame may wait for ever.      *)
FairTransportSpec ==
  /\ TransportSpec
  /\ WF_transportVars(panic = "none" /\ FindReturns)
  /\ \A a \in Addr : WF_transportVars(panic = "none" /\ DialStep(a))

-----------------------------------------------------------------------------
(***************************************************************************)
(* Properties                                                              *)
(***************************************************************************)

Running(c) == hpc[c] \notin {"none", "ended"}

(* Every variable keeps its type; the connection in its handshake is the  *)
(* one accepted that no goroutine reads yet, and no address is dialled     *)
(* more than retryMax times.                                               *)
TransportTypeOK ==
  /\ main \in {"new", "listening", "bootstrapping", "running", "returned"}
  /\ ln \in {"nil", "open", "closed"}
  /\ lpc \in {"none", "listen", "loop", "accept", "handshake", "wait", "ended"}
  /\ lpc = "handshake" => Cardinality(InHand) = 1
  /\ conn \in [Conn -> {"none", "pending", "open", "closed"}]
  /\ hpc \in [Incoming -> {"none", "lookup", "store", "loop", "read", "disconnect",
                           "close", "count", "ended"}]
  /\ bpc \in {"none", "run", "ended"}
  /\ dpc \in [Addr -> {"none", "dial", "handshake", "wrap", "lookup", "store", "report",
                       "ended", "failed"}]
  /\ tries \in [Addr -> 0 .. retryMax]
  /\ find \in {"idle", "waiting", "returned"} /\ rps \subseteq Guardians
  /\ registry \subseteq Conn
  /\ twg \in Nat /\ swg \in Nat
  /\ panic \in {"none", "listen", "ln", "key", "counter"}

(* The registry never offers a connection this node has closed, whichever  *)
(* of the goroutines that share it runs when.                              *)
RegisteredAreOpen == \A c \in registry : conn[c] = "open"

(* The two wait groups count the goroutines that run once the transport is *)
(* made, though the bootstrap goroutine may be done before it is counted:  *)
(* a node that got past its start never counts one off too many.           *)
WaitGroupsCount ==
  /\ twg = Cardinality({c \in Incoming : Running(c)})
  /\ main \in {"running", "returned"} =>
       swg = Cardinality({g \in {"listener", "bootstrap"} :
                            IF g = "listener" THEN lpc # "ended" ELSE bpc # "ended"})

(* A listener that shuts down, rather than being ended by a bad handshake, *)
(* leaves no accepted connection open, read or registered behind.          *)
ShutdownIsClean ==
  lpc = "ended" /\ (\A c \in Incoming : conn[c] = "closed" => hpc[c] = "ended") =>
    \A c \in Incoming : ~Running(c) /\ c \notin registry

(* What findRemotePeersBy returns are exactly the guardians whose dial     *)
(* went well, each of them registered and open; no goroutine still writes  *)
(* into the slice.                                                         *)
FoundAreConnected ==
  find = "returned" =>
    \A a \in Guardians : IF a \in rps THEN a \in registry /\ conn[a] = "open"
                                      ELSE dpc[a] = "failed"

(* The search for guardians ends, whoever answers, unless the process does *)
(* first.                                                                  *)
SearchEnds == find = "waiting" ~> find = "returned" \/ panic # "none"

(* The node stops accepting when it is done or when a handshake failed,    *)
(* never over a connection that did not come in: "could not perform        *)
(* handshake. dropping conn" costs the listener, an error of Accept only a *)
(* round of the loop.                                                      *)
StopsForAReason ==
  lpc = "ended" => Done \/ \E c \in Incoming : conn[c] = "closed" /\ hpc[c] = "none"

(* The two races of the start end with it: newRemotePeer finds t.ln nil    *)
(* only before the listener goroutine has listened, never after it closed  *)
(* it, and ShutdownWG goes negative only while connectBootstrapPeers has   *)
(* yet to count the bootstrap goroutine, when that goroutine is done and   *)
(* a failed handshake has already cost the listener.                       *)
RacesEndWithTheStart ==
  /\ panic = "ln" => lpc \in {"none", "listen"}
  /\ panic = "counter" =>
       /\ main = "bootstrapping" /\ bpc = "ended"
       /\ \E c \in Incoming : conn[c] = "closed" /\ hpc[c] = "none"
=============================================================================
