--------------------------- MODULE MCPeerTransport ---------------------------
(* A node that two others dial and that dials two guardians.               *)
EXTENDS PeerTransport

CONSTANTS c1, c2, g1, g2, b1
=============================================================================
