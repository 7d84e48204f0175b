--------------------------- MODULE MCUserIdentity ---------------------------
(* A node that starts a few times, with the right password or another.     *)
EXTENDS UserIdentity
=============================================================================
