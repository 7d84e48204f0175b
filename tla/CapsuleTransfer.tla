--------------------------- MODULE CapsuleTransfer ---------------------------
(***************************************************************************)
(* One capsule from the owner's call to the guardians' disks: the owner    *)
(* and every guardian run concurrently and share nothing but the           *)
(* connections.  No message ever goes back to the owner.                   *)
(***************************************************************************)
EXTENDS CapsuleOwner, CapsuleGuardian

transferVars == <<ownerVars, guardianVars, wireVars>>

TransferInit == WireInit /\ OwnerInit /\ GuardianInit

OwnerMoves == OwnerNext /\ UNCHANGED guardianVars
GuardianMoves(p) == GuardianStep(p) /\ UNCHANGED <<ownerVars, wireVars>>
GuardianBreaks(p) == GuardianFaults(p) /\ UNCHANGED <<ownerVars, wireVars>>

TransferNext == \/ OwnerMoves
                \/ \E p \in Peer : GuardianMoves(p) \/ GuardianBreaks(p)

TransferSpec == TransferInit /\ [][TransferNext]_transferVars

-----------------------------------------------------------------------------
(***************************************************************************)
(* Properties                                                              *)
(***************************************************************************)

Received(p) == result[p] = "ok"

(* When every guardian the owner settled on received the capsule without   *)
(* error, every shard of every block the manifest lists is on record at    *)
(* one of them, and in its file unless a later shard of that guardian has  *)
(* taken the name.                                                         *)
ReceivedIsWhole ==
  pc = "ok" /\ (\A p \in Active : Received(p)) =>
    \A j \in 1 .. Len(manifest), x \in Shard :
      \E p \in Active : \E i \in 1 .. Len(sent[p]) :
        /\ IsShard(p, i) /\ Id(sent[p][i]) = <<manifest[j], x>>
        /\ <<manifest[j], x>> \in metas[p] /\ HasFile(p, i)

(* Whatever fails, guardians never come to hold different manifests or the *)
(* same key share.                                                         *)
GuardiansAgree ==
  \A p, q \in Peer : p # q =>
    /\ manifests[p] # {} /\ manifests[q] # {} => manifests[p] = manifests[q]
    /\ shares[p] \cap shares[q] = {}

(* The flow's "deliverFinal ... finalizeReceive" for every remote peer:    *)
(* where nothing breaks no guardian gives up on a capsule the owner's call *)
(* sent in full.                                                           *)
EveryGuardianFinalizes == pc = "ok" => \A p \in Active : result[p] # "failed"
=============================================================================
