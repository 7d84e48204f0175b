---------------------------- MODULE GuardianVault ----------------------------
(***************************************************************************)
(* What the guardians promise about the parts of one capsule they keep,    *)
(* read from their disks alone and so true after a crash as well: a        *)
(* guardian only moves forward through its stages, it takes in shards      *)
(* while it is open and never afterwards, and it never drops one.          *)
(***************************************************************************)
CONSTANTS Guardians,
          Shards     \* what a guardian may hold

VARIABLES stage,  \* "none", "open", "sealed", "listed" (has the manifest), "keyed" (has a share)
          held    \* the shards kept

vaultVars == <<stage, held>>

VaultInit == /\ stage = [g \in Guardians |-> "none"]
             /\ held = [g \in Guardians |-> {}]

Advance(g, from, to) == stage[g] = from /\ stage' = [stage EXCEPT ![g] = to]

Open(g) == Advance(g, "none", "open") /\ UNCHANGED held

Keep(g) == /\ stage[g] = "open" /\ UNCHANGED stage
           /\ \E s \in Shards : held' = [held EXCEPT ![g] = @ \cup {s}]

Close(g) == /\ held[g] # {} /\ UNCHANGED held
            /\ \/ Advance(g, "open", "sealed")
               \/ Advance(g, "sealed", "listed")
               \/ Advance(g, "listed", "keyed")

VaultNext == \E g \in Guardians : Open(g) \/ Keep(g) \/ Close(g)

VaultSpec == VaultInit /\ [][VaultNext]_vaultVars
=============================================================================
