-------------------------- MODULE RecoveryThreshold --------------------------
(***************************************************************************)
(* What CreateCapsuleDTO.validate accepts, and the number of key shares it *)
(* lets a capsule be recovered with.                                       *)
(***************************************************************************)
EXTENDS Integers

CONSTANTS MinGuardians,  \* Defaults.MinNumOfGuardians
          MaxGuardians   \* Defaults.MaxNumOfGuardians

ASSUME MinGuardiansAssumption == MinGuardians \in Nat /\ MinGuardians >= 3
ASSUME MaxGuardiansAssumption == MaxGuardians \in Nat

(* A payload: how many guardian addresses it names and which of them were  *)
(* not reached when dialled (a nil entry), the letter, the file paths, and *)
(* the threshold asked for (0: none).                                      *)
Payload == [n : Nat, unreached : SUBSET Nat,
            letter : {"none", "empty", "text"},
            files  : {"none", "blank", "missing", "present"},
            threshold : Int]

calculateDefaultThreshold(n) ==
  CASE n <= 3 -> 2
    [] n > 3 /\ n <= 5 -> (n + 1) \div 2 + 1
    [] n > 5 /\ n <= 7 -> (2 * n + 2) \div 3
    [] OTHER -> (3 * n + 2) \div 5

(* The threshold a payload leaves validate with.                           *)
Threshold(pl) == IF pl.threshold = 0 THEN calculateDefaultThreshold(pl.n)
                                     ELSE pl.threshold

hasFilePaths(pl) == pl.files \in {"missing", "present"}

validate(pl) == /\ MinGuardians <= pl.n /\ pl.n <= MaxGuardians
                /\ pl.letter # "none" \/ hasFilePaths(pl)
                /\ pl.files # "missing"
                /\ pl.letter # "empty"
                /\ 2 <= Threshold(pl) /\ Threshold(pl) <= pl.n
=============================================================================
