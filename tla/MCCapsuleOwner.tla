--------------------------- MODULE MCCapsuleOwner ---------------------------
(* Small payloads for CapsuleOwner.                                        *)
EXTENDS CapsuleRecovery, StreamProtocol

Letter(n) == [n |-> n, unreached |-> {}, letter |-> "text",
              files |-> "none", threshold |-> 0]

ThreeGuardians == {Letter(3)}
FourGuardians  == {Letter(4)}
FiveGuardians  == {Letter(5)}

\* A letter with files to four guardians, and the payloads that get no further than the start.
AnyPayload ==
  LET Whole == [Letter(4) EXCEPT !.files = "present"]
  IN {Whole,
      [Whole EXCEPT !.n = 2], [Whole EXCEPT !.letter = "none"], [Whole EXCEPT !.letter = "empty"],
      [Whole EXCEPT !.files = "blank"], [Whole EXCEPT !.files = "missing"],
      [Whole EXCEPT !.letter = "none", !.files = "none"],
      [Whole EXCEPT !.unreached = {2}],
      [Whole EXCEPT !.threshold = 1], [Whole EXCEPT !.threshold = 5]}
=============================================================================
