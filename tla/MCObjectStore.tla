---------------------------- MODULE MCObjectStore ----------------------------
(* Three contents, two of which have hashes that end in the same digits.   *)
EXTENDS ObjectStore
CONSTANTS d1, d2, d3
MCName == [d \in Data |-> IF d = d3 THEN "9b1e" ELSE "04af"]
=============================================================================
