----------------------------- MODULE MCSpillTp -----------------------------
(* Three ranks, a store of three units and files of one and of two. *)
EXTENDS SpillTp

CONSTANTS a, b, c

ThreeKeys == {a, b, c}
SizeByKey == [k \in Keys |-> IF k = a THEN 2 ELSE 1]
AllOne == [k \in Keys |-> 1]
=============================================================================
