--------------------------- MODULE MCPrefixTiers ---------------------------
(* Conversations of two turns each that share their first rows, and a third one.  No
   prompt is an earlier one less its last token (see the README, spill lookups). *)
EXTENDS PrefixTiers

AnySlot == Permutations(Slots)

TwoTurns == {<<1, 1, 2, 2>>, <<1, 1, 2, 2, 3, 3, 3>>, <<1, 1, 4, 4, 4>>}
Strangers == {<<1, 1, 2, 2>>, <<1, 1, 2, 2, 3, 3, 3>>, <<5, 5, 5, 5>>, <<5, 5, 6, 6>>}
LastMessage == [p \in Prompts |-> Len(p)]

CkptOnly == {[ckpt |-> 2, spill |-> 0, tail |-> t] : t \in 0..2}
\* A store that has room for one of two snapshots, and one that is too small for the longer.
SpillOnly == {[ckpt |-> 0, spill |-> n, tail |-> 0] : n \in {3, 6}}
EachAlone == CkptOnly \cup SpillOnly
Both == {[ckpt |-> 2, spill |-> 7, tail |-> t] : t \in 0..2}
=============================================================================
