----------------------------- MODULE MCTpServe -----------------------------
(***************************************************************************)
(* Small instances of TpServe.                                             *)
(***************************************************************************)
EXTENDS TpServe

CONSTANTS a, b, c, r1, r2, r3

\* r3 is the next turn of r1's conversation.
NextTurn ==
    [r \in Reqs |-> IF r = r1 THEN [conv |-> a, len |-> 2]
                    ELSE IF r = r2 THEN [conv |-> b, len |-> 2]
                    ELSE [conv |-> a, len |-> 3]]

\* A lane outlives its first step and can be cancelled in it.
ThreeTokens == [r \in Reqs |-> 3]

OneBoundary == [r \in Reqs |-> 1]

\* The checkpoints of the last slot resume r2 deepest.
LastSlotResumes == [r \in Reqs |-> IF r = r2 THEN {Max(Slots)} ELSE {}]
=============================================================================
