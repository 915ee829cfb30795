---------------------------- MODULE MCExl3Serve ----------------------------
(* Small instances of Exl3Serve.                                             *)
EXTENDS Exl3Serve

CONSTANTS a, b, c, r1, r2, r3, r4

\* r3 is the next turn of r1's conversation, r2 and r4 are strangers.
TurnAndStranger ==
    [r \in Reqs |-> IF r = r1 THEN [conv |-> a, len |-> 2]
                    ELSE IF r = r2 THEN [conv |-> b, len |-> 2]
                    ELSE IF r = r3 THEN [conv |-> a, len |-> 3]
                    ELSE [conv |-> c, len |-> 2]]

TwoTokens == [r \in Reqs |-> 2]
=============================================================================
