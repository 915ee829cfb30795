--------------------------- MODULE MCHubLockstep ---------------------------
(* Three ranks, frames of two sizes, slots that are used again. *)
EXTENDS HubLockstep
TwoKinds == <<"spill", "spill", "go">>
TwoWires == [kind \in {"go", "spill"} |-> IF kind = "go" THEN 2 ELSE 3]
=============================================================================
