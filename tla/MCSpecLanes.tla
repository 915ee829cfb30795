---------------------------- MODULE MCSpecLanes ----------------------------
(* A small instance of SpecLanes.                                            *)
EXTENDS SpecLanes

TwoLanes == {0, 1}
=============================================================================
