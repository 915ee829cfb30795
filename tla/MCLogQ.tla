------------------------------- MODULE MCLogQ -------------------------------
(* Small instances of LogQ: the channel holds fewer lines than are sent.     *)
EXTENDS LogQ, TLC

CONSTANTS sched, handler

MCSenders == {sched, handler}
=============================================================================
