---------------------------- MODULE LaneService ----------------------------
(***************************************************************************)
(* What a lane server promises its clients, however it schedules: a        *)
(* request is queued, runs in one of a fixed number of lanes, and is       *)
(* answered once; it is dropped only if its client left; and nothing       *)
(* completes once the engine is broken.  The single-box scheduler          *)
(* (Exl3Serve) and the tensor-parallel head (TpServe) implement it.        *)
(***************************************************************************)
EXTENDS Naturals, FiniteSets

CONSTANTS
    Reqs,           \* request identities
    Lanes           \* number of lanes

VARIABLES
    state,          \* of each request
    gone,           \* requests whose client left
    broken          \* the engine met an error it does not survive

vars == <<state, gone, broken>>

Held == {"queued", "running"}
States == {"new", "done", "failed", "dropped"} \cup Held

Init ==
    /\ state = [r \in Reqs |-> "new"]
    /\ gone = {}
    /\ broken = FALSE

\* A request is handed to the scheduler, or refused for a broken engine.
Submit(r) ==
    /\ state[r] = "new"
    /\ \/ state' = [state EXCEPT ![r] = "queued"]
       \/ broken /\ state' = [state EXCEPT ![r] = "failed"]
    /\ UNCHANGED <<gone, broken>>

Leave(r) ==
    /\ state[r] \in Held
    /\ gone' = gone \cup {r}
    /\ UNCHANGED <<state, broken>>

\* What one step of the scheduler may do to a request.
Moves(r, from, to) ==
    \/ to = from
    \/ from = "queued" /\ to = "running"
    \/ from = "running" /\ to = "done" /\ ~broken
    \/ from \in Held /\ to = "failed"
    \/ from \in Held /\ to = "dropped" /\ r \in gone

\* A step of the scheduler moves any number of requests, and may break the engine.
Serve ==
    /\ state' \in [Reqs -> States]
    /\ \A r \in Reqs : Moves(r, state[r], state'[r])
    /\ Cardinality({r \in Reqs : state'[r] = "running"}) <= Lanes
    /\ broken' \in {broken, TRUE}
    /\ UNCHANGED gone

Next == (\E r \in Reqs : Submit(r) \/ Leave(r)) \/ Serve

Spec == Init /\ [][Next]_vars
=============================================================================
