----------------------------- MODULE SlotPick -----------------------------
(***************************************************************************)
(* The choice of a lane for an admitted prompt, the first block of         *)
(* admit_req (src/src/exl3_serve.rs).  The single-box scheduler and every  *)
(* rank of the tensor-parallel one make it from their own tables.          *)
(***************************************************************************)
EXTENDS LaneReserve

CONSTANT NoSnap     \* no snapshot in a lane

\* t.len() < prompt.len() && prompt[..t.len()] == t: an empty snapshot fits all.
ContinuedBy(snap, p) ==
    /\ snap # NoSnap
    /\ snap.len < p.len
    /\ snap.len = 0 \/ snap.conv = p.conv

\* The longest of the snapshots a prompt continues (ties: the highest slot).
IsLongest(s, hits, snaps) ==
    /\ s \in hits
    /\ \A t \in hits :
        \/ snaps[t].len < snaps[s].len
        \/ snaps[t].len = snaps[s].len /\ t <= s

\* The lane: a snapshot hit, else the policy's victim (reservation on), else the
\* deepest WP16 resume, an empty lane, the first lane.
IsPickOf(s, hits, free, snaps, scoped, views, deep) ==
    LET empty == {t \in free : snaps[t] = NoSnap}
    IN  IF hits # {} THEN IsLongest(s, hits, snaps)
        ELSE IF scoped THEN IsVictim(s, free, views, deep)
        ELSE IF deep \cap free # {} THEN IsHighest(s, deep \cap free)
        ELSE IF empty # {} THEN IsLowest(s, empty)
        ELSE IsLowest(s, free)
=============================================================================
