---------------------------- MODULE LaneReserve ----------------------------
(***************************************************************************)
(* The lane reservation policy of the EXL3 server (--lane-reserve R        *)
(* --lane-reserve-patience P --lane-reserve-swap S), src/src/              *)
(* lane_reserve.rs: pure decisions over plain views of the lanes and of    *)
(* the queue.  Each rule of `plan` is a predicate of its own; the          *)
(* scheduler's actions take them as guards.  Instants are natural numbers  *)
(* of one clock, None is Never (which orders before every instant, as      *)
(* Option<Instant> does).                                                  *)
(***************************************************************************)
EXTENDS Integers, Sequences, FiniteSets

CONSTANTS
    Slots,      \* lane indices
    Reserve,    \* R: a lane is kept this long after a normal finish, 0 = off
    Patience,   \* P: a queue head that waited this long may take a reserved lane
    Swap        \* S: at most one forced take per S, 0 = no limit

ASSUME PolicyAssumption ==
    /\ Slots \subseteq Nat /\ IsFiniteSet(Slots) /\ Slots # {}
    /\ Reserve \in Nat
    /\ Patience \in Nat \ {0}
    /\ Swap \in Nat

Never == -1
NoSlot == -1

Instants == Nat \cup {Never}
SlotViews == [busy : BOOLEAN, hasSnapshot : BOOLEAN,
              releasedAt : Instants, normalFinish : BOOLEAN]
WaitViews == [arrivedAt : Nat, own : Slots \cup {NoSlot}]

\* The first and the last of a set of slots, in index order.
IsLowest(s, set) == s \in set /\ \A t \in set : s <= t
IsHighest(s, set) == s \in set /\ \A t \in set : t <= s

Free(views) == {s \in Slots : ~views[s].busy}

\* A free lane whose last release was a normal finish less than R ago and
\* that still holds its snapshot.
Reserved(view, now) ==
    /\ Reserve # 0
    /\ ~view.busy
    /\ view.normalFinish
    /\ view.hasSnapshot
    /\ view.releasedAt # Never
    /\ now - view.releasedAt < Reserve

Unreserved(views, now) == {s \in Free(views) : ~Reserved(views[s], now)}

-----------------------------------------------------------------------------
(* plan: rules 1 to 4, tried in this order *)

\* Mutant: rule 1 looks at the head of the queue only.
OwnHoldersHead(views, waits) == {i \in DOMAIN waits : i = 1 /\ waits[i].own \in Free(views)}
OwnHolders(views, waits) == {i \in DOMAIN waits : waits[i].own \in Free(views)}

\* min_by_key(arrived_at): the oldest of them, the first in the queue among equals.
IsOldest(i, waits, I) ==
    /\ i \in I
    /\ \A j \in I :
        \/ waits[i].arrivedAt < waits[j].arrivedAt
        \/ waits[i].arrivedAt = waits[j].arrivedAt /\ i <= j

OwnRule(views, waits) ==
    /\ waits # <<>>
    /\ Reserve # 0
    /\ OwnHolders(views, waits) # {}

UnreservedRule(views, waits, now) ==
    /\ waits # <<>>
    /\ ~OwnRule(views, waits)
    /\ Unreserved(views, now) # {}

\* Mutant: the head need not be past its patience.
HeadMayForceEarly(waits, nextForced, now) == nextForced = Never \/ now >= nextForced
\* The head is past its patience and the limiter lets a forced take through.
HeadMayForce(waits, nextForced, now) ==
    /\ now - waits[1].arrivedAt >= Patience
    /\ nextForced = Never \/ now >= nextForced

ForcedRule(views, waits, nextForced, now) ==
    /\ waits # <<>>
    /\ ~OwnRule(views, waits)
    /\ Unreserved(views, now) = {}
    /\ Free(views) # {}
    /\ HeadMayForce(waits, nextForced, now)

WaitRule(views, waits, nextForced, now) ==
    /\ ~OwnRule(views, waits)
    /\ ~UnreservedRule(views, waits, now)
    /\ ~ForcedRule(views, waits, nextForced, now)

\* Mutant: the limiter's interval is not added.
ArmLimiterNow(now) == IF Swap = 0 THEN Never ELSE now
ArmLimiter(now) == IF Swap = 0 THEN Never ELSE now + Swap

\* Mutants: a wait without the reservations' ends; without the head's patience; without
\* any deadline.
DeadlinesNoExpiry(views, waits, nextForced, now) ==
    IF waits = <<>> THEN {}
    ELSE {d \in {waits[1].arrivedAt + Patience, nextForced} : d > now}
NoDeadlines(views, waits, nextForced, now) == {}
\* Rule 4: the deadlines still ahead, any of which can change the answer.
Deadlines(views, waits, nextForced, now) ==
    LET expiries == {views[s].releasedAt + Reserve :
                        s \in {t \in Free(views) : Reserved(views[t], now)}}
    IN  IF waits = <<>> THEN {}
        ELSE {d \in expiries \cup {waits[1].arrivedAt + Patience, nextForced} : d > now}

\* The bounded wait ends at the earliest of them; Never: only a request or a lane can
\* change the answer.
IsWaitUntil(d, ahead) ==
    IF ahead = {} THEN d = Never ELSE d \in ahead /\ \A e \in ahead : d <= e

-----------------------------------------------------------------------------
(* victim: which allowed free lane changes owner.  `deep` is the set of     *)
(* lanes whose WP16 checkpoints resume this prompt deepest (none: {}).      *)

IsLeastRecent(s, allowed, views) ==
    /\ s \in allowed
    /\ \A t \in allowed :
        \/ views[s].releasedAt < views[t].releasedAt
        \/ views[s].releasedAt = views[t].releasedAt /\ s <= t

IsVictim(s, allowed, views, deep) ==
    LET empty == {t \in allowed : ~views[t].hasSnapshot}
    IN  IF empty # {} THEN IsLowest(s, empty)
        ELSE IF deep \cap allowed # {} THEN IsHighest(s, deep \cap allowed)
        ELSE IsLeastRecent(s, allowed, views)
=============================================================================
