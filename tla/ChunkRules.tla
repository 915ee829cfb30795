----------------------------- MODULE ChunkRules -----------------------------
(***************************************************************************)
(* Where a prefill of the prompt rows [from, n) is cut into device calls,  *)
(* and which cuts become checkpoints (src/src/exl3_forward/wp16.rs).  A    *)
(* grid is the set of its chunk ends: the multiples of c and the message   *)
(* boundary, less what the realignment and the boundary added and a wider  *)
(* chunk can hold.                                                         *)
(***************************************************************************)
EXTENDS Integers

CONSTANTS
    Stride,         \* WP16_STRIDE
    Grain,          \* 2048: the widest chunk whose multiples meet the stride exactly
    Backoff,        \* TAIL_BACKOFF
    MinGain,        \* TAIL_MIN_GAIN
    MinGainSplit,   \* TAIL_MIN_GAIN_SPLIT
    TpCap           \* TP_MAX_ROWS - 1: the most rows of a chunk under tensor parallelism

NoTail == -1

ASSUME RulesAssumption ==
    /\ Stride \in Nat \ {0} /\ Grain \in Nat \ {0} /\ TpCap \in Nat
    /\ Backoff \in Nat /\ MinGain \in Nat \ {0} /\ MinGainSplit \in Nat \ {0}

Lesser(a, b) == IF a < b THEN a ELSE b
Greater(a, b) == IF a > b THEN a ELSE b

StrideHit(e, c) ==
    IF c > Grain THEN e \div Stride > (e - c) \div Stride ELSE e % Stride = 0

\* Chunk end e becomes a checkpoint.
Wp16Due(e, n, c) == e > 0 /\ e <= n /\ e % c = 0 /\ (StrideHit(e, c) \/ e + 2 * c >= n)

\* The rows of the prefill scratch: a merged chunk may have up to 2c - 1.
PscRows(c, tp, mode) ==
    IF mode = 0 THEN c
    ELSE Greater(c, IF tp THEN Lesser(2 * c - 1, TpCap) ELSE 2 * c - 1)

\* Where a resume without the tail checkpoint would start.
Below(t, from, c) == Greater(from, (t \div Lesser(c, Grain)) * Lesser(c, Grain))

\* The tail split for message boundary b: inside the run, and worth its chunk.
IsTailPoint(t, b, from, n, c, mode) ==
    /\ t = b - Backoff /\ t > from /\ t < n
    /\ IF Below(t, from, c) = from THEN mode = 2 /\ t - from >= MinGainSplit
                                   ELSE t - Below(t, from, c) >= MinGain
TailPoint(b, from, n, c, mode) ==
    IF IsTailPoint(b - Backoff, b, from, n, c, mode) THEN b - Backoff ELSE NoTail

\* Mutant: the first chunk of a resumed run is a row short.
RunGridShort(from, n, c, realign, tail) ==
    {e \in (from + 1)..n : \/ e = n \/ e = tail
                           \/ IF realign \/ from = 0 THEN e % c = 0 ELSE (e - from + 1) % c = 0}
\* The plain grid counts from the start of the run, the realigned one from 0.
RunGrid(from, n, c, realign, tail) ==
    {e \in (from + 1)..n : \/ e = n \/ e = tail
                           \/ IF realign THEN e % c = 0 ELSE (e - from) % c = 0}

IsPrev(s, e, set) == s \in set /\ s < e /\ \A x \in set : x < e => x <= s
IsNext(e, s, set) == e \in set /\ s < e /\ \A x \in set : s < x => e <= x

\* Mutant: the merge forgets the row cap.
BeforeTailUncapped(from, grid, tail, cap) == {b \in grid : IsPrev(b, tail, grid)}
\* The boundary before the tail goes if one chunk may hold both sides.
BeforeTail(from, grid, tail, cap) ==
    {b \in grid : IsPrev(b, tail, grid) /\ \E s \in grid \cup {from} :
                    IsPrev(s, b, grid \cup {from}) /\ tail - s <= cap}
\* So does the end of the lead chunk of a run that started off the grid.
Lead(from, grid, tail, c, cap) ==
    {b \in grid : /\ from % c # 0 /\ b # tail /\ IsNext(b, from, grid)
                  /\ \E e \in grid : IsNext(e, b, grid) /\ e - from <= cap}

MergeGrid(from, grid, tail, c, cap) ==
    LET g == IF tail \in grid THEN grid \ BeforeTail(from, grid, tail, cap) ELSE grid
    IN  g \ Lead(from, g, tail, c, cap)

\* The grid before the folding.
StartGrid(p) ==
    IF p.realign
    THEN MergeGrid(p.from, RunGrid(p.from, p.n, p.c, TRUE, p.tail), p.tail, p.c, p.cap)
    ELSE RunGrid(p.from, p.n, p.c, FALSE, NoTail)
=============================================================================
