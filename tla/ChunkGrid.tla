----------------------------- MODULE ChunkGrid -----------------------------
(***************************************************************************)
(* absorb_grid (src/src/exl3_forward/wp16.rs): the loop that folds the     *)
(* ragged chunks of a prefill's grid into a neighbour.  A chunk of a       *)
(* handful of rows streams every weight of the model, so it is worth       *)
(* losing a cut, but never the end, the message boundary or a checkpoint   *)
(* that nothing makes up for.                                              *)
(***************************************************************************)
EXTENDS ChunkRules, FiniteSets

CONSTANTS
    MaxN,           \* bound: the longest prompt
    Widths,         \* chunk widths, --prefill-chunk
    RMin            \* recon_min_rows: a chunk below it is ragged

ASSUME GridAssumption == MaxN \in Nat /\ Widths \subseteq 1..TpCap /\ RMin \in Nat

VARIABLES
    plan,           \* the run: from, n, width c, row cap, tail split, checkpointing; fixed
    ends,           \* the chunk ends left
    cur             \* the chunk end absorb_grid looks at, 0 when it is through

gridVars == <<plan, ends, cur>>

-----------------------------------------------------------------------------
(* absorb_grid *)

Starts == ends \cup {plan.from}

\* Mutant: a checkpoint may always be folded away.
DroppableAlways(b) == b < plan.n /\ b # plan.tail
\* A boundary that may go: not the end, not the tail, and no checkpoint unless the tail
\* checkpoint just before it makes up for it.
Droppable(b) ==
    /\ b < plan.n /\ b # plan.tail
    /\ \/ ~plan.ckpts
       \/ ~Wp16Due(b, plan.n, plan.c)
       \/ plan.tail # NoTail /\ plan.tail < b /\ b - plan.tail < RMin

\* The boundary e between chunks (s, e) and (e, e2) may go.
Foldable(s, e, e2) == Droppable(e) /\ e2 - s <= plan.cap

CanForward(s) == \E e2 \in ends : IsNext(e2, cur, ends) /\ Foldable(s, cur, e2)
\* Mutant: a ragged chunk is only ever folded into the next one.
CanBackwardNever(s) == FALSE
CanBackward(s) ==
    s \in ends /\ \E s2 \in Starts : IsPrev(s2, s, Starts) /\ Foldable(s2, s, cur)

Ragged(s) == cur - s < RMin

FoldForward ==
    \E s \in Starts : \E e2 \in ends :
        /\ IsPrev(s, cur, Starts) /\ Ragged(s)
        /\ IsNext(e2, cur, ends) /\ Foldable(s, cur, e2)
        /\ ends' = ends \ {cur}
        /\ cur' = e2
        /\ UNCHANGED plan

FoldBackward ==
    \E s \in ends :
        /\ IsPrev(s, cur, Starts) /\ Ragged(s)
        /\ ~CanForward(s) /\ CanBackward(s)
        /\ ends' = ends \ {s}
        /\ UNCHANGED <<plan, cur>>

Keep ==
    \E s \in Starts :
        /\ IsPrev(s, cur, Starts)
        /\ Ragged(s) => ~CanForward(s) /\ ~CanBackward(s)
        /\ \/ \E e2 \in ends : IsNext(e2, cur, ends) /\ cur' = e2
           \/ cur = plan.n /\ cur' = 0
        /\ UNCHANGED <<plan, ends>>

\* The runs prefill_range is asked for: an untracked one counts from where it starts and
\* takes no checkpoint; a tracked one starts on the grid, or is realigned to it.
Plans ==
    {p \in [from : 0..MaxN, n : 0..MaxN, c : Widths, tp : BOOLEAN, mode : 0..2,
            ckpts : BOOLEAN, b : 0..(MaxN + 1)] :
        /\ p.from < p.n /\ p.b <= p.n + 1
        /\ p.ckpts /\ p.mode = 0 => p.from % p.c = 0}

GridInit ==
    \E p \in Plans :
        LET realign == p.ckpts /\ p.mode # 0
            tail == IF realign THEN TailPoint(p.b, p.from, p.n, p.c, p.mode) ELSE NoTail
        IN  /\ plan = [from |-> p.from, n |-> p.n, c |-> p.c, realign |-> realign,
                       cap |-> PscRows(p.c, p.tp, p.mode), ckpts |-> p.ckpts, tail |-> tail]
            /\ ends = StartGrid(plan)
            /\ \E e \in ends : IsNext(e, p.from, ends) /\ cur = e

GridNext == FoldForward \/ FoldBackward \/ Keep
GridSpec == GridInit /\ [][GridNext]_gridVars

-----------------------------------------------------------------------------
(* Properties *)

TypeOK ==
    /\ plan \in [from : Nat, n : Nat, c : Nat \ {0}, realign : BOOLEAN, cap : Nat,
                 ckpts : BOOLEAN, tail : Nat \cup {NoTail}]
    /\ ends \subseteq (plan.from + 1)..plan.n
    /\ cur \in ends \cup {0}

\* No chunk outgrows the scratch it runs in, whatever was merged and folded.
ChunksFit == \A s \in Starts, e \in ends : IsPrev(s, e, Starts) => e - s <= plan.cap

\* The run still ends at n and still cuts at the message boundary it promised.
RequiredKept == plan.n \in ends /\ (plan.tail # NoTail => plan.tail \in ends)

\* A checkpoint of the grid before the folding is still a cut, or the tail checkpoint lies
\* fewer than RMin rows before it: a resume never loses RMin rows to the folding.
CheckpointsKept ==
    plan.ckpts => \A b \in StartGrid(plan) :
        Wp16Due(b, plan.n, plan.c) =>
            b \in ends \/ plan.tail \in (b - RMin + 1)..b

\* Merging and folding take away neither the cuts a run needs nor those a later run may
\* resume at.
BoundariesKept == RequiredKept /\ CheckpointsKept

\* When the loop is through, a ragged chunk is left only where no fold was possible.
RaggedOnlyIfForced ==
    cur = 0 => \A s \in Starts, e \in ends :
        IsPrev(s, e, Starts) /\ e - s < RMin =>
            /\ \A e2 \in ends : IsNext(e2, e, ends) => ~Foldable(s, e, e2)
            /\ s \in ends => \A s2 \in Starts : IsPrev(s2, s, Starts) => ~Foldable(s2, s, e)

\* With the tail off, a run resumed at a checkpoint cuts exactly where the fresh prefill
\* of the same prompt does: the resumed bits are the fresh prefill's.
ResumedGridIsFresh ==
    plan.ckpts /\ ~plan.realign =>
        ends = {e \in (plan.from + 1)..plan.n : e % plan.c = 0 \/ e = plan.n}
=============================================================================
