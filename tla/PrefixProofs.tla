---------------------------- MODULE PrefixProofs ----------------------------
(***************************************************************************)
(* What a server keeps of its prompts, for any prompts, slots, pool and    *)
(* disk sizes, and with failures and restarts anywhere; and where it cuts  *)
(* a prefill, for prompts, widths and strides of any size.                 *)
(*                                                                         *)
(* First the chunk grid: the grids of ChunkRules are sets, so a merge or a *)
(* fold is the removal of one boundary, and one lemma about that removal   *)
(* (DropFits) carries the row cap through all of them.                     *)
(*                                                                         *)
(* Then the disk tier: however far the writer thread is behind, the        *)
(* policy and what the files will be agree, because the queue's last job   *)
(* for a key is the policy's last decision on it.                          *)
(*                                                                         *)
(* Last the device: snapshots, checkpoints and rows hold what the host     *)
(* takes them for, as long as only one of the tiers is on (OneTier: with   *)
(* both a disk restore leaves checkpoints of other rows, as the run        *)
(* prefix_both shows) and no prompt is another less its last token         *)
(* (NoTwin: a lookup may return a whole prompt, see the README).           *)
(***************************************************************************)
EXTENDS PrefixTiers, ChunkGrid, SequenceTheorems, WellFoundedInduction, TLAPS

-----------------------------------------------------------------------------
(* Multiples *)

\* Division by the chunk width, as the provers want it.
LEMMA DivMod ==
    ASSUME NEW a \in Int, NEW c \in Nat \ {0}
    PROVE  a = (c * (a \div c)) + (a % c) /\ a % c \in 0..(c - 1)
BY SMT

\* The remainder of a number written as quotient and rest.
LEMMA ModUnique ==
    ASSUME NEW q \in Int, NEW c \in Nat \ {0}, NEW r \in 0..(c - 1)
    PROVE  ((c * q) + r) % c = r
BY SMT

\* A run of c rows holds a multiple of c.
LEMMA NextMultiple ==
    ASSUME NEW s \in Nat, NEW c \in Nat \ {0}
    PROVE  \E m \in (s + 1)..(s + c) : m % c = 0
<1> DEFINE m == c * ((s \div c) + 1)
<1>1. s = (c * (s \div c)) + (s % c) /\ s % c \in 0..(c - 1)
  BY DivMod
<1>2. s \div c \in Nat
  BY SMT
<1>3. m % c = 0
  BY <1>2, SMT
<1>4. m = (s + c) - (s % c)
  BY <1>1, <1>2, SMT
<1> QED
  BY <1>1, <1>3, <1>4

\* Two of them are at least c apart.
LEMMA MultiplesApart ==
    ASSUME NEW a \in Nat, NEW b \in Nat, NEW c \in Nat \ {0},
           a % c = 0, b % c = 0, a < b
    PROVE  b - a >= c
<1>1. a = c * (a \div c) /\ b = c * (b \div c)
  BY DivMod
<1>2. a \div c \in Nat /\ b \div c \in Nat
  BY SMT
<1> DEFINE x == a \div c
           y == b \div c
<1>3. x < y
  <2>1. x \in Nat /\ y \in Nat /\ c * x < c * y
    BY <1>1, <1>2
  <2> HIDE DEF x, y
  <2> QED
    BY <2>1, SMT
<1>4. c * y >= c * (x + 1)
  <2>1. x \in Nat /\ y \in Nat
    BY <1>2
  <2> HIDE DEF x, y
  <2> QED
    BY <2>1, <1>3, SMT
<1> QED
  <2>1. x \in Nat /\ y \in Nat /\ a = c * x /\ b = c * y
    BY <1>1, <1>2
  <2> HIDE DEF x, y
  <2> QED
    BY <2>1, <1>4, SMT

-----------------------------------------------------------------------------
(* Grids *)

\* No chunk of the grid is longer than cap.
WithinCap(from, grid, cap) ==
    \A s \in grid \cup {from}, e \in grid : IsPrev(s, e, grid \cup {from}) => e - s <= cap

\* A boundary may be removed if one chunk may hold both sides.
LEMMA DropFits ==
    ASSUME NEW from \in Nat, NEW n \in Nat, NEW grid \in SUBSET ((from + 1)..n), NEW cap \in Nat,
           WithinCap(from, grid, cap),
           NEW b \in grid, NEW s \in grid \cup {from}, NEW e \in grid,
           IsPrev(s, b, grid \cup {from}), IsNext(e, b, grid), e - s <= cap
    PROVE  WithinCap(from, grid \ {b}, cap)
<1> SUFFICES ASSUME NEW s1 \in (grid \ {b}) \cup {from}, NEW e1 \in grid \ {b},
                    IsPrev(s1, e1, (grid \ {b}) \cup {from})
             PROVE  e1 - s1 <= cap
  BY DEF WithinCap
<1>1. CASE s1 < b /\ b < e1
  <2>1. s1 = s
    BY <1>1 DEF IsPrev
  <2>2. e1 = e
    BY <1>1 DEF IsPrev, IsNext
  <2> QED
    BY <2>1, <2>2
<1>2. CASE ~(s1 < b /\ b < e1)
  <2>1. IsPrev(s1, e1, grid \cup {from})
    BY <1>2 DEF IsPrev
  <2> QED
    BY <2>1 DEF WithinCap
<1> QED
  BY <1>1, <1>2

\* The grid a run is first cut at has no chunk wider than c, the tail only splitting one.
LEMMA RunGridFits ==
    ASSUME NEW from \in Nat, NEW n \in Nat, NEW c \in Nat \ {0},
           NEW realign \in BOOLEAN, NEW tail \in Int
    PROVE  WithinCap(from, RunGrid(from, n, c, realign, tail), c)
<1> DEFINE grid == RunGrid(from, n, c, realign, tail)
<1> SUFFICES ASSUME NEW s \in grid \cup {from}, NEW e \in grid,
                    IsPrev(s, e, grid \cup {from}), e - s > c
             PROVE  FALSE
  BY DEF WithinCap, RunGrid
<1>1. s \in Nat /\ e \in Nat /\ from <= s /\ s < e /\ e <= n
  BY DEF RunGrid, IsPrev
<1>2. CASE realign
  <2>1. PICK m \in (s + 1)..(s + c) : m % c = 0
    BY <1>1, NextMultiple
  <2>2. m \in grid
    BY <1>1, <1>2, <2>1 DEF RunGrid
  <2> QED
    BY <1>1, <2>1, <2>2 DEF IsPrev
<1>3. CASE ~realign
  <2> DEFINE d == s - from
  <2>d. d \in Nat
    BY <1>1
  <2>1. PICK m \in (d + 1)..(d + c) : m % c = 0
    <3> HIDE DEF d
    <3> QED
      BY <2>d, NextMultiple
  <2>2. from + m \in grid /\ from + m > s /\ from + m < e
    <3>1. from + m > s /\ from + m < e /\ from + m \in (from + 1)..n /\ (from + m) - from = m
      BY <1>1, <2>1
    <3> QED
      BY <1>3, <2>1, <3>1 DEF RunGrid
  <2> QED
    BY <1>1, <2>2 DEF IsPrev
<1> QED
  BY <1>2, <1>3

\* Its ends lie inside the run.
LEMMA RunGridIn ==
    ASSUME NEW from \in Nat, NEW n \in Nat, NEW c \in Nat \ {0},
           NEW realign \in BOOLEAN, NEW tail \in Int
    PROVE  RunGrid(from, n, c, realign, tail) \subseteq (from + 1)..n
BY DEF RunGrid

\* Merging drops at most the boundary before the tail and the end of the lead chunk.
LEMMA MergeGridFits ==
    ASSUME NEW from \in Nat, NEW n \in Nat, NEW c \in Nat \ {0}, NEW tail \in Int,
           NEW cap \in Nat, NEW grid \in SUBSET ((from + 1)..n), WithinCap(from, grid, cap)
    PROVE  WithinCap(from, MergeGrid(from, grid, tail, c, cap), cap)
<1> DEFINE g == IF tail \in grid THEN grid \ BeforeTail(from, grid, tail, cap) ELSE grid
           lead == Lead(from, g, tail, c, cap)
<1>1. g \in SUBSET ((from + 1)..n)
  OBVIOUS
<1>2. WithinCap(from, g, cap)
  <2>1. CASE tail \in grid /\ BeforeTail(from, grid, tail, cap) # {}
    <3>1. PICK b \in grid : b \in BeforeTail(from, grid, tail, cap)
      BY <2>1 DEF BeforeTail
    <3>2. BeforeTail(from, grid, tail, cap) = {b}
      <4>1. \A y \in BeforeTail(from, grid, tail, cap) : y \in grid /\ IsPrev(y, tail, grid)
        BY DEF BeforeTail
      <4>2. \A y \in BeforeTail(from, grid, tail, cap) : y <= b /\ b <= y
        BY <3>1, <4>1 DEF IsPrev
      <4>3. b \in Int /\ \A y \in grid : y \in Int
        OBVIOUS
      <4>4. ASSUME NEW y \in BeforeTail(from, grid, tail, cap) PROVE y = b
        <5>1. y \in Int /\ y <= b /\ b <= y
          BY <4>1, <4>2, <4>3
        <5> QED
          BY <4>3, <5>1
      <4> QED
        BY <3>1, <4>4
    <3>3. PICK s \in grid \cup {from} : IsPrev(s, b, grid \cup {from}) /\ tail - s <= cap
      BY <3>1 DEF BeforeTail
    <3>4. IsNext(tail, b, grid)
      BY <2>1, <3>1 DEF BeforeTail, IsPrev, IsNext
    <3>5. WithinCap(from, grid \ {b}, cap)
      BY <2>1, <3>3, <3>4, DropFits
    <3> QED
      BY <2>1, <3>2, <3>5
  <2>2. CASE ~(tail \in grid /\ BeforeTail(from, grid, tail, cap) # {})
    BY <2>2
  <2> QED
    BY <2>1, <2>2
<1>3. WithinCap(from, g \ lead, cap)
  <2> HIDE DEF g
  <2>1. CASE lead # {}
    <3>1. PICK b \in g : b \in lead
      BY <2>1 DEF Lead
    <3>2. lead = {b}
      <4>1. \A y \in lead : y \in g /\ IsNext(y, from, g)
        BY DEF Lead
      <4>2. \A y \in lead : y <= b /\ b <= y
        BY <3>1, <4>1 DEF IsNext
      <4>3. b \in Int /\ \A y \in g : y \in Int
        BY <1>1
      <4>4. ASSUME NEW y \in lead PROVE y = b
        <5>1. y \in Int /\ y <= b /\ b <= y
          BY <4>1, <4>2, <4>3
        <5> QED
          BY <4>3, <5>1
      <4> QED
        BY <3>1, <4>4
    <3>3. IsPrev(from, b, g \cup {from})
      BY <1>1, <3>1 DEF Lead, IsPrev, IsNext
    <3>4. PICK e \in g : IsNext(e, b, g) /\ e - from <= cap
      BY <3>1 DEF Lead
    <3>5. WithinCap(from, g \ {b}, cap)
      BY <1>1, <1>2, <3>3, <3>4, DropFits
    <3> QED
      BY <3>2, <3>5
  <2>2. CASE lead = {}
    BY <1>2, <2>2
  <2> QED
    BY <2>1, <2>2
<1> QED
  BY <1>3 DEF MergeGrid

\* It keeps the last boundary and the tail.
LEMMA MergeGridKeeps ==
    ASSUME NEW from \in Nat, NEW n \in Nat, NEW c \in Nat \ {0}, NEW tail \in Int,
           NEW cap \in Nat, NEW grid \in SUBSET ((from + 1)..n), NEW x \in grid,
           x = n \/ x = tail
    PROVE  x \in MergeGrid(from, grid, tail, c, cap)
<1>1. tail \in grid => x \notin BeforeTail(from, grid, tail, cap)
  BY DEF BeforeTail, IsPrev
<1> DEFINE g == IF tail \in grid THEN grid \ BeforeTail(from, grid, tail, cap) ELSE grid
<1>2. x \in g /\ g \in SUBSET ((from + 1)..n)
  BY <1>1
<1>3. x \notin Lead(from, g, tail, c, cap)
  <2> HIDE DEF g
  <2> QED
    BY <1>2 DEF Lead, IsNext
<1> QED
  BY <1>2, <1>3 DEF MergeGrid

\* On the grid, counting from its start and counting from 0 are the same.
LEMMA ModShift ==
    ASSUME NEW a \in Int, NEW b \in Int, NEW d \in Int, NEW c \in Nat \ {0}, a % c = 0, b = a + d
    PROVE  d % c = b % c
<1> DEFINE q == (a \div c) + (d \div c)
<1>1. a = c * (a \div c) /\ d = (c * (d \div c)) + (d % c) /\ d % c \in 0..(c - 1)
  BY DivMod
<1>2. a \div c \in Int /\ d \div c \in Int /\ q \in Int
  BY SMT
<1>3. b = (c * q) + (d % c)
  BY <1>1, <1>2, SMT
<1>4. ((c * q) + (d % c)) % c = d % c
  <2> HIDE DEF q
  <2> QED
    BY <1>1, <1>2, ModUnique
<1> QED
  BY <1>3, <1>4

-----------------------------------------------------------------------------
(* The run of a plan *)

\* What the loop takes for granted of its plan.
PlanOK ==
    /\ plan.from < plan.n
    /\ plan.c <= plan.cap
    /\ plan.tail # NoTail => plan.realign /\ plan.from < plan.tail /\ plan.tail < plan.n
    /\ plan.ckpts /\ ~plan.realign =>
        plan.cap = plan.c /\ plan.from % plan.c = 0

\* A ragged chunk (s, e) that nothing can take in.
Settled(s, e) ==
    /\ \A e2 \in ends : IsNext(e2, e, ends) => ~Foldable(s, e, e2)
    /\ s \in ends => \A s2 \in Starts : IsPrev(s2, s, Starts) => ~Foldable(s2, s, e)

\* The ragged chunks behind the loop are settled: a later fold makes its neighbours longer.
Scanned ==
    \A s \in Starts, e \in ends :
        IsPrev(s, e, Starts) /\ e - s < RMin /\ (cur = 0 \/ e < cur) => Settled(s, e)

GridInv ==
    TypeOK /\ PlanOK /\ RequiredKept /\ ChunksFit /\ CheckpointsKept
        /\ ResumedGridIsFresh /\ Scanned

USE RulesAssumption, GridAssumption

\* prefill_range's arguments make a plan the loop can work with.
LEMMA InitPlan == GridInit => TypeOK /\ PlanOK /\ ends = StartGrid(plan)
<1> SUFFICES ASSUME GridInit PROVE TypeOK /\ PlanOK /\ ends = StartGrid(plan)
  OBVIOUS
<1> USE DEF NoTail
<1>1. PICK p \in Plans :
        LET realign == p.ckpts /\ p.mode # 0
            tail == IF realign THEN TailPoint(p.b, p.from, p.n, p.c, p.mode) ELSE NoTail
        IN  /\ plan = [from |-> p.from, n |-> p.n, c |-> p.c, realign |-> realign,
                       cap |-> PscRows(p.c, p.tp, p.mode), ckpts |-> p.ckpts, tail |-> tail]
            /\ ends = StartGrid(plan)
            /\ \E e \in ends : IsNext(e, p.from, ends) /\ cur = e
  BY DEF GridInit
<1>2. /\ p.from \in Nat /\ p.n \in Nat /\ p.c \in Nat \ {0} /\ p.b \in Nat /\ p.mode \in 0..2
      /\ p.tp \in BOOLEAN /\ p.ckpts \in BOOLEAN /\ p.from < p.n
      /\ p.ckpts /\ p.mode = 0 => p.from % p.c = 0
  <2>1. MaxN \in Nat /\ \A w \in Widths : w \in Nat \ {0}
    BY DEF GridAssumption
  <2>2. /\ p.from \in 0..MaxN /\ p.n \in 0..MaxN /\ p.c \in Widths /\ p.b \in 0..(MaxN + 1)
        /\ p.mode \in 0..2 /\ p.tp \in BOOLEAN /\ p.ckpts \in BOOLEAN
        /\ p.from < p.n /\ (p.ckpts /\ p.mode = 0 => p.from % p.c = 0)
    BY DEF Plans
  <2>3. p.c \in Nat \ {0}
    BY <2>1, <2>2
  <2>4. p.from \in Nat /\ p.n \in Nat /\ p.b \in Nat
    BY <2>1, <2>2
  <2> QED
    BY <2>2, <2>3, <2>4
<1>3. PscRows(p.c, p.tp, p.mode) \in Nat /\ p.c <= PscRows(p.c, p.tp, p.mode)
  BY <1>2 DEF PscRows, Greater, Lesser
<1>4. \A t : TailPoint(p.b, p.from, p.n, p.c, p.mode) = t =>
        t = NoTail \/ (t \in Nat /\ p.from < t /\ t < p.n)
  BY <1>2 DEF TailPoint, IsTailPoint
<1>5. p.mode = 0 => PscRows(p.c, p.tp, p.mode) = p.c
  BY DEF PscRows
<1>6. /\ plan.from = p.from /\ plan.n = p.n /\ plan.c = p.c /\ plan.ckpts = p.ckpts
      /\ plan.realign = (p.ckpts /\ p.mode # 0) /\ plan.cap = PscRows(p.c, p.tp, p.mode)
      /\ plan.tail = IF plan.realign THEN TailPoint(p.b, p.from, p.n, p.c, p.mode) ELSE NoTail
  BY <1>1
<1>7. PlanOK
  BY <1>2, <1>3, <1>4, <1>5, <1>6 DEF PlanOK
<1>8. plan \in [from : Nat, n : Nat, c : Nat \ {0}, realign : BOOLEAN, cap : Nat,
                ckpts : BOOLEAN, tail : Nat \cup {NoTail}]
  BY <1>1, <1>2, <1>3, <1>4
<1>9. ends \subseteq (plan.from + 1)..plan.n
  <2>1. \A r \in BOOLEAN, t \in Int :
            RunGrid(plan.from, plan.n, plan.c, r, t) \subseteq (plan.from + 1)..plan.n
    BY DEF RunGrid
  <2>2. \A g : MergeGrid(plan.from, g, plan.tail, plan.c, plan.cap) \subseteq g
    BY DEF MergeGrid
  <2>3. plan.realign \in BOOLEAN /\ plan.tail \in Int /\ NoTail \in Int
    BY <1>8
  <2>4. ends = StartGrid(plan)
    BY <1>1
  <2>5. CASE plan.realign
    <3>1. ends = MergeGrid(plan.from, RunGrid(plan.from, plan.n, plan.c, TRUE, plan.tail),
                           plan.tail, plan.c, plan.cap)
      BY <2>4, <2>5 DEF StartGrid
    <3> QED
      BY <2>1, <2>2, <2>3, <3>1
  <2>6. CASE ~plan.realign
    BY <2>1, <2>3, <2>4, <2>6 DEF StartGrid
  <2> QED
    BY <2>5, <2>6
<1> QED
  BY <1>1, <1>7, <1>8, <1>9 DEF TypeOK

\* The merged grid the loop starts from obeys the invariant.
LEMMA InitInv == GridInit => GridInv
<1> SUFFICES ASSUME GridInit PROVE GridInv
  OBVIOUS
<1> USE DEF NoTail
<1>1. TypeOK /\ PlanOK /\ ends = StartGrid(plan)
  BY InitPlan
<1> DEFINE grid == RunGrid(plan.from, plan.n, plan.c, plan.realign, plan.tail)
<1>2. /\ plan.from \in Nat /\ plan.n \in Nat /\ plan.c \in Nat \ {0} /\ plan.cap \in Nat
      /\ plan.tail \in Int /\ plan.realign \in BOOLEAN
  BY <1>1 DEF TypeOK
<1>3. grid \in SUBSET ((plan.from + 1)..plan.n) /\ WithinCap(plan.from, grid, plan.c)
  BY <1>2, RunGridFits, RunGridIn
<1>4. WithinCap(plan.from, grid, plan.cap)
  <2>1. \A s \in grid \cup {plan.from}, e \in grid : s \in Int /\ e \in Int
    BY <1>2, <1>3
  <2>2. plan.c <= plan.cap
    BY <1>1 DEF PlanOK
  <2> HIDE DEF grid
  <2> QED
    BY <1>2, <1>3, <2>1, <2>2 DEF WithinCap
<1>5. ChunksFit
  <2>1. CASE plan.realign
    <3>1. ends = MergeGrid(plan.from, grid, plan.tail, plan.c, plan.cap)
      BY <1>1, <2>1 DEF StartGrid
    <3>2. WithinCap(plan.from, ends, plan.cap)
      <4> HIDE DEF grid
      <4> QED
        BY <1>2, <1>3, <1>4, <3>1, MergeGridFits
    <3> QED
      BY <3>2 DEF WithinCap, ChunksFit, Starts
  <2>2. CASE ~plan.realign
    <3>1. ends = RunGrid(plan.from, plan.n, plan.c, FALSE, NoTail)
      BY <1>1, <2>2 DEF StartGrid
    <3>2. WithinCap(plan.from, ends, plan.c)
      <4>1. NoTail \in Int /\ FALSE \in BOOLEAN
        OBVIOUS
      <4>2. WithinCap(plan.from, RunGrid(plan.from, plan.n, plan.c, FALSE, NoTail), plan.c)
        <5> HIDE DEF NoTail
        <5> QED
          BY <1>2, <4>1, RunGridFits, Zenon
      <4> QED
        BY <3>1, <4>2
    <3>3. plan.c <= plan.cap /\ \A s \in ends \cup {plan.from}, e \in ends : s \in Int /\ e \in Int
      BY <1>1, <1>2 DEF PlanOK, TypeOK
    <3> QED
      BY <1>2, <3>2, <3>3 DEF WithinCap, ChunksFit, Starts
  <2> QED
    BY <2>1, <2>2
<1>6. RequiredKept
  <2>1. CASE plan.realign
    <3>1. ends = MergeGrid(plan.from, grid, plan.tail, plan.c, plan.cap)
      BY <1>1, <2>1 DEF StartGrid
    <3>2. plan.n \in grid /\ (plan.tail # NoTail => plan.tail \in grid)
      BY <1>1, <1>2 DEF RunGrid, PlanOK
    <3> HIDE DEF grid
    <3> QED
      BY <1>2, <1>3, <3>1, <3>2, MergeGridKeeps DEF RequiredKept
  <2>2. CASE ~plan.realign
    <3>1. ends = RunGrid(plan.from, plan.n, plan.c, FALSE, NoTail)
      BY <1>1, <2>2 DEF StartGrid
    <3>2. plan.tail = NoTail
      BY <1>1, <2>2 DEF PlanOK
    <3> QED
      BY <1>1, <1>2, <3>1, <3>2 DEF RunGrid, RequiredKept, PlanOK
  <2> QED
    BY <2>1, <2>2
<1>7. CheckpointsKept
  BY <1>1 DEF CheckpointsKept
<1>8. ResumedGridIsFresh
  <2> SUFFICES ASSUME plan.ckpts, ~plan.realign
               PROVE  ends = {e \in (plan.from + 1)..plan.n : e % plan.c = 0 \/ e = plan.n}
    BY DEF ResumedGridIsFresh
  <2>1. ends = {e \in (plan.from + 1)..plan.n : \/ e = plan.n \/ e = NoTail
                                                \/ (e - plan.from) % plan.c = 0}
    BY <1>1 DEF StartGrid, RunGrid
  <2>2. plan.from % plan.c = 0
    BY <1>1 DEF PlanOK
  <2>3. \A e \in (plan.from + 1)..plan.n : e # NoTail /\ (e - plan.from) % plan.c = e % plan.c
    <3> TAKE e \in (plan.from + 1)..plan.n
    <3>1. e \in Nat /\ e # NoTail
      BY <1>2
    <3>2. (e - plan.from) % plan.c = e % plan.c
      <4>1. PICK d \in Int : d = e - plan.from
        BY <1>2, <3>1
      <4>2. plan.from \in Int /\ e \in Int /\ e = plan.from + d
        BY <1>2, <3>1, <4>1
      <4>3. d % plan.c = e % plan.c
        BY <1>2, <2>2, <4>2, ModShift
      <4> QED
        BY <4>1, <4>3
    <3> QED
      BY <3>1, <3>2
  <2> QED
    BY <2>1, <2>3
<1>9. Scanned
  <2>1. PICK p : cur \in ends /\ plan.from = p /\ IsNext(cur, p, ends)
    BY DEF GridInit
  <2>2. \A e \in ends : e \in Int /\ e > plan.from /\ cur <= e /\ cur \in Int /\ cur # 0
    BY <1>1, <1>2, <2>1 DEF TypeOK, IsNext
  <2> QED
    BY <2>2 DEF Scanned
<1> QED
  BY <1>1, <1>5, <1>6, <1>7, <1>8, <1>9 DEF GridInv

-----------------------------------------------------------------------------
(* A step of absorb_grid *)

\* The numbers the loop works with.
LEMMA Bounds ==
    ASSUME GridInv
    PROVE  /\ plan.from \in Nat /\ plan.n \in Nat /\ plan.c \in Nat \ {0} /\ plan.cap \in Nat
           /\ plan.tail \in Int /\ plan.ckpts \in BOOLEAN /\ plan.realign \in BOOLEAN
           /\ ends \in SUBSET ((plan.from + 1)..plan.n)
           /\ \A x \in ends : x \in Nat /\ plan.from < x /\ x <= plan.n
           /\ \A x \in Starts : x \in Nat /\ plan.from <= x /\ x <= plan.n
           /\ cur \in ends \cup {0}
<1>1. TypeOK /\ plan.from < plan.n
  BY DEF GridInv, PlanOK
<1>2. /\ plan.from \in Nat /\ plan.n \in Nat /\ plan.c \in Nat \ {0} /\ plan.cap \in Nat
      /\ plan.ckpts \in BOOLEAN /\ plan.realign \in BOOLEAN
      /\ plan.tail \in Nat \cup {NoTail} /\ cur \in ends \cup {0}
      /\ ends \in SUBSET ((plan.from + 1)..plan.n)
  BY <1>1 DEF TypeOK
<1>3. plan.tail \in Int
  BY <1>2 DEF NoTail
<1>4. \A x \in ends : x \in Nat /\ plan.from < x /\ x <= plan.n
  BY <1>2
<1>5. \A x \in Starts : x \in Nat /\ plan.from <= x /\ x <= plan.n
  BY <1>1, <1>2, <1>4 DEF Starts
<1> QED
  BY <1>2, <1>3, <1>4, <1>5

\* A fold of boundary b keeps the end, the tail, the cap, the checkpoints, and does not
\* happen at all to a run on the plain grid.
LEMMA FoldKeeps ==
    ASSUME GridInv, NEW b \in ends, NEW s \in Starts, NEW e2 \in ends,
           IsPrev(s, b, Starts), IsNext(e2, b, ends), Foldable(s, b, e2),
           ends' = ends \ {b}, plan' = plan
    PROVE  RequiredKept' /\ ChunksFit' /\ CheckpointsKept' /\ ResumedGridIsFresh'
<1>1. /\ plan.from \in Nat /\ plan.n \in Nat /\ plan.c \in Nat \ {0} /\ plan.cap \in Nat
      /\ plan.tail \in Int /\ ends \in SUBSET ((plan.from + 1)..plan.n)
      /\ b \in Nat /\ s \in Nat /\ e2 \in Nat
  BY Bounds
<1>2. Droppable(b) /\ e2 - s <= plan.cap
  BY DEF Foldable
<1>3. RequiredKept'
  <2>1. b # plan.n /\ b # plan.tail
    BY <1>1, <1>2 DEF Droppable
  <2> QED
    BY <2>1 DEF GridInv, RequiredKept
<1>4. ChunksFit'
  <2>1. WithinCap(plan.from, ends, plan.cap)
    BY DEF GridInv, ChunksFit, WithinCap, Starts
  <2>2. WithinCap(plan.from, ends \ {b}, plan.cap)
    BY <1>1, <1>2, <2>1, DropFits DEF Starts
  <2> QED
    BY <2>2 DEF WithinCap, ChunksFit, Starts
<1>5. CheckpointsKept'
  <2> SUFFICES ASSUME plan.ckpts, NEW x \in StartGrid(plan), Wp16Due(x, plan.n, plan.c)
               PROVE  x \in ends \ {b} \/ plan.tail \in (x - RMin + 1)..x
    BY DEF CheckpointsKept
  <2>1. x \in ends \/ plan.tail \in (x - RMin + 1)..x
    BY DEF GridInv, CheckpointsKept
  <2>2. CASE x = b
    <3>1. plan.tail < b /\ b - plan.tail < RMin
      BY <1>2, <2>2 DEF Droppable
    <3>2. RMin \in Int
      BY DEF GridAssumption
    <3> QED
      BY <1>1, <2>2, <3>1, <3>2
  <2> QED
    BY <2>1, <2>2
<1>6. ~(plan.ckpts /\ ~plan.realign)
  <2> SUFFICES ASSUME plan.ckpts, ~plan.realign PROVE FALSE
    OBVIOUS
  <2>1. /\ ends = {e \in (plan.from + 1)..plan.n : e % plan.c = 0 \/ e = plan.n}
        /\ plan.cap = plan.c /\ plan.from % plan.c = 0
    BY DEF GridInv, ResumedGridIsFresh, PlanOK
  <2>2. b < plan.n /\ s < b /\ b < e2
    BY <1>2 DEF Droppable, IsPrev, IsNext
  <2>3. b % plan.c = 0
    BY <1>1, <2>1, <2>2
  <2>4. s % plan.c = 0
    BY <1>1, <2>1, <2>2 DEF Starts
  <2>5. b - s >= plan.c
    BY <1>1, <2>2, <2>3, <2>4, MultiplesApart
  <2> QED
    BY <1>1, <1>2, <2>1, <2>2, <2>5
<1>7. ResumedGridIsFresh'
  BY <1>6 DEF ResumedGridIsFresh
<1> QED
  BY <1>3, <1>4, <1>5, <1>7

\* Dropping a boundary further on leaves a settled chunk settled: the chunk after it has
\* only become longer.
LEMMA SettledStays ==
    ASSUME GridInv, NEW b \in ends, ends' = ends \ {b}, plan' = plan,
           NEW s \in Starts, NEW e \in ends, e < b, IsPrev(s, e, Starts), Settled(s, e)
    PROVE  Settled(s, e)'
<1>1. /\ \A x \in ends : x \in Nat
      /\ \A x \in Starts : x \in Nat
      /\ plan.cap \in Nat /\ b \in Nat /\ e \in Nat /\ s \in Nat /\ b # plan.from
  BY Bounds
<1>2. Starts' = Starts \ {b}
  BY <1>1 DEF Starts
<1>3. s < e
  BY DEF IsPrev
<1>4. ASSUME NEW e2 \in ends \ {b}, IsNext(e2, e, ends \ {b}) PROVE ~Foldable(s, e, e2)
  <2>1. CASE IsNext(e2, e, ends)
    BY <2>1 DEF Settled
  <2>2. CASE ~IsNext(e2, e, ends)
    <3>1. b < e2
      BY <1>1, <1>4, <2>2 DEF IsNext
    <3>2. IsNext(b, e, ends)
      BY <1>1, <1>4, <3>1 DEF IsNext
    <3>3. ~Foldable(s, e, b)
      BY <3>2 DEF Settled
    <3> QED
      BY <1>1, <3>1, <3>3 DEF Foldable
  <2> QED
    BY <2>1, <2>2
<1>5. ASSUME s \in ends, NEW s2 \in Starts \ {b}, IsPrev(s2, s, Starts \ {b})
      PROVE  ~Foldable(s2, s, e)
  <2>1. IsPrev(s2, s, Starts)
    BY <1>1, <1>3, <1>5 DEF IsPrev
  <2> QED
    BY <1>5, <2>1 DEF Settled
<1>6. \A x, y, z : Foldable(x, y, z)' <=> Foldable(x, y, z)
  BY DEF Foldable, Droppable
<1> QED
  BY <1>2, <1>4, <1>5, <1>6 DEF Settled

\* So the chunks behind the loop stay settled if the loop has not passed the fold.
LEMMA ScannedStays ==
    ASSUME GridInv, NEW b \in ends, ends' = ends \ {b}, plan' = plan, cur \in ends, cur' \in ends \ {b},
           b <= cur, \A e \in ends \ {b} : e < cur' => e < b
    PROVE  Scanned'
<1>1. /\ \A x \in ends : x \in Nat /\ x > plan.from
      /\ \A x \in Starts : x \in Nat
      /\ plan.from \in Nat
  BY Bounds
<1>2. Starts' = Starts \ {b}
  BY <1>1 DEF Starts
<1> SUFFICES ASSUME NEW s \in Starts \ {b}, NEW e \in ends \ {b}, IsPrev(s, e, Starts \ {b}),
                    e - s < RMin, e < cur'
             PROVE  Settled(s, e)'
  BY <1>1, <1>2 DEF Scanned
<1>3. e < b /\ b \in Nat /\ cur \in Nat /\ e \in Nat
  BY <1>1
<1>4. e < cur
  BY <1>3
<1>5. IsPrev(s, e, Starts)
  BY <1>1, <1>3 DEF IsPrev
<1>6. Settled(s, e)
  BY <1>4, <1>5 DEF GridInv, Scanned
<1> QED
  BY <1>3, <1>5, <1>6, SettledStays

\* Folding a ragged chunk into the next one keeps the invariant.
LEMMA FoldForwardInv == GridInv /\ FoldForward => GridInv'
<1> SUFFICES ASSUME GridInv, FoldForward PROVE GridInv'
  OBVIOUS
<1>1. PICK s \in Starts : \E e2 \in ends :
        /\ IsPrev(s, cur, Starts) /\ IsNext(e2, cur, ends) /\ Foldable(s, cur, e2)
        /\ ends' = ends \ {cur} /\ cur' = e2 /\ plan' = plan
  BY DEF FoldForward
<1>2. PICK e2 \in ends :
        /\ IsPrev(s, cur, Starts) /\ IsNext(e2, cur, ends) /\ Foldable(s, cur, e2)
        /\ ends' = ends \ {cur} /\ cur' = e2 /\ plan' = plan
  BY <1>1
<1>3. s \in Nat /\ e2 \in Nat /\ (\A x \in ends : x \in Nat) /\ cur \in ends \cup {0}
  BY Bounds
<1>4. cur \in ends
  BY <1>2, <1>3 DEF IsPrev
<1>5. cur < e2 /\ e2 \in ends \ {cur}
  BY <1>2, <1>3, <1>4 DEF IsNext
<1>6. TypeOK' /\ PlanOK'
  BY <1>2, <1>5 DEF GridInv, TypeOK, PlanOK
<1>7. RequiredKept' /\ ChunksFit' /\ CheckpointsKept' /\ ResumedGridIsFresh'
  BY <1>2, <1>4, FoldKeeps
<1>8. Scanned'
  <2>1. \A e \in ends \ {cur} : e < cur' => e < cur
    BY <1>2, <1>3, <1>4 DEF IsNext
  <2>2. cur <= cur
    BY <1>3, <1>4
  <2> QED
    BY <1>2, <1>4, <1>5, <2>1, <2>2, ScannedStays
<1> QED
  BY <1>6, <1>7, <1>8 DEF GridInv

\* So does folding it into the one before.
LEMMA FoldBackwardInv == GridInv /\ FoldBackward => GridInv'
<1> SUFFICES ASSUME GridInv, FoldBackward PROVE GridInv'
  OBVIOUS
<1>1. PICK b \in ends :
        /\ IsPrev(b, cur, Starts) /\ CanBackward(b)
        /\ ends' = ends \ {b} /\ cur' = cur /\ plan' = plan
  BY DEF FoldBackward
<1>2. PICK s \in Starts : IsPrev(s, b, Starts) /\ Foldable(s, b, cur)
  BY <1>1 DEF CanBackward
<1>3. b \in Nat /\ (\A x \in ends : x \in Nat) /\ cur \in ends \cup {0}
  BY Bounds
<1>4. cur \in ends /\ b < cur /\ cur \in Nat
  BY <1>1, <1>3 DEF IsPrev
<1>5. IsNext(cur, b, ends)
  BY <1>1, <1>3, <1>4 DEF IsPrev, IsNext, Starts
<1>6. TypeOK' /\ PlanOK'
  BY <1>1, <1>3, <1>4 DEF GridInv, TypeOK, PlanOK
<1>7. RequiredKept' /\ ChunksFit' /\ CheckpointsKept' /\ ResumedGridIsFresh'
  BY <1>1, <1>2, <1>4, <1>5, FoldKeeps
<1>8. Scanned'
  <2>1. \A e \in ends \ {b} : e < cur' => e < b
    BY <1>1, <1>3, <1>4 DEF IsPrev, Starts
  <2>2. b <= cur /\ cur' \in ends \ {b}
    BY <1>1, <1>3, <1>4
  <2> QED
    BY <1>1, <1>4, <2>1, <2>2, ScannedStays
<1> QED
  BY <1>6, <1>7, <1>8 DEF GridInv

\* So does going on: the chunk just passed is long enough, or settled.
LEMMA KeepInv == GridInv /\ Keep => GridInv'
<1> SUFFICES ASSUME GridInv, Keep PROVE GridInv'
  OBVIOUS
<1>1. PICK s \in Starts :
        /\ IsPrev(s, cur, Starts)
        /\ Ragged(s) => ~CanForward(s) /\ ~CanBackward(s)
        /\ \/ \E e2 \in ends : IsNext(e2, cur, ends) /\ cur' = e2
           \/ cur = plan.n /\ cur' = 0
        /\ plan' = plan /\ ends' = ends
  BY DEF Keep
<1>2. /\ \A x \in ends : x \in Nat /\ x <= plan.n /\ x > plan.from
      /\ \A x \in Starts : x \in Nat
      /\ s \in Nat /\ cur \in ends \cup {0} /\ plan.n \in Nat /\ plan.from \in Nat
  BY Bounds
<1>3. cur \in ends /\ cur \in Nat
  BY <1>1, <1>2 DEF IsPrev
<1>4. TypeOK' /\ PlanOK' /\ RequiredKept' /\ ChunksFit' /\ CheckpointsKept' /\ ResumedGridIsFresh'
  <2>1. cur' \in ends \cup {0}
    BY <1>1
  <2> QED
    BY <1>1, <2>1 DEF GridInv, TypeOK, PlanOK, RequiredKept, ChunksFit, CheckpointsKept,
                      ResumedGridIsFresh, Starts
<1>5. Scanned'
  <2>1. Starts' = Starts /\ \A x, y : Settled(x, y)' <=> Settled(x, y)
    BY <1>1 DEF Settled, Foldable, Droppable, Starts
  <2> SUFFICES ASSUME NEW s1 \in Starts, NEW e1 \in ends, IsPrev(s1, e1, Starts),
                      e1 - s1 < RMin, cur' = 0 \/ e1 < cur'
               PROVE  Settled(s1, e1)
    BY <1>1, <2>1 DEF Scanned
  <2>2. e1 \in Nat /\ s1 \in Nat /\ e1 <= plan.n
    BY <1>2
  <2>3. e1 <= cur
    BY <1>1, <1>2, <1>3, <2>2 DEF IsNext
  <2>4. CASE e1 < cur
    BY <2>4 DEF GridInv, Scanned
  <2>5. CASE e1 = cur
    <3>1. s1 = s
      BY <1>1, <1>2, <2>2, <2>5 DEF IsPrev
    <3>2. ~CanForward(s) /\ ~CanBackward(s)
      BY <1>1, <2>5, <3>1 DEF Ragged
    <3> QED
      BY <2>5, <3>1, <3>2 DEF CanForward, CanBackward, Settled
  <2> QED
    BY <1>3, <2>2, <2>3, <2>4, <2>5
<1> QED
  BY <1>4, <1>5 DEF GridInv

\* No step of absorb_grid breaks it.
LEMMA NextInv == GridInv /\ [GridNext]_gridVars => GridInv'
<1> SUFFICES ASSUME GridInv, UNCHANGED gridVars PROVE GridInv'
  BY FoldForwardInv, FoldBackwardInv, KeepInv DEF GridNext
<1>1. plan' = plan /\ ends' = ends /\ cur' = cur
  BY DEF gridVars
<1>2. Starts' = Starts /\ \A s, e : Settled(s, e)' <=> Settled(s, e)
  BY <1>1 DEF Settled, Foldable, Droppable, Starts
<1>3. TypeOK' /\ PlanOK' /\ RequiredKept' /\ ChunksFit' /\ CheckpointsKept' /\ ResumedGridIsFresh'
  BY <1>1, <1>2 DEF GridInv, TypeOK, PlanOK, RequiredKept, ChunksFit, CheckpointsKept,
                    ResumedGridIsFresh
<1>4. Scanned'
  BY <1>1, <1>2 DEF GridInv, Scanned
<1> QED
  BY <1>3, <1>4 DEF GridInv

-----------------------------------------------------------------------------
(* What absorb_grid guarantees *)

\* Every grid absorb_grid goes through obeys the invariant the properties follow from.
THEOREM GridInvariant == GridSpec => []GridInv
BY InitInv, NextInv, PTL DEF GridSpec

\* The chunk ends stay inside the run, and the loop looks at one of them or is through.
THEOREM TypeCorrect == GridSpec => []TypeOK
<1>1. GridInv => TypeOK
  BY DEF GridInv
<1> QED
  BY <1>1, GridInvariant, PTL

\* The prefill scratch is sized once, before the grid is cut: no chunk of absorb_grid's
\* grid is longer, whatever the tail split, the realignment and the folding did.
THEOREM ScratchHoldsEveryChunk == GridSpec => []ChunksFit
<1>1. GridInv => ChunksFit
  BY DEF GridInv
<1> QED
  BY <1>1, GridInvariant, PTL

\* absorb_grid drops neither the last row nor the message boundary of a prefill, and folds
\* away a checkpoint wp16_due asks for only where the tail checkpoint lies less than a
\* ragged chunk before it.
THEOREM BoundariesStay == GridSpec => []BoundariesKept
<1>1. GridInv => BoundariesKept
  BY DEF GridInv, BoundariesKept
<1> QED
  BY <1>1, GridInvariant, PTL

\* One pass is enough: what the loop folds later never gives an earlier ragged chunk a
\* chance it did not have when the loop passed it.
THEOREM OnePassIsEnough == GridSpec => []RaggedOnlyIfForced
<1>1. GridInv => RaggedOnlyIfForced
  BY DEF GridInv, Scanned, Settled, RaggedOnlyIfForced
<1> QED
  BY <1>1, GridInvariant, PTL

\* With the tail off, a run resumed at a checkpoint cuts where the fresh prefill does.
THEOREM ResumeCutsLikeFresh == GridSpec => []ResumedGridIsFresh
<1>1. GridInv => ResumedGridIsFresh
  BY DEF GridInv
<1> QED
  BY <1>1, GridInvariant, PTL

-----------------------------------------------------------------------------
(* Numbers and sequences *)

LEMMA LeastNumber ==
    ASSUME NEW T \in SUBSET Nat, T # {}
    PROVE  \E n \in T : \A m \in T : n <= m
<1>1. PICK n \in T : \A m \in T : ~(<<m, n>> \in OpToRel(<, Nat))
  BY NatLessThanWellFounded, WFMin
<1>2. ASSUME NEW m \in T PROVE n <= m
  <2>1. m \in Nat /\ n \in Nat
    OBVIOUS
  <2>2. ~(m < n)
    BY <1>1, <2>1 DEF OpToRel
  <2> QED
    BY <2>1, <2>2
<1> QED
  BY <1>2

\* The elements of a list by their places.
LEMMA Places ==
    ASSUME NEW S, NEW q \in Seq(S)
    PROVE  /\ Len(q) \in Nat /\ DOMAIN q = 1..Len(q) /\ \A i \in 1..Len(q) : q[i] \in S
           /\ ToSet(q) = {q[i] : i \in 1..Len(q)} /\ ToSet(q) \subseteq S
<1>1. Len(q) \in Nat /\ DOMAIN q = 1..Len(q) /\ \A i \in 1..Len(q) : q[i] \in S
  BY LenProperties, ElementOfSeq
<1> QED
  BY <1>1 DEF ToSet

\* What is put behind a list without it.
LEMMA AppendNew ==
    ASSUME NEW S, NEW q \in Seq(S), NEW x \in S
    PROVE  /\ Append(q, x) \in Seq(S) /\ ToSet(Append(q, x)) = ToSet(q) \cup {x}
           /\ IsInjective(q) /\ x \notin ToSet(q) => IsInjective(Append(q, x))
<1>1. /\ Append(q, x) \in Seq(S) /\ Len(Append(q, x)) = Len(q) + 1
      /\ \A i \in 1..Len(q) : Append(q, x)[i] = q[i]
      /\ Append(q, x)[Len(q) + 1] = x
  BY AppendProperties
<1>2. /\ DOMAIN q = 1..Len(q) /\ Len(q) \in Nat
      /\ DOMAIN Append(q, x) = 1..(Len(q) + 1)
  BY <1>1, LenProperties
<1>3. ToSet(Append(q, x)) = ToSet(q) \cup {x}
  BY <1>1, <1>2 DEF ToSet
<1>4. ASSUME IsInjective(q), x \notin ToSet(q) PROVE IsInjective(Append(q, x))
  <2>1. \A i \in 1..Len(q) : q[i] # x
    BY <1>2, <1>4 DEF ToSet
  <2>2. \A i \in 1..(Len(q) + 1) : i \in 1..Len(q) \/ i = Len(q) + 1
    BY <1>2
  <2>3. \A i, j \in 1..Len(q) : q[i] = q[j] => i = j
    BY <1>2, <1>4 DEF IsInjective
  <2> QED
    BY <1>1, <1>2, <2>1, <2>2, <2>3 DEF IsInjective
<1> QED
  BY <1>1, <1>3, <1>4

\* What the removal of a key leaves of a list that has it: the keys before and after it.
LEMMA WithoutPlaces ==
    ASSUME NEW S, NEW q \in Seq(S), NEW key \in ToSet(q)
    PROVE  \E pos \in 1..Len(q) :
             /\ q[pos] = key
             /\ Without(q, key) \in Seq(S) /\ Len(Without(q, key)) = Len(q) - 1
             /\ \A i \in 1..(Len(q) - 1) :
                    Without(q, key)[i] = IF i < pos THEN q[i] ELSE q[i + 1]
<1> DEFINE pos == CHOOSE i \in DOMAIN q : q[i] = key
           rest == [i \in 1..(Len(q) - 1) |-> IF i < pos THEN q[i] ELSE q[i + 1]]
<1>1. Len(q) \in Nat /\ DOMAIN q = 1..Len(q) /\ \A i \in 1..Len(q) : q[i] \in S
  BY LenProperties, ElementOfSeq
<1>2. pos \in 1..Len(q) /\ q[pos] = key
  BY <1>1 DEF ToSet
<1>3. Without(q, key) = rest
  BY DEF Without
<1> HIDE DEF pos
<1>4. Len(q) - 1 \in Nat /\ \A i \in 1..(Len(q) - 1) : i \in 1..Len(q) /\ i + 1 \in 1..Len(q)
  BY <1>1, <1>2
<1>5. \A i \in 1..(Len(q) - 1) : rest[i] \in S
  BY <1>1, <1>4
<1>6. rest \in Seq(S) /\ Len(rest) = Len(q) - 1
  <2>1. DOMAIN rest = 1..(Len(q) - 1) /\ rest = [i \in 1..(Len(q) - 1) |-> rest[i]]
    OBVIOUS
  <2> HIDE DEF rest
  <2>2. rest \in Seq(S)
    BY <1>4, <1>5, <2>1
  <2>3. DOMAIN rest = 1..Len(rest) /\ Len(rest) \in Nat
    BY <2>2, LenProperties
  <2>4. Len(rest) = Len(q) - 1
    BY <1>4, <2>1, <2>3
  <2> QED
    BY <2>2, <2>4
<1> QED
  BY <1>2, <1>3, <1>6

LEMMA WithoutType == ASSUME NEW S, NEW q \in Seq(S), NEW key PROVE Without(q, key) \in Seq(S)
<1>1. CASE key \notin ToSet(q)
  BY <1>1 DEF Without
<1>2. CASE key \in ToSet(q)
  BY <1>2, WithoutPlaces
<1> QED
  BY <1>1, <1>2

\* A list that names every key once, without one.
LEMMA WithoutOne ==
    ASSUME NEW S, NEW q \in Seq(S), NEW key, IsInjective(q)
    PROVE  /\ Without(q, key) \in Seq(S) /\ IsInjective(Without(q, key))
           /\ ToSet(Without(q, key)) = ToSet(q) \ {key}
<1> DEFINE rest == Without(q, key)
<1>1. CASE key \notin ToSet(q)
  BY <1>1 DEF Without
<1>2. CASE key \in ToSet(q)
  <2>1. PICK pos \in 1..Len(q) :
             /\ q[pos] = key
             /\ rest \in Seq(S) /\ Len(rest) = Len(q) - 1
             /\ \A i \in 1..(Len(q) - 1) : rest[i] = IF i < pos THEN q[i] ELSE q[i + 1]
    BY <1>2, WithoutPlaces
  <2> HIDE DEF rest
  <2>2. Len(q) \in Nat /\ DOMAIN q = 1..Len(q) /\ DOMAIN rest = 1..(Len(q) - 1)
    BY <2>1, LenProperties
  <2>3. \A i, j \in 1..Len(q) : q[i] = q[j] => i = j
    BY <2>2 DEF IsInjective
  <2>4. \A i \in 1..(Len(q) - 1) : i \in 1..Len(q) /\ i + 1 \in 1..Len(q)
    BY <2>2
  <2>5. IsInjective(rest)
    <3> SUFFICES ASSUME NEW i \in 1..(Len(q) - 1), NEW j \in 1..(Len(q) - 1), rest[i] = rest[j]
                 PROVE  i = j
      BY <2>2 DEF IsInjective
    <3>1. i \in 1..Len(q) /\ i + 1 \in 1..Len(q) /\ j \in 1..Len(q) /\ j + 1 \in 1..Len(q)
      BY <2>4
    <3>2. rest[i] = (IF i < pos THEN q[i] ELSE q[i + 1]) /\ rest[j] = IF j < pos THEN q[j] ELSE q[j + 1]
      BY <2>1
    <3>3. (IF i < pos THEN i ELSE i + 1) = (IF j < pos THEN j ELSE j + 1)
      BY <2>3, <3>1, <3>2
    <3> QED
      BY <2>2, <3>3
  <2>6. ASSUME NEW x \in ToSet(rest) PROVE x \in ToSet(q) \ {key}
    <3>1. PICK i \in 1..(Len(q) - 1) : rest[i] = x
      BY <2>2 DEF ToSet
    <3> DEFINE j == IF i < pos THEN i ELSE i + 1
    <3>2. j \in 1..Len(q) /\ j # pos /\ q[j] = x
      BY <2>1, <2>2, <2>4, <3>1
    <3> HIDE DEF j
    <3> QED
      BY <2>1, <2>2, <2>3, <3>2 DEF ToSet
  <2>7. ASSUME NEW x \in ToSet(q) \ {key} PROVE x \in ToSet(rest)
    <3>1. PICK i \in 1..Len(q) : q[i] = x
      BY <2>2 DEF ToSet
    <3>2. i # pos
      BY <2>1, <3>1
    <3>3. CASE i < pos
      <4>1. i \in 1..(Len(q) - 1) /\ rest[i] = x
        BY <2>1, <2>2, <3>1, <3>3
      <4> QED
        BY <2>2, <4>1 DEF ToSet
    <3>4. CASE pos < i
      <4>1. i - 1 \in 1..(Len(q) - 1) /\ ~(i - 1 < pos) /\ (i - 1) + 1 = i
        BY <2>2, <3>1, <3>4
      <4>2. rest[i - 1] = x
        BY <2>1, <3>1, <4>1
      <4> QED
        BY <2>2, <4>1, <4>2 DEF ToSet
    <3> QED
      BY <2>2, <3>1, <3>2, <3>3, <3>4
  <2> QED
    BY <2>1, <2>5, <2>6, <2>7 DEF rest
<1> QED
  BY <1>1, <1>2

\* The front and the back of a list that names every key once.
LEMMA CutList ==
    ASSUME NEW S, NEW q \in Seq(S), NEW n \in 0..Len(q), IsInjective(q)
    PROVE  LET back == SubSeq(q, n + 1, Len(q))
           IN  /\ back \in Seq(S) /\ IsInjective(back)
               /\ ToSet(q) = {q[i] : i \in 1..n} \cup ToSet(back)
               /\ \A i \in 1..n : q[i] \notin ToSet(back)
<1> DEFINE back == SubSeq(q, n + 1, Len(q))
<1>1. Len(q) \in Nat /\ n \in Nat /\ DOMAIN q = 1..Len(q) /\ \A i \in 1..Len(q) : q[i] \in S
  BY LenProperties, ElementOfSeq
<1>2. /\ back \in Seq(S) /\ Len(back) = Len(q) - n
      /\ \A i \in 1..(Len(q) - n) : back[i] = q[n + i]
  <2>1. n + 1 \in Int /\ Len(q) \in Int /\ \A i \in (n + 1)..Len(q) : q[i] \in S
    BY <1>1
  <2>2. /\ back \in Seq(S) /\ Len(back) = IF n + 1 <= Len(q) THEN Len(q) - (n + 1) + 1 ELSE 0
        /\ \A i \in 1..(Len(q) - (n + 1) + 1) : back[i] = q[(n + 1) + i - 1]
    BY ONLY <2>1, SubSeqProperties DEF back
  <2> HIDE DEF back
  <2>3. /\ Len(q) - (n + 1) + 1 = Len(q) - n
        /\ \A i \in 1..(Len(q) - n) : (n + 1) + i - 1 = n + i
        /\ ~(n + 1 <= Len(q)) => Len(q) - n = 0
    <3> DEFINE L == Len(q)
    <3>1. L \in Nat /\ n \in Nat /\ n <= L
      BY <1>1
    <3> HIDE DEF L
    <3>2. L - (n + 1) + 1 = L - n /\ (~(n + 1 <= L) => L - n = 0)
      BY <3>1
    <3>3. \A i \in 1..(L - n) : (n + 1) + i - 1 = n + i
      BY <3>1
    <3> QED
      BY <3>2, <3>3 DEF L
  <2> QED
    BY <2>2, <2>3
<1> HIDE DEF back
<1>3. DOMAIN back = 1..(Len(q) - n)
  BY <1>2, LenProperties
<1>4. \A i, j \in 1..Len(q) : q[i] = q[j] => i = j
  BY <1>1 DEF IsInjective
<1>5. \A i \in 1..(Len(q) - n) : n + i \in 1..Len(q) /\ n + i > n
  BY <1>1
<1>6. IsInjective(back)
  <2> SUFFICES ASSUME NEW i \in 1..(Len(q) - n), NEW j \in 1..(Len(q) - n), back[i] = back[j]
               PROVE  i = j
    BY <1>3 DEF IsInjective
  <2>1. n + i = n + j
    BY <1>2, <1>4, <1>5
  <2> QED
    BY <1>1, <2>1
<1>7. ASSUME NEW x \in ToSet(back) PROVE x \in ToSet(q) /\ \A i \in 1..n : q[i] # x
  <2>1. PICK j \in 1..(Len(q) - n) : back[j] = x
    BY <1>3 DEF ToSet
  <2>2. q[n + j] = x /\ n + j \in 1..Len(q) /\ n + j > n
    BY <1>2, <1>5, <2>1
  <2>3. \A i \in 1..n : i \in 1..Len(q) /\ i # n + j
    BY <1>1, <2>2
  <2> QED
    BY <1>1, <1>4, <2>2, <2>3 DEF ToSet
<1>8. ASSUME NEW x \in ToSet(q), \A i \in 1..n : q[i] # x PROVE x \in ToSet(back)
  <2>1. PICK j \in 1..Len(q) : q[j] = x
    BY <1>1 DEF ToSet
  <2>2. j - n \in 1..(Len(q) - n) /\ n + (j - n) = j
    BY <1>1, <1>8, <2>1
  <2>3. back[j - n] = x
    BY <1>2, <2>1, <2>2
  <2> QED
    BY <1>3, <2>2, <2>3 DEF ToSet
<1>9. \A i \in 1..n : i \in 1..Len(q) /\ q[i] \in ToSet(q)
  BY <1>1 DEF ToSet
<1> QED
  BY <1>2, <1>6, <1>7, <1>8, <1>9 DEF back

-----------------------------------------------------------------------------
(* Keys and what they take *)

Keys == {Prefix(p, Len(p) - 1) : p \in Prompts}

\* The first n tokens.
LEMMA PrefixIs ==
    ASSUME NEW S, NEW t \in Seq(S), NEW n \in 0..Len(t)
    PROVE  /\ Prefix(t, n) \in Seq(S) /\ Len(Prefix(t, n)) = n
           /\ \A i \in 1..n : Prefix(t, n)[i] = t[i]
<1>1. Len(t) \in Nat /\ n \in Nat /\ n <= Len(t) /\ \A i \in 1..Len(t) : t[i] \in S
  BY LenProperties, ElementOfSeq
<1>2. 1 \in Int /\ n \in Int /\ \A i \in 1..n : t[i] \in S
  BY <1>1
<1>3. /\ SubSeq(t, 1, n) \in Seq(S)
      /\ Len(SubSeq(t, 1, n)) = IF 1 <= n THEN n - 1 + 1 ELSE 0
      /\ \A i \in 1..(n - 1 + 1) : SubSeq(t, 1, n)[i] = t[1 + i - 1]
  BY ONLY <1>2, SubSeqProperties
<1>4. n - 1 + 1 = n /\ (\A i \in 1..n : 1 + i - 1 = i) /\ (~(1 <= n) => n = 0)
  BY <1>1
<1> QED
  BY <1>3, <1>4 DEF Prefix

LEMMA PromptIs ==
    ASSUME NEW p \in Prompts
    PROVE  /\ p \in Seq(Nat) /\ Len(p) \in Nat /\ Len(p) - 1 \in 1..MaxLen /\ Len(p) - 1 <= Len(p)
           /\ p \in Seq(Nat \ {0}) /\ Len(p) <= MaxLen
<1>1. p \in Seq(Nat \ {0}) /\ Len(p) > 1 /\ Len(p) <= MaxLen /\ MaxLen \in Nat
  BY TierAssumption
<1>2. p \in Seq(Nat) /\ Len(p) \in Nat
  BY <1>1, SeqMonotonic, LenProperties
<1> QED
  BY <1>1, <1>2

LEMMA KeyIs ==
    ASSUME NEW k \in Keys
    PROVE  k \in Seq(Nat) /\ Len(k) \in 1..MaxLen /\ Len(k) \in Nat /\ k # None
<1>1. PICK p \in Prompts : k = Prefix(p, Len(p) - 1)
  BY DEF Keys
<1>2. Len(p) - 1 \in 0..Len(p) /\ p \in Seq(Nat) /\ Len(p) - 1 \in 1..MaxLen
  BY PromptIs
<1>3. k \in Seq(Nat) /\ Len(k) = Len(p) - 1
  BY <1>1, <1>2, PrefixIs
<1>4. Len(None) = 0 /\ Len(k) # 0
  BY <1>2, <1>3 DEF None
<1> QED
  BY <1>2, <1>3, <1>4

\* f adds up the first n keys of q.
Sums(q, n, f) == f = [i \in 0..n |-> IF i = 0 THEN 0 ELSE f[i - 1] + Bytes(q[i])]

LEMMA SumsExists ==
    ASSUME NEW q, NEW n \in Nat
    PROVE  \E f : Sums(q, n, f)
<1> DEFINE Bad == {m \in Nat : ~ \E f : Sums(q, m, f)}
<1> SUFFICES ASSUME Bad # {} PROVE FALSE
  OBVIOUS
<1>1. PICK m \in Bad : \A l \in Bad : m <= l
  <2>1. Bad \in SUBSET Nat
    OBVIOUS
  <2> HIDE DEF Bad
  <2> QED
    BY <2>1, LeastNumber
<1>2. m # 0
  <2> DEFINE f == [i \in {0} |-> 0]
  <2>1. Sums(q, 0, f)
    <3>1. 0..0 = {0}
      OBVIOUS
    <3> QED
      BY <3>1 DEF Sums
  <2> QED
    BY <2>1
<1>3. m - 1 \in Nat /\ m - 1 \notin Bad
  <2>1. m \in Nat /\ m - 1 \in Nat /\ ~(m <= m - 1)
    BY <1>2
  <2> HIDE DEF Bad
  <2> QED
    BY <1>1, <2>1
<1>4. PICK f : Sums(q, m - 1, f)
  BY <1>3
<1> DEFINE g == [i \in 0..m |-> IF i < m THEN f[i] ELSE f[m - 1] + Bytes(q[m])]
<1>5. ASSUME NEW i \in 0..m
      PROVE  g[i] = IF i = 0 THEN 0 ELSE g[i - 1] + Bytes(q[i])
  <2>1. CASE i = 0
    <3>1. 0 \in 0..(m - 1) /\ i < m /\ f[0] = 0
      BY <1>3, <1>4, <2>1 DEF Sums
    <3> QED
      BY <2>1, <3>1
  <2>2. CASE i # 0 /\ i < m
    <3>1. i \in 0..(m - 1) /\ i - 1 \in 0..m /\ i - 1 < m
      BY <1>3, <2>2
    <3>2. f[i] = f[i - 1] + Bytes(q[i])
      BY <1>4, <2>2, <3>1 DEF Sums
    <3>3. g[i] = f[i] /\ g[i - 1] = f[i - 1]
      BY <2>2, <3>1
    <3> QED
      BY <2>2, <3>2, <3>3
  <2>3. CASE i = m
    <3>1. m \in Nat /\ ~(m < m) /\ m - 1 \in 0..m /\ m - 1 < m /\ m # 0
      BY <1>2, <1>3
    <3>2. g[m - 1] = f[m - 1]
      BY <3>1
    <3>3. g[m] = f[m - 1] + Bytes(q[m])
      BY <3>1
    <3> QED
      BY <2>3, <3>1, <3>2, <3>3
  <2> QED
    BY <1>3, <2>1, <2>2, <2>3
<1>6. Sums(q, m, g)
  <2>1. g = [i \in 0..m |-> g[i]]
    OBVIOUS
  <2> HIDE DEF g
  <2> QED
    BY <1>5, <2>1 DEF Sums
<1> QED
  BY <1>6

\* Total adds up a list of keys.
LEMMA TotalIs ==
    ASSUME NEW q \in Seq(Keys)
    PROVE  \E f \in [0..Len(q) -> Nat] :
             /\ Total(q) = f[Len(q)] /\ f[0] = 0
             /\ \A i \in 1..Len(q) : f[i] = f[i - 1] + Len(q[i])
<1> DEFINE N == Len(q)
           f == CHOOSE f : Sums(q, N, f)
<1>1. N \in Nat /\ \A i \in 1..N : Len(q[i]) \in Nat
  BY LenProperties, ElementOfSeq, KeyIs
<1>2. Sums(q, N, f)
  <2> HIDE DEF N
  <2> QED
    BY <1>1, SumsExists
<1>3. Total(q) = f[N]
  BY DEF Total, Sums
<1> HIDE DEF f
<1>4. /\ f[0] = 0 /\ DOMAIN f = 0..N /\ f = [i \in 0..N |-> f[i]]
      /\ \A i \in 1..N : f[i] = f[i - 1] + Len(q[i])
  <2> HIDE DEF N
  <2>1. 0 \in 0..N /\ \A i \in 1..N : i \in 0..N /\ i # 0
    BY <1>1
  <2> QED
    BY <1>2, <2>1 DEF Sums, Bytes
<1>5. \A i \in 0..N : f[i] \in Nat
  <2> DEFINE Bad == {i \in 0..N : f[i] \notin Nat}
  <2> SUFFICES ASSUME Bad # {} PROVE FALSE
    OBVIOUS
  <2> HIDE DEF N
  <2>1. PICK i \in Bad : \A l \in Bad : i <= l
    <3>1. Bad \in SUBSET Nat
      BY <1>1
    <3> HIDE DEF Bad
    <3> QED
      BY <3>1, LeastNumber
  <2>2. i \in 1..N /\ i - 1 \in 0..N /\ ~(i <= i - 1)
    BY <1>1, <1>4
  <2>3. i - 1 \notin Bad
    <3> HIDE DEF Bad
    <3> QED
      BY <2>1, <2>2
  <2>4. f[i - 1] \in Nat /\ Len(q[i]) \in Nat
    BY <1>1, <2>2, <2>3
  <2>5. f[i] \in Nat
    <3>1. f[i] = f[i - 1] + Len(q[i])
      BY <1>4, <2>2
    <3> QED
      BY <2>4, <3>1
  <2> QED
    BY <2>5
<1>6. f \in [0..N -> Nat]
  BY <1>4, <1>5
<1> QED
  BY <1>3, <1>4, <1>6 DEF N

\* Sums over lists that are alike, or one of them shorter, compare like their last terms.
LEMMA SumsCompare ==
    ASSUME NEW n \in Nat, NEW F, NEW G,
           \A i \in 0..n : F[i] \in Nat /\ G[i] \in Nat,
           F[0] <= G[0],
           \A i \in 1..n : F[i - 1] <= G[i - 1] => F[i] <= G[i]
    PROVE  F[n] <= G[n]
<1> DEFINE Bad == {i \in 0..n : ~(F[i] <= G[i])}
<1> SUFFICES ASSUME Bad # {} PROVE FALSE
  OBVIOUS
<1>1. PICK i \in Bad : \A l \in Bad : i <= l
  <2>1. Bad \in SUBSET Nat
    OBVIOUS
  <2> HIDE DEF Bad
  <2> QED
    BY <2>1, LeastNumber
<1>2. i \in 1..n /\ i - 1 \in 0..n /\ ~(i <= i - 1)
  <2>1. i \in 0..n /\ i # 0
    OBVIOUS
  <2> QED
    BY <2>1
<1>3. i - 1 \notin Bad
  <2> HIDE DEF Bad
  <2> QED
    BY <1>1, <1>2
<1> QED
  BY <1>2, <1>3

\* A key that is put behind adds its bytes.
LEMMA TotalAppend ==
    ASSUME NEW q \in Seq(Keys), NEW k \in Keys
    PROVE  Total(q) \in Nat /\ Total(Append(q, k)) = Total(q) + Bytes(k)
<1> DEFINE N == Len(q)
           r == Append(q, k)
<1>1. r \in Seq(Keys) /\ Len(r) = N + 1 /\ (\A i \in 1..N : r[i] = q[i]) /\ r[N + 1] = k
  BY AppendProperties
<1>2. N \in Nat
  BY LenProperties
<1>3. PICK f \in [0..N -> Nat] :
        /\ Total(q) = f[N] /\ f[0] = 0
        /\ \A i \in 1..N : f[i] = f[i - 1] + Len(q[i])
  BY TotalIs
<1>4. PICK g \in [0..(N + 1) -> Nat] :
        /\ Total(r) = g[N + 1] /\ g[0] = 0
        /\ \A i \in 1..(N + 1) : g[i] = g[i - 1] + Len(r[i])
  BY <1>1, TotalIs
<1> HIDE DEF N, r
<1>5. \A i \in 1..N : Len(q[i]) \in Nat
  BY ElementOfSeq, KeyIs DEF N
<1>6. \A i \in 0..N : f[i] \in Nat /\ g[i] \in Nat
  BY <1>2
<1>7. \A i \in 1..N : i - 1 \in 0..N /\ g[i] = g[i - 1] + Len(q[i])
  <2>1. \A i \in 1..N : i - 1 \in 0..N /\ i \in 1..(N + 1)
    BY <1>2
  <2> QED
    BY <1>1, <1>4, <2>1
<1>8. f[N] <= g[N] /\ g[N] <= f[N]
  <2>0. ASSUME NEW i \in 1..N
        PROVE  /\ f[i] = f[i - 1] + Len(q[i]) /\ g[i] = g[i - 1] + Len(q[i])
               /\ f[i - 1] \in Nat /\ g[i - 1] \in Nat /\ Len(q[i]) \in Nat
    <3>1. i - 1 \in 0..N
      BY <1>2
    <3> QED
      BY <1>3, <1>5, <1>6, <1>7, <3>1
  <2>1. \A i \in 1..N : f[i - 1] <= g[i - 1] => f[i] <= g[i]
    BY <2>0
  <2>2. \A i \in 1..N : g[i - 1] <= f[i - 1] => g[i] <= f[i]
    BY <2>0
  <2>3. f[0] <= g[0] /\ g[0] <= f[0]
    BY <1>3, <1>4
  <2>4. f[N] <= g[N]
    BY <1>2, <1>6, <2>1, <2>3, SumsCompare
  <2>5. g[N] <= f[N]
    BY <1>2, <1>6, <2>2, <2>3, SumsCompare
  <2> QED
    BY <2>4, <2>5
<1>9. g[N + 1] = g[N] + Len(k)
  <2>1. N + 1 \in 1..(N + 1) /\ (N + 1) - 1 = N
    BY <1>2
  <2> QED
    BY <1>1, <1>4, <2>1
<1>10. f[N] = g[N] /\ f[N] \in Nat
  <2>1. N \in 0..N
    BY <1>2
  <2> QED
    BY <1>6, <1>8, <2>1
<1> QED
  BY <1>3, <1>4, <1>9, <1>10 DEF Bytes, r

\* A key that goes takes its bytes with it.
LEMMA TotalWithout ==
    ASSUME NEW q \in Seq(Keys), NEW k
    PROVE  Total(q) \in Nat /\ Total(Without(q, k)) \in Nat /\ Total(Without(q, k)) <= Total(q)
<1> DEFINE N == Len(q)
           r == Without(q, k)
<1>1. N \in Nat
  BY LenProperties
<1>2. PICK f \in [0..N -> Nat] :
        /\ Total(q) = f[N] /\ f[0] = 0
        /\ \A i \in 1..N : f[i] = f[i - 1] + Len(q[i])
  BY TotalIs
<1>3. \A i \in 1..N : Len(q[i]) \in Nat
  BY ElementOfSeq, KeyIs DEF N
<1>4. f[N] \in Nat
  BY <1>1
<1>5. CASE k \notin ToSet(q)
  BY <1>2, <1>4, <1>5 DEF Without
<1>6. CASE k \in ToSet(q)
  <2>1. PICK pos \in 1..N :
             /\ r \in Seq(Keys) /\ Len(r) = N - 1
             /\ \A i \in 1..(N - 1) : r[i] = IF i < pos THEN q[i] ELSE q[i + 1]
    <3>1. PICK pos \in 1..Len(q) :
             /\ Without(q, k) \in Seq(Keys) /\ Len(Without(q, k)) = Len(q) - 1
             /\ \A i \in 1..(Len(q) - 1) : Without(q, k)[i] = IF i < pos THEN q[i] ELSE q[i + 1]
      BY <1>6, WithoutPlaces
    <3> QED
      BY <3>1, Zenon DEF N, r
  <2>2. PICK g \in [0..(N - 1) -> Nat] :
        /\ Total(r) = g[N - 1] /\ g[0] = 0
        /\ \A i \in 1..(N - 1) : g[i] = g[i - 1] + Len(r[i])
    <3> HIDE DEF N, r
    <3>1. r \in Seq(Keys) /\ Len(r) = N - 1
      BY <2>1
    <3>2. \E g \in [0..Len(r) -> Nat] :
            /\ Total(r) = g[Len(r)] /\ g[0] = 0
            /\ \A i \in 1..Len(r) : g[i] = g[i - 1] + Len(r[i])
      BY <3>1, TotalIs
    <3> QED
      BY <3>1, <3>2
  <2> HIDE DEF N, r
  <2> DEFINE h == [i \in 0..(N - 1) |-> IF i < pos THEN f[i] ELSE f[i + 1]]
  <2>3. N - 1 \in Nat /\ pos \in Nat /\ pos >= 1 /\ pos <= N
    BY <1>1
  <2>4. \A i \in 0..N : f[i] \in Nat
    BY <1>1
  <2>5. \A i \in 0..(N - 1) : i \in 0..N /\ i + 1 \in 0..N /\ i \in Nat
    BY <1>1
  <2>6. \A i \in 0..(N - 1) : g[i] \in Nat /\ h[i] \in Nat
    BY <2>2, <2>4, <2>5
  <2>7. ASSUME NEW i \in 1..(N - 1), g[i - 1] <= h[i - 1] PROVE g[i] <= h[i]
    <3>1. i \in 1..N /\ i + 1 \in 1..N /\ i \in 0..(N - 1) /\ i - 1 \in 0..(N - 1) /\ (i + 1) - 1 = i
          /\ (i - 1) + 1 = i
      <4>1. N \in Nat /\ i \in Nat /\ i >= 1 /\ i <= N - 1
        BY <1>1, <2>3
      <4> QED
        BY <4>1
    <3>2. f[i] = f[i - 1] + Len(q[i]) /\ f[i + 1] = f[i] + Len(q[i + 1])
      BY <1>2, <3>1
    <3>3. g[i] = g[i - 1] + Len(r[i]) /\ r[i] = IF i < pos THEN q[i] ELSE q[i + 1]
      BY <2>1, <2>2
    <3>4. /\ f[i - 1] \in Nat /\ f[i] \in Nat /\ f[i + 1] \in Nat /\ g[i - 1] \in Nat
          /\ Len(q[i]) \in Nat /\ Len(q[i + 1]) \in Nat
      BY <1>3, <2>4, <2>5, <2>6, <3>1
    <3>5. h[i] = (IF i < pos THEN f[i] ELSE f[i + 1])
          /\ h[i - 1] = (IF i - 1 < pos THEN f[i - 1] ELSE f[i])
      BY <3>1
    <3> HIDE DEF h
    <3>6. CASE i < pos
      <4>1. i - 1 < pos
        BY <2>3, <3>6
      <4> QED
        BY <2>7, <3>2, <3>3, <3>4, <3>5, <3>6, <4>1
    <3>7. CASE ~(i < pos)
      <4>1. h[i] = f[i + 1] /\ g[i] = g[i - 1] + Len(q[i + 1]) /\ h[i - 1] <= f[i]
        BY <3>2, <3>3, <3>4, <3>5, <3>7
      <4>2. h[i - 1] \in Nat
        BY <3>4, <3>5
      <4>3. g[i - 1] <= f[i]
        <5>1. g[i - 1] <= h[i - 1] /\ h[i - 1] <= f[i]
          BY <2>7, <4>1
        <5> QED
          BY <3>4, <4>2, <5>1
      <4>4. g[i - 1] + Len(q[i + 1]) <= f[i] + Len(q[i + 1])
        BY <3>4, <4>3
      <4> QED
        BY <3>2, <4>1, <4>4
    <3> QED
      BY <3>6, <3>7
  <2>8. g[0] <= h[0]
    <3>1. 0 \in 0..(N - 1) /\ 0 < pos
      BY <2>3
    <3> QED
      BY <1>2, <2>2, <3>1
  <2>9. g[N - 1] <= h[N - 1]
    <3> HIDE DEF h
    <3> QED
      BY <2>3, <2>6, <2>7, <2>8, SumsCompare
  <2>10. h[N - 1] <= f[N] /\ h[N - 1] \in Nat /\ g[N - 1] \in Nat
    <3>1. N - 1 \in 0..(N - 1) /\ (N - 1) + 1 = N /\ N \in 1..N /\ N - 1 \in 0..N
      <4> HIDE DEF h
      <4> QED
        BY <1>1, <2>3
    <3>2. f[N] = f[N - 1] + Len(q[N]) /\ Len(q[N]) \in Nat /\ f[N - 1] \in Nat
      BY <1>2, <1>3, <2>4, <3>1
    <3>3. h[N - 1] = f[N - 1] \/ h[N - 1] = f[N]
      BY <3>1
    <3> HIDE DEF h
    <3>4. g[N - 1] \in Nat
      BY <2>6, <3>1
    <3> QED
      BY <1>4, <3>2, <3>3, <3>4
  <2> HIDE DEF h
  <2> QED
    BY <1>2, <1>4, <2>2, <2>9, <2>10 DEF r
<1> QED
  BY <1>5, <1>6

\* Policy::put drops enough keys for the new one, and no more than there are.
LEMMA ShiftedFits ==
    ASSUME NEW key \in Keys, lru \in Seq(Keys), tier \in Tiers, Bytes(key) <= tier.spill
    PROVE  LET rest == Without(lru, key)
           IN  /\ Shifted(key) \in 0..Len(rest)
               /\ Total(SubSeq(rest, Shifted(key) + 1, Len(rest))) + Bytes(key) <= tier.spill
<1> DEFINE rest == Without(lru, key)
           Fits(n) == Total(SubSeq(rest, n + 1, Len(rest))) + Bytes(key) <= tier.spill
           Enough == {n \in 0..Len(rest) : Fits(n)}
<1>1. Len(rest) \in Nat
  BY WithoutType, LenProperties
<1>2. Fits(Len(rest))
  <2>1. SubSeq(rest, Len(rest) + 1, Len(rest)) = <<>>
    BY <1>1, SubSeqEmpty
  <2>2. Total(<<>>) = 0
    BY TotalIs, EmptySeq
  <2>3. tier.spill \in Nat /\ Bytes(key) \in Nat /\ 0 + Bytes(key) <= tier.spill
    BY KeyIs, TierAssumption DEF Bytes
  <2> QED
    BY <2>1, <2>2, <2>3
<1> HIDE DEF Fits, rest
<1>3. Enough \subseteq Nat /\ Enough # {}
  BY <1>1, <1>2
<1>4. PICK n \in Enough : \A m \in Enough : n <= m
  <2> HIDE DEF Enough
  <2> QED
    BY <1>3, LeastNumber
<1>5. ASSUME NEW m \in 0..(n - 1) PROVE ~Fits(m)
  <2>1. m \in Nat /\ n \in 0..Len(rest) /\ ~(n <= m) /\ m \in 0..Len(rest)
    BY <1>1
  <2> QED
    BY <1>4, <2>1
<1>6. \E i \in 0..Len(rest) : Fits(i) /\ \A m \in 0..(i - 1) : ~Fits(m)
  BY <1>4, <1>5
<1>7. Shifted(key) = CHOOSE i \in 0..Len(rest) : Fits(i) /\ \A m \in 0..(i - 1) : ~Fits(m)
  BY DEF Shifted, rest, Fits
<1>8. Shifted(key) \in 0..Len(rest) /\ Fits(Shifted(key))
  BY <1>6, <1>7
<1> QED
  BY <1>8 DEF rest, Fits

-----------------------------------------------------------------------------
(* Types *)

\* What a snapshot of `key` holds, on disk or on its way there.
Content(key) == [rows : [1..Len(key) -> Seq(Nat)], st : Seq(Nat)]
Written(key) == {WriteJob(key, c) : c \in Content(key)}
Deletes == {DeleteJob(k) : k \in Keys}
Jobs == (UNION {Written(k) : k \in Keys}) \cup Deletes
Ckpts == [slot : Slots, pos : Nat, st : Seq(Nat)]
Prefills == [slot : Slots \cup {NoSlot}, prompt : Prompts \cup {None}, pos : Nat,
             grid : SUBSET Nat, tracked : BOOLEAN, tail : Int]

HostTypes ==
    /\ tier \in Tiers
    /\ cache \in [Slots -> Keys \cup {None}]
    /\ pc \in {"idle", "capture", "restore", "resume", "chunks"}
    /\ job \in Prefills
    /\ pc # "idle" => job.slot \in Slots /\ job.prompt \in Prompts
    /\ pc = "chunks" => job.grid \subseteq 1..End
DiskTypes ==
    /\ lru \in Seq(Keys) /\ jobs \in Seq(Jobs)
    /\ DOMAIN files \subseteq Keys /\ \A k \in DOMAIN files : files[k] \in Content(k)
DeviceTypes ==
    /\ snap \in [Slots -> Seq(Nat)] /\ live \in Seq(Nat)
    /\ rows \in [Slots -> [1..MaxLen -> Seq(Nat)]]
    /\ toks \in [Slots -> Seq(Nat)] /\ ckpts \in Seq(Ckpts)
Types == HostTypes /\ DiskTypes /\ DeviceTypes

LEMMA NoneIs == None \in Seq(Nat) /\ Junk \in Seq(Nat) /\ Len(None) = 0
BY EmptySeq DEF None, Junk

LEMMA NoJobIs == NoJob \in Prefills
BY DEF NoJob, Prefills, NoTail

\* f counts up to place n what Only keeps of a list.
Keeps(queue, keep, n, f) ==
    f = [i \in 0..n |-> IF i = 0 THEN <<>>
                        ELSE IF queue[i] \in keep THEN Append(f[i - 1], queue[i]) ELSE f[i - 1]]

LEMMA KeepsExists ==
    ASSUME NEW queue, NEW keep, NEW n \in Nat
    PROVE  \E f : Keeps(queue, keep, n, f)
<1> DEFINE Bad == {m \in Nat : ~ \E f : Keeps(queue, keep, m, f)}
<1> SUFFICES ASSUME Bad # {} PROVE FALSE
  OBVIOUS
<1>1. PICK m \in Bad : \A l \in Bad : m <= l
  <2>1. Bad \in SUBSET Nat
    OBVIOUS
  <2> HIDE DEF Bad
  <2> QED
    BY <2>1, LeastNumber
<1>2. m # 0
  <2> DEFINE f == [i \in {0} |-> <<>>]
  <2>1. Keeps(queue, keep, 0, f)
    <3>1. 0..0 = {0}
      OBVIOUS
    <3> QED
      BY <3>1 DEF Keeps
  <2> QED
    BY <2>1
<1>3. m - 1 \in Nat /\ m - 1 \notin Bad
  <2>1. m \in Nat /\ m - 1 \in Nat /\ ~(m <= m - 1)
    BY <1>2
  <2> HIDE DEF Bad
  <2> QED
    BY <1>1, <2>1
<1>4. PICK f : Keeps(queue, keep, m - 1, f)
  BY <1>3
<1> DEFINE g == [i \in 0..m |-> IF i < m THEN f[i]
                                ELSE IF queue[m] \in keep THEN Append(f[m - 1], queue[m]) ELSE f[m - 1]]
<1>5. ASSUME NEW i \in 0..m
      PROVE  g[i] = IF i = 0 THEN <<>>
                    ELSE IF queue[i] \in keep THEN Append(g[i - 1], queue[i]) ELSE g[i - 1]
  <2>1. CASE i = 0
    <3>1. 0 \in 0..(m - 1) /\ i < m /\ f[0] = <<>>
      BY <1>3, <1>4, <2>1 DEF Keeps
    <3> QED
      BY <2>1, <3>1
  <2>2. CASE i # 0 /\ i < m
    <3>1. i \in 0..(m - 1) /\ i - 1 \in 0..m /\ i - 1 < m
      BY <1>3, <2>2
    <3>2. f[i] = IF queue[i] \in keep THEN Append(f[i - 1], queue[i]) ELSE f[i - 1]
      BY <1>4, <2>2, <3>1 DEF Keeps
    <3>3. g[i] = f[i] /\ g[i - 1] = f[i - 1]
      BY <2>2, <3>1
    <3> QED
      BY <2>2, <3>2, <3>3
  <2>3. CASE i = m
    <3>1. m \in Nat /\ ~(m < m) /\ m - 1 \in 0..m /\ m - 1 < m /\ m # 0
      BY <1>2, <1>3
    <3>2. g[m - 1] = f[m - 1]
      BY <3>1
    <3>3. g[m] = IF queue[m] \in keep THEN Append(f[m - 1], queue[m]) ELSE f[m - 1]
      BY <3>1
    <3> QED
      BY <2>3, <3>1, <3>2, <3>3
  <2> QED
    BY <1>3, <2>1, <2>2, <2>3
<1>6. Keeps(queue, keep, m, g)
  <2>1. g = [i \in 0..m |-> g[i]]
    OBVIOUS
  <2> HIDE DEF g
  <2> QED
    BY <1>5, <2>1 DEF Keeps
<1> QED
  BY <1>6

\* retain leaves elements of the list that are to be kept.
LEMMA OnlyIs ==
    ASSUME NEW S, NEW q \in Seq(S), NEW keep
    PROVE  /\ Only(q, keep) \in Seq(ToSet(q) \cap keep)
           /\ Only(q, keep) \in Seq(S) /\ ToSet(Only(q, keep)) \subseteq ToSet(q) \cap keep
<1> DEFINE N == Len(q)
           T == ToSet(q) \cap keep
           f == CHOOSE f : Keeps(q, keep, N, f)
           Bad == {i \in 0..N : f[i] \notin Seq(T)}
<1>1. N \in Nat /\ (\A i \in 1..N : q[i] \in ToSet(q)) /\ ToSet(q) \subseteq S
  BY Places
<1>2. Keeps(q, keep, N, f)
  <2> HIDE DEF N
  <2> QED
    BY <1>1, KeepsExists
<1>3. Only(q, keep) = f[N]
  BY DEF Only, Keeps
<1> HIDE DEF f, T
<1>4. Bad = {}
  <2> SUFFICES ASSUME Bad # {} PROVE FALSE
    OBVIOUS
  <2> HIDE DEF N
  <2>1. PICK i \in Bad : \A l \in Bad : i <= l
    <3>1. Bad \in SUBSET Nat
      BY <1>1
    <3> HIDE DEF Bad
    <3> QED
      BY <3>1, LeastNumber
  <2>2. i \in 0..N /\ i # 0
    <3>1. 0 \in 0..N
      BY <1>1
    <3>2. f[0] = <<>>
      BY <1>2, <3>1 DEF Keeps
    <3> QED
      BY <3>2, EmptySeq
  <2>3. i - 1 \in 0..N /\ i \in 1..N /\ ~(i <= i - 1)
    BY <1>1, <2>2
  <2>4. f[i - 1] \in Seq(T)
    <3>1. i - 1 \notin Bad
      <4> HIDE DEF Bad
      <4> QED
        BY <2>1, <2>3
    <3> QED
      BY <2>3, <3>1
  <2>5. f[i] = IF q[i] \in keep THEN Append(f[i - 1], q[i]) ELSE f[i - 1]
    BY <1>2, <2>2 DEF Keeps
  <2>6. q[i] \in keep => q[i] \in T
    BY <1>1, <2>3 DEF T
  <2>7. f[i] \in Seq(T)
    BY <2>4, <2>5, <2>6, AppendProperties
  <2> QED
    BY <2>7
<1>5. Only(q, keep) \in Seq(T)
  <2>1. N \in 0..N
    BY <1>1
  <2> QED
    BY <1>3, <1>4, <2>1
<1>6. T \subseteq S
  BY <1>1 DEF T
<1>7. Only(q, keep) \in Seq(S)
  BY <1>5, <1>6, SeqMonotonic
<1>8. ToSet(Only(q, keep)) \subseteq T
  BY <1>5, Places
<1> QED
  BY <1>5, <1>7, <1>8 DEF T

\* A run's chunks end inside it, and the last at its end.
LEMMA StartGridIn ==
    ASSUME NEW from \in Nat, NEW n \in Nat, NEW c \in Nat \ {0},
           NEW realign \in BOOLEAN, NEW tail \in Int, NEW cap
    PROVE  LET grid == StartGrid([from |-> from, n |-> n, c |-> c, realign |-> realign,
                                  tail |-> tail, cap |-> cap])
           IN  grid \subseteq (from + 1)..n /\ (from < n => n \in grid)
<1>1. \A r \in BOOLEAN, t \in Int :
        /\ RunGrid(from, n, c, r, t) \subseteq (from + 1)..n
        /\ from < n => n \in RunGrid(from, n, c, r, t)
  BY DEF RunGrid
<1>2. CASE ~realign
  <2> DEFINE grid == RunGrid(from, n, c, FALSE, NoTail)
  <2>1. StartGrid([from |-> from, n |-> n, c |-> c, realign |-> realign, tail |-> tail,
                   cap |-> cap]) = grid
    BY <1>2 DEF StartGrid
  <2>2. NoTail \in Int
    BY DEF NoTail
  <2>3. grid \subseteq (from + 1)..n /\ (from < n => n \in grid)
    BY <1>1, <2>2
  <2> HIDE DEF grid
  <2> QED
    BY <2>1, <2>3
<1>3. CASE realign
  <2> DEFINE run == RunGrid(from, n, c, TRUE, tail)
             g == IF tail \in run THEN run \ BeforeTail(from, run, tail, cap) ELSE run
             grid == g \ Lead(from, g, tail, c, cap)
  <2>1. run \subseteq (from + 1)..n /\ (from < n => n \in run)
    BY <1>1
  <2> HIDE DEF run
  <2>2. g \subseteq run
    OBVIOUS
  <2>3. n \in run => n \in g
    <3> SUFFICES ASSUME tail \in run, n \in BeforeTail(from, run, tail, cap) PROVE FALSE
      OBVIOUS
    <3>1. tail <= n /\ n < tail
      BY <2>1 DEF BeforeTail, IsPrev
    <3> QED
      BY <3>1
  <2> HIDE DEF g
  <2>4. n \in g => n \in grid
    <3> SUFFICES ASSUME n \in Lead(from, g, tail, c, cap) PROVE FALSE
      OBVIOUS
    <3>1. PICK e \in g : n < e
      BY DEF Lead, IsNext
    <3>2. e \in (from + 1)..n
      BY <2>1, <2>2, <3>1
    <3> QED
      BY <3>1, <3>2
  <2>5. StartGrid([from |-> from, n |-> n, c |-> c, realign |-> realign, tail |-> tail,
                   cap |-> cap]) = grid
    BY <1>3 DEF StartGrid, MergeGrid, run, g
  <2>6. grid \subseteq (from + 1)..n /\ (from < n => n \in grid)
    BY <2>1, <2>2, <2>3, <2>4
  <2> HIDE DEF grid
  <2> QED
    BY <2>5, <2>6
<1> QED
  BY <1>2, <1>3

\* A run starts with its grid.
LEMMA StartRunIs ==
    ASSUME HostTypes, pc = "resume", NEW from \in Nat, NEW tracked \in BOOLEAN,
           StartRun(from, tracked)
    PROVE  /\ job' \in Prefills /\ job'.slot = job.slot /\ job'.prompt = job.prompt
           /\ job'.pos = from /\ job'.tracked = tracked
           /\ job'.grid \subseteq (from + 1)..End /\ (from < End => End \in job'.grid)
           /\ cache' = [cache EXCEPT ![job.slot] = None] /\ pc' = "chunks"
<1> DEFINE realign == TailOn /\ tracked
           tail == IF realign THEN TailPoint(Boundary[job.prompt], from, End, C, tier.tail) ELSE NoTail
           grid == StartGrid([from |-> from, n |-> End, c |-> C, realign |-> realign,
                              tail |-> tail, cap |-> PscRows(C, FALSE, tier.tail)])
<1>1. /\ job' = [job EXCEPT !.pos = from, !.tracked = tracked, !.tail = tail, !.grid = grid]
      /\ cache' = [cache EXCEPT ![job.slot] = None] /\ pc' = "chunks"
  BY Zenon DEF StartRun
<1>2. job \in Prefills /\ job.prompt \in Prompts /\ End \in Nat
  BY PromptIs DEF HostTypes, End
<1>3. realign \in BOOLEAN /\ C \in Nat \ {0}
  <2>1. TailOn \in BOOLEAN
    BY DEF TailOn
  <2> QED
    BY <2>1, TierAssumption
<1>4. tail \in Int
  <2>1. Boundary[job.prompt] - Backoff \in Int /\ NoTail \in Int
    BY <1>2, TierAssumption, RulesAssumption DEF NoTail
  <2> QED
    BY <2>1 DEF TailPoint
<1> HIDE DEF realign, tail
<1>5. grid \subseteq (from + 1)..End /\ (from < End => End \in grid)
  BY <1>2, <1>3, <1>4, StartGridIn
<1> HIDE DEF grid
<1>6. grid \in SUBSET Nat
  BY <1>2, <1>5
<1> QED
  BY <1>1, <1>2, <1>4, <1>5, <1>6 DEF Prefills

\* The writer thread's jobs.
LEMMA JobIs ==
    /\ \A k \in Keys : DeleteJob(k) \in Jobs /\ DeleteJob(k).key = k /\ DeleteJob(k).type = "delete"
    /\ \A k \in Keys : \A c \in Content(k) :
            /\ WriteJob(k, c) \in Jobs /\ WriteJob(k, c).key = k
            /\ WriteJob(k, c).type = "write" /\ WriteJob(k, c).content = c
    /\ \A j \in Jobs : j.key \in Keys /\ (j.type = "write" => j.content \in Content(j.key))
<1> DEFINE all == UNION {Written(k) : k \in Keys}
<1>a. \A j : j \in Jobs <=> j \in all \/ j \in Deletes
  <2>1. Jobs = all \cup Deletes
    BY DEF Jobs
  <2> HIDE DEF all
  <2> QED
    BY <2>1
<1>b. \A j : j \in all <=> \E k \in Keys : j \in Written(k)
  OBVIOUS
<1>c. \A k, j : j \in Written(k) <=> \E c \in Content(k) : j = WriteJob(k, c)
  BY Zenon DEF Written
<1>d. \A j : j \in Deletes <=> \E k \in Keys : j = DeleteJob(k)
  BY Zenon DEF Deletes
<1> HIDE DEF all
<1>1. \A k \in Keys : DeleteJob(k) \in Jobs
  BY <1>a, <1>d, Zenon
<1>2. ASSUME NEW k \in Keys, NEW c \in Content(k) PROVE WriteJob(k, c) \in Jobs
  BY <1>a, <1>b, <1>c, Zenon
<1>3. /\ \A k : DeleteJob(k).key = k /\ DeleteJob(k).type = "delete"
      /\ \A k, c : /\ WriteJob(k, c).key = k /\ WriteJob(k, c).type = "write"
                   /\ WriteJob(k, c).content = c
  BY DEF DeleteJob, WriteJob
<1>4. ASSUME NEW j \in Jobs
      PROVE  j.key \in Keys /\ (j.type = "write" => j.content \in Content(j.key))
  <2>1. \/ \E k \in Keys : \E c \in Content(k) : j = WriteJob(k, c)
        \/ \E k \in Keys : j = DeleteJob(k)
    <3>1. CASE j \in Deletes
      BY <1>d, <3>1
    <3>2. CASE j \in all
      <4>1. PICK k \in Keys : j \in Written(k)
        BY <1>b, <3>2
      <4> QED
        BY <1>c, <4>1
    <3> QED
      BY <1>a, <3>1, <3>2
  <2>2. ASSUME NEW k \in Keys, j = DeleteJob(k) PROVE j.key \in Keys /\ j.type # "write"
    <3>1. j.key = k /\ j.type = "delete"
      BY <1>3, <2>2
    <3> QED
      BY <3>1
  <2>3. ASSUME NEW k \in Keys, NEW c \in Content(k), j = WriteJob(k, c)
        PROVE  j.key \in Keys /\ j.content \in Content(j.key)
    <3>1. j.key = k /\ j.content = c
      BY <1>3, <2>3
    <3> QED
      BY <3>1
  <2> QED
    BY <2>1, <2>2, <2>3
<1> QED
  BY <1>1, <1>2, <1>3, <1>4

\* Policy::remove, and the file with it.
LEMMA DropIs ==
    ASSUME DiskTypes, NEW key \in Keys, Drop(key)
    PROVE  lru' \in Seq(Keys) /\ jobs' \in Seq(Jobs)
<1>1. lru \in Seq(Keys) /\ jobs \in Seq(Jobs) /\ DeleteJob(key) \in Jobs
  BY JobIs DEF DiskTypes
<1>2. lru' = Without(lru, key) /\ jobs' = Append(jobs, DeleteJob(key))
  BY DEF Drop
<1> QED
  BY <1>1, <1>2, WithoutType, AppendProperties

\* Policy::put of a key that fits: those shifted out go to the writer behind the new file.
PutBehind(key, content, n) ==
    LET rest == Without(lru, key)
        written == Append(jobs, WriteJob(key, content))
    IN  /\ Total(SubSeq(rest, n + 1, Len(rest))) + Bytes(key) <= tier.spill
        /\ lru' = Append(SubSeq(rest, n + 1, Len(rest)), key)
        /\ jobs' \in Seq(Jobs) /\ Len(jobs') = Len(jobs) + 1 + n
        /\ \A i \in 1..(Len(jobs) + 1) : jobs'[i] = written[i]
        /\ \A i \in 1..n : jobs'[Len(jobs) + 1 + i] = DeleteJob(rest[i])

LEMMA PutIs ==
    ASSUME HostTypes, DiskTypes, NEW key \in Keys, NEW content \in Content(key), Put(key, content)
    PROVE  /\ Append(jobs, WriteJob(key, content)) \in Seq(Jobs)
           /\ \/ /\ Bytes(key) > tier.spill /\ lru' = lru
                 /\ jobs' = Append(jobs, WriteJob(key, content))
              \/ \E n \in 0..Len(Without(lru, key)) : PutBehind(key, content, n)
           /\ lru' \in Seq(Keys) /\ jobs' \in Seq(Jobs)
<1> DEFINE w == WriteJob(key, content)
           rest == Without(lru, key)
           n == Shifted(key)
           dels == [i \in 1..n |-> DeleteJob(rest[i])]
           written == Append(jobs, w)
           back == SubSeq(rest, n + 1, Len(rest))
<1>1. lru \in Seq(Keys) /\ jobs \in Seq(Jobs) /\ tier \in Tiers /\ w \in Jobs
  BY JobIs DEF DiskTypes, HostTypes
<1>2. written \in Seq(Jobs) /\ Len(written) = Len(jobs) + 1 /\ Len(jobs) \in Nat
  BY <1>1, AppendProperties, LenProperties
<1>3. CASE Bytes(key) > tier.spill
  <2>1. jobs' = written /\ lru' = lru
    BY <1>3 DEF Put
  <2> QED
    BY <1>1, <1>2, <1>3, <2>1
<1>4. CASE ~(Bytes(key) > tier.spill)
  <2>1. lru' = Append(back, key) /\ jobs' = written \o dels
    BY <1>4, Zenon DEF Put
  <2>2. Bytes(key) <= tier.spill
    <3>1. Bytes(key) \in Nat /\ tier.spill \in Nat
      BY <1>1, KeyIs, TierAssumption DEF Bytes
    <3> QED
      BY <1>4, <3>1
  <2>3. n \in 0..Len(rest) /\ Total(back) + Bytes(key) <= tier.spill
    BY <1>1, <2>2, ShiftedFits
  <2>4. rest \in Seq(Keys) /\ Len(rest) \in Nat /\ \A i \in 1..Len(rest) : rest[i] \in Keys
    BY <1>1, WithoutType, Places
  <2> HIDE DEF rest, n, w, written
  <2>5. back \in Seq(Keys)
    <3>1. n + 1 \in Int /\ Len(rest) \in Int /\ \A i \in (n + 1)..Len(rest) : rest[i] \in Keys
      BY <2>3, <2>4
    <3> QED
      BY ONLY <3>1, SubSeqProperties
  <2>6. dels \in Seq(Jobs) /\ Len(dels) = n
    <3>1. n \in Nat /\ \A i \in 1..n : rest[i] \in Keys
      BY <2>3, <2>4
    <3>2. \A i \in 1..n : dels[i] \in Jobs
      BY <3>1, JobIs
    <3>3. DOMAIN dels = 1..n /\ dels = [i \in 1..n |-> dels[i]]
      OBVIOUS
    <3> HIDE DEF dels
    <3>4. dels \in Seq(Jobs)
      BY <3>1, <3>2, <3>3
    <3>5. DOMAIN dels = 1..Len(dels) /\ Len(dels) \in Nat
      BY <3>4, LenProperties
    <3> QED
      BY <3>1, <3>3, <3>4, <3>5
  <2>7. \A i \in 1..n : dels[i] = DeleteJob(rest[i])
    OBVIOUS
  <2> HIDE DEF dels, back
  <2>8. /\ jobs' \in Seq(Jobs) /\ Len(jobs') = (Len(jobs) + 1) + n
        /\ \A i \in 1..((Len(jobs) + 1) + n) :
               jobs'[i] = IF i <= Len(jobs) + 1 THEN written[i] ELSE dels[i - (Len(jobs) + 1)]
    <3>1. /\ written \o dels \in Seq(Jobs) /\ Len(written \o dels) = Len(written) + Len(dels)
          /\ \A i \in 1..(Len(written) + Len(dels)) :
               (written \o dels)[i] = IF i <= Len(written) THEN written[i] ELSE dels[i - Len(written)]
      BY <1>2, <2>6, ConcatProperties
    <3> QED
      BY <1>2, <2>1, <2>6, <3>1
  <2>9. \A i \in 1..(Len(jobs) + 1) : jobs'[i] = written[i]
    <3>1. \A i \in 1..(Len(jobs) + 1) : i \in 1..((Len(jobs) + 1) + n) /\ i <= Len(jobs) + 1
      BY <1>2, <2>3, <2>4
    <3> QED
      BY <2>8, <3>1
  <2>10. \A i \in 1..n : jobs'[Len(jobs) + 1 + i] = DeleteJob(rest[i])
    <3> SUFFICES ASSUME NEW i \in 1..n PROVE jobs'[Len(jobs) + 1 + i] = DeleteJob(rest[i])
      OBVIOUS
    <3> DEFINE j == (Len(jobs) + 1) + i
    <3>1. j \in 1..((Len(jobs) + 1) + n) /\ ~(j <= Len(jobs) + 1) /\ j - (Len(jobs) + 1) = i
      BY <1>2, <2>3, <2>4
    <3> HIDE DEF j
    <3>2. jobs'[j] = dels[i]
      BY <2>8, <3>1
    <3> QED
      BY <2>7, <3>2 DEF j
  <2>11. lru' \in Seq(Keys)
    BY <2>1, <2>5, AppendProperties
  <2>12. PutBehind(key, content, n)
    BY <2>1, <2>3, <2>8, <2>9, <2>10 DEF PutBehind, rest, back, w, written
  <2> QED
    BY <1>2, <2>3, <2>8, <2>11, <2>12 DEF rest, w, written
<1> QED
  BY <1>3, <1>4

\* A job that moves to pos.
LEMMA MovedJob ==
    ASSUME HostTypes, NEW q \in Nat, job' = [job EXCEPT !.pos = q]
    PROVE  /\ job' \in Prefills /\ job'.slot = job.slot /\ job'.prompt = job.prompt
           /\ job'.grid = job.grid /\ job'.pos = q /\ job'.tracked = job.tracked
BY DEF HostTypes, Prefills

LEMMA HostFrom ==
    ASSUME HostTypes, tier' = tier, cache' \in [Slots -> Keys \cup {None}],
           pc' \in {"idle", "capture", "restore", "resume"}, job' \in Prefills,
           pc' # "idle" => job'.slot \in Slots /\ job'.prompt \in Prompts
    PROVE  HostTypes'
BY DEF HostTypes

LEMMA HostIdle ==
    ASSUME HostTypes, tier' = tier, cache' \in [Slots -> Keys \cup {None}], Idle
    PROVE  HostTypes'
BY HostFrom, NoJobIs DEF Idle

\* The host's state: the prefill, and the snapshots it knows.
LEMMA HostNext == ASSUME HostTypes, DiskTypes, DeviceTypes, [Next]_vars PROVE HostTypes'
<1>0. /\ tier \in Tiers /\ cache \in [Slots -> Keys \cup {None}] /\ job \in Prefills
      /\ pc # "idle" => job.slot \in Slots /\ job.prompt \in Prompts
  BY DEF HostTypes
<1>1. CASE UNCHANGED vars
  BY <1>1 DEF HostTypes, vars, deviceVars, End
<1>2. ASSUME NEW s \in Slots, NEW p \in Prompts, Pick(s, p) PROVE HostTypes'
  <2>1. /\ tier' = tier /\ cache' = cache /\ pc' = "capture"
        /\ job' = [NoJob EXCEPT !.slot = s, !.prompt = p]
    BY <1>2 DEF Pick, deviceVars
  <2>2. job' = [slot |-> s, prompt |-> p, pos |-> 0, grid |-> {}, tracked |-> FALSE, tail |-> NoTail]
    BY <2>1 DEF NoJob
  <2>3. job' \in Prefills /\ job'.slot = s /\ job'.prompt = p
    BY <2>2 DEF Prefills, NoTail
  <2> QED
    BY <1>0, <2>1, <2>3, HostFrom
<1>3. CASE CaptureNothing
  <2>1. tier' = tier /\ cache' = cache /\ pc' = "restore" /\ job' = job /\ pc # "idle"
    BY <1>3 DEF CaptureNothing, deviceVars
  <2> QED
    BY <1>0, <2>1, HostFrom
<1>4. CASE Capture
  <2>1. tier' = tier /\ cache' = cache /\ pc' = "restore" /\ job' = job /\ pc # "idle"
    BY <1>4, Zenon DEF Capture, deviceVars
  <2> QED
    BY <1>0, <2>1, HostFrom
<1>5. CASE RestoreNothing \/ RestoreUnreadable \/ RestoreFails \/ Restore
  <2>1. /\ tier' = tier /\ cache' = cache /\ pc' = "resume" /\ pc # "idle"
    BY <1>5, Zenon DEF RestoreNothing, RestoreUnreadable, RestoreFails, Restore, deviceVars
  <2>2. job' = job \/ \E q \in Nat : job' = [job EXCEPT !.pos = q]
    <3>1. CASE RestoreNothing
      <4>1. job' = [job EXCEPT !.pos = IF OwnHit THEN Len(cache[job.slot]) ELSE 0] /\ pc # "idle"
        BY <3>1 DEF RestoreNothing
      <4>2. Len(cache[job.slot]) \in Nat
        BY <1>0, <4>1, KeyIs, NoneIs
      <4> QED
        BY <4>1, <4>2
    <3>2. CASE RestoreUnreadable \/ RestoreFails
      BY <3>2 DEF RestoreUnreadable, RestoreFails
    <3>3. CASE Restore
      <4>1. PICK i \in DOMAIN lru : job' = [job EXCEPT !.pos = Len(lru[i])]
        BY <3>3 DEF Restore
      <4>2. Len(lru[i]) \in Nat
        BY <4>1, Places, KeyIs DEF DiskTypes
      <4> QED
        BY <4>1, <4>2
    <3> QED
      BY <1>5, <3>1, <3>2, <3>3
  <2>3. job' \in Prefills /\ job'.slot = job.slot /\ job'.prompt = job.prompt
    BY <1>0, <2>2, MovedJob
  <2> QED
    BY <1>0, <2>1, <2>3, HostFrom
<1>6. CASE ResumeSnapshot \/ ResumeCheckpoint \/ ResumeFresh
  <2>1. tier' = tier /\ pc = "resume"
    BY <1>6, Zenon DEF ResumeSnapshot, ResumeCheckpoint, ResumeFresh
  <2>2. \E q \in Nat, t \in BOOLEAN : StartRun(q, t)
    <3>1. CASE ResumeSnapshot
      <4>1. StartRun(job.pos, FALSE) \/ StartRun(job.pos, TRUE)
        BY <3>1, Zenon DEF ResumeSnapshot
      <4>2. job.pos \in Nat
        BY <1>0 DEF Prefills
      <4> QED
        BY <4>1, <4>2
    <3>2. CASE ResumeCheckpoint
      <4>1. PICK i \in DOMAIN ckpts : StartRun(ckpts[i].pos, TRUE)
        BY <3>2, Zenon DEF ResumeCheckpoint
      <4>2. ckpts[i] \in Ckpts
        BY Places DEF DeviceTypes
      <4>3. ckpts[i].pos \in Nat
        BY <4>2 DEF Ckpts
      <4> QED
        BY <4>1, <4>3
    <3>3. CASE ResumeFresh
      <4>1. StartRun(0, tier.ckpt > 0)
        BY <3>3, Zenon DEF ResumeFresh
      <4>2. (tier.ckpt > 0) \in BOOLEAN
        OBVIOUS
      <4> QED
        BY <4>1, <4>2, Zenon
    <3> QED
      BY <1>6, <3>1, <3>2, <3>3
  <2>3. PICK q \in Nat, t \in BOOLEAN : StartRun(q, t)
    BY <2>2
  <2>4. /\ job' \in Prefills /\ job'.slot = job.slot /\ job'.prompt = job.prompt
        /\ job'.grid \subseteq (q + 1)..End
        /\ cache' = [cache EXCEPT ![job.slot] = None] /\ pc' = "chunks"
    BY <2>1, <2>3, StartRunIs
  <2>5. job'.grid \subseteq 1..End /\ End' = End
    <3>1. End \in Nat
      BY <1>0, <2>1, PromptIs DEF End
    <3> QED
      BY <2>4, <3>1 DEF End
  <2> QED
    BY <1>0, <2>1, <2>4, <2>5 DEF HostTypes
<1>7. CASE Chunk
  <2>1. /\ tier' = tier /\ cache' = cache /\ pc' = pc /\ pc = "chunks"
        /\ \E e \in job.grid : job' = [job EXCEPT !.pos = e]
    BY <1>7, Zenon DEF Chunk
  <2>2. PICK e \in Nat : job' = [job EXCEPT !.pos = e]
    BY <1>0, <2>1 DEF Prefills
  <2>3. job' \in Prefills /\ job'.slot = job.slot /\ job'.prompt = job.prompt /\ job'.grid = job.grid
    BY <2>2, MovedJob
  <2> QED
    BY <1>0, <2>1, <2>3 DEF HostTypes, End
<1>8. CASE Cancel \/ ChunkFails
  <2>1. tier' = tier /\ cache' = cache /\ Idle
    BY <1>8, Zenon DEF Cancel, ChunkFails
  <2> QED
    BY <1>0, <2>1, HostIdle
<1>9. CASE Snapshot
  <2>1. /\ tier' = tier /\ Idle /\ pc # "idle"
        /\ cache' = [cache EXCEPT ![job.slot] = Prefix(job.prompt, End)]
    BY <1>9 DEF Snapshot
  <2>2. Prefix(job.prompt, End) \in Keys
    BY <1>0, <2>1 DEF Keys, End
  <2> QED
    BY <1>0, <2>1, <2>2, HostIdle
<1>10. CASE Writer
  BY <1>10, <1>0 DEF Writer, HostTypes, deviceVars, End
<1>11. CASE Restart
  BY <1>11, HostIdle DEF Restart
<1> QED
  BY <1>1, <1>2, <1>3, <1>4, <1>5, <1>6, <1>7, <1>8, <1>9, <1>10, <1>11 DEF Next, Spill, Prefill

\* The disk tier.
LEMMA DiskNext == ASSUME HostTypes, DiskTypes, DeviceTypes, [Next]_vars PROVE DiskTypes'
<1>0. /\ lru \in Seq(Keys) /\ jobs \in Seq(Jobs)
      /\ DOMAIN files \subseteq Keys /\ \A k \in DOMAIN files : files[k] \in Content(k)
  BY DEF DiskTypes
<1>1. ASSUME UNCHANGED spillVars PROVE DiskTypes'
  BY <1>1 DEF DiskTypes, spillVars
<1>2. CASE Capture
  <2> DEFINE key == cache[job.slot]
             content == [rows |-> [i \in 1..Len(key) |-> rows[job.slot][i]], st |-> snap[job.slot]]
  <2>1. pc # "idle" /\ key # None /\ Put(key, content) /\ files' = files
    BY <1>2, Zenon DEF Capture, Evicts
  <2>2. job.slot \in Slots /\ key \in Keys
    BY <2>1 DEF HostTypes
  <2>3. content \in Content(key)
    <3>1. rows[job.slot] \in [1..MaxLen -> Seq(Nat)] /\ snap[job.slot] \in Seq(Nat)
      BY <2>2 DEF DeviceTypes
    <3>2. \A i \in 1..Len(key) : i \in 1..MaxLen
      BY <2>2, KeyIs, TierAssumption
    <3>3. [i \in 1..Len(key) |-> rows[job.slot][i]] \in [1..Len(key) -> Seq(Nat)]
      BY <3>1, <3>2
    <3> HIDE DEF key
    <3> QED
      BY <3>1, <3>3 DEF Content
  <2> HIDE DEF key, content
  <2>4. lru' \in Seq(Keys) /\ jobs' \in Seq(Jobs)
    BY <2>1, <2>2, <2>3, PutIs
  <2> QED
    BY <1>0, <2>1, <2>4 DEF DiskTypes
<1>3. CASE RestoreUnreadable \/ Restore
  <2>1. (\E i \in DOMAIN lru : Drop(lru[i])) /\ files' = files
    BY <1>3, Zenon DEF RestoreUnreadable, Restore
  <2>2. PICK key \in Keys : Drop(key)
    BY <1>0, <2>1, Places
  <2>3. lru' \in Seq(Keys) /\ jobs' \in Seq(Jobs)
    BY <2>2, DropIs
  <2> QED
    BY <1>0, <2>1, <2>3 DEF DiskTypes
<1>4. CASE Writer
  <2> DEFINE j == Head(jobs)
  <2>1. /\ jobs # <<>> /\ jobs' = Tail(jobs) /\ lru' = lru
        /\ \/ /\ j.type = "write"
              /\ files' = [k \in DOMAIN files \cup {j.key} |-> IF k = j.key THEN j.content ELSE files[k]]
           \/ files' = files
           \/ files' = [k \in DOMAIN files \ {j.key} |-> files[k]]
    BY <1>4 DEF Writer
  <2>2. j \in Jobs /\ jobs' \in Seq(Jobs)
    BY <1>0, <2>1, HeadTailProperties
  <2> HIDE DEF j
  <2>3. j.key \in Keys /\ (j.type = "write" => j.content \in Content(j.key))
    BY <2>2, JobIs
  <2>4. CASE /\ j.type = "write"
             /\ files' = [k \in DOMAIN files \cup {j.key} |-> IF k = j.key THEN j.content ELSE files[k]]
    <3>1. DOMAIN files' = DOMAIN files \cup {j.key}
      BY <2>4
    <3>2. \A k \in DOMAIN files' : files'[k] = IF k = j.key THEN j.content ELSE files[k]
      BY <2>4
    <3> QED
      BY <1>0, <2>1, <2>2, <2>3, <2>4, <3>1, <3>2 DEF DiskTypes
  <2>5. CASE files' = files
    BY <1>0, <2>1, <2>2, <2>5 DEF DiskTypes
  <2>6. CASE files' = [k \in DOMAIN files \ {j.key} |-> files[k]]
    <3>1. DOMAIN files' = DOMAIN files \ {j.key} /\ \A k \in DOMAIN files' : files'[k] = files[k]
      BY <2>6
    <3> QED
      BY <1>0, <2>1, <2>2, <3>1 DEF DiskTypes
  <2> QED
    BY <2>1, <2>4, <2>5, <2>6
<1>5. CASE Restart
  <2>1. lru' = <<>> /\ jobs' = <<>> /\ files' = files
    BY <1>5 DEF Restart
  <2> QED
    BY <1>0, <2>1, EmptySeq DEF DiskTypes
<1>6. CASE UNCHANGED vars
  BY <1>1, <1>6 DEF vars
<1>7. CASE \E s \in Slots, p \in Prompts : Pick(s, p)
  BY <1>1, <1>7 DEF Pick
<1>8. CASE CaptureNothing \/ RestoreNothing \/ RestoreFails
  BY <1>1, <1>8, Zenon DEF CaptureNothing, RestoreNothing, RestoreFails
<1>9. CASE Prefill
  <2>1. UNCHANGED spillVars
    BY <1>9, Zenon DEF Prefill, ResumeSnapshot, ResumeCheckpoint, ResumeFresh, Chunk, Cancel,
                       ChunkFails, Snapshot
  <2> QED
    BY <1>1, <2>1
<1> QED
  BY <1>2, <1>3, <1>4, <1>5, <1>6, <1>7, <1>8, <1>9 DEF Next, Spill

-----------------------------------------------------------------------------
(* Checkpoints *)

\* No checkpoint is deeper than the prefix its slot keeps, and a prefill that takes
\* checkpoints keeps that prefix up to where it is.
Deep ==
    /\ \A k \in ToSet(ckpts) : k.pos <= Len(toks[k.slot])
    /\ pc = "chunks" /\ job.tracked => Len(toks[job.slot]) = job.pos

\* The slot's prefix is cut at row n, and its checkpoints above n are gone.
Cut(n) ==
    /\ n \in 0..Len(toks[job.slot])
    /\ toks' = [toks EXCEPT ![job.slot] = Prefix(@, n)]
    /\ ckpts' \in Seq(Ckpts)
    /\ \A k \in ToSet(ckpts') :
        k \in ToSet(ckpts) /\ (k.slot # job.slot \/ k.pos <= n \/ n = Len(toks[job.slot]))

LEMMA KeepToIs ==
    ASSUME DeviceTypes, NEW q
    PROVE  /\ KeepTo(q) \in Seq(Ckpts)
           /\ \A k \in ToSet(KeepTo(q)) : k \in ToSet(ckpts) /\ (k.slot # job.slot \/ k.pos <= q)
<1> DEFINE keep == {k \in ToSet(ckpts) : k.slot # job.slot \/ k.pos <= q}
<1>1. Only(ckpts, keep) \in Seq(Ckpts) /\ ToSet(Only(ckpts, keep)) \subseteq ToSet(ckpts) \cap keep
  BY OnlyIs DEF DeviceTypes
<1> QED
  BY <1>1 DEF KeepTo

LEMMA BeginIs ==
    ASSUME DeviceTypes, job.slot \in Slots, NEW q \in Nat, Begin(q)
    PROVE  Cut(IF q <= Len(toks[job.slot]) THEN q ELSE 0)
<1> DEFINE n == IF q <= Len(toks[job.slot]) THEN q ELSE 0
<1>1. toks[job.slot] \in Seq(Nat)
  BY DEF DeviceTypes
<1>2. n \in 0..Len(toks[job.slot])
  BY <1>1, LenProperties
<1>3. ckpts' = KeepTo(n) /\ toks' = [toks EXCEPT ![job.slot] = Prefix(@, n)]
  BY DEF Begin
<1> HIDE DEF n
<1>4. Cut(n)
  BY <1>2, <1>3, KeepToIs DEF Cut
<1> QED
  BY <1>4 DEF n

LEMMA BeginUnalignedIs ==
    ASSUME DeviceTypes, job.slot \in Slots, NEW q \in Nat, BeginUnaligned(q)
    PROVE  Cut(IF q <= Len(toks[job.slot]) THEN q ELSE Len(toks[job.slot]))
<1> DEFINE n == IF q <= Len(toks[job.slot]) THEN q ELSE Len(toks[job.slot])
<1>1. toks[job.slot] \in Seq(Nat)
  BY DEF DeviceTypes
<1>2. n \in 0..Len(toks[job.slot]) /\ (n = q \/ n = Len(toks[job.slot]))
  BY <1>1, LenProperties
<1>3. ckpts' = KeepTo(q) /\ toks' = [toks EXCEPT ![job.slot] = Prefix(@, n)]
  BY DEF BeginUnaligned
<1> HIDE DEF n
<1>4. Cut(n)
  BY <1>2, <1>3, KeepToIs DEF Cut
<1> QED
  BY <1>4 DEF n

\* What a cut leaves is typed, and no deeper than the prefix.
LEMMA CutIs ==
    ASSUME DeviceTypes, Deep, job.slot \in Slots, NEW n, Cut(n)
    PROVE  /\ toks' \in [Slots -> Seq(Nat)] /\ ckpts' \in Seq(Ckpts) /\ n \in Nat
           /\ Len(toks'[job.slot]) = n /\ toks'[job.slot] = Prefix(toks[job.slot], n)
           /\ \A s \in Slots \ {job.slot} : toks'[s] = toks[s]
           /\ \A k \in ToSet(ckpts') : k \in ToSet(ckpts) /\ k.pos <= Len(toks'[k.slot])
<1>1. /\ toks \in [Slots -> Seq(Nat)] /\ n \in 0..Len(toks[job.slot])
      /\ toks' = [toks EXCEPT ![job.slot] = Prefix(toks[job.slot], n)]
      /\ ckpts' \in Seq(Ckpts)
  BY DEF DeviceTypes, Cut
<1>2. toks[job.slot] \in Seq(Nat) /\ Len(toks[job.slot]) \in Nat
  BY <1>1, LenProperties
<1>3. Prefix(toks[job.slot], n) \in Seq(Nat) /\ Len(Prefix(toks[job.slot], n)) = n
  BY <1>1, <1>2, PrefixIs
<1>4. toks' \in [Slots -> Seq(Nat)]
  BY <1>1, <1>3
<1>5. toks'[job.slot] = Prefix(toks[job.slot], n) /\ \A s \in Slots \ {job.slot} : toks'[s] = toks[s]
  BY <1>1
<1>6. ASSUME NEW k \in ToSet(ckpts') PROVE k \in ToSet(ckpts) /\ k.pos <= Len(toks'[k.slot])
  <2>1. /\ k \in ToSet(ckpts) /\ k.pos <= Len(toks[k.slot])
        /\ k.slot # job.slot \/ k.pos <= n \/ n = Len(toks[job.slot])
    BY DEF Cut, Deep
  <2>2. k.slot \in Slots
    <3>1. k \in Ckpts
      BY <1>1, Places
    <3> QED
      BY <3>1 DEF Ckpts
  <2> QED
    BY <1>3, <1>5, <2>1, <2>2
<1>7. n \in Nat
  BY <1>1, <1>2
<1> QED
  BY <1>1, <1>3, <1>4, <1>5, <1>6, <1>7

\* acquire gives the checkpoints it leaves.
LEMMA BuffersIs ==
    ASSUME DeviceTypes, NEW b \in Buffers
    PROVE  b.kept \in Seq(Ckpts) /\ ToSet(b.kept) \subseteq ToSet(ckpts)
<1> DEFINE left == IF ckpts = <<>> THEN ckpts ELSE Tail(ckpts)
<1>1. ckpts \in Seq(Ckpts)
  BY DEF DeviceTypes
<1>2. b.kept = ckpts \/ b.kept = left
  <2>1. (\E p : b = Taken(p)) \/ \E p, failing : b = Evicted(p, failing)
    BY DEF Buffers
  <2>2. \A p : Taken(p).kept = ckpts
    BY DEF Taken
  <2>3. \A p, failing : Evicted(p, failing).kept = left
    BY DEF Evicted
  <2> HIDE DEF left
  <2> QED
    BY <2>1, <2>2, <2>3
<1>3. ckpts # <<>> => Tail(ckpts) \in Seq(Ckpts) /\ ToSet(Tail(ckpts)) \subseteq ToSet(ckpts)
  <2> SUFFICES ASSUME ckpts # <<>>
               PROVE  Tail(ckpts) \in Seq(Ckpts) /\ ToSet(Tail(ckpts)) \subseteq ToSet(ckpts)
    OBVIOUS
  <2>1. /\ Tail(ckpts) \in Seq(Ckpts) /\ Len(Tail(ckpts)) = Len(ckpts) - 1
        /\ \A i \in 1..Len(Tail(ckpts)) : Tail(ckpts)[i] = ckpts[i + 1]
    BY <1>1, HeadTailProperties
  <2>2. Len(ckpts) \in Nat /\ ToSet(ckpts) = {ckpts[i] : i \in 1..Len(ckpts)}
    BY <1>1, Places
  <2>3. ToSet(Tail(ckpts)) = {Tail(ckpts)[i] : i \in 1..(Len(ckpts) - 1)}
    BY <2>1, Places
  <2>4. \A i \in 1..(Len(ckpts) - 1) : i + 1 \in 1..Len(ckpts)
    BY <2>2
  <2> QED
    BY <2>1, <2>2, <2>3, <2>4
<1> QED
  BY <1>1, <1>2, <1>3

\* insert adds one.
LEMMA InsertedIs ==
    ASSUME NEW kept \in Seq(Ckpts), NEW k \in Ckpts
    PROVE  Inserted(kept, k) \in Seq(Ckpts) /\ ToSet(Inserted(kept, k)) \subseteq ToSet(kept) \cup {k}
<1> DEFINE keep == {x \in ToSet(kept) : x.slot # k.slot \/ x.pos # k.pos}
<1>1. Only(kept, keep) \in Seq(Ckpts) /\ ToSet(Only(kept, keep)) \subseteq ToSet(kept)
  BY OnlyIs
<1>2. Inserted(kept, k) = Append(Only(kept, keep), k)
  BY DEF Inserted
<1> HIDE DEF keep
<1> QED
  BY <1>1, <1>2, AppendNew

\* Where a resume leaves the slot's prefix: cut where the run starts if checkpoints will be
\* taken, no longer than that if not.
ResumesAt(from, tracked) ==
    /\ from \in Nat /\ tracked \in BOOLEAN /\ StartRun(from, tracked)
    /\ IF tracked THEN Cut(from)
       ELSE \/ tier.ckpt = 0 /\ UNCHANGED <<toks, ckpts>>
            \/ \E n \in 0..from : Cut(n)

LEMMA ResumeSnapshotIs ==
    ASSUME Types, Deep, ResumeSnapshot
    PROVE  /\ live' = snap[job.slot] /\ UNCHANGED <<snap, rows, tier>> /\ pc = "resume" /\ job.pos > 0
           /\ job.slot \in Slots /\ job.prompt \in Prompts
           /\ \E t \in BOOLEAN : /\ ResumesAt(job.pos, t)
                                 /\ t => tier.ckpt # 0 /\ PrefixOk(job.pos)
<1>1. /\ live' = snap[job.slot] /\ UNCHANGED <<snap, rows, tier>> /\ pc = "resume" /\ job.pos > 0
      /\ IF tier.ckpt = 0 THEN UNCHANGED ckptVars /\ StartRun(job.pos, FALSE)
         ELSE IF TailOn /\ PrefixOk(job.pos) THEN Begin(job.pos) /\ StartRun(job.pos, TRUE)
         ELSE BeginUnaligned(job.pos) /\ StartRun(job.pos, FALSE)
  BY Zenon DEF ResumeSnapshot
<1>2. job.slot \in Slots /\ job.prompt \in Prompts /\ job.pos \in Nat /\ DeviceTypes
  BY <1>1 DEF Types, HostTypes, Prefills
<1>3. Len(toks[job.slot]) \in Nat
  BY <1>2, LenProperties DEF DeviceTypes
<1>4. CASE tier.ckpt = 0
  <2>1. UNCHANGED <<toks, ckpts>> /\ StartRun(job.pos, FALSE)
    BY <1>1, <1>4 DEF ckptVars
  <2>2. ResumesAt(job.pos, FALSE)
    BY <1>2, <1>4, <2>1 DEF ResumesAt
  <2> QED
    BY <1>1, <1>2, <2>2
<1>5. CASE tier.ckpt # 0 /\ TailOn /\ PrefixOk(job.pos)
  <2>1. Begin(job.pos) /\ StartRun(job.pos, TRUE) /\ job.pos <= Len(toks[job.slot])
    BY <1>1, <1>2, <1>3, <1>5 DEF PrefixOk
  <2>2. Cut(job.pos)
    BY <1>2, <2>1, BeginIs
  <2>3. ResumesAt(job.pos, TRUE)
    BY <1>2, <2>1, <2>2 DEF ResumesAt
  <2> QED
    BY <1>1, <1>2, <1>5, <2>3
<1>6. CASE tier.ckpt # 0 /\ ~(TailOn /\ PrefixOk(job.pos))
  <2>1. BeginUnaligned(job.pos) /\ StartRun(job.pos, FALSE)
    BY <1>1, <1>6
  <2> DEFINE n == IF job.pos <= Len(toks[job.slot]) THEN job.pos ELSE Len(toks[job.slot])
  <2>2. Cut(n) /\ n \in 0..job.pos
    BY <1>2, <1>3, <2>1, BeginUnalignedIs
  <2> HIDE DEF n
  <2>3. ResumesAt(job.pos, FALSE)
    BY <1>2, <2>1, <2>2 DEF ResumesAt
  <2> QED
    BY <1>1, <1>2, <2>3
<1> QED
  BY <1>4, <1>5, <1>6

LEMMA ResumeCheckpointIs ==
    ASSUME Types, Deep, ResumeCheckpoint
    PROVE  \E k \in ToSet(ckpts) :
             /\ live' = k.st /\ UNCHANGED <<snap, rows, tier>> /\ pc = "resume"
             /\ job.slot \in Slots /\ job.prompt \in Prompts
             /\ k.slot = job.slot /\ Shared(k) /\ ResumesAt(k.pos, TRUE)
<1>1. PICK i \in DOMAIN ckpts :
        /\ Deepest(i)
        /\ LET k == ckpts[i]
               kept == KeepTo(k.pos)
           IN  /\ live' = k.st
               /\ toks' = [toks EXCEPT ![job.slot] = Prefix(@, k.pos)]
               /\ ckpts' = Append(Without(kept, k), k)
               /\ StartRun(k.pos, TRUE)
        /\ UNCHANGED <<snap, rows, tier>> /\ pc = "resume"
  BY Zenon DEF ResumeCheckpoint
<1> DEFINE k == ckpts[i]
           kept == KeepTo(k.pos)
           others == Without(kept, k)
<1>2. /\ job.slot \in Slots /\ job.prompt \in Prompts /\ DeviceTypes
  BY <1>1 DEF Types, HostTypes
<1>3. k \in Ckpts /\ k \in ToSet(ckpts)
  BY <1>2, Places DEF DeviceTypes
<1>4. k.slot = job.slot /\ Shared(k) /\ k.pos \in Nat
  BY <1>1, <1>3 DEF Deepest, Of, Ckpts
<1>5. /\ live' = k.st /\ toks' = [toks EXCEPT ![job.slot] = Prefix(@, k.pos)]
      /\ ckpts' = Append(others, k) /\ StartRun(k.pos, TRUE)
  BY <1>1
<1>6. k.pos \in 0..Len(toks[job.slot])
  <2>1. k.pos <= Len(toks[k.slot])
    BY <1>3 DEF Deep
  <2>2. Len(toks[job.slot]) \in Nat
    BY <1>2, LenProperties DEF DeviceTypes
  <2> QED
    BY <1>4, <2>1, <2>2
<1> HIDE DEF k
<1>7. kept \in Seq(Ckpts) /\ \A x \in ToSet(kept) : x \in ToSet(ckpts) /\ (x.slot # job.slot \/ x.pos <= k.pos)
  BY <1>2, KeepToIs
<1> HIDE DEF kept
<1>8. others \in Seq(Ckpts) /\ ToSet(others) \subseteq ToSet(kept)
  <2>1. CASE k \notin ToSet(kept)
    BY <1>7, <2>1 DEF Without
  <2>2. CASE k \in ToSet(kept)
    <3>1. PICK pos \in 1..Len(kept) :
             /\ others \in Seq(Ckpts) /\ Len(others) = Len(kept) - 1
             /\ \A j \in 1..(Len(kept) - 1) : others[j] = IF j < pos THEN kept[j] ELSE kept[j + 1]
      BY <1>7, <2>2, WithoutPlaces
    <3> HIDE DEF others
    <3>2. Len(kept) \in Nat /\ ToSet(kept) = {kept[j] : j \in 1..Len(kept)}
      BY <1>7, Places
    <3>3. ToSet(others) = {others[j] : j \in 1..(Len(kept) - 1)}
      BY <3>1, Places
    <3>4. \A j \in 1..(Len(kept) - 1) : j \in 1..Len(kept) /\ j + 1 \in 1..Len(kept)
      BY <3>2
    <3> QED
      BY <3>1, <3>2, <3>3, <3>4
  <2> QED
    BY <2>1, <2>2
<1> HIDE DEF others
<1>9. ckpts' \in Seq(Ckpts) /\ ToSet(ckpts') = ToSet(others) \cup {k}
  BY <1>3, <1>5, <1>8, AppendNew
<1>10. \A x \in ToSet(ckpts') : x \in ToSet(ckpts) /\ (x.slot # job.slot \/ x.pos <= k.pos)
  <2>1. k.pos <= k.pos
    BY <1>4
  <2> QED
    BY <1>3, <1>7, <1>8, <1>9, <2>1
<1>11. Cut(k.pos)
  BY <1>5, <1>6, <1>9, <1>10 DEF Cut
<1>12. ResumesAt(k.pos, TRUE)
  BY <1>4, <1>5, <1>11 DEF ResumesAt
<1> QED
  BY <1>1, <1>2, <1>3, <1>4, <1>5, <1>12

LEMMA ResumeFreshIs ==
    ASSUME Types, Deep, ResumeFresh
    PROVE  /\ live' = None /\ UNCHANGED <<snap, rows, tier>> /\ pc = "resume"
           /\ job.slot \in Slots /\ job.prompt \in Prompts
           /\ \E t \in BOOLEAN : ResumesAt(0, t) /\ (t => tier.ckpt # 0)
<1>1. /\ live' = None /\ UNCHANGED <<snap, rows, tier>> /\ pc = "resume"
      /\ IF tier.ckpt = 0 THEN UNCHANGED ckptVars ELSE Begin(0)
      /\ StartRun(0, tier.ckpt > 0)
  BY Zenon DEF ResumeFresh
<1>2. job.slot \in Slots /\ job.prompt \in Prompts /\ tier \in Tiers /\ DeviceTypes
  BY <1>1 DEF Types, HostTypes
<1>3. tier.ckpt \in Nat
  BY <1>2, TierAssumption
<1>4. CASE tier.ckpt = 0
  <2>1. (tier.ckpt > 0) = FALSE
    BY <1>4
  <2>2. StartRun(0, FALSE)
    BY <1>1, <2>1, Zenon
  <2>3. ResumesAt(0, FALSE)
    BY <1>1, <1>4, <2>2 DEF ResumesAt, ckptVars
  <2> QED
    BY <1>1, <1>2, <2>3
<1>5. CASE tier.ckpt # 0
  <2>1. (tier.ckpt > 0) = TRUE
    BY <1>3, <1>5
  <2>2. StartRun(0, TRUE)
    BY <1>1, <2>1, Zenon
  <2>3. Cut(0)
    <3>1. Len(toks[job.slot]) \in Nat
      BY <1>2, LenProperties DEF DeviceTypes
    <3>2. (IF 0 <= Len(toks[job.slot]) THEN 0 ELSE 0) = 0
      OBVIOUS
    <3> QED
      BY <1>1, <1>2, <1>5, <3>2, BeginIs
  <2>4. ResumesAt(0, TRUE)
    BY <2>2, <2>3 DEF ResumesAt
  <2> QED
    BY <1>1, <1>2, <1>5, <2>4
<1> QED
  BY <1>4, <1>5

\* What a sweep up to e leaves.
ChunkTo(e) ==
    /\ e \in 1..End /\ job.pos < e /\ ChunkEnd(e) /\ pc = "chunks"
    /\ job.slot \in Slots /\ job.prompt \in Prompts /\ job.pos \in Nat
    /\ rows' = [rows EXCEPT ![job.slot] = Swept(e)]
    /\ live' = IF Sound THEN Prefix(job.prompt, e) ELSE Junk
    /\ toks' = IF job.tracked
               THEN [toks EXCEPT ![job.slot] = @ \o SubSeq(job.prompt, job.pos + 1, e)] ELSE toks
    /\ ckpts' \in Seq(Ckpts)
    /\ \A k \in ToSet(ckpts') :
        k \in ToSet(ckpts) \/ (job.tracked /\ k = [slot |-> job.slot, pos |-> e, st |-> live'])
    /\ job' = [job EXCEPT !.pos = e] /\ live' \in Seq(Nat)
    /\ UNCHANGED <<tier, cache, snap, pc>>

LEMMA ChunkIs == ASSUME Types, Chunk PROVE \E e \in job.grid : ChunkTo(e)
<1>1. PICK e \in job.grid :
        /\ ChunkEnd(e)
        /\ rows' = [rows EXCEPT ![job.slot] = Swept(e)]
        /\ live' = IF Sound THEN Prefix(job.prompt, e) ELSE Junk
        /\ toks' = IF job.tracked
                   THEN [toks EXCEPT ![job.slot] = @ \o SubSeq(job.prompt, job.pos + 1, e)] ELSE toks
        /\ IF ~Due(e) THEN UNCHANGED <<ckpts, pool, faults>>
           ELSE \E b \in Buffers :
                LET now == Inserted(b.kept, [slot |-> job.slot, pos |-> e, st |-> live'])
                IN  /\ IF b.failing THEN Fault ELSE UNCHANGED faults
                    /\ ckpts' = IF b.got THEN now ELSE b.kept
                    /\ pool' = IF b.got THEN [b.pool EXCEPT !.free = @ + Len(b.kept) + 1 - Len(now)]
                               ELSE b.pool
        /\ job' = [job EXCEPT !.pos = e]
        /\ UNCHANGED <<tier, cache, snap, pc>> /\ pc = "chunks"
  BY Zenon DEF Chunk
<1>2. /\ job.slot \in Slots /\ job.prompt \in Prompts /\ job.pos \in Nat /\ job.tracked \in BOOLEAN
      /\ job.grid \subseteq 1..End /\ End \in Nat /\ DeviceTypes /\ ckpts \in Seq(Ckpts)
  <2>0. pc = "chunks"
    BY <1>1
  <2>1. /\ job.slot \in Slots /\ job.prompt \in Prompts /\ job \in Prefills
        /\ job.grid \subseteq 1..End /\ DeviceTypes
    BY <2>0 DEF Types, HostTypes
  <2>2. End \in Nat
    BY <2>1, PromptIs DEF End
  <2>3. job.pos \in Nat /\ job.tracked \in BOOLEAN
    BY <2>1 DEF Prefills
  <2> QED
    BY <2>1, <2>2, <2>3 DEF DeviceTypes
<1>3. e \in 1..End /\ job.pos < e
  <2>1. e \in job.grid /\ e > job.pos
    BY <1>1, Zenon DEF ChunkEnd
  <2>2. e \in 1..End
    BY <1>2, <2>1
  <2> QED
    BY <1>2, <2>1, <2>2
<1>4. live' \in Seq(Nat)
  <2>1. e \in 0..Len(job.prompt) /\ job.prompt \in Seq(Nat)
    BY <1>2, <1>3, PromptIs DEF End
  <2> QED
    BY <1>1, <2>1, PrefixIs, NoneIs
<1> DEFINE new == [slot |-> job.slot, pos |-> e, st |-> live']
<1>5. new \in Ckpts
  <2>1. e \in Nat
    BY <1>2, <1>3
  <2> QED
    BY <1>2, <1>4, <2>1 DEF Ckpts
<1> HIDE DEF new
<1>6. /\ ckpts' \in Seq(Ckpts)
      /\ \A k \in ToSet(ckpts') : k \in ToSet(ckpts) \/ (job.tracked /\ k = new)
  <2>1. CASE ~Due(e)
    BY <1>1, <1>2, <2>1
  <2>2. CASE Due(e)
    <3>1. PICK b \in Buffers : ckpts' = IF b.got THEN Inserted(b.kept, new) ELSE b.kept
      BY <1>1, <2>2, Zenon DEF new
    <3>2. b.kept \in Seq(Ckpts) /\ ToSet(b.kept) \subseteq ToSet(ckpts)
      BY <1>2, BuffersIs
    <3>3. job.tracked
      BY <2>2 DEF Due
    <3>4. CASE b.got
      BY <1>5, <3>1, <3>2, <3>3, <3>4, InsertedIs
    <3>5. CASE ~b.got
      BY <3>1, <3>2, <3>5
    <3> QED
      BY <3>4, <3>5
  <2> QED
    BY <2>1, <2>2
<1>7. ChunkTo(e)
  BY <1>1, <1>2, <1>3, <1>4, <1>6, Zenon DEF ChunkTo, new
<1> QED
  BY <1>7

\* A failed chunk drops the slot's checkpoints and its prefix.
ClearedIs ==
    /\ toks' = [toks EXCEPT ![job.slot] = None]
    /\ ckpts' \in Seq(Ckpts)
    /\ \A k \in ToSet(ckpts') : k \in ToSet(ckpts) /\ k.slot # job.slot

LEMMA ChunkFailsIs ==
    ASSUME Types, ChunkFails
    PROVE  /\ job.slot \in Slots /\ Idle /\ ClearedIs /\ UNCHANGED <<tier, cache, snap>> /\ pc = "chunks"
           /\ \E e \in job.grid : rows' = [rows EXCEPT ![job.slot] =
                     [i \in 1..MaxLen |-> IF i <= job.pos \/ i > e THEN @[i] ELSE Junk]]
<1>1. /\ Idle /\ UNCHANGED <<tier, cache, snap>> /\ pc = "chunks"
      /\ \E e \in job.grid :
           /\ rows' = [rows EXCEPT ![job.slot] =
                     [i \in 1..MaxLen |-> IF i <= job.pos \/ i > e THEN @[i] ELSE Junk]]
           /\ \/ ClearSlot(ckpts, pool)
              \/ \E b \in Buffers : ClearSlot(b.kept, [b.pool EXCEPT !.free = @ + 1])
  BY Zenon DEF ChunkFails
<1>2. job.slot \in Slots /\ DeviceTypes /\ ckpts \in Seq(Ckpts)
  BY <1>1 DEF Types, HostTypes, DeviceTypes
<1>3. \E kept, p : kept \in Seq(Ckpts) /\ ToSet(kept) \subseteq ToSet(ckpts) /\ ClearSlot(kept, p)
  <2>1. CASE ClearSlot(ckpts, pool)
    BY <1>2, <2>1
  <2>2. ASSUME NEW b \in Buffers, ClearSlot(b.kept, [b.pool EXCEPT !.free = @ + 1])
        PROVE  \E kept, p : kept \in Seq(Ckpts) /\ ToSet(kept) \subseteq ToSet(ckpts) /\ ClearSlot(kept, p)
    BY <1>2, <2>2, BuffersIs
  <2> QED
    BY <1>1, <2>1, <2>2
<1>4. PICK kept, p : kept \in Seq(Ckpts) /\ ToSet(kept) \subseteq ToSet(ckpts) /\ ClearSlot(kept, p)
  BY <1>3
<1> DEFINE keep == {k \in ToSet(kept) : k.slot # job.slot}
<1>5. ckpts' = Only(kept, keep) /\ toks' = [toks EXCEPT ![job.slot] = None]
  BY <1>4 DEF ClearSlot
<1>6. Only(kept, keep) \in Seq(Ckpts) /\ ToSet(Only(kept, keep)) \subseteq ToSet(kept) \cap keep
  BY <1>4, OnlyIs
<1>7. ClearedIs
  BY <1>4, <1>5, <1>6 DEF ClearedIs
<1> QED
  BY <1>1, <1>2, <1>7

\* A job that has other things to do leaves the slots as they are.
LEMMA DeviceStays ==
    ASSUME DeviceTypes, Deep, UNCHANGED <<snap, live, rows, toks, ckpts>>,
           pc' # "chunks" \/ UNCHANGED <<pc, job>>
    PROVE  DeviceTypes' /\ Deep'
<1>1. DeviceTypes'
  BY DEF DeviceTypes
<1>2. Deep'
  BY DEF Deep
<1> QED
  BY <1>1, <1>2

\* A resumed prefill.
LEMMA ResumedDevice ==
    ASSUME Types, Deep, pc = "resume", job.slot \in Slots, NEW from, NEW t, ResumesAt(from, t),
           live' \in Seq(Nat), UNCHANGED <<snap, rows>>
    PROVE  DeviceTypes' /\ Deep'
<1>1. DeviceTypes /\ HostTypes /\ from \in Nat /\ t \in BOOLEAN /\ StartRun(from, t)
  BY DEF Types, ResumesAt
<1>2. job'.slot = job.slot /\ job'.pos = from /\ job'.tracked = t
  BY <1>1, StartRunIs
<1>3. CASE ~t /\ UNCHANGED <<toks, ckpts>>
  BY <1>1, <1>2, <1>3 DEF DeviceTypes, Deep
<1>4. ASSUME NEW n, Cut(n), t => n = from PROVE DeviceTypes' /\ Deep'
  <2>1. /\ toks' \in [Slots -> Seq(Nat)] /\ ckpts' \in Seq(Ckpts)
        /\ Len(toks'[job.slot]) = n
        /\ \A k \in ToSet(ckpts') : k.pos <= Len(toks'[k.slot])
    BY <1>1, <1>4, CutIs
  <2>2. DeviceTypes'
    BY <1>1, <2>1 DEF DeviceTypes
  <2>3. Deep'
    BY <1>2, <1>4, <2>1 DEF Deep
  <2> QED
    BY <2>2, <2>3
<1> QED
  BY <1>3, <1>4 DEF ResumesAt

LEMMA ChunkDevice == ASSUME Types, Deep, NEW e, ChunkTo(e) PROVE DeviceTypes' /\ Deep'
<1>1. /\ e \in 1..End /\ job.pos < e /\ job.slot \in Slots /\ job.prompt \in Prompts /\ job.pos \in Nat
      /\ rows' = [rows EXCEPT ![job.slot] = Swept(e)] /\ live' \in Seq(Nat) /\ snap' = snap
      /\ ckpts' \in Seq(Ckpts) /\ job' = [job EXCEPT !.pos = e] /\ pc' = pc /\ pc = "chunks"
      /\ toks' = IF job.tracked
                 THEN [toks EXCEPT ![job.slot] = @ \o SubSeq(job.prompt, job.pos + 1, e)] ELSE toks
      /\ \A k \in ToSet(ckpts') :
            k \in ToSet(ckpts) \/ (job.tracked /\ k = [slot |-> job.slot, pos |-> e, st |-> live'])
  BY Zenon DEF ChunkTo
<1>0. e \in 1..End /\ job.pos < e /\ job.slot \in Slots /\ job.prompt \in Prompts /\ job.pos \in Nat
  BY <1>1, Zenon
<1>2. HostTypes /\ DeviceTypes /\ e \in Nat /\ End \in Nat
  <2>1. End \in Nat
    BY <1>0, PromptIs DEF End
  <2>2. HostTypes /\ DeviceTypes
    BY Zenon DEF Types
  <2> QED
    BY <1>0, <2>1, <2>2
<1>3. /\ job.prompt \in Seq(Nat) /\ (\A i \in 1..e : i \in 0..Len(job.prompt)) /\ Len(job.prompt) \in Nat
      /\ e \in 0..Len(job.prompt)
  <2>1. job.prompt \in Seq(Nat) /\ Len(job.prompt) \in Nat /\ e <= Len(job.prompt)
    BY <1>1, <1>2, PromptIs DEF End
  <2> QED
    BY <1>2, <2>1
<1>4. Swept(e) \in [1..MaxLen -> Seq(Nat)]
  <2> SUFFICES ASSUME NEW i \in 1..MaxLen
               PROVE (IF i <= job.pos \/ i > e THEN rows[job.slot][i]
                      ELSE IF Sound THEN Prefix(job.prompt, i) ELSE Junk) \in Seq(Nat)
    BY DEF Swept
  <2>1. rows[job.slot][i] \in Seq(Nat)
    BY <1>1, <1>2 DEF DeviceTypes
  <2>2. ~(i > e) => i \in 1..e
    BY <1>2, TierAssumption
  <2>3. ~(i > e) => Prefix(job.prompt, i) \in Seq(Nat)
    BY <1>3, <2>2, PrefixIs
  <2> QED
    BY <2>1, <2>3, NoneIs
<1>5. rows' \in [Slots -> [1..MaxLen -> Seq(Nat)]]
  BY <1>1, <1>2, <1>4 DEF DeviceTypes
<1>6. /\ job'.pos = e /\ job'.slot = job.slot /\ job'.tracked = job.tracked
  BY <1>1, <1>2, MovedJob
<1>7. CASE job.tracked
  <2> DEFINE more == SubSeq(job.prompt, job.pos + 1, e)
             t == toks[job.slot]
  <2>1. t \in Seq(Nat) /\ Len(t) = job.pos /\ toks' = [toks EXCEPT ![job.slot] = t \o more]
    BY <1>1, <1>2, <1>7 DEF DeviceTypes, Deep
  <2>2. more \in Seq(Nat) /\ Len(more) = e - job.pos
    <3>0. job.pos + 1 \in Int /\ e \in Int
      BY <1>1, <1>2
    <3>1. \A i \in (job.pos + 1)..e : job.prompt[i] \in Nat
      <4>1. \A i \in (job.pos + 1)..e : i \in 1..Len(job.prompt)
        BY <1>0, <1>3
      <4> QED
        BY <1>3, <4>1, ElementOfSeq
    <3>2. /\ more \in Seq(Nat)
          /\ Len(more) = IF job.pos + 1 <= e THEN e - (job.pos + 1) + 1 ELSE 0
      BY <3>0, <3>1, SubSeqProperties
    <3>3. job.pos + 1 <= e /\ e - (job.pos + 1) + 1 = e - job.pos
      BY <1>0, <3>0
    <3> QED
      BY <3>2, <3>3
  <2> HIDE DEF t, more
  <2>3. t \o more \in Seq(Nat) /\ Len(t \o more) = e
    <3>1. t \o more \in Seq(Nat) /\ Len(t \o more) = Len(t) + Len(more)
      BY <2>1, <2>2, ConcatProperties
    <3> QED
      BY <1>0, <2>1, <2>2, <3>1
  <2>4. /\ toks' \in [Slots -> Seq(Nat)] /\ toks'[job.slot] = t \o more
        /\ \A s \in Slots \ {job.slot} : toks'[s] = toks[s]
    <3>1. toks \in [Slots -> Seq(Nat)]
      BY <1>2 DEF DeviceTypes
    <3> QED
      BY <1>0, <2>1, <2>3, <3>1
  <2>5. DeviceTypes'
    BY <1>1, <1>2, <1>5, <2>4 DEF DeviceTypes
  <2>6. ASSUME NEW k \in ToSet(ckpts') PROVE k.pos <= Len(toks'[k.slot])
    <3>1. CASE k = [slot |-> job.slot, pos |-> e, st |-> live']
      BY <1>2, <2>3, <2>4, <3>1
    <3>2. CASE k \in ToSet(ckpts)
      <4>1. k \in Ckpts /\ k.pos <= Len(toks[k.slot])
        BY <1>2, <3>2, Places DEF Deep, DeviceTypes
      <4>2. k.slot \in Slots /\ k.pos \in Nat
        BY <4>1 DEF Ckpts
      <4>3. CASE k.slot = job.slot
        <5>1. k.pos <= job.pos
          BY <2>1, <4>1, <4>3 DEF t
        <5>2. k.pos <= e
          BY <1>1, <1>2, <4>2, <5>1
        <5> QED
          BY <2>3, <2>4, <4>3, <5>2
      <4>4. CASE k.slot # job.slot
        BY <2>4, <4>1, <4>2, <4>4
      <4> QED
        BY <4>3, <4>4
    <3> QED
      BY <1>1, <3>1, <3>2
  <2>7. Deep'
    BY <1>6, <2>3, <2>4, <2>6 DEF Deep
  <2> QED
    BY <2>5, <2>7
<1>8. CASE ~job.tracked
  <2>1. toks' = toks /\ \A k \in ToSet(ckpts') : k \in ToSet(ckpts)
    BY <1>1, <1>8
  <2>2. DeviceTypes'
    BY <1>1, <1>2, <1>5, <2>1 DEF DeviceTypes
  <2>3. Deep'
    BY <1>6, <1>8, <2>1 DEF Deep
  <2> QED
    BY <2>2, <2>3
<1> QED
  BY <1>7, <1>8

LEMMA DeviceNext == ASSUME Types, Deep, [Next]_vars PROVE DeviceTypes' /\ Deep'
<1>0. DeviceTypes /\ HostTypes /\ DiskTypes
  BY DEF Types
<1>1. CASE UNCHANGED vars \/ Writer
  <2>1. UNCHANGED <<snap, live, rows, toks, ckpts, pc, job>>
    BY <1>1 DEF vars, Writer, deviceVars, ckptVars
  <2> QED
    BY <1>0, <2>1, DeviceStays
<1>2. CASE (\E s \in Slots, p \in Prompts : Pick(s, p)) \/ CaptureNothing \/ Capture
  <2>1. UNCHANGED <<snap, live, rows, toks, ckpts>> /\ pc' # "chunks"
    BY <1>2, Zenon DEF Pick, CaptureNothing, Capture, deviceVars, ckptVars
  <2> QED
    BY <1>0, <2>1, DeviceStays
<1>3. CASE RestoreNothing \/ RestoreUnreadable \/ RestoreFails
  <2>1. UNCHANGED <<snap, live, rows, toks, ckpts>> /\ pc' # "chunks"
    BY <1>3, Zenon DEF RestoreNothing, RestoreUnreadable, RestoreFails, deviceVars, ckptVars
  <2> QED
    BY <1>0, <2>1, DeviceStays
<1>4. CASE Restore
  <2>1. PICK i \in DOMAIN lru :
          /\ lru[i] \in DOMAIN files
          /\ rows' = [rows EXCEPT ![job.slot] =
                 [n \in 1..MaxLen |-> IF n <= Len(lru[i]) THEN files[lru[i]].rows[n] ELSE @[n]]]
          /\ snap' = [snap EXCEPT ![job.slot] = files[lru[i]].st]
          /\ pc = "restore" /\ pc' = "resume" /\ UNCHANGED <<live, toks, ckpts>>
    BY <1>4 DEF Restore, ckptVars
  <2> DEFINE key == lru[i]
             c == files[key]
             r == [n \in 1..MaxLen |-> IF n <= Len(key) THEN c.rows[n] ELSE rows[job.slot][n]]
  <2>2. key \in Keys /\ c \in Content(key) /\ job.slot \in Slots
    <3>1. key \in DOMAIN files
      BY <2>1
    <3>2. pc # "idle"
      BY <2>1
    <3> HIDE DEF key
    <3>3. key \in Keys /\ c \in Content(key)
      BY <1>0, <3>1 DEF DiskTypes
    <3> QED
      BY <1>0, <3>2, <3>3 DEF HostTypes
  <2>3. rows' = [rows EXCEPT ![job.slot] = r] /\ snap' = [snap EXCEPT ![job.slot] = c.st]
    BY <2>1
  <2> HIDE DEF key, c
  <2>4. c.st \in Seq(Nat) /\ c.rows \in [1..Len(key) -> Seq(Nat)]
    BY <2>2 DEF Content
  <2>5. r \in [1..MaxLen -> Seq(Nat)]
    <3>1. Len(key) \in Nat /\ \A n \in 1..MaxLen : n <= Len(key) => n \in 1..Len(key)
      BY <2>2, KeyIs, TierAssumption
    <3>2. rows[job.slot] \in [1..MaxLen -> Seq(Nat)]
      BY <1>0, <2>2 DEF DeviceTypes
    <3> QED
      BY <2>4, <3>1, <3>2
  <2> HIDE DEF r
  <2>6. DeviceTypes'
    <3>1. rows' \in [Slots -> [1..MaxLen -> Seq(Nat)]] /\ snap' \in [Slots -> Seq(Nat)]
      BY <1>0, <2>3, <2>4, <2>5 DEF DeviceTypes
    <3>2. UNCHANGED <<live, toks, ckpts>>
      BY <2>1
    <3> QED
      BY <1>0, <3>1, <3>2 DEF DeviceTypes
  <2> QED
    BY <2>1, <2>6 DEF Deep
<1>5. CASE ResumeSnapshot
  <2>1. PICK t \in BOOLEAN : /\ live' = snap[job.slot] /\ UNCHANGED <<snap, rows>> /\ pc = "resume"
                             /\ job.slot \in Slots /\ ResumesAt(job.pos, t)
    BY <1>5, ResumeSnapshotIs
  <2>2. live' \in Seq(Nat)
    BY <1>0, <2>1 DEF DeviceTypes
  <2> QED
    BY <2>1, <2>2, ResumedDevice
<1>6. CASE ResumeCheckpoint
  <2>1. PICK k \in ToSet(ckpts) : /\ live' = k.st /\ UNCHANGED <<snap, rows>> /\ pc = "resume"
                                  /\ job.slot \in Slots /\ ResumesAt(k.pos, TRUE)
    BY <1>6, ResumeCheckpointIs
  <2>2. k \in Ckpts
    BY <1>0, Places DEF DeviceTypes
  <2>3. live' \in Seq(Nat)
    BY <2>1, <2>2 DEF Ckpts
  <2> QED
    BY <2>1, <2>3, ResumedDevice
<1>7. CASE ResumeFresh
  <2>1. PICK t \in BOOLEAN : /\ live' = None /\ UNCHANGED <<snap, rows>> /\ pc = "resume"
                             /\ job.slot \in Slots /\ ResumesAt(0, t)
    BY <1>7, ResumeFreshIs
  <2> QED
    BY <2>1, NoneIs, ResumedDevice
<1>8. CASE Chunk
  BY <1>8, ChunkIs, ChunkDevice
<1>9. CASE Cancel
  <2>1. UNCHANGED <<snap, rows, toks, ckpts>> /\ live' = Junk /\ pc' = "idle"
    BY <1>9 DEF Cancel, Idle, ckptVars
  <2> QED
    BY <1>0, <2>1, NoneIs DEF DeviceTypes, Deep
<1>10. CASE ChunkFails
  <2>1. PICK e \in job.grid :
          /\ job.slot \in Slots /\ Idle /\ ClearedIs /\ snap' = snap
          /\ rows' = [rows EXCEPT ![job.slot] =
                     [i \in 1..MaxLen |-> IF i <= job.pos \/ i > e THEN @[i] ELSE Junk]]
    BY <1>10, ChunkFailsIs
  <2>2. rows' \in [Slots -> [1..MaxLen -> Seq(Nat)]]
    BY <1>0, <2>1, NoneIs DEF DeviceTypes
  <2>3. /\ toks' = [toks EXCEPT ![job.slot] = None] /\ ckpts' \in Seq(Ckpts)
        /\ \A k \in ToSet(ckpts') : k \in ToSet(ckpts) /\ k.slot # job.slot
    BY <2>1 DEF ClearedIs
  <2>4. toks' \in [Slots -> Seq(Nat)] /\ \A s \in Slots \ {job.slot} : toks'[s] = toks[s]
    BY <1>0, <2>3, NoneIs DEF DeviceTypes
  <2>5. live' \in Seq(Nat) /\ pc' = "idle"
    BY <2>1, NoneIs DEF Idle
  <2>6. DeviceTypes'
    BY <1>0, <2>1, <2>2, <2>3, <2>4, <2>5 DEF DeviceTypes
  <2>7. \A k \in ToSet(ckpts') : k.slot \in Slots
    <3>1. \A k \in ToSet(ckpts) : k \in Ckpts
      BY <1>0, Places DEF DeviceTypes
    <3> QED
      BY <2>3, <3>1 DEF Ckpts
  <2>8. Deep'
    BY <2>3, <2>4, <2>5, <2>7 DEF Deep
  <2> QED
    BY <2>6, <2>8
<1>11. CASE Snapshot
  <2>1. /\ snap' = [snap EXCEPT ![job.slot] = live]
        /\ rows' = [rows EXCEPT ![job.slot] = [i \in 1..MaxLen |-> IF i <= End THEN @[i] ELSE Junk]]
        /\ live' = Junk /\ pc' = "idle" /\ UNCHANGED <<toks, ckpts>> /\ pc = "chunks"
    BY <1>11 DEF Snapshot, Idle, ckptVars
  <2>2. job.slot \in Slots
    BY <1>0, <2>1 DEF HostTypes
  <2>3. rows' \in [Slots -> [1..MaxLen -> Seq(Nat)]] /\ snap' \in [Slots -> Seq(Nat)]
    BY <1>0, <2>1, <2>2, NoneIs DEF DeviceTypes
  <2> QED
    BY <1>0, <2>1, <2>3, NoneIs DEF DeviceTypes, Deep
<1>12. CASE Restart
  <2>1. /\ snap' = [s \in Slots |-> None]
        /\ rows' = [s \in Slots |-> [i \in 1..MaxLen |-> Junk]]
        /\ toks' = [s \in Slots |-> None] /\ ckpts' = <<>> /\ live' = Junk /\ pc' = "idle"
    BY <1>12 DEF Restart, Idle
  <2>2. DeviceTypes'
    BY <2>1, NoneIs, EmptySeq DEF DeviceTypes
  <2>3. ToSet(ckpts') = {}
    BY <2>1 DEF ToSet
  <2> QED
    BY <2>1, <2>2, <2>3 DEF Deep
<1> QED
  BY <1>1, <1>2, <1>3, <1>4, <1>5, <1>6, <1>7, <1>8, <1>9, <1>10, <1>11, <1>12 DEF Next, Spill, Prefill

\* The first process, with an empty disk.
LEMMA InitTypes == Init => Types /\ Deep
<1> SUFFICES ASSUME Init PROVE Types /\ Deep
  OBVIOUS
<1>1. /\ tier \in Tiers
      /\ cache = [s \in Slots |-> None] /\ snap = [s \in Slots |-> None]
      /\ rows = [s \in Slots |-> [i \in 1..MaxLen |-> Junk]] /\ live = Junk
      /\ toks = [s \in Slots |-> None] /\ ckpts = <<>>
      /\ lru = <<>> /\ jobs = <<>> /\ files = [k \in {} |-> None]
      /\ pc = "idle" /\ job = NoJob
  BY DEF Init
<1>2. HostTypes
  BY <1>1, NoJobIs DEF HostTypes
<1>3. DiskTypes
  <2>1. DOMAIN files = {}
    BY <1>1
  <2> QED
    BY <1>1, <2>1, EmptySeq DEF DiskTypes
<1>4. DeviceTypes
  BY <1>1, NoneIs, EmptySeq DEF DeviceTypes
<1>5. ToSet(ckpts) = {}
  BY <1>1 DEF ToSet
<1>6. Deep
  BY <1>1, <1>5 DEF Deep
<1> QED
  BY <1>2, <1>3, <1>4, <1>6 DEF Types

\* Whatever fails and whenever the process restarts, what the server keeps of its prompts
\* has its types, and no checkpoint is deeper than the prefix its slot keeps.
THEOREM TypesHold == Spec => [](Types /\ Deep)
<1>1. Types /\ Deep /\ [Next]_vars => (Types /\ Deep)'
  BY HostNext, DiskNext, DeviceNext DEF Types
<1> QED
  BY <1>1, InitTypes, PTL DEF Spec

-----------------------------------------------------------------------------
(* The disk policy and the files *)

\* The last job for key k of a queue, and whether k has a file once the queue is done.
LastOf(queue, k) ==
    {i \in DOMAIN queue : queue[i].key = k /\ \A j \in DOMAIN queue : queue[j].key = k => j <= i}
Will(queue, names, k) ==
    IF LastOf(queue, k) = {} THEN k \in names
    ELSE \E i \in LastOf(queue, k) : queue[i].type = "write"

LEMMA WillIs == \A k : WillExist(k) <=> Will(jobs, DOMAIN files, k)
BY DEF WillExist, Will, LastJob, LastOf

\* A key that is named has a last job.
LEMMA LastExists ==
    ASSUME NEW queue \in Seq(Jobs), NEW k, NEW i \in 1..Len(queue), queue[i].key = k
    PROVE  LastOf(queue, k) # {}
<1> DEFINE N == Len(queue)
           Left == {n \in Nat : \E j \in 1..N : n = N - j /\ queue[j].key = k}
<1>1. N \in Nat /\ DOMAIN queue = 1..N
  BY LenProperties
<1> HIDE DEF N
<1>2. N - i \in Left
  BY <1>1 DEF N
<1>3. PICK n \in Left : \A m \in Left : n <= m
  <2>1. Left \in SUBSET Nat /\ Left # {}
    BY <1>2
  <2> HIDE DEF Left
  <2> QED
    BY <2>1, LeastNumber
<1>4. PICK j \in 1..N : n = N - j /\ queue[j].key = k
  OBVIOUS
<1>5. ASSUME NEW l \in 1..N, queue[l].key = k PROVE l <= j
  <2>1. N - l \in Left
    BY <1>1, <1>5
  <2>2. N - j <= N - l
    BY <1>3, <1>4, <2>1
  <2> QED
    BY <1>1, <2>2
<1> QED
  BY <1>1, <1>4, <1>5 DEF LastOf

\* Jobs for other keys change nothing for this one.
LEMMA WillSame ==
    ASSUME NEW queue \in Seq(Jobs), NEW longer \in Seq(Jobs), NEW names, NEW k,
           Len(queue) <= Len(longer),
           \A i \in 1..Len(queue) : longer[i] = queue[i],
           \A i \in 1..Len(longer) : i > Len(queue) => longer[i].key # k
    PROVE  Will(longer, names, k) <=> Will(queue, names, k)
<1>1. /\ Len(queue) \in Nat /\ DOMAIN queue = 1..Len(queue)
      /\ Len(longer) \in Nat /\ DOMAIN longer = 1..Len(longer)
  BY LenProperties
<1>2. \A i \in 1..Len(longer) : longer[i].key = k <=> i \in 1..Len(queue) /\ queue[i].key = k
  <2>1. \A i \in 1..Len(longer) : i \in 1..Len(queue) \/ i > Len(queue)
    BY <1>1
  <2>2. \A i \in 1..Len(queue) : ~(i > Len(queue))
    BY <1>1
  <2> QED
    BY <2>1, <2>2
<1>3. \A i \in 1..Len(queue) : i \in 1..Len(longer)
  BY <1>1
<1>4. LastOf(longer, k) = LastOf(queue, k)
  BY <1>1, <1>2, <1>3 DEF LastOf
<1>5. \A i \in LastOf(queue, k) : longer[i] = queue[i]
  BY <1>1 DEF LastOf
<1> QED
  BY <1>4, <1>5 DEF Will

\* The last job for a key decides.
LEMMA WillLast ==
    ASSUME NEW queue \in Seq(Jobs), NEW names, NEW i \in 1..Len(queue),
           \A j \in 1..Len(queue) : j > i => queue[j].key # queue[i].key
    PROVE  Will(queue, names, queue[i].key) <=> queue[i].type = "write"
<1>1. Len(queue) \in Nat /\ DOMAIN queue = 1..Len(queue)
  BY LenProperties
<1> DEFINE k == queue[i].key
<1>2. \A j \in 1..Len(queue) : queue[j].key = k => j <= i
  BY <1>1
<1>3. i \in LastOf(queue, k)
  BY <1>1, <1>2 DEF LastOf
<1>4. \A j \in LastOf(queue, k) : j = i
  <2>1. \A j \in LastOf(queue, k) : j \in 1..Len(queue) /\ j <= i /\ i <= j
    BY <1>1, <1>2 DEF LastOf
  <2> QED
    BY <1>1, <2>1
<1> QED
  BY <1>3, <1>4 DEF Will

\* The first job is done: nothing changes, but that the last one for a key has taken effect.
LEMMA WillTail ==
    ASSUME NEW queue \in Seq(Jobs), queue # <<>>, NEW names, NEW after, NEW k,
           Head(queue).key # k => (k \in after <=> k \in names)
    PROVE  \/ Will(Tail(queue), after, k) <=> Will(queue, names, k)
           \/ /\ Head(queue).key = k /\ (Will(Tail(queue), after, k) <=> k \in after)
              /\ Will(queue, names, k) <=> Head(queue).type = "write"
<1> DEFINE N == Len(queue)
           rest == Tail(queue)
<1>1. /\ rest \in Seq(Jobs) /\ Len(rest) = N - 1 /\ \A i \in 1..(N - 1) : rest[i] = queue[i + 1]
      /\ Head(queue) = queue[1]
  BY HeadTailProperties
<1>2. N \in Nat /\ N # 0 /\ DOMAIN queue = 1..N
  BY LenProperties, EmptySeq
<1> HIDE DEF N, rest
<1>3. DOMAIN rest = 1..(N - 1)
  BY <1>1, LenProperties
<1>4. /\ \A i \in 1..(N - 1) : i + 1 \in 1..N /\ i + 1 # 1
      /\ \A i \in 1..N : i # 1 => i - 1 \in 1..(N - 1) /\ (i - 1) + 1 = i
      /\ 1 \in 1..N
  BY <1>2
<1>5. CASE \E i \in 1..(N - 1) : rest[i].key = k
  <2>1. LastOf(rest, k) # {}
    BY <1>1, <1>5, LastExists
  <2>2. ASSUME NEW i \in LastOf(rest, k) PROVE i + 1 \in LastOf(queue, k) /\ queue[i + 1] = rest[i]
    <3>1. i \in 1..(N - 1) /\ rest[i].key = k /\ \A j \in 1..(N - 1) : rest[j].key = k => j <= i
      BY <1>3 DEF LastOf
    <3>2. ASSUME NEW j \in 1..N, queue[j].key = k PROVE j <= i + 1
      <4>1. CASE j = 1
        BY <3>1, <4>1
      <4>2. CASE j # 1
        <5>1. j - 1 \in 1..(N - 1) /\ rest[j - 1] = queue[j]
          BY <1>1, <1>4, <4>2
        <5>2. j - 1 <= i
          BY <3>1, <3>2, <5>1
        <5> QED
          BY <1>2, <3>1, <5>2
      <4> QED
        BY <4>1, <4>2
    <3> QED
      BY <1>1, <1>2, <1>4, <3>1, <3>2 DEF LastOf
  <2>3. ASSUME NEW i \in LastOf(queue, k) PROVE i - 1 \in LastOf(rest, k) /\ queue[i] = rest[i - 1]
    <3>1. i \in 1..N /\ queue[i].key = k /\ \A j \in 1..N : queue[j].key = k => j <= i
      BY <1>2 DEF LastOf
    <3>2. i # 1
      <4>1. PICK j \in 1..(N - 1) : rest[j].key = k
        BY <1>5
      <4>2. j + 1 <= i
        BY <1>1, <1>4, <3>1, <4>1
      <4> QED
        BY <1>2, <4>2
    <3>3. i - 1 \in 1..(N - 1) /\ rest[i - 1] = queue[i]
      BY <1>1, <1>4, <3>1, <3>2
    <3>4. ASSUME NEW j \in 1..(N - 1), rest[j].key = k PROVE j <= i - 1
      <4>1. j + 1 <= i
        BY <1>1, <1>4, <3>1, <3>4
      <4> QED
        BY <1>2, <3>1, <4>1
    <3> QED
      BY <1>3, <3>1, <3>3, <3>4 DEF LastOf
  <2>4. LastOf(queue, k) # {}
    BY <2>1, <2>2
  <2> QED
    BY <2>1, <2>2, <2>3, <2>4 DEF Will, rest
<1>6. CASE \A i \in 1..(N - 1) : rest[i].key # k
  <2>1. LastOf(rest, k) = {}
    BY <1>3, <1>6 DEF LastOf
  <2>2. \A i \in 1..N : i # 1 => queue[i].key # k
    BY <1>1, <1>4, <1>6
  <2>3. CASE Head(queue).key = k
    <3>1. \A j \in 1..N : j > 1 => queue[j].key # queue[1].key
      BY <1>1, <1>2, <2>2, <2>3
    <3>2. Will(queue, names, queue[1].key) <=> queue[1].type = "write"
      BY <1>4, <3>1, WillLast DEF N
    <3> QED
      BY <1>1, <2>1, <2>3, <3>2 DEF Will, rest
  <2>4. CASE Head(queue).key # k
    <3>1. LastOf(queue, k) = {}
      BY <1>1, <1>2, <2>2, <2>4 DEF LastOf
    <3> QED
      BY <2>1, <2>4, <3>1 DEF Will, rest
  <2> QED
    BY <2>3, <2>4
<1> QED
  BY <1>5, <1>6

Agrees ==
    /\ IsInjective(lru) /\ Total(lru) <= tier.spill
    /\ \A k \in ToSet(lru) \ lost : WillExist(k)
    /\ \A k : WillExist(k) => k \in ToSet(lru) \/ Bytes(k) > tier.spill \/ k \in leftover

LEMMA AgreesStays ==
    ASSUME Agrees, UNCHANGED <<tier, spillVars>>
    PROVE  Agrees'
<1>1. \A k : WillExist(k)' <=> WillExist(k)
  BY DEF WillExist, LastJob, spillVars
<1>2. UNCHANGED <<tier, lru, lost, leftover>>
  BY DEF spillVars
<1> QED
  BY <1>1, <1>2 DEF Agrees

\* A restore, or a file that is not there, takes the key out of the policy and its file
\* off the disk.
LEMMA DropAgrees ==
    ASSUME Types, Agrees, NEW key \in Keys, Drop(key), UNCHANGED <<tier, files, lost, leftover>>
    PROVE  Agrees'
<1>1. /\ lru \in Seq(Keys) /\ jobs \in Seq(Jobs) /\ jobs' \in Seq(Jobs) /\ tier \in Tiers
      /\ lru' = Without(lru, key) /\ jobs' = Append(jobs, DeleteJob(key)) /\ IsInjective(lru)
  BY DropIs DEF Types, HostTypes, DiskTypes, Drop, Agrees
<1>2. IsInjective(lru') /\ ToSet(lru') = ToSet(lru) \ {key}
  BY <1>1, WithoutOne
<1>3. Total(lru') <= tier.spill
  <2>1. tier.spill \in Nat /\ Total(lru) <= tier.spill
    BY <1>1, TierAssumption DEF Agrees
  <2>2. Total(lru) \in Nat /\ Total(lru') \in Nat /\ Total(lru') <= Total(lru)
    BY <1>1, TotalWithout
  <2> QED
    BY <2>1, <2>2
<1>4. /\ Len(jobs') = Len(jobs) + 1 /\ (\A i \in 1..Len(jobs) : jobs'[i] = jobs[i])
      /\ jobs'[Len(jobs) + 1] = DeleteJob(key) /\ Len(jobs) \in Nat
  BY <1>1, JobIs, AppendProperties, LenProperties
<1>5. DeleteJob(key).key = key /\ DeleteJob(key).type = "delete"
  BY JobIs
<1>6. ASSUME NEW k, k # key PROVE WillExist(k)' <=> WillExist(k)
  <2>1. \A i \in 1..Len(jobs') : i > Len(jobs) => jobs'[i].key # k
    BY <1>4, <1>5, <1>6
  <2>2. Len(jobs) <= Len(jobs')
    BY <1>4
  <2>3. Will(jobs', DOMAIN files, k) <=> Will(jobs, DOMAIN files, k)
    BY <1>1, <1>4, <2>1, <2>2, WillSame
  <2>4. WillExist(k)' <=> Will(jobs', DOMAIN files', k)
    BY DEF WillExist, Will, LastJob, LastOf
  <2> QED
    BY <2>3, <2>4, WillIs
<1>7. ~WillExist(key)'
  <2>1. Len(jobs) + 1 \in 1..Len(jobs') /\ jobs'[Len(jobs) + 1].key = key
    BY <1>4, <1>5
  <2>2. \A j \in 1..Len(jobs') : j > Len(jobs) + 1 => jobs'[j].key # key
    BY <1>4
  <2>3. Will(jobs', DOMAIN files, key) <=> jobs'[Len(jobs) + 1].type = "write"
    BY <1>1, <2>1, <2>2, WillLast
  <2>4. WillExist(key)' <=> Will(jobs', DOMAIN files', key)
    BY DEF WillExist, Will, LastJob, LastOf
  <2> QED
    BY <1>4, <1>5, <2>3, <2>4
<1>8. \A k \in ToSet(lru') \ lost' : WillExist(k)'
  BY <1>2, <1>6 DEF Agrees
<1>9. ASSUME NEW k, WillExist(k)' PROVE k \in ToSet(lru') \/ Bytes(k) > tier'.spill \/ k \in leftover'
  <2>1. k # key
    BY <1>7, <1>9
  <2>2. WillExist(k)
    BY <1>6, <1>9, <2>1
  <2> QED
    BY <1>2, <2>1, <2>2 DEF Agrees
<1> QED
  BY <1>2, <1>3, <1>8, <1>9 DEF Agrees

\* A capture: the new key is written, and those it shifts out are deleted after it.
LEMMA PutAgrees ==
    ASSUME Types, Agrees, NEW key \in Keys, NEW content \in Content(key), Put(key, content),
           UNCHANGED <<tier, files, leftover>>, lost' = lost \ {key}
    PROVE  Agrees'
<1> DEFINE w == WriteJob(key, content)
           rest == Without(lru, key)
           N == Len(jobs)
<1>1. /\ lru \in Seq(Keys) /\ jobs \in Seq(Jobs) /\ tier \in Tiers /\ IsInjective(lru)
      /\ HostTypes /\ DiskTypes
  BY DEF Types, HostTypes, DiskTypes, Agrees
<1>2. /\ w \in Jobs /\ w.key = key /\ w.type = "write"
  BY JobIs
<1>3. /\ Append(jobs, w) \in Seq(Jobs) /\ jobs' \in Seq(Jobs)
      /\ \/ /\ Bytes(key) > tier.spill /\ lru' = lru
            /\ jobs' = Append(jobs, w)
         \/ \E n \in 0..Len(rest) : PutBehind(key, content, n)
  BY <1>1, PutIs
<1>4. N \in Nat
  BY <1>1, LenProperties
<1>5. \A k : WillExist(k)' <=> Will(jobs', DOMAIN files, k)
  BY DEF WillExist, Will, LastJob, LastOf
<1>6. CASE Bytes(key) > tier.spill /\ lru' = lru /\ jobs' = Append(jobs, w)
  <2>1. /\ Len(jobs') = N + 1 /\ (\A i \in 1..N : jobs'[i] = jobs[i]) /\ jobs'[N + 1] = w
    BY <1>1, <1>2, <1>6, AppendProperties
  <2> HIDE DEF w
  <2>2. ASSUME NEW k, k # key PROVE WillExist(k)' <=> WillExist(k)
    <3>1. /\ \A i \in 1..Len(jobs') : i > Len(jobs) => jobs'[i].key # k
          /\ Len(jobs) <= Len(jobs') /\ \A i \in 1..Len(jobs) : jobs'[i] = jobs[i]
      BY <1>2, <1>4, <2>1, <2>2
    <3>2. Will(jobs', DOMAIN files, k) <=> Will(jobs, DOMAIN files, k)
      BY <1>1, <1>3, <3>1, WillSame
    <3> QED
      BY <1>5, <3>2, WillIs
  <2>3. WillExist(key)'
    <3>1. N + 1 \in 1..Len(jobs') /\ jobs'[N + 1].key = key
      BY <1>2, <1>4, <2>1
    <3>2. \A j \in 1..Len(jobs') : j > N + 1 => jobs'[j].key # key
      BY <1>4, <2>1
    <3>3. Will(jobs', DOMAIN files, key) <=> jobs'[N + 1].type = "write"
      BY <1>3, <3>1, <3>2, WillLast
    <3> QED
      BY <1>2, <1>5, <2>1, <3>3
  <2>4. \A k \in ToSet(lru') \ lost' : WillExist(k)'
    BY <1>6, <2>2, <2>3 DEF Agrees
  <2>5. ASSUME NEW k, WillExist(k)' PROVE k \in ToSet(lru') \/ Bytes(k) > tier'.spill \/ k \in leftover'
    BY <1>6, <2>2, <2>5 DEF Agrees
  <2> QED
    BY <1>6, <2>4, <2>5 DEF Agrees
<1>7. ASSUME NEW n \in 0..Len(rest), PutBehind(key, content, n) PROVE Agrees'
  <2> DEFINE back == SubSeq(rest, n + 1, Len(rest))
             written == Append(jobs, w)
  <2>1. /\ Total(back) + Bytes(key) <= tier.spill
        /\ lru' = Append(back, key) /\ Len(jobs') = N + 1 + n
        /\ \A i \in 1..(N + 1) : jobs'[i] = written[i]
        /\ \A i \in 1..n : jobs'[N + 1 + i] = DeleteJob(rest[i])
    BY <1>7 DEF PutBehind
  <2>2. (\A i \in 1..N : written[i] = jobs[i]) /\ written[N + 1] = w
    BY <1>1, <1>2, AppendProperties
  <2>3. rest \in Seq(Keys) /\ IsInjective(rest) /\ ToSet(rest) = ToSet(lru) \ {key}
    BY <1>1, WithoutOne
  <2> HIDE DEF rest, w
  <2>4. /\ back \in Seq(Keys) /\ IsInjective(back)
        /\ ToSet(rest) = {rest[i] : i \in 1..n} \cup ToSet(back)
        /\ \A i \in 1..n : rest[i] \notin ToSet(back)
    BY <2>3, CutList
  <2> HIDE DEF back, written
  <2>5. n \in Nat /\ \A i \in 1..n : rest[i] \in Keys /\ i \in 1..Len(rest)
    <3>1. Len(rest) \in Nat /\ \A i \in 1..Len(rest) : rest[i] \in Keys
      BY <2>3, Places
    <3> QED
      BY <3>1
  <2>6. IsInjective(lru') /\ ToSet(lru') = ToSet(back) \cup {key}
    BY <2>1, <2>3, <2>4, AppendNew
  <2>7. Total(lru') <= tier.spill
    BY <2>1, <2>4, TotalAppend
  <2>8. \A i \in 1..n : DeleteJob(rest[i]).key = rest[i] /\ DeleteJob(rest[i]).type = "delete"
    BY <2>5, JobIs
  <2>9. /\ \A i \in 1..N : jobs'[i] = jobs[i]
        /\ jobs'[N + 1] = w
    <3>1. (\A i \in 1..N : i \in 1..(N + 1)) /\ N + 1 \in 1..(N + 1)
      BY <1>4
    <3> QED
      BY <2>1, <2>2, <3>1
  <2>10. \A i \in 1..Len(jobs') :
            i > N => (i = N + 1 /\ jobs'[i].key = key)
                     \/ \E l \in 1..n : i = N + 1 + l /\ jobs'[i].key = rest[l]
    <3> SUFFICES ASSUME NEW i \in 1..Len(jobs'), i > N, i # N + 1
                 PROVE  \E l \in 1..n : i = N + 1 + l /\ jobs'[i].key = rest[l]
      BY <1>2, <2>9
    <3>1. i - (N + 1) \in 1..n /\ i = N + 1 + (i - (N + 1))
      BY <1>4, <2>1, <2>5
    <3>2. jobs'[i] = DeleteJob(rest[i - (N + 1)])
      BY <2>1, <3>1
    <3> QED
      BY <2>8, <3>1, <3>2
  <2>11. ASSUME NEW k, k # key, \A i \in 1..n : rest[i] # k PROVE WillExist(k)' <=> WillExist(k)
    <3>a. Len(jobs) <= Len(jobs')
      BY <1>4, <2>1, <2>5
    <3>b. \A i \in 1..Len(jobs') : i > Len(jobs) => jobs'[i].key # k
      BY <2>10, <2>11
    <3>1. /\ \A i \in 1..Len(jobs') : i > Len(jobs) => jobs'[i].key # k
          /\ Len(jobs) <= Len(jobs') /\ \A i \in 1..Len(jobs) : jobs'[i] = jobs[i]
      BY <2>9, <3>a, <3>b
    <3>2. Will(jobs', DOMAIN files, k) <=> Will(jobs, DOMAIN files, k)
      BY <1>1, <1>3, <3>1, WillSame
    <3> QED
      BY <1>5, <3>2, WillIs
  <2>12. WillExist(key)'
    <3>1. N + 1 \in 1..Len(jobs') /\ jobs'[N + 1].key = key
      BY <1>2, <1>4, <2>1, <2>5, <2>9
    <3>2. \A i \in 1..n : rest[i] # key
      BY <2>3, <2>4
    <3>3. \A j \in 1..Len(jobs') : j > N + 1 => jobs'[j].key # key
      <4> SUFFICES ASSUME NEW j \in 1..Len(jobs'), j > N + 1 PROVE jobs'[j].key # key
        OBVIOUS
      <4>1. j > N /\ j # N + 1
        BY <1>4
      <4> QED
        BY <2>10, <3>2, <4>1
    <3>4. Will(jobs', DOMAIN files, key) <=> jobs'[N + 1].type = "write"
      BY <1>3, <3>1, <3>3, WillLast
    <3> QED
      BY <1>2, <1>5, <2>9, <3>4
  <2>13. ASSUME NEW l \in 1..n, NEW k, k = rest[l] PROVE ~WillExist(k)'
    <3> DEFINE p == N + 1 + l
    <3>1. p \in 1..Len(jobs') /\ p > N + 1 /\ p \in Nat
      BY <1>4, <2>1, <2>5
    <3>2. jobs'[p] = DeleteJob(k)
      BY <2>1, <2>13
    <3>3. jobs'[p].key = k /\ jobs'[p].type = "delete"
      BY <2>8, <2>13, <3>2
    <3>4. \A i, j \in 1..n : rest[i] = rest[j] => i = j
      <4>1. DOMAIN rest = 1..Len(rest)
        BY <2>3, Places
      <4> QED
        BY <2>3, <2>5, <4>1 DEF IsInjective
    <3>5. ASSUME NEW j \in 1..Len(jobs'), j > p PROVE jobs'[j].key # k
      <4>1. j > N /\ j # N + 1
        BY <1>4, <3>1, <3>5
      <4>2. PICK m \in 1..n : j = N + 1 + m /\ jobs'[j].key = rest[m]
        BY <2>10, <4>1
      <4>3. m # l
        BY <1>4, <3>5, <4>2
      <4> QED
        BY <2>13, <3>4, <4>2, <4>3
    <3> HIDE DEF p
    <3>6. Will(jobs', DOMAIN files, jobs'[p].key) <=> jobs'[p].type = "write"
      BY <1>3, <3>1, <3>3, <3>5, WillLast
    <3>7. ~Will(jobs', DOMAIN files, k)
      BY <3>3, <3>6
    <3> QED
      BY <1>5, <3>7
  <2>14. ASSUME NEW k \in ToSet(lru') \ lost' PROVE WillExist(k)'
    <3>1. CASE k = key
      BY <2>12, <3>1
    <3>2. CASE k # key
      <4>1. k \in ToSet(back) /\ k \in ToSet(lru) \ lost
        BY <2>3, <2>4, <2>6, <2>14, <3>2
      <4> QED
        BY <2>4, <2>11, <3>2, <4>1 DEF Agrees
    <3> QED
      BY <3>1, <3>2
  <2>15. ASSUME NEW k, WillExist(k)' PROVE k \in ToSet(lru') \/ Bytes(k) > tier'.spill \/ k \in leftover'
    <3>1. CASE k = key
      BY <2>6, <3>1
    <3>2. CASE k # key
      <4>1. \A i \in 1..n : rest[i] # k
        BY <2>13, <2>15
      <4>2. WillExist(k)
        BY <2>11, <2>15, <3>2, <4>1
      <4>3. k \in ToSet(lru) => k \in ToSet(back)
        BY <2>3, <2>4, <3>2, <4>1
      <4> QED
        BY <2>6, <4>2, <4>3 DEF Agrees
    <3> QED
      BY <3>1, <3>2
  <2> QED
    BY <2>6, <2>7, <2>14, <2>15 DEF Agrees
<1> QED
  BY <1>3, <1>6, <1>7

\* The writer thread does a job, or fails a write: for no key does this change what will be,
\* but for the key whose last write is lost.
LEMMA WriterAgrees == ASSUME Types, Agrees, Writer PROVE Agrees'
<1> DEFINE j == Head(jobs)
           names == DOMAIN files
           after == DOMAIN files'
<1>1. /\ jobs # <<>> /\ jobs' = Tail(jobs) /\ UNCHANGED <<tier, lru, leftover>>
      /\ \/ /\ j.type = "write" /\ lost' = lost
            /\ files' = [k \in DOMAIN files \cup {j.key} |-> IF k = j.key THEN j.content ELSE files[k]]
         \/ j.type = "write" /\ lost' = lost \cup {j.key} /\ files' = files
         \/ /\ j.type = "delete" /\ lost' = lost
            /\ files' = [k \in DOMAIN files \ {j.key} |-> files[k]]
  BY DEF Writer
<1>2. jobs \in Seq(Jobs)
  BY DEF Types, DiskTypes
<1>3. \/ j.type = "write" /\ lost' = lost /\ after = names \cup {j.key}
      \/ j.type = "write" /\ lost' = lost \cup {j.key} /\ after = names
      \/ j.type = "delete" /\ lost' = lost /\ after = names \ {j.key}
  <2> HIDE DEF j
  <2> QED
    BY <1>1
<1> HIDE DEF j, names, after
<1>4. \A k : j.key # k => (k \in after <=> k \in names)
  BY <1>3
<1>5. \A k : \/ Will(jobs', after, k) <=> Will(jobs, names, k)
             \/ /\ j.key = k /\ (Will(jobs', after, k) <=> k \in after)
                /\ Will(jobs, names, k) <=> j.type = "write"
  BY <1>1, <1>2, <1>4, WillTail DEF j
<1>6. \A k : WillExist(k)' <=> Will(jobs', after, k)
  BY DEF WillExist, Will, LastJob, LastOf, after
<1>7. \A k : WillExist(k) <=> Will(jobs, names, k)
  BY WillIs DEF names
<1>8. ASSUME NEW k, WillExist(k)' PROVE WillExist(k)
  BY <1>3, <1>5, <1>6, <1>7, <1>8
<1>9. ASSUME NEW k, WillExist(k), k \notin lost' PROVE WillExist(k)'
  BY <1>3, <1>5, <1>6, <1>7, <1>9
<1> QED
  BY <1>1, <1>3, <1>8, <1>9 DEF Agrees

\* A restart: the policy starts empty, and every file is one of an earlier process.
LEMMA RestartAgrees == ASSUME Types, Agrees, Restart PROVE Agrees'
<1>1. lru' = <<>> /\ jobs' = <<>> /\ leftover' = DOMAIN files /\ files' = files /\ tier' = tier
  BY DEF Restart
<1>2. IsInjective(lru') /\ ToSet(lru') = {}
  BY <1>1 DEF IsInjective, ToSet
<1>3. Total(lru') <= tier.spill
  <2>1. <<>> \in Seq(Keys) /\ Len(<<>>) = 0
    BY EmptySeq
  <2>2. Total(<<>>) = 0
    BY <2>1, TotalIs
  <2>3. tier.spill \in Nat
    BY TierAssumption DEF Types, HostTypes
  <2> QED
    BY <1>1, <2>2, <2>3
<1>4. \A k : WillExist(k)' <=> k \in DOMAIN files
  BY <1>1 DEF WillExist, LastJob
<1> QED
  BY <1>1, <1>2, <1>3, <1>4 DEF Agrees

\* The content of a capture is what the slot holds for the snapshot's tokens.
Captured == [rows |-> [i \in 1..Len(cache[job.slot]) |-> rows[job.slot][i]], st |-> snap[job.slot]]
LEMMA CaptureIs ==
    ASSUME Types, Capture
    PROVE  /\ cache[job.slot] \in Keys /\ Captured \in Content(cache[job.slot])
           /\ Put(cache[job.slot], Captured) /\ lost' = lost \ {cache[job.slot]}
           /\ UNCHANGED <<tier, deviceVars, ckptVars, files, leftover, job, faults>>
           /\ pc = "capture" /\ pc' = "restore"
<1> DEFINE key == cache[job.slot]
<1>1. pc = "capture" /\ key # None /\ Put(key, Captured) /\ pc' = "restore"
      /\ lost' = lost \ {key} /\ UNCHANGED <<tier, deviceVars, ckptVars, files, leftover, job, faults>>
  BY Zenon DEF Capture, Evicts, Captured
<1>2. job.slot \in Slots /\ key \in Keys
  BY <1>1 DEF Types, HostTypes
<1>3. rows[job.slot] \in [1..MaxLen -> Seq(Nat)] /\ snap[job.slot] \in Seq(Nat)
  BY <1>2 DEF Types, DeviceTypes
<1>4. \A i \in 1..Len(key) : i \in 1..MaxLen
  BY <1>2, KeyIs, TierAssumption
<1>5. [i \in 1..Len(key) |-> rows[job.slot][i]] \in [1..Len(key) -> Seq(Nat)]
  BY <1>3, <1>4
<1>6. Captured = [rows |-> [i \in 1..Len(key) |-> rows[job.slot][i]], st |-> snap[job.slot]]
  BY DEF Captured
<1> HIDE DEF key
<1>7. Captured \in Content(key)
  BY <1>3, <1>5, <1>6 DEF Content
<1> QED
  BY <1>1, <1>2, <1>7 DEF key

\* What a restore takes from the policy, with or without its file.
LEMMA RestoreDrops ==
    ASSUME Types, RestoreUnreadable \/ Restore
    PROVE  (\E key \in Keys : Drop(key)) /\ UNCHANGED <<tier, files, lost, leftover>>
<1>1. (\E i \in DOMAIN lru : Drop(lru[i])) /\ UNCHANGED <<tier, files, lost, leftover>>
  BY Zenon DEF RestoreUnreadable, Restore
<1>2. lru \in Seq(Keys)
  BY DEF Types, DiskTypes
<1> QED
  BY <1>1, <1>2, Places

LEMMA AgreesNext == ASSUME Types, Agrees, [Next]_vars PROVE Agrees'
<1>1. CASE UNCHANGED vars
  BY <1>1, AgreesStays DEF vars
<1>2. CASE \E s \in Slots, p \in Prompts : Pick(s, p)
  BY <1>2, AgreesStays DEF Pick
<1>3. CASE CaptureNothing \/ RestoreNothing \/ RestoreFails
  <2>1. UNCHANGED <<tier, spillVars>>
    BY <1>3, Zenon DEF CaptureNothing, RestoreNothing, RestoreFails
  <2> QED
    BY <2>1, AgreesStays
<1>4. CASE Capture
  BY <1>4, CaptureIs, PutAgrees
<1>5. CASE RestoreUnreadable \/ Restore
  BY <1>5, RestoreDrops, DropAgrees
<1>6. CASE Prefill
  <2>1. UNCHANGED <<tier, spillVars>>
    BY <1>6, Zenon DEF Prefill, ResumeSnapshot, ResumeCheckpoint, ResumeFresh, Chunk, Cancel,
                       ChunkFails, Snapshot
  <2> QED
    BY <2>1, AgreesStays
<1>7. CASE Writer
  BY <1>7, WriterAgrees
<1>8. CASE Restart
  BY <1>8, RestartAgrees
<1> QED
  BY <1>1, <1>2, <1>3, <1>4, <1>5, <1>6, <1>7, <1>8, Zenon DEF Next, Spill

LEMMA AgreesInit == ASSUME Init PROVE Agrees
<1>1. lru = <<>> /\ jobs = <<>> /\ DOMAIN files = {} /\ tier \in Tiers
  BY DEF Init
<1>2. IsInjective(lru) /\ ToSet(lru) = {}
  BY <1>1 DEF IsInjective, ToSet
<1>3. Total(lru) <= tier.spill
  <2>1. <<>> \in Seq(Keys) /\ Len(<<>>) = 0
    BY EmptySeq
  <2>2. Total(<<>>) = 0
    BY <2>1, TotalIs
  <2>3. tier.spill \in Nat
    BY <1>1, TierAssumption
  <2> QED
    BY <1>1, <2>2, <2>3
<1>4. \A k : ~WillExist(k)
  BY <1>1 DEF WillExist, LastJob
<1> QED
  BY <1>2, <1>3, <1>4 DEF Agrees

\* However far the writer is behind, the policy's keys and the files that will be are the
\* same but for the failed writes, the snapshots above the whole cap and the leftovers of
\* an earlier process, and the policy is within its cap (Store and Policy, kv_spill.rs).
THEOREM StoreMatchesPolicyHolds == Spec => []StoreMatchesPolicy
<1>1. Types /\ Deep /\ Agrees /\ [Next]_vars => Agrees'
  BY AgreesNext
<1>2. Agrees => StoreMatchesPolicy
  BY DEF Agrees, StoreMatchesPolicy
<1>3. Spec => []Agrees
  BY TypesHold, AgreesInit, <1>1, PTL DEF Spec
<1> QED
  BY <1>2, <1>3, PTL

-----------------------------------------------------------------------------
(* Prefixes and the rows of a slot *)

\* A prefix of a prefix, all of it, and none of it.
LEMMA PrefixPrefix ==
    ASSUME NEW t \in Seq(Nat), NEW n \in 0..Len(t)
    PROVE  /\ \A m \in 0..n : Prefix(Prefix(t, n), m) = Prefix(t, m)
           /\ Prefix(t, Len(t)) = t /\ Prefix(t, 0) = None
<1>1. Len(t) \in Nat /\ n \in Nat /\ n <= Len(t)
  BY LenProperties
<1>2. Prefix(t, n) \in Seq(Nat) /\ Len(Prefix(t, n)) = n /\ \A i \in 1..n : Prefix(t, n)[i] = t[i]
  BY PrefixIs
<1>3. ASSUME NEW m \in 0..n PROVE Prefix(Prefix(t, n), m) = Prefix(t, m)
  <2> DEFINE a == Prefix(Prefix(t, n), m)
             b == Prefix(t, m)
  <2>1. m \in 0..Len(t) /\ \A i \in 1..m : i \in 1..n
    BY <1>1
  <2>2. a \in Seq(Nat) /\ Len(a) = m /\ \A i \in 1..m : a[i] = Prefix(t, n)[i]
    BY <1>2, PrefixIs
  <2>3. b \in Seq(Nat) /\ Len(b) = m /\ \A i \in 1..m : b[i] = t[i]
    BY <2>1, PrefixIs
  <2> HIDE DEF a, b
  <2>4. \A i \in 1..Len(a) : a[i] = b[i]
    BY <1>2, <2>1, <2>2, <2>3
  <2>5. a = b
    BY <2>2, <2>3, <2>4, SeqEqual
  <2> QED
    BY <2>5 DEF a, b
<1>4. Prefix(t, Len(t)) = t
  <2> DEFINE a == Prefix(t, Len(t))
  <2>1. Len(t) \in 0..Len(t)
    BY <1>1
  <2>2. a \in Seq(Nat) /\ Len(a) = Len(t) /\ \A i \in 1..Len(t) : a[i] = t[i]
    BY <2>1, PrefixIs
  <2> HIDE DEF a
  <2>3. a = t
    BY <2>2, SeqEqual
  <2> QED
    BY <2>3 DEF a
<1>5. Prefix(t, 0) = None
  <2>1. 0 \in 0..Len(t)
    BY <1>1
  <2>2. Prefix(t, 0) \in Seq(Nat) /\ Len(Prefix(t, 0)) = 0
    BY <2>1, PrefixIs
  <2> QED
    BY <2>2, EmptySeq DEF None
<1> QED
  BY <1>3, <1>4, <1>5

\* What a prompt starts with is one of its prefixes.
LEMMA StartsWith ==
    ASSUME NEW s \in Seq(Nat), NEW t \in Seq(Nat), IsPrefix(s, t)
    PROVE  Len(s) \in 0..Len(t) /\ s = Prefix(t, Len(s))
<1>1. Len(s) \in Nat /\ Len(t) \in Nat /\ Len(s) <= Len(t) /\ Prefix(s, Len(s)) = Prefix(t, Len(s))
  BY LenProperties DEF IsPrefix, Prefix
<1>2. Prefix(s, Len(s)) = s
  <2>1. Len(s) \in 0..Len(s)
    BY <1>1
  <2> QED
    BY <2>1, PrefixPrefix
<1> QED
  BY <1>1, <1>2

\* A prefix and the tokens after it.
LEMMA PrefixLonger ==
    ASSUME NEW t \in Seq(Nat), NEW n \in 0..Len(t), NEW e \in 0..Len(t), n < e
    PROVE  Prefix(t, n) \o SubSeq(t, n + 1, e) = Prefix(t, e)
<1> DEFINE a == Prefix(t, n)
           more == SubSeq(t, n + 1, e)
           b == Prefix(t, e)
<1>1. Len(t) \in Nat /\ n \in Nat /\ e \in Nat /\ e <= Len(t) /\ \A i \in 1..Len(t) : t[i] \in Nat
  BY LenProperties, ElementOfSeq
<1>2. a \in Seq(Nat) /\ Len(a) = n /\ \A i \in 1..n : a[i] = t[i]
  BY PrefixIs
<1>3. b \in Seq(Nat) /\ Len(b) = e /\ \A i \in 1..e : b[i] = t[i]
  BY PrefixIs
<1>4. more \in Seq(Nat) /\ Len(more) = e - n /\ \A i \in 1..(e - n) : more[i] = t[n + i]
  <2>1. n + 1 \in Int /\ e \in Int /\ \A i \in (n + 1)..e : t[i] \in Nat
    BY <1>1
  <2>2. /\ more \in Seq(Nat) /\ Len(more) = IF n + 1 <= e THEN e - (n + 1) + 1 ELSE 0
        /\ \A i \in 1..(e - (n + 1) + 1) : more[i] = t[(n + 1) + i - 1]
    BY ONLY <2>1, SubSeqProperties
  <2> HIDE DEF more
  <2>3. n + 1 <= e /\ e - (n + 1) + 1 = e - n /\ \A i \in 1..(e - n) : (n + 1) + i - 1 = n + i
    BY <1>1
  <2> QED
    BY <2>2, <2>3
<1> HIDE DEF a, b, more
<1>5. /\ a \o more \in Seq(Nat) /\ Len(a \o more) = Len(a) + Len(more)
      /\ \A i \in 1..(Len(a) + Len(more)) :
            (a \o more)[i] = IF i <= Len(a) THEN a[i] ELSE more[i - Len(a)]
  BY <1>2, <1>4, ConcatProperties
<1>6. Len(a) + Len(more) = e
  BY <1>1, <1>2, <1>4
<1>7. ASSUME NEW i \in 1..e PROVE (a \o more)[i] = b[i]
  <2>1. CASE i <= n
    <3>1. i \in 1..n
      BY <1>1, <2>1
    <3> QED
      BY <1>2, <1>3, <1>5, <1>6, <2>1, <3>1
  <2>2. CASE ~(i <= n)
    <3>1. i - n \in 1..(e - n) /\ n + (i - n) = i
      BY <1>1, <2>2
    <3> QED
      BY <1>2, <1>3, <1>4, <1>5, <1>6, <2>2, <3>1
  <2> QED
    BY <2>1, <2>2
<1>8. a \o more = b
  BY <1>3, <1>5, <1>6, <1>7, SeqEqual
<1> QED
  BY <1>8 DEF a, b, more

\* Rows of a prompt are rows of each of its prefixes, and stay so if rewritten after it.
LEMMA RowsOfPrefix ==
    ASSUME NEW t \in Seq(Nat), NEW n \in 0..Len(t), NEW content, RowsOf(content, t)
    PROVE  RowsOf(content, Prefix(t, n))
<1>1. Len(t) \in Nat /\ n \in Nat /\ n <= Len(t) /\ Len(Prefix(t, n)) = n
  BY LenProperties, PrefixIs
<1>2. ASSUME NEW i \in 1..n PROVE content[i] = Prefix(Prefix(t, n), i)
  <2>1. i \in 0..n /\ i \in 1..Len(t)
    BY <1>1
  <2>2. content[i] = Prefix(t, i)
    BY <2>1 DEF RowsOf
  <2> QED
    BY <2>1, <2>2, PrefixPrefix
<1> QED
  BY <1>1, <1>2 DEF RowsOf

LEMMA RowsOfSame ==
    ASSUME NEW t, NEW content, NEW after, RowsOf(content, t), \A i \in 1..Len(t) : after[i] = content[i]
    PROVE  RowsOf(after, t)
BY DEF RowsOf

LEMMA RowsOfNone == ASSUME NEW content PROVE RowsOf(content, None)
BY NoneIs DEF RowsOf

-----------------------------------------------------------------------------
(* The device: what the host takes its rows and states for *)

\* Either the checkpoints or the disk tier.
OneTier == \A t \in Tiers : t.ckpt = 0 \/ t.spill = 0
\* Where there is a disk tier, no prompt is another one less its last token: the lookup
\* would return it whole.
NoTwin == \A t \in Tiers : t.spill # 0 => \A p, q \in Prompts : Prefix(p, Len(p) - 1) # q

SlotExact(s) == cache[s] # None => snap[s] = cache[s] /\ RowsOf(rows[s], cache[s])
SlotsExact == \A s \in Slots : ~(pc = "resume" /\ s = job.slot) => SlotExact(s)
DiskExact ==
    /\ \A k \in DOMAIN files : ContentOf(files[k], k)
    /\ \A i \in DOMAIN jobs : jobs[i].type = "write" => ContentOf(jobs[i].content, jobs[i].key)
PrefixRows == \A s \in Slots : RowsOf(rows[s], toks[s])
CkptsExact == \A k \in ToSet(ckpts) : k.st = Prefix(toks[k.slot], k.pos)

\* Where the prompt resumes is what the slot holds of it.
Found ==
    /\ pc \in {"capture", "restore"} => job.pos = 0
    /\ pc = "resume" /\ job.pos > 0 =>
        /\ job.pos <= End /\ snap[job.slot] = Prefix(job.prompt, job.pos)
        /\ RowsOf(rows[job.slot], Prefix(job.prompt, job.pos))
\* A prefill in progress has computed its prompt up to pos, and keeps that much of it as
\* the prefix its checkpoints describe, or no more if it takes none.
Going ==
    pc = "chunks" =>
        /\ job.pos <= End /\ (End \in job.grid \/ job.pos = End)
        /\ cache[job.slot] = None /\ Sound
        /\ IF job.tracked THEN toks[job.slot] = Prefix(job.prompt, job.pos)
           ELSE Len(toks[job.slot]) <= job.pos
\* A tier that is off has nothing.
Off ==
    /\ tier.ckpt = 0 => ckpts = <<>> /\ (\A s \in Slots : toks[s] = None) /\ ~job.tracked
    /\ tier.spill = 0 => lru = <<>>
Held == SlotsExact /\ PrefixRows /\ CkptsExact /\ Found /\ Going /\ Off
Device == DiskExact /\ Held

LEMMA DiskExactNext == ASSUME Types, Device, [Next]_vars PROVE DiskExact'
<1>0. /\ DiskExact /\ DiskTypes /\ lru \in Seq(Keys) /\ jobs \in Seq(Jobs)
  BY DEF Device, Types, DiskTypes
<1>1. ASSUME UNCHANGED spillVars PROVE DiskExact'
  BY <1>0, <1>1 DEF DiskExact, spillVars
<1>2. ASSUME NEW key \in Keys, Drop(key), files' = files PROVE DiskExact'
  <2>1. jobs' = Append(jobs, DeleteJob(key)) /\ DeleteJob(key) \in Jobs /\ DeleteJob(key).type = "delete"
    BY <1>2, JobIs DEF Drop
  <2>2. /\ jobs' \in Seq(Jobs) /\ Len(jobs') = Len(jobs) + 1
        /\ (\A i \in 1..Len(jobs) : jobs'[i] = jobs[i]) /\ jobs'[Len(jobs) + 1] = DeleteJob(key)
    BY <1>0, <2>1, AppendProperties
  <2>3. Len(jobs) \in Nat /\ DOMAIN jobs = 1..Len(jobs) /\ DOMAIN jobs' = 1..(Len(jobs) + 1)
    BY <1>0, <2>2, Places
  <2>4. \A i \in DOMAIN jobs' : i \in DOMAIN jobs \/ i = Len(jobs) + 1
    BY <2>3
  <2>5. \A i \in DOMAIN jobs' : jobs'[i].type = "write" => i \in DOMAIN jobs /\ jobs'[i] = jobs[i]
    BY <2>1, <2>2, <2>3, <2>4
  <2> QED
    BY <1>0, <1>2, <2>5 DEF DiskExact
<1>3. CASE Capture
  <2> DEFINE key == cache[job.slot]
             w == WriteJob(key, Captured)
  <2>1. /\ key \in Keys /\ Captured \in Content(key) /\ Put(key, Captured)
        /\ UNCHANGED files /\ pc = "capture"
    BY <1>3, CaptureIs
  <2>2. ContentOf(Captured, key)
    <3>1. job.slot \in Slots /\ key # None
      BY <2>1, KeyIs DEF Types, HostTypes
    <3>2. snap[job.slot] = key /\ RowsOf(rows[job.slot], key)
      BY <2>1, <3>1 DEF Device, Held, SlotsExact, SlotExact
    <3>3. Captured.st = snap[job.slot] /\ \A i \in 1..Len(key) : Captured.rows[i] = rows[job.slot][i]
      BY DEF Captured
    <3> HIDE DEF key
    <3>4. RowsOf(Captured.rows, key)
      BY <3>2, <3>3, RowsOfSame
    <3> QED
      BY <3>2, <3>3, <3>4 DEF ContentOf
  <2>3. w \in Jobs /\ w.key = key /\ w.content = Captured
    BY <2>1, JobIs
  <2>4. /\ Append(jobs, w) \in Seq(Jobs) /\ Len(Append(jobs, w)) = Len(jobs) + 1
        /\ (\A i \in 1..Len(jobs) : Append(jobs, w)[i] = jobs[i]) /\ Append(jobs, w)[Len(jobs) + 1] = w
    BY <1>0, <2>3, AppendProperties
  <2>5. /\ jobs' \in Seq(Jobs)
        /\ \/ jobs' = Append(jobs, w)
           \/ \E n \in 0..Len(Without(lru, key)) : PutBehind(key, Captured, n)
    BY <2>1, PutIs DEF Types
  <2>6. Len(jobs) \in Nat /\ DOMAIN jobs = 1..Len(jobs) /\ DOMAIN jobs' = 1..Len(jobs') /\ Len(jobs') \in Nat
    BY <1>0, <2>5, Places
  <2> HIDE DEF key, w
  <2>7. \A i \in 1..Len(jobs') :
            (i \in 1..Len(jobs) /\ jobs'[i] = jobs[i]) \/ jobs'[i] = w \/ jobs'[i].type = "delete"
    <3>1. CASE jobs' = Append(jobs, w)
      <4>1. \A i \in 1..Len(jobs') : i \in 1..Len(jobs) \/ i = Len(jobs) + 1
        BY <2>4, <2>6, <3>1
      <4> QED
        BY <2>4, <3>1, <4>1
    <3>2. ASSUME NEW n \in 0..Len(Without(lru, key)), PutBehind(key, Captured, n)
          PROVE  \A i \in 1..Len(jobs') :
                    (i \in 1..Len(jobs) /\ jobs'[i] = jobs[i]) \/ jobs'[i] = w \/ jobs'[i].type = "delete"
      <4> DEFINE rest == Without(lru, key)
      <4>1. rest \in Seq(Keys)
        BY <1>0, WithoutType
      <4>2. n \in Nat /\ \A l \in 1..n : rest[l] \in Keys
        <5>1. Len(rest) \in Nat /\ \A l \in 1..Len(rest) : rest[l] \in Keys
          BY <4>1, Places
        <5> QED
          BY <3>2, <5>1
      <4>3. /\ Len(jobs') = Len(jobs) + 1 + n
            /\ \A i \in 1..(Len(jobs) + 1) : jobs'[i] = Append(jobs, w)[i]
            /\ \A l \in 1..n : jobs'[Len(jobs) + 1 + l] = DeleteJob(rest[l])
        BY <3>2 DEF PutBehind, w
      <4> HIDE DEF rest
      <4>4. \A l \in 1..n : jobs'[Len(jobs) + 1 + l].type = "delete"
        <5>1. \A l \in 1..n : DeleteJob(rest[l]).type = "delete"
          BY <4>2, JobIs
        <5> QED
          BY <4>3, <5>1
      <4>5. ASSUME NEW i \in 1..Len(jobs')
            PROVE  i \in 1..Len(jobs) \/ i = Len(jobs) + 1 \/ \E l \in 1..n : i = Len(jobs) + 1 + l
        <5>1. i > Len(jobs) + 1 => i - (Len(jobs) + 1) \in 1..n /\ i = Len(jobs) + 1 + (i - (Len(jobs) + 1))
          BY <2>6, <4>2, <4>3
        <5>2. i \in 1..Len(jobs) \/ i = Len(jobs) + 1 \/ i > Len(jobs) + 1
          BY <2>6
        <5> QED
          BY <5>1, <5>2
      <4>6. \A i \in 1..Len(jobs) : i \in 1..(Len(jobs) + 1)
        BY <2>6
      <4>7. Len(jobs) + 1 \in 1..(Len(jobs) + 1)
        BY <2>6
      <4> QED
        BY <2>4, <4>3, <4>4, <4>5, <4>6, <4>7
    <3> QED
      BY <2>5, <3>1, <3>2
  <2>8. \A i \in DOMAIN jobs' : jobs'[i].type = "write" => ContentOf(jobs'[i].content, jobs'[i].key)
    BY <1>0, <2>2, <2>3, <2>6, <2>7 DEF DiskExact
  <2> QED
    BY <1>0, <2>1, <2>8 DEF DiskExact
<1>4. CASE RestoreUnreadable \/ Restore
  BY <1>2, <1>4, RestoreDrops
<1>5. CASE Writer
  <2> DEFINE j == Head(jobs)
  <2>1. /\ jobs # <<>> /\ jobs' = Tail(jobs)
        /\ \/ /\ j.type = "write"
              /\ files' = [k \in DOMAIN files \cup {j.key} |-> IF k = j.key THEN j.content ELSE files[k]]
           \/ files' = files
           \/ files' = [k \in DOMAIN files \ {j.key} |-> files[k]]
    BY <1>5 DEF Writer
  <2>2. /\ jobs' \in Seq(Jobs) /\ Len(jobs') = Len(jobs) - 1
        /\ (\A i \in 1..(Len(jobs) - 1) : jobs'[i] = jobs[i + 1]) /\ j = jobs[1]
    BY <1>0, <2>1, HeadTailProperties
  <2>3. Len(jobs) \in Nat /\ Len(jobs) # 0 /\ DOMAIN jobs = 1..Len(jobs) /\ DOMAIN jobs' = 1..(Len(jobs) - 1)
    BY <1>0, <2>1, <2>2, Places, EmptySeq
  <2> HIDE DEF j
  <2>4. 1 \in DOMAIN jobs /\ \A i \in DOMAIN jobs' : i + 1 \in DOMAIN jobs /\ jobs'[i] = jobs[i + 1]
    BY <2>2, <2>3
  <2>5. j.type = "write" => ContentOf(j.content, j.key)
    BY <1>0, <2>2, <2>4 DEF DiskExact
  <2>6. \A k \in DOMAIN files' : ContentOf(files'[k], k)
    <3>1. CASE j.type = "write"
               /\ files' = [k \in DOMAIN files \cup {j.key} |-> IF k = j.key THEN j.content ELSE files[k]]
      <4>1. \A k \in DOMAIN files' :
                k \in DOMAIN files \cup {j.key} /\ files'[k] = IF k = j.key THEN j.content ELSE files[k]
        BY <3>1
      <4> QED
        BY <1>0, <2>5, <3>1, <4>1 DEF DiskExact
    <3>2. CASE files' = files
      BY <1>0, <3>2 DEF DiskExact
    <3>3. CASE files' = [k \in DOMAIN files \ {j.key} |-> files[k]]
      <4>1. \A k \in DOMAIN files' : k \in DOMAIN files /\ files'[k] = files[k]
        BY <3>3
      <4> QED
        BY <1>0, <4>1 DEF DiskExact
    <3> QED
      BY <2>1, <3>1, <3>2, <3>3
  <2> QED
    BY <1>0, <2>4, <2>6 DEF DiskExact
<1>6. CASE Restart
  <2>1. jobs' = <<>> /\ files' = files
    BY <1>6 DEF Restart
  <2> QED
    BY <1>0, <2>1 DEF DiskExact
<1>7. CASE UNCHANGED vars \/ (\E s \in Slots, p \in Prompts : Pick(s, p)) \/ CaptureNothing
           \/ RestoreNothing \/ RestoreFails \/ Prefill
  <2>1. UNCHANGED spillVars
    BY <1>7, Zenon DEF vars, Pick, CaptureNothing, RestoreNothing, RestoreFails, Prefill,
            ResumeSnapshot, ResumeCheckpoint, ResumeFresh, Chunk, Cancel, ChunkFails, Snapshot
  <2> QED
    BY <1>1, <2>1
<1> QED
  BY <1>3, <1>4, <1>5, <1>6, <1>7 DEF Next, Spill

\* Before the prefill starts nothing but the slot's own rows and snapshot may change.
LEMMA HeldBefore ==
    ASSUME Held, pc # "resume", pc' # "chunks", UNCHANGED <<tier, cache, snap, rows, toks, ckpts>>,
           ~job'.tracked \/ job'.tracked = job.tracked, tier.spill = 0 => lru' = <<>>, Found'
    PROVE  Held'
<1>1. SlotsExact'
  <2>1. \A s \in Slots : SlotExact(s)
    BY DEF Held, SlotsExact
  <2>2. \A s \in Slots : SlotExact(s)'
    BY <2>1 DEF SlotExact
  <2> QED
    BY <2>2 DEF SlotsExact
<1>2. PrefixRows' /\ CkptsExact'
  BY DEF Held, PrefixRows, CkptsExact
<1>3. Going'
  BY DEF Going
<1>4. Off'
  BY DEF Held, Off
<1> QED
  BY <1>1, <1>2, <1>3, <1>4 DEF Held

LEMMA PickHeld == ASSUME Held, NEW s \in Slots, NEW p \in Prompts, Pick(s, p) PROVE Held'
<1>1. /\ pc = "idle" /\ pc' = "capture" /\ UNCHANGED <<tier, cache, snap, rows, toks, ckpts, lru>>
      /\ job' = [NoJob EXCEPT !.slot = s, !.prompt = p]
  BY DEF Pick, deviceVars, ckptVars, spillVars
<1>2. job'.pos = 0 /\ job'.tracked = FALSE
  BY <1>1 DEF NoJob
<1>3. Found'
  BY <1>1, <1>2 DEF Found
<1>4. tier.spill = 0 => lru' = <<>>
  BY <1>1 DEF Held, Off
<1> QED
  BY <1>1, <1>2, <1>3, <1>4, HeldBefore

LEMMA CaptureHeld == ASSUME Types, Held, CaptureNothing \/ Capture PROVE Held'
<1>1. /\ pc = "capture" /\ pc' = "restore" /\ job' = job
      /\ UNCHANGED <<tier, cache, snap, rows, toks, ckpts>>
  BY Zenon DEF CaptureNothing, Capture, deviceVars, ckptVars
<1>2. tier.spill = 0 => lru' = <<>>
  <2>1. CASE CaptureNothing
    BY <2>1 DEF CaptureNothing, spillVars, Held, Off
  <2>2. CASE Capture
    <3>1. tier.spill > 0 /\ tier \in Tiers
      BY <2>2, Zenon DEF Capture, Evicts, Types, HostTypes
    <3>2. tier.spill # 0
      BY <3>1, TierAssumption
    <3> QED
      BY <3>2
  <2> QED
    BY <2>1, <2>2
<1>3. Found'
  BY <1>1 DEF Held, Found
<1> QED
  BY <1>1, <1>2, <1>3, HeldBefore

LEMMA WithoutNone == ASSUME NEW key PROVE Without(<<>>, key) = <<>>
BY DEF Without, ToSet

\* What resumes a prompt is a prefix of it short of its last token.
LEMMA OwnHitIs ==
    ASSUME Types, Held, pc = "restore", OwnHit
    PROVE  LET n == Len(cache[job.slot])
           IN  /\ n \in Nat /\ n <= End /\ snap[job.slot] = Prefix(job.prompt, n)
               /\ RowsOf(rows[job.slot], Prefix(job.prompt, n))
<1> DEFINE t == cache[job.slot]
<1>1. job.slot \in Slots /\ job.prompt \in Prompts /\ t \in Keys \cup {None} /\ End \in Nat
  BY PromptIs DEF Types, HostTypes, End
<1>2. t # None /\ IsPrefix(t, job.prompt) /\ Len(t) <= End
  BY DEF OwnHit, Extends, End
<1>3. t \in Seq(Nat) /\ Len(t) \in Nat /\ job.prompt \in Seq(Nat)
  BY <1>1, <1>2, KeyIs, PromptIs
<1>4. t = Prefix(job.prompt, Len(t))
  BY <1>2, <1>3, StartsWith
<1>5. snap[job.slot] = t /\ RowsOf(rows[job.slot], t)
  BY <1>1, <1>2 DEF Held, SlotsExact, SlotExact
<1> QED
  BY <1>2, <1>3, <1>4, <1>5

LEMMA RestoreNothingHeld == ASSUME Types, Held, RestoreNothing PROVE Held'
<1>1. /\ pc = "restore" /\ pc' = "resume" /\ UNCHANGED <<tier, cache, snap, rows, toks, ckpts, lru>>
      /\ job' = [job EXCEPT !.pos = IF OwnHit THEN Len(cache[job.slot]) ELSE 0]
  BY DEF RestoreNothing, deviceVars, ckptVars, spillVars
<1>2. PICK n \in Nat : /\ job' = [job EXCEPT !.pos = n]
                       /\ n > 0 => /\ n <= End /\ snap[job.slot] = Prefix(job.prompt, n)
                                   /\ RowsOf(rows[job.slot], Prefix(job.prompt, n))
  <2>1. CASE OwnHit
    <3>1. job' = [job EXCEPT !.pos = Len(cache[job.slot])]
      BY <1>1, <2>1
    <3> QED
      BY <1>1, <2>1, <3>1, OwnHitIs
  <2>2. CASE ~OwnHit
    <3>1. job' = [job EXCEPT !.pos = 0]
      BY <1>1, <2>2
    <3> QED
      BY <3>1
  <2> QED
    BY <2>1, <2>2
<1>3. job'.slot = job.slot /\ job'.prompt = job.prompt /\ job'.pos = n /\ job'.tracked = job.tracked
  BY <1>2, MovedJob DEF Types
<1>4. Found'
  BY <1>1, <1>2, <1>3 DEF Found, End
<1>5. tier.spill = 0 => lru' = <<>>
  BY <1>1 DEF Held, Off
<1> QED
  BY <1>1, <1>3, <1>4, <1>5, HeldBefore

LEMMA RestoreMissHeld == ASSUME Types, Held, RestoreUnreadable \/ RestoreFails PROVE Held'
<1>1. /\ pc = "restore" /\ pc' = "resume" /\ UNCHANGED <<tier, cache, snap, rows, toks, ckpts, job>>
      /\ lru' = lru \/ \E i \in DOMAIN lru : lru' = Without(lru, lru[i])
  BY Zenon DEF RestoreUnreadable, RestoreFails, Drop, deviceVars, ckptVars, spillVars
<1>2. tier.spill = 0 => lru' = <<>>
  BY <1>1, WithoutNone DEF Held, Off
<1>3. Found'
  BY <1>1 DEF Held, Found
<1> QED
  BY <1>1, <1>2, <1>3, HeldBefore

\* A hit is short of the prompt's last token.
LEMMA HitIs ==
    ASSUME NoTwin, tier \in Tiers, tier.spill # 0, NEW key \in Keys, NEW p \in Prompts, IsPrefix(key, p)
    PROVE  Len(key) \in Nat /\ Len(key) <= Len(p) - 1 /\ key = Prefix(p, Len(key))
<1>1. PICK q \in Prompts : key = Prefix(q, Len(q) - 1)
  BY DEF Keys
<1>2. key \in Seq(Nat) /\ p \in Seq(Nat) /\ Len(key) \in Nat /\ Len(p) \in Nat
  BY KeyIs, PromptIs
<1>3. Len(key) \in 0..Len(p) /\ key = Prefix(p, Len(key))
  BY <1>2, StartsWith
<1>4. key # p
  BY <1>1 DEF NoTwin
<1>5. Prefix(p, Len(p)) = p
  <2>1. Len(p) \in 0..Len(p)
    BY <1>2
  <2> QED
    BY <1>2, <2>1, PrefixPrefix
<1>6. Len(key) # Len(p)
  BY <1>3, <1>4, <1>5
<1> QED
  BY <1>2, <1>3, <1>6

\* The file's rows and state take the place of the slot's.  With checkpoints off there is
\* no prefix of the slot that they could contradict.
LEMMA RestoreHeld == ASSUME OneTier, NoTwin, Types, Device, Restore PROVE Held'
<1>1. PICK i \in DOMAIN lru :
        /\ IsPrefix(lru[i], job.prompt) /\ lru[i] \in DOMAIN files
        /\ rows' = [rows EXCEPT ![job.slot] =
               [n \in 1..MaxLen |-> IF n <= Len(lru[i]) THEN files[lru[i]].rows[n] ELSE @[n]]]
        /\ snap' = [snap EXCEPT ![job.slot] = files[lru[i]].st]
        /\ job' = [job EXCEPT !.pos = Len(lru[i])] /\ lru' = Without(lru, lru[i])
        /\ pc = "restore" /\ pc' = "resume" /\ UNCHANGED <<tier, cache, toks, ckpts>>
  BY DEF Restore, ckptVars, IsHit, Drop
<1> DEFINE key == lru[i]
           c == files[key]
           r == [n \in 1..MaxLen |-> IF n <= Len(key) THEN c.rows[n] ELSE rows[job.slot][n]]
<1>2. /\ rows' = [rows EXCEPT ![job.slot] = r] /\ snap' = [snap EXCEPT ![job.slot] = c.st]
      /\ job' = [job EXCEPT !.pos = Len(key)] /\ IsPrefix(key, job.prompt) /\ key \in DOMAIN files
      /\ lru # <<>>
  BY <1>1
<1> HIDE DEF key, c
<1>3. key \in Keys /\ ContentOf(c, key) /\ job.slot \in Slots /\ job.prompt \in Prompts
  <2>1. key \in Keys
    BY <1>2 DEF Types, DiskTypes
  <2>2. ContentOf(c, key)
    BY <1>2 DEF c, Device, DiskExact
  <2> QED
    BY <1>1, <2>1, <2>2 DEF Types, HostTypes
<1>4. tier \in Tiers /\ tier.ckpt = 0 /\ tier.spill # 0
  <2>1. tier.spill # 0 /\ tier \in Tiers
    BY <1>2 DEF Device, Held, Off, Types, HostTypes
  <2> QED
    BY <2>1 DEF OneTier
<1>5. Len(key) \in Nat /\ Len(key) \in 1..MaxLen /\ Len(key) <= End /\ key = Prefix(job.prompt, Len(key))
  BY <1>2, <1>3, <1>4, HitIs, KeyIs DEF End
<1>6. RowsOf(r, key)
  <2>1. \A n \in 1..Len(key) : n \in 1..MaxLen /\ n <= Len(key)
    BY <1>5, TierAssumption
  <2>2. \A n \in 1..Len(key) : r[n] = c.rows[n]
    BY <2>1
  <2> HIDE DEF r
  <2>3. RowsOf(c.rows, key)
    BY <1>3 DEF ContentOf
  <2> QED
    BY <2>2, <2>3, RowsOfSame
<1> HIDE DEF r
<1>7. /\ rows'[job.slot] = r /\ snap'[job.slot] = c.st /\ c.st = key
      /\ \A s \in Slots \ {job.slot} : rows'[s] = rows[s] /\ snap'[s] = snap[s]
  <2>1. rows \in [Slots -> [1..MaxLen -> Seq(Nat)]] /\ snap \in [Slots -> Seq(Nat)]
    BY DEF Types, DeviceTypes
  <2> QED
    BY <1>2, <1>3, <2>1 DEF ContentOf
<1>8. job'.slot = job.slot /\ job'.prompt = job.prompt /\ job'.pos = Len(key) /\ job'.tracked = job.tracked
  BY <1>2, <1>5, MovedJob DEF Types
<1>9. SlotsExact'
  <2>1. \A s \in Slots \ {job.slot} : SlotExact(s)
    BY <1>1 DEF Device, Held, SlotsExact
  <2>2. \A s \in Slots \ {job.slot} : SlotExact(s)'
    BY <1>1, <1>7, <2>1 DEF SlotExact
  <2> QED
    BY <1>1, <1>8, <2>2 DEF SlotsExact
<1>10. PrefixRows' /\ CkptsExact'
  <2>1. \A s \in Slots : toks'[s] = None
    BY <1>1, <1>4 DEF Device, Held, Off
  <2>2. PrefixRows'
    BY <2>1, RowsOfNone DEF PrefixRows
  <2> QED
    BY <1>1, <2>2 DEF Device, Held, CkptsExact
<1>11. Found'
  BY <1>1, <1>5, <1>6, <1>7, <1>8 DEF Found, End
<1>12. Going'
  BY <1>1 DEF Going
<1>13. Off'
  BY <1>1, <1>8, <1>4 DEF Device, Held, Off
<1> QED
  BY <1>9, <1>10, <1>11, <1>12, <1>13 DEF Held

\* A cut prefix is still that of the rows, and its checkpoints are still parts of it.
LEMMA CutHeld ==
    ASSUME Types, Deep, Held, job.slot \in Slots, NEW n, Cut(n), rows' = rows
    PROVE  PrefixRows' /\ CkptsExact'
<1>1. /\ n \in Nat /\ Len(toks'[job.slot]) = n /\ toks'[job.slot] = Prefix(toks[job.slot], n)
      /\ \A s \in Slots \ {job.slot} : toks'[s] = toks[s]
      /\ \A k \in ToSet(ckpts') : k \in ToSet(ckpts) /\ k.pos <= Len(toks'[k.slot])
  BY CutIs DEF Types
<1>2. toks[job.slot] \in Seq(Nat) /\ n \in 0..Len(toks[job.slot])
  BY DEF Types, DeviceTypes, Cut
<1>3. PrefixRows'
  <2>1. \A s \in Slots : RowsOf(rows[s], toks[s])
    BY DEF Held, PrefixRows
  <2>2. RowsOf(rows[job.slot], Prefix(toks[job.slot], n))
    BY <1>2, <2>1, RowsOfPrefix
  <2>3. \A s \in Slots : RowsOf(rows'[s], toks'[s])
    BY <1>1, <2>1, <2>2
  <2> QED
    BY <2>3 DEF PrefixRows
<1>4. CkptsExact'
  <2> SUFFICES ASSUME NEW k \in ToSet(ckpts') PROVE k.st = Prefix(toks'[k.slot], k.pos)
    BY DEF CkptsExact
  <2>1. k \in Ckpts
    BY <1>1, Places DEF Types, DeviceTypes
  <2>2. k.slot \in Slots /\ k.pos \in Nat /\ k.st = Prefix(toks[k.slot], k.pos) /\ k.pos <= Len(toks'[k.slot])
    BY <1>1, <2>1 DEF Held, CkptsExact, Ckpts
  <2>3. CASE k.slot = job.slot
    <3>1. k.pos \in 0..n
      BY <1>1, <2>2, <2>3
    <3> QED
      BY <1>1, <1>2, <2>2, <2>3, <3>1, PrefixPrefix
  <2>4. CASE k.slot # job.slot
    BY <1>1, <2>2, <2>4
  <2> QED
    BY <2>3, <2>4
<1> QED
  BY <1>3, <1>4

\* Wherever the prefill resumes from, it goes on from what the slot holds of the prompt.
LEMMA ResumedHeld ==
    ASSUME Types, Deep, Held, pc = "resume", job.slot \in Slots, job.prompt \in Prompts,
           NEW from, NEW t, ResumesAt(from, t), UNCHANGED <<snap, rows, tier, lru>>,
           from <= End, live' = Prefix(job.prompt, from),
           RowsOf(rows[job.slot], Prefix(job.prompt, from)),
           t => tier.ckpt # 0 /\ Prefix(toks[job.slot], from) = Prefix(job.prompt, from)
    PROVE  Held'
<1>0. /\ from \in Nat /\ t \in BOOLEAN /\ StartRun(from, t) /\ End \in Nat
      /\ cache \in [Slots -> Keys \cup {None}] /\ toks \in [Slots -> Seq(Nat)]
  <2>1. End \in Nat
    BY PromptIs DEF End
  <2> QED
    BY <2>1 DEF Types, ResumesAt, HostTypes, DeviceTypes
<1>1. /\ job'.slot = job.slot /\ job'.prompt = job.prompt /\ job'.pos = from /\ job'.tracked = t
      /\ (from < End => End \in job'.grid) /\ cache' = [cache EXCEPT ![job.slot] = None] /\ pc' = "chunks"
  BY <1>0, StartRunIs DEF Types
<1>2. (UNCHANGED <<toks, ckpts>> /\ ~t /\ tier.ckpt = 0) \/ \E n \in 0..from : Cut(n) /\ (t => n = from)
  BY <1>0 DEF ResumesAt
<1>3. SlotsExact'
  <2>1. cache'[job.slot] = None /\ \A s \in Slots \ {job.slot} : cache'[s] = cache[s]
    BY <1>0, <1>1
  <2>2. \A s \in Slots \ {job.slot} : SlotExact(s)
    BY DEF Held, SlotsExact
  <2>3. \A s \in Slots : SlotExact(s)'
    BY <2>1, <2>2 DEF SlotExact
  <2> QED
    BY <2>3 DEF SlotsExact
<1>4. PrefixRows' /\ CkptsExact'
  <2>1. CASE UNCHANGED <<toks, ckpts>>
    BY <2>1 DEF Held, PrefixRows, CkptsExact
  <2> QED
    BY <1>2, <2>1, CutHeld
<1>5. Found'
  BY <1>1 DEF Found
<1>6. IF t THEN toks'[job.slot] = Prefix(job.prompt, from) ELSE Len(toks'[job.slot]) <= from
  <2>1. CASE UNCHANGED <<toks, ckpts>> /\ ~t /\ tier.ckpt = 0
    <3>1. toks'[job.slot] = None
      BY <2>1 DEF Held, Off
    <3> QED
      BY <1>0, <2>1, <3>1, NoneIs
  <2>2. ASSUME NEW n \in 0..from, Cut(n), t => n = from
        PROVE  IF t THEN toks'[job.slot] = Prefix(job.prompt, from) ELSE Len(toks'[job.slot]) <= from
    <3>1. Len(toks'[job.slot]) = n /\ toks'[job.slot] = Prefix(toks[job.slot], n)
      BY <2>2, CutIs DEF Types
    <3> QED
      BY <1>0, <2>2, <3>1
  <2> QED
    BY <1>2, <2>1, <2>2
<1>7. Going'
  <2>1. End' = End
    BY <1>1 DEF End
  <2>2. End \in job'.grid \/ from = End
    BY <1>0, <1>1
  <2>3. Sound'
    BY <1>1 DEF Sound
  <2>4. cache'[job'.slot] = None
    BY <1>0, <1>1
  <2> QED
    BY <1>1, <1>6, <2>1, <2>2, <2>3, <2>4 DEF Going
<1>8. Off'
  <2>1. tier.ckpt = 0 => ~t
    OBVIOUS
  <2>2. tier.ckpt = 0 => ckpts' = <<>> /\ \A s \in Slots : toks'[s] = None
    <3> SUFFICES ASSUME tier.ckpt = 0 PROVE ckpts' = <<>> /\ \A s \in Slots : toks'[s] = None
      OBVIOUS
    <3>1. ckpts = <<>> /\ \A s \in Slots : toks[s] = None
      BY DEF Held, Off
    <3>2. ASSUME NEW n, Cut(n) PROVE ckpts' = <<>> /\ \A s \in Slots : toks'[s] = None
      <4>1. /\ toks'[job.slot] = Prefix(toks[job.slot], n) /\ n \in 0..Len(toks[job.slot])
            /\ \A s \in Slots \ {job.slot} : toks'[s] = toks[s]
            /\ ckpts' \in Seq(Ckpts) /\ \A k \in ToSet(ckpts') : k \in ToSet(ckpts)
        BY <3>2, CutIs DEF Types, Cut
      <4>2. n = 0 /\ Prefix(None, 0) = None
        <5>1. 0 \in 0..Len(None) /\ None \in Seq(Nat)
          BY NoneIs
        <5>2. toks[job.slot] = None
          BY <3>1
        <5>3. n \in 0..0
          BY <4>1, <5>2, NoneIs
        <5>4. n = 0
          BY <5>3
        <5>5. Prefix(None, 0) = None
          BY <5>1, PrefixPrefix
        <5> QED
          BY <5>4, <5>5
      <4>3. ToSet(ckpts) = {}
        BY <3>1 DEF ToSet
      <4>4. ckpts' = <<>>
        <5>1. Len(ckpts') \in Nat /\ ToSet(ckpts') = {ckpts'[i] : i \in 1..Len(ckpts')}
          BY <4>1, Places
        <5>2. Len(ckpts') # 0 => 1 \in 1..Len(ckpts')
          BY <5>1
        <5>3. ToSet(ckpts') = {}
          BY <4>1, <4>3
        <5>4. 1 \in 1..Len(ckpts') => ckpts'[1] \in ToSet(ckpts')
          BY <5>1
        <5>5. Len(ckpts') = 0
          BY <5>2, <5>3, <5>4
        <5> QED
          BY <4>1, <5>5, EmptySeq
      <4> QED
        BY <3>1, <4>1, <4>2, <4>4
    <3> QED
      BY <1>2, <3>1, <3>2
  <2> QED
    BY <1>1, <2>1, <2>2 DEF Held, Off
<1> QED
  BY <1>3, <1>4, <1>5, <1>7, <1>8 DEF Held

LEMMA ResumeSnapshotHeld == ASSUME Types, Deep, Held, ResumeSnapshot PROVE Held'
<1>1. PICK t \in BOOLEAN :
        /\ live' = snap[job.slot] /\ UNCHANGED <<snap, rows, tier>> /\ pc = "resume" /\ job.pos > 0
        /\ job.slot \in Slots /\ job.prompt \in Prompts /\ ResumesAt(job.pos, t)
        /\ t => tier.ckpt # 0 /\ PrefixOk(job.pos)
  BY ResumeSnapshotIs
<1>2. lru' = lru
  BY Zenon DEF ResumeSnapshot, spillVars
<1>3. /\ job.pos <= End /\ snap[job.slot] = Prefix(job.prompt, job.pos)
      /\ RowsOf(rows[job.slot], Prefix(job.prompt, job.pos))
  BY <1>1 DEF Held, Found
<1>4. t => Prefix(toks[job.slot], job.pos) = Prefix(job.prompt, job.pos)
  BY <1>1 DEF PrefixOk
<1> QED
  BY <1>1, <1>2, <1>3, <1>4, ResumedHeld

LEMMA ResumeCheckpointHeld == ASSUME Types, Deep, Held, ResumeCheckpoint PROVE Held'
<1>1. PICK k \in ToSet(ckpts) :
        /\ live' = k.st /\ UNCHANGED <<snap, rows, tier>> /\ pc = "resume"
        /\ job.slot \in Slots /\ job.prompt \in Prompts
        /\ k.slot = job.slot /\ Shared(k) /\ ResumesAt(k.pos, TRUE)
  BY ResumeCheckpointIs
<1>2. lru' = lru
  BY Zenon DEF ResumeCheckpoint, spillVars
<1> DEFINE t == toks[job.slot]
<1>3. t \in Seq(Nat) /\ job.prompt \in Seq(Nat) /\ k.pos \in 0..Len(t) /\ k.pos <= End
  <2>1. t \in Seq(Nat) /\ Len(t) \in Nat /\ job.prompt \in Seq(Nat)
    BY <1>1, PromptIs, LenProperties DEF Types, DeviceTypes
  <2>2. k.pos \in Nat /\ k.pos <= Len(t) /\ k.pos <= End
    BY <1>1 DEF ResumesAt, Deep, Shared
  <2> QED
    BY <2>1, <2>2
<1>4. Prefix(t, k.pos) = Prefix(job.prompt, k.pos)
  <2>1. Prefix(t, k.pos) \in Seq(Nat) /\ Len(Prefix(t, k.pos)) = k.pos
    BY <1>3, PrefixIs
  <2>2. IsPrefix(Prefix(t, k.pos), job.prompt)
    BY <1>1 DEF Shared
  <2> HIDE DEF t
  <2> QED
    BY <1>3, <2>1, <2>2, StartsWith
<1>5. k.st = Prefix(t, k.pos)
  BY <1>1 DEF Held, CkptsExact
<1>6. RowsOf(rows[job.slot], Prefix(t, k.pos))
  BY <1>1, <1>3, RowsOfPrefix DEF Held, PrefixRows
<1>7. tier.ckpt # 0
  <2>1. ckpts # <<>>
    <3>1. ToSet(<<>>) = {}
      BY DEF ToSet
    <3> QED
      BY <3>1
  <2> QED
    BY <2>1 DEF Held, Off
<1> QED
  BY <1>1, <1>2, <1>3, <1>4, <1>5, <1>6, <1>7, ResumedHeld

LEMMA ResumeFreshHeld == ASSUME Types, Deep, Held, ResumeFresh PROVE Held'
<1>1. PICK t \in BOOLEAN :
        /\ live' = None /\ UNCHANGED <<snap, rows, tier>> /\ pc = "resume"
        /\ job.slot \in Slots /\ job.prompt \in Prompts
        /\ ResumesAt(0, t) /\ (t => tier.ckpt # 0)
  BY ResumeFreshIs
<1>2. lru' = lru
  BY Zenon DEF ResumeFresh, spillVars
<1>3. Prefix(job.prompt, 0) = None /\ 0 <= End
  <2>1. job.prompt \in Seq(Nat) /\ Len(job.prompt) \in Nat /\ Len(job.prompt) - 1 \in 1..MaxLen
    BY <1>1, PromptIs
  <2>2. 0 \in 0..Len(job.prompt) /\ 0 <= Len(job.prompt) - 1
    BY <2>1, TierAssumption
  <2> QED
    BY <2>1, <2>2, PrefixPrefix DEF End
<1>4. Prefix(toks[job.slot], 0) = None
  <2>1. toks[job.slot] \in Seq(Nat)
    BY <1>1 DEF Types, DeviceTypes
  <2>2. 0 \in 0..Len(toks[job.slot])
    BY <2>1, LenProperties
  <2> QED
    BY <2>1, <2>2, PrefixPrefix
<1> QED
  BY <1>1, <1>2, <1>3, <1>4, RowsOfNone, ResumedHeld

\* A sweep computes what a fresh prefill would have; the checkpoint it may take is the
\* prompt's up to there, and the ones before it are still parts of the longer prefix.
LEMMA ChunkHeld == ASSUME Types, Deep, Held, Chunk PROVE Held'
<1>1. PICK e : ChunkTo(e)
  BY ChunkIs
<1>2. lru' = lru
  BY Zenon DEF Chunk, spillVars
<1> DEFINE p == job.prompt
           q == job.pos
           s0 == job.slot
<1>3. /\ e \in 1..End /\ q < e /\ e \in job.grid /\ pc = "chunks" /\ s0 \in Slots /\ p \in Prompts /\ q \in Nat
      /\ rows' = [rows EXCEPT ![s0] = Swept(e)]
      /\ live' = IF Sound THEN Prefix(p, e) ELSE Junk
      /\ toks' = IF job.tracked THEN [toks EXCEPT ![s0] = @ \o SubSeq(p, q + 1, e)] ELSE toks
      /\ \A k \in ToSet(ckpts') :
          k \in ToSet(ckpts) \/ (job.tracked /\ k = [slot |-> s0, pos |-> e, st |-> live'])
      /\ job' = [job EXCEPT !.pos = e] /\ UNCHANGED <<tier, cache, snap, pc>> /\ ckpts' \in Seq(Ckpts)
  BY <1>1, Zenon DEF ChunkTo, ChunkEnd
<1>4. /\ q <= End /\ (End \in job.grid \/ q = End) /\ cache[s0] = None /\ Sound
      /\ IF job.tracked THEN toks[s0] = Prefix(p, q) ELSE Len(toks[s0]) <= q
  BY <1>3 DEF Held, Going
<1>5. /\ p \in Seq(Nat) /\ e \in Nat /\ e <= End /\ End \in Nat /\ e \in 0..Len(p) /\ q \in 0..Len(p)
      /\ e <= MaxLen
  <2>1. p \in Seq(Nat) /\ Len(p) \in Nat /\ Len(p) - 1 \in 1..MaxLen
    BY <1>3, PromptIs
  <2>2. End = Len(p) - 1
    BY DEF End
  <2> HIDE DEF p, q
  <2>3. MaxLen \in Nat /\ e \in 1..End /\ q < e /\ q \in Nat
    BY <1>3, TierAssumption
  <2>4. e \in Nat /\ e <= End /\ End \in Nat /\ e <= MaxLen /\ e \in 0..Len(p)
    BY <2>1, <2>2, <2>3
  <2>5. q \in 0..Len(p)
    BY <2>1, <2>3, <2>4
  <2> QED
    BY <2>1, <2>4, <2>5
<1>6. live' = Prefix(p, e)
  BY <1>3, <1>4
<1>7. /\ rows'[s0] = Swept(e) /\ \A s \in Slots \ {s0} : rows'[s] = rows[s]
  BY <1>3 DEF Types, DeviceTypes
<1>8. /\ job'.slot = s0 /\ job'.prompt = p /\ job'.pos = e /\ job'.tracked = job.tracked
      /\ job'.grid = job.grid
  BY <1>3, <1>5, MovedJob DEF Types
<1>9. \A i \in 1..MaxLen : (i <= q => Swept(e)[i] = rows[s0][i])
                           /\ (~(i <= q) /\ ~(i > e) => Swept(e)[i] = Prefix(p, i))
  BY <1>4 DEF Swept
<1>10. RowsOf(rows'[s0], Prefix(p, e))
  <2>1. Len(Prefix(p, e)) = e
    BY <1>5, PrefixIs
  <2>2. Len(Prefix(p, q)) = q /\ RowsOf(rows[s0], Prefix(p, q))
    BY <1>4, <1>5, PrefixIs DEF Sound
  <2>3. ASSUME NEW i \in 1..e PROVE Swept(e)[i] = Prefix(Prefix(p, e), i)
    <3>1. i \in 0..e /\ i \in 1..MaxLen /\ ~(i > e)
      BY <1>5, TierAssumption
    <3>2. Prefix(Prefix(p, e), i) = Prefix(p, i)
      BY <1>5, <3>1, PrefixPrefix
    <3>3. CASE i <= q
      <4>1. i \in 1..q /\ i \in 0..q
        BY <1>3, <3>3
      <4>2. rows[s0][i] = Prefix(Prefix(p, q), i)
        BY <2>2, <4>1 DEF RowsOf
      <4>3. Prefix(Prefix(p, q), i) = Prefix(p, i)
        BY <1>5, <4>1, PrefixPrefix
      <4> QED
        BY <1>9, <3>1, <3>2, <3>3, <4>2, <4>3
    <3>4. CASE ~(i <= q)
      BY <1>9, <3>1, <3>2, <3>4
    <3> QED
      BY <3>3, <3>4
  <2> QED
    BY <1>7, <2>1, <2>3 DEF RowsOf
<1>11. job.tracked => /\ toks'[s0] = Prefix(p, e) /\ \A s \in Slots \ {s0} : toks'[s] = toks[s]
  <2> SUFFICES ASSUME job.tracked
               PROVE  toks'[s0] = Prefix(p, e) /\ \A s \in Slots \ {s0} : toks'[s] = toks[s]
    OBVIOUS
  <2>1. toks' = [toks EXCEPT ![s0] = Prefix(p, q) \o SubSeq(p, q + 1, e)]
    BY <1>3, <1>4
  <2>2. Prefix(p, q) \o SubSeq(p, q + 1, e) = Prefix(p, e)
    BY <1>3, <1>5, PrefixLonger
  <2> QED
    BY <1>3, <2>1, <2>2 DEF Types, DeviceTypes
<1>12. ~job.tracked => toks' = toks
  BY <1>3
<1> HIDE DEF p, q, s0
<1>13. SlotsExact'
  <2>1. \A s \in Slots : SlotExact(s)
    BY <1>3 DEF Held, SlotsExact
  <2>2. \A s \in Slots : s # s0 => SlotExact(s)'
    BY <1>3, <1>7, <2>1 DEF SlotExact
  <2>3. \A s \in Slots : s = s0 => SlotExact(s)'
    BY <1>3, <1>4 DEF SlotExact
  <2>4. \A s \in Slots : SlotExact(s)'
    BY <2>2, <2>3
  <2> QED
    BY <2>4 DEF SlotsExact
<1>14. PrefixRows'
  <2>1. \A s \in Slots : RowsOf(rows[s], toks[s])
    BY DEF Held, PrefixRows
  <2>2. \A s \in Slots \ {s0} : RowsOf(rows'[s], toks'[s])
    BY <1>7, <1>11, <1>12, <2>1
  <2>3. RowsOf(rows'[s0], toks'[s0])
    <3>1. CASE job.tracked
      BY <1>10, <1>11, <3>1
    <3>2. CASE ~job.tracked
      <4>1. \A i \in 1..Len(toks[s0]) : i \in 1..MaxLen /\ i <= q
        <5>1. Len(toks[s0]) \in Nat /\ Len(toks[s0]) <= q
          BY <1>3, <1>4, <3>2, LenProperties DEF Types, DeviceTypes
        <5>2. q <= MaxLen /\ q \in Nat /\ MaxLen \in Nat
          BY <1>3, <1>5, TierAssumption
        <5> QED
          BY <5>1, <5>2
      <4>2. \A i \in 1..Len(toks[s0]) : rows'[s0][i] = rows[s0][i]
        BY <1>7, <1>9, <4>1
      <4> QED
        BY <1>3, <1>12, <2>1, <3>2, <4>2, RowsOfSame
    <3> QED
      BY <3>1, <3>2
  <2> QED
    BY <2>2, <2>3 DEF PrefixRows
<1>15. CkptsExact'
  <2> SUFFICES ASSUME NEW k \in ToSet(ckpts') PROVE k.st = Prefix(toks'[k.slot], k.pos)
    BY DEF CkptsExact
  <2>1. CASE k \in ToSet(ckpts)
    <3>1. k \in Ckpts /\ k.pos <= Len(toks[k.slot]) /\ k.st = Prefix(toks[k.slot], k.pos)
      BY <2>1, Places DEF Types, DeviceTypes, Held, CkptsExact, Deep
    <3>2. k.slot \in Slots /\ k.pos \in Nat
      BY <3>1 DEF Ckpts
    <3>3. CASE job.tracked /\ k.slot = s0
      <4>1. Len(toks[s0]) = q
        BY <1>4, <1>5, <3>3, PrefixIs
      <4>a. k.pos <= q
        BY <3>1, <3>3, <4>1
      <4>b. q \in Nat /\ e \in Nat /\ q <= e
        BY <1>3, <1>5
      <4>2. k.pos \in 0..q /\ k.pos \in 0..e
        BY <3>2, <4>a, <4>b
      <4>3. Prefix(Prefix(p, q), k.pos) = Prefix(p, k.pos) /\ Prefix(Prefix(p, e), k.pos) = Prefix(p, k.pos)
        BY <1>5, <4>2, PrefixPrefix
      <4> QED
        BY <1>4, <1>11, <3>1, <3>3, <4>3
    <3>4. CASE ~(job.tracked /\ k.slot = s0)
      BY <1>11, <1>12, <3>1, <3>2, <3>4
    <3> QED
      BY <3>3, <3>4
  <2>2. CASE job.tracked /\ k = [slot |-> s0, pos |-> e, st |-> live']
    <3>1. e \in 0..e /\ Prefix(Prefix(p, e), e) = Prefix(p, e)
      <4>1. e \in 0..e
        BY <1>5
      <4> QED
        BY <1>5, <4>1, PrefixPrefix
    <3> QED
      BY <1>6, <1>11, <2>2, <3>1
  <2> QED
    BY <1>3, <2>1, <2>2
<1>16. Found'
  BY <1>3 DEF Found
<1>17. Going'
  <2>1. End' = End
    BY <1>8 DEF End, p
  <2>2. End \in job.grid
    BY <1>3, <1>4, <1>5
  <2>3. Sound'
    BY <1>6, <1>8, <1>10 DEF Sound
  <2>4. IF job.tracked THEN toks'[s0] = Prefix(p, e) ELSE Len(toks'[s0]) <= e
    <3>1. CASE ~job.tracked
      <4>1. Len(toks[s0]) \in Nat /\ Len(toks[s0]) <= q
        BY <1>3, <1>4, <3>1, LenProperties DEF Types, DeviceTypes
      <4>2. Len(toks[s0]) <= e
        BY <1>3, <1>5, <4>1
      <4> QED
        BY <1>12, <3>1, <4>2
    <3> QED
      BY <1>11, <3>1
  <2>5. cache'[s0] = None
    BY <1>3, <1>4
  <2> QED
    BY <1>5, <1>8, <2>1, <2>2, <2>3, <2>4, <2>5 DEF Going
<1>18. Off'
  <2>1. tier.ckpt = 0 => ~job.tracked /\ ckpts = <<>> /\ \A s \in Slots : toks[s] = None
    BY DEF Held, Off
  <2>2. ~job.tracked /\ ckpts = <<>> => ckpts' = <<>>
    <3> SUFFICES ASSUME ~job.tracked, ckpts = <<>> PROVE ckpts' = <<>>
      OBVIOUS
    <3>1. \A k : k \notin ToSet(ckpts')
      <4>1. ToSet(<<>>) = {}
        BY DEF ToSet
      <4> QED
        BY <1>3, <4>1
    <3>2. Len(ckpts') \in Nat /\ ToSet(ckpts') = {ckpts'[i] : i \in 1..Len(ckpts')}
      BY <1>3, Places
    <3>3. Len(ckpts') # 0 => 1 \in 1..Len(ckpts')
      BY <3>2
    <3>4. Len(ckpts') = 0
      BY <3>1, <3>2, <3>3
    <3> QED
      BY <1>3, <3>4, EmptySeq
  <2>3. tier.spill = 0 => lru' = <<>>
    BY <1>2 DEF Held, Off
  <2> QED
    BY <1>3, <1>8, <1>12, <2>1, <2>2, <2>3 DEF Off
<1> QED
  BY <1>13, <1>14, <1>15, <1>16, <1>17, <1>18 DEF Held

\* Without a prefill there is nothing to say of one.
LEMMA HeldAfter ==
    ASSUME Idle, UNCHANGED <<tier, lru>>, Off, SlotsExact', PrefixRows', CkptsExact',
           tier.ckpt = 0 => ckpts' = <<>> /\ \A s \in Slots : toks'[s] = None
    PROVE  Held'
<1>1. pc' = "idle" /\ job' = NoJob /\ job'.tracked = FALSE
  BY DEF Idle, NoJob
<1>2. Found' /\ Going'
  BY <1>1 DEF Found, Going
<1>3. Off'
  BY <1>1 DEF Off
<1> QED
  BY <1>2, <1>3 DEF Held

LEMMA CancelHeld == ASSUME Types, Held, Cancel PROVE Held'
<1>1. /\ pc = "chunks" /\ Idle /\ UNCHANGED <<tier, lru, cache, snap, rows, toks, ckpts>>
  BY DEF Cancel, ckptVars, spillVars
<1>2. SlotsExact'
  <2>1. \A s \in Slots : SlotExact(s)
    BY <1>1 DEF Held, SlotsExact
  <2>2. \A s \in Slots : SlotExact(s)'
    BY <1>1, <2>1 DEF SlotExact
  <2> QED
    BY <2>2 DEF SlotsExact
<1>3. PrefixRows' /\ CkptsExact' /\ Off /\ (tier.ckpt = 0 => ckpts' = <<>> /\ \A s \in Slots : toks'[s] = None)
  BY <1>1 DEF Held, PrefixRows, CkptsExact, Off
<1> QED
  BY <1>1, <1>2, <1>3, HeldAfter

\* A chunk fails: the slot has no snapshot, and now no checkpoint and no prefix either.
LEMMA ChunkFailsHeld == ASSUME Types, Held, ChunkFails PROVE Held'
<1>1. PICK e \in job.grid :
        /\ job.slot \in Slots /\ Idle /\ ClearedIs /\ UNCHANGED <<tier, cache, snap>> /\ pc = "chunks"
        /\ rows' = [rows EXCEPT ![job.slot] =
                     [i \in 1..MaxLen |-> IF i <= job.pos \/ i > e THEN @[i] ELSE Junk]]
  BY ChunkFailsIs
<1>2. lru' = lru
  BY Zenon DEF ChunkFails, spillVars
<1> DEFINE s0 == job.slot
<1>3. /\ toks'[s0] = None /\ ckpts' \in Seq(Ckpts)
      /\ \A s \in Slots : s # s0 => rows'[s] = rows[s] /\ toks'[s] = toks[s]
      /\ \A k \in ToSet(ckpts') : k \in ToSet(ckpts) /\ k.slot # s0
  BY <1>1 DEF ClearedIs, Types, DeviceTypes
<1>4. cache[s0] = None
  BY <1>1 DEF Held, Going
<1> HIDE DEF s0
<1>5. SlotsExact'
  <2>1. \A s \in Slots : SlotExact(s)
    BY <1>1 DEF Held, SlotsExact
  <2>2. \A s \in Slots : s # s0 => SlotExact(s)'
    BY <1>1, <1>3, <2>1 DEF SlotExact
  <2>3. \A s \in Slots : s = s0 => SlotExact(s)'
    BY <1>1, <1>4 DEF SlotExact
  <2> QED
    BY <2>2, <2>3 DEF SlotsExact
<1>6. PrefixRows'
  <2>1. \A s \in Slots : RowsOf(rows[s], toks[s])
    BY DEF Held, PrefixRows
  <2>2. \A s \in Slots : RowsOf(rows'[s], toks'[s])
    BY <1>3, <2>1, RowsOfNone
  <2> QED
    BY <2>2 DEF PrefixRows
<1>7. CkptsExact'
  <2> SUFFICES ASSUME NEW k \in ToSet(ckpts') PROVE k.st = Prefix(toks'[k.slot], k.pos)
    BY DEF CkptsExact
  <2>1. k \in ToSet(ckpts) /\ k.slot # s0 /\ k \in Ckpts
    BY <1>3, Places
  <2>2. k.slot \in Slots /\ k.st = Prefix(toks[k.slot], k.pos)
    BY <2>1 DEF Held, CkptsExact, Ckpts
  <2> QED
    BY <1>3, <2>1, <2>2
<1>8. ASSUME tier.ckpt = 0 PROVE ckpts' = <<>> /\ \A s \in Slots : toks'[s] = None
  <2>1. ckpts = <<>> /\ \A s \in Slots : toks[s] = None
    BY <1>8 DEF Held, Off
  <2>2. \A k : k \notin ToSet(ckpts')
    <3>1. ToSet(<<>>) = {}
      BY DEF ToSet
    <3> QED
      BY <1>3, <2>1, <3>1
  <2>3. ckpts' = <<>>
    <3>1. Len(ckpts') \in Nat /\ ToSet(ckpts') = {ckpts'[i] : i \in 1..Len(ckpts')}
      BY <1>3, Places
    <3>2. Len(ckpts') # 0 => 1 \in 1..Len(ckpts')
      BY <3>1
    <3>3. Len(ckpts') = 0
      BY <2>2, <3>1, <3>2
    <3> QED
      BY <1>3, <3>3, EmptySeq
  <2> QED
    BY <1>3, <2>1, <2>3
<1>9. Off
  BY DEF Held
<1> QED
  BY <1>1, <1>2, <1>5, <1>6, <1>7, <1>8, <1>9, HeldAfter

\* The prompt is prefilled: the snapshot is of all of it but the last token, and the rows
\* beyond it, which the decode overwrites, are beyond the prefix too.
LEMMA SnapshotHeld == ASSUME Types, Deep, Held, Snapshot PROVE Held'
<1> DEFINE s0 == job.slot
           p == job.prompt
           r == [i \in 1..MaxLen |-> IF i <= End THEN rows[s0][i] ELSE Junk]
<1>1. /\ pc = "chunks" /\ (\A e \in job.grid : e <= job.pos) /\ Idle
      /\ snap' = [snap EXCEPT ![s0] = live] /\ cache' = [cache EXCEPT ![s0] = Prefix(p, End)]
      /\ rows' = [rows EXCEPT ![s0] = r] /\ UNCHANGED <<tier, lru, toks, ckpts>>
  BY DEF Snapshot, ckptVars, spillVars
<1>2. /\ job.pos <= End /\ (End \in job.grid \/ job.pos = End) /\ Sound
      /\ IF job.tracked THEN toks[s0] = Prefix(p, job.pos) ELSE Len(toks[s0]) <= job.pos
  BY <1>1 DEF Held, Going
<1>3. s0 \in Slots /\ p \in Prompts /\ job.pos \in Nat /\ toks[s0] \in Seq(Nat)
  BY <1>1 DEF Types, HostTypes, Prefills, DeviceTypes
<1>4. /\ p \in Seq(Nat) /\ End \in Nat /\ End \in 0..Len(p) /\ End \in 1..MaxLen /\ MaxLen \in Nat
  <2>1. p \in Seq(Nat) /\ Len(p) \in Nat /\ Len(p) - 1 \in 1..MaxLen
    BY <1>3, PromptIs
  <2>2. End = Len(p) - 1
    BY DEF End
  <2> HIDE DEF p
  <2>3. MaxLen \in Nat
    BY TierAssumption
  <2> QED
    BY <2>1, <2>2, <2>3
<1>5. job.pos = End
  BY <1>1, <1>2, <1>3, <1>4
<1>6. live = Prefix(p, End) /\ RowsOf(rows[s0], Prefix(p, End))
  BY <1>2, <1>5 DEF Sound
<1>7. Len(Prefix(p, End)) = End
  BY <1>4, PrefixIs
<1>8. /\ snap'[s0] = Prefix(p, End) /\ cache'[s0] = Prefix(p, End) /\ rows'[s0] = r
      /\ \A s \in Slots : s # s0 => rows'[s] = rows[s] /\ snap'[s] = snap[s] /\ cache'[s] = cache[s]
  BY <1>1, <1>3, <1>6 DEF Types, DeviceTypes, HostTypes
<1>9. \A i \in 1..MaxLen : i <= End => r[i] = rows[s0][i]
  OBVIOUS
<1> HIDE DEF s0, p, r
<1>10. \A t : Len(t) \in Nat /\ Len(t) <= End /\ RowsOf(rows[s0], t) => RowsOf(r, t)
  <2> SUFFICES ASSUME NEW t, Len(t) \in Nat, Len(t) <= End, RowsOf(rows[s0], t) PROVE RowsOf(r, t)
    OBVIOUS
  <2>1. \A i \in 1..Len(t) : i \in 1..MaxLen /\ i <= End
    BY <1>4
  <2> QED
    BY <1>9, <2>1, RowsOfSame
<1>11. SlotsExact'
  <2>1. \A s \in Slots : SlotExact(s)
    BY <1>1 DEF Held, SlotsExact
  <2>2. \A s \in Slots : s # s0 => SlotExact(s)'
    BY <1>8, <2>1 DEF SlotExact
  <2>3. RowsOf(rows'[s0], cache'[s0])
    BY <1>4, <1>6, <1>7, <1>8, <1>10
  <2>4. \A s \in Slots : s = s0 => SlotExact(s)'
    BY <1>8, <2>3 DEF SlotExact
  <2> QED
    BY <2>2, <2>4 DEF SlotsExact
<1>12. PrefixRows'
  <2>1. \A s \in Slots : RowsOf(rows[s], toks[s])
    BY DEF Held, PrefixRows
  <2>2. Len(toks[s0]) \in Nat /\ Len(toks[s0]) <= End
    BY <1>2, <1>3, <1>4, <1>5, <1>7, LenProperties
  <2>3. RowsOf(r, toks[s0])
    BY <1>3, <1>10, <2>1, <2>2
  <2>4. \A s \in Slots : RowsOf(rows'[s], toks'[s])
    BY <1>1, <1>8, <2>1, <2>3
  <2> QED
    BY <2>4 DEF PrefixRows
<1>13. CkptsExact' /\ Off /\ (tier.ckpt = 0 => ckpts' = <<>> /\ \A s \in Slots : toks'[s] = None)
  BY <1>1 DEF Held, CkptsExact, Off
<1> QED
  BY <1>1, <1>11, <1>12, <1>13, HeldAfter

LEMMA RestartHeld == ASSUME Restart PROVE Held'
<1>1. /\ cache' = [s \in Slots |-> None] /\ toks' = [s \in Slots |-> None] /\ ckpts' = <<>>
      /\ lru' = <<>> /\ Idle
  BY DEF Restart
<1>2. pc' = "idle" /\ job'.tracked = FALSE
  BY <1>1 DEF Idle, NoJob
<1>3. SlotsExact'
  BY <1>1 DEF SlotsExact, SlotExact
<1>4. PrefixRows'
  BY <1>1, RowsOfNone DEF PrefixRows
<1>5. CkptsExact'
  BY <1>1 DEF CkptsExact, ToSet
<1>6. Found' /\ Going'
  BY <1>2 DEF Found, Going
<1>7. Off'
  BY <1>1, <1>2 DEF Off
<1> QED
  BY <1>3, <1>4, <1>5, <1>6, <1>7 DEF Held

LEMMA HeldStutters ==
    ASSUME Held, UNCHANGED <<tier, cache, snap, rows, live, toks, ckpts, lru, pc, job>>
    PROVE  Held'
BY DEF Held, SlotsExact, SlotExact, PrefixRows, CkptsExact, Found, Going, Sound, Off, End

LEMMA DeviceExactNext ==
    ASSUME OneTier, NoTwin, Types, Deep, Device, [Next]_vars
    PROVE  Device'
<1>0. Held
  BY DEF Device
<1>1. CASE UNCHANGED vars \/ Writer
  <2>1. UNCHANGED <<tier, cache, snap, rows, live, toks, ckpts, lru, pc, job>>
    BY <1>1 DEF vars, Writer, deviceVars, ckptVars, spillVars
  <2> QED
    BY <1>0, <2>1, DiskExactNext, HeldStutters DEF Device
<1>2. CASE \E s \in Slots, p \in Prompts : Pick(s, p)
  BY <1>0, <1>2, DiskExactNext, PickHeld DEF Device
<1>3. CASE CaptureNothing \/ Capture
  BY <1>0, <1>3, DiskExactNext, CaptureHeld DEF Device
<1>4. CASE RestoreNothing
  BY <1>0, <1>4, DiskExactNext, RestoreNothingHeld DEF Device
<1>5. CASE RestoreUnreadable \/ RestoreFails
  BY <1>0, <1>5, DiskExactNext, RestoreMissHeld DEF Device
<1>6. CASE Restore
  BY <1>6, DiskExactNext, RestoreHeld DEF Device
<1>7. CASE ResumeSnapshot
  BY <1>0, <1>7, DiskExactNext, ResumeSnapshotHeld DEF Device
<1>8. CASE ResumeCheckpoint
  BY <1>0, <1>8, DiskExactNext, ResumeCheckpointHeld DEF Device
<1>9. CASE ResumeFresh
  BY <1>0, <1>9, DiskExactNext, ResumeFreshHeld DEF Device
<1>10. CASE Chunk
  BY <1>0, <1>10, DiskExactNext, ChunkHeld DEF Device
<1>11. CASE Cancel
  BY <1>0, <1>11, DiskExactNext, CancelHeld DEF Device
<1>12. CASE ChunkFails
  BY <1>0, <1>12, DiskExactNext, ChunkFailsHeld DEF Device
<1>13. CASE Snapshot
  BY <1>0, <1>13, DiskExactNext, SnapshotHeld DEF Device
<1>14. CASE Restart
  BY <1>14, DiskExactNext, RestartHeld DEF Device
<1> QED
  BY <1>1, <1>2, <1>3, <1>4, <1>5, <1>6, <1>7, <1>8, <1>9, <1>10, <1>11, <1>12, <1>13, <1>14
     DEF Next, Spill, Prefill

LEMMA DeviceInit == ASSUME Init PROVE Device
<1>1. /\ cache = [s \in Slots |-> None] /\ toks = [s \in Slots |-> None] /\ ckpts = <<>>
      /\ lru = <<>> /\ jobs = <<>> /\ DOMAIN files = {} /\ pc = "idle" /\ job.tracked = FALSE
  BY DEF Init, NoJob
<1>2. SlotsExact /\ CkptsExact /\ DiskExact
  BY <1>1 DEF SlotsExact, SlotExact, CkptsExact, ToSet, DiskExact
<1>3. PrefixRows
  BY <1>1, RowsOfNone DEF PrefixRows
<1>4. Found /\ Going /\ Off
  BY <1>1 DEF Found, Going, Off
<1> QED
  BY <1>2, <1>3, <1>4 DEF Device, Held

LEMMA DeviceHolds == ASSUME OneTier, NoTwin PROVE Spec => []Device
<1>1. Types /\ Deep /\ Device /\ [Next]_vars => Device'
  BY DeviceExactNext
<1>2. Init => Device
  BY DeviceInit
<1> QED
  BY TypesHold, <1>1, <1>2, PTL DEF Spec

\* With one of the tiers on: a snapshot in a slot, in the writer's queue or in a file holds
\* what its tokens say, however its rows got there (prefill_cached, spill_capture_slot,
\* spill_restore_slot).
THEOREM SnapshotExactHolds == ASSUME OneTier, NoTwin PROVE Spec => []SnapshotExact
<1>1. Device => SnapshotExact
  BY DEF Device, Held, SlotsExact, SlotExact, DiskExact, SnapshotExact
<1> QED
  BY DeviceHolds, <1>1, PTL

\* With one of the tiers on: no checkpoint outlives the rows it was taken over
\* (CkptStore, wp16.rs).
THEOREM CheckpointRowsHolds == ASSUME OneTier, NoTwin PROVE Spec => []CheckpointRows
<1>1. Types /\ Deep /\ Device => CheckpointRows
  <2> SUFFICES ASSUME Types, Deep, Device PROVE CheckpointRows
    OBVIOUS
  <2>1. \A s \in Slots : toks[s] # None => RowsOf(rows[s], toks[s])
    BY DEF Device, Held, PrefixRows
  <2>2. \A i \in DOMAIN ckpts : ckpts[i] \in ToSet(ckpts)
    BY DEF ToSet
  <2>3. \A i \in DOMAIN ckpts : /\ ckpts[i].pos <= Len(toks[ckpts[i].slot])
                                /\ ckpts[i].st = Prefix(toks[ckpts[i].slot], ckpts[i].pos)
    BY <2>2 DEF Deep, Device, Held, CkptsExact
  <2> QED
    BY <2>1, <2>3 DEF CheckpointRows
<1> QED
  BY TypesHold, DeviceHolds, <1>1, PTL

\* With one of the tiers on: from wherever a prompt resumes, its prefill computes what a
\* fresh one would have (prefill_cached, prefill_range).
THEOREM ResumeExactHolds == ASSUME OneTier, NoTwin PROVE Spec => []ResumeExact
<1>1. Device => ResumeExact
  BY DEF Device, Held, Going, ResumeExact
<1> QED
  BY DeviceHolds, <1>1, PTL
=============================================================================
