--------------------------- MODULE TpServeProofs ---------------------------
(***************************************************************************)
(* That the head and its mirrors stay in lockstep: for any number of       *)
(* ranks, lanes and requests, both admission orders, step-go on or off,    *)
(* and whatever calls fail and processes die.                              *)
(*                                                                         *)
(* Between two meetings each rank goes at its own pace.  The head may be   *)
(* ahead by whole control steps, which the mirror finds in its stream, or  *)
(* behind by events it has shipped and not applied.  What a rank does next *)
(* is a function of its own tables (View), and of a frame where it reads   *)
(* one.  So the invariant says: a mirror's view, fed with the frames in    *)
(* its stream, leads to the head's view (or, with the stream empty, the    *)
(* head's view leads to the mirror's without a frame).  At a meeting no    *)
(* rank has a step of its own, so the two are equal.                       *)
(***************************************************************************)
EXTENDS TpServe, SequenceTheorems, FiniteSetTheorems, WellFoundedInduction, TLAPS

USE DEF NoSlot, Never, Instants

-----------------------------------------------------------------------------
(* What a rank goes by *)

Jobs == [req : Reqs \cup {NoReq}, slot : Slots \cup {NoSlot}, reuse : Nat, left : Nat, quota : Int]
Tables == [Slots -> [req : Reqs \cup {NoReq}, left : Nat]]
Places == {"top", "go", "ship", "recv", "apply", "flag", "seam", "round",
           "stopped", "bailed", "dead", "over"}
Frames == [type : {"step"}, step : Nat, events : Seq(StepEvents)] \cup
          [type : {"flag"}, v : BOOLEAN] \cup [type : {"shutdown"}]

RankViews == [lanes : Tables, cache : [Slots -> Snapshots \cup {NoSnap}],
           rel : [Slots -> [at : Instants, normal : BOOLEAN]], released : Nat,
           step : Int, todo : Seq(StepEvents), pc : Places, job : Jobs]

\* The head has planned a step that the mirrors know nothing of.
Planning(k) == pc[k] \in {"go", "ship"}

\* A rank, with the head's plan left out.
View(k) ==
    [lanes |-> lanes[k], cache |-> cache[k], rel |-> rel[k], released |-> released[k],
     step |-> IF Planning(k) THEN stepNo[k] - 1 ELSE stepNo[k],
     todo |-> IF Planning(k) THEN <<>> ELSE todo[k],
     pc |-> IF pc[k] = "go" THEN "top"
            ELSE IF pc[k] = "ship" THEN (IF FastCtl /\ Live(k) THEN "recv" ELSE "top")
            ELSE pc[k],
     job |-> job[k]]

BusyOf(table) == {s \in Slots : table[s] # FreeLane}
IdleOf(table) == Slots \ BusyOf(table)
SlotViewsOf(v) ==
    [s \in Slots |-> [busy |-> s \in BusyOf(v.lanes), hasSnapshot |-> v.cache[s] # NoSnap,
                      releasedAt |-> v.rel[s].at, normalFinish |-> v.rel[s].normal]]

\* Lanes taken by the admission under way.
Taken(j) == IF j = NoJob THEN 0 ELSE 1

\* Events of a step fit a rank's lanes: cancels, then admits, each of which finds a lane
\* when its turn comes.
Fits(sc, table, events, j) ==
    \E c \in 0..Len(events) :
        /\ \A i \in 1..c : events[i].type = "cancel"
        /\ \A i \in (c + 1)..Len(events) :
            /\ events[i].type = "admit"
            /\ IF sc THEN events[i].allowed # {} /\ events[i].allowed \subseteq IdleOf(table)
                     ELSE events[i].allowed = Slots
        /\ (Len(events) - c) + Taken(j) <=
            IF sc THEN 1 ELSE Cardinality(IdleOf(table) \cup {events[i].lane : i \in 1..c})

\* What a rank knows of its own job, lanes and events at each place.
Fine(sc, v) ==
    /\ \A s \in Slots : v.lanes[s] = FreeLane \/ (v.lanes[s].req \in Reqs /\ v.lanes[s].left > 0)
    /\ v.job = NoJob \/ (v.job.req \in Reqs /\ v.job.slot \in IdleOf(v.lanes))
    /\ v.pc \in {"top", "recv", "apply"} => v.job = NoJob
    /\ v.pc \in {"flag", "seam"} => v.job # NoJob
    /\ v.pc \in {"flag", "round"} => v.job = NoJob \/ v.job.left > 0
    /\ v.pc \in {"top", "recv"} \/ (v.pc = "round" /\ v.job = NoJob) => v.todo = <<>>
    /\ Fits(sc, v.lanes, v.todo, v.job)

\* The prefill of job j goes on: Prefill.
PrefillView(v, j) ==
    [v EXCEPT !.job = [j EXCEPT !.quota = NestedSteps],
              !.pc = IF j.left = 0 THEN "seam"
                     ELSE IF NestedSteps > 0 /\ BusyOf(v.lanes) # {} THEN "round" ELSE "flag",
              !.cache = [v.cache EXCEPT ![j.slot] = IF j.left = 0 THEN SnapOf(j.req) ELSE NoSnap]]

\* ApplyAdmit picks slot s.
AdmitPicks(sc, v, s) ==
    LET r == Head(v.todo).req
        free == IdleOf(v.lanes) \cap Head(v.todo).allowed
        hits == {t \in free : ContinuedBy(v.cache[t], Prompt[r])}
    IN  s \in free /\ IsPickOf(s, hits, free, v.cache, sc, SlotViewsOf(v), Deep[r])

AdmitView(v, s) ==
    LET r == Head(v.todo).req
        hit == ContinuedBy(v.cache[s], Prompt[r])
        reuse == IF hit THEN v.cache[s].len ELSE 0
    IN  PrefillView([v EXCEPT !.todo = Tail(v.todo)],
                    [NoJob EXCEPT !.req = r, !.slot = s, !.reuse = reuse,
                                  !.left = IF reuse > 0 THEN Resumed[r] ELSE Boundaries[r]])

\* A step that needs no frame: an event is applied, or there is none left.
Silent(sc, v, w) ==
    /\ v.pc = "apply"
    /\ \/ v.todo = <<>> /\ w = [v EXCEPT !.pc = IF BusyOf(v.lanes) # {} THEN "round" ELSE "top"]
       \/ /\ v.todo # <<>> /\ Head(v.todo).type = "cancel"
          /\ w = [v EXCEPT !.lanes = [v.lanes EXCEPT ![Head(v.todo).lane] = FreeLane],
                           !.todo = Tail(v.todo)]
       \/ /\ v.todo # <<>> /\ Head(v.todo).type = "admit"
          /\ \E s \in Slots : AdmitPicks(sc, v, s) /\ w = AdmitView(v, s)

\* A step that takes a frame (a mirror) or sends one (the head).
ReadsStep(sc, v, f, w) ==
    /\ f.type = "step" /\ f.step = v.step + 1
    /\ v.pc = "recv" \/ (v.pc = "top" /\ ~(FastCtl /\ BusyOf(v.lanes) # {}))
    /\ Fits(sc, v.lanes, f.events, NoJob)
    /\ w = [v EXCEPT !.step = f.step, !.todo = f.events, !.pc = "apply"]
ReadsFlag(v, f, w) ==
    /\ f.type = "flag" /\ v.pc = "flag"
    /\ w = IF f.v THEN [v EXCEPT !.job = NoJob, !.pc = "apply"]
           ELSE PrefillView(v, [v.job EXCEPT !.left = @ - 1])
ReadsShutdown(v, f, w) ==
    /\ f.type = "shutdown" /\ v.pc = "top" /\ BusyOf(v.lanes) = {}
    /\ w = [v EXCEPT !.pc = "over"]
Reads(sc, v, f, w) == ReadsStep(sc, v, f, w) \/ ReadsFlag(v, f, w) \/ ReadsShutdown(v, f, w)

-----------------------------------------------------------------------------
(* View v, fed with the frames fs, leads to view w: the least relation that  *)
(* holds of no step at all and is closed under one more step at the end.     *)

Trips == RankViews \X Seq(Frames) \X RankViews

Closed(sc, R) ==
    /\ \A v \in RankViews : <<v, <<>>, v>> \in R
    /\ \A v, w, x \in RankViews, fs \in Seq(Frames) :
        <<v, fs, w>> \in R /\ Silent(sc, w, x) => <<v, fs, x>> \in R
    /\ \A v, w, x \in RankViews, fs \in Seq(Frames), f \in Frames :
        <<v, fs, w>> \in R /\ Reads(sc, w, f, x) => <<v, Append(fs, f), x>> \in R

Leads(sc, v, fs, w) == \A R \in SUBSET Trips : Closed(sc, R) => <<v, fs, w>> \in R

\* How a trip begins.
Begins(sc, v, fs, w) ==
    \/ v = w /\ fs = <<>>
    \/ \E x \in RankViews : Silent(sc, v, x) /\ Leads(sc, x, fs, w)
    \/ fs # <<>> /\ \E x \in RankViews : Reads(sc, v, Head(fs), x) /\ Leads(sc, x, Tail(fs), w)

LEMMA LeadsNowhere == ASSUME NEW sc, NEW v \in RankViews PROVE Leads(sc, v, <<>>, v)
BY DEF Leads, Closed

LEMMA LeadsOn ==
    ASSUME NEW sc, NEW v \in RankViews, NEW w \in RankViews, NEW x \in RankViews, NEW fs \in Seq(Frames),
           Leads(sc, v, fs, w), Silent(sc, w, x)
    PROVE  Leads(sc, v, fs, x)
<1> SUFFICES ASSUME NEW R \in SUBSET Trips, Closed(sc, R) PROVE <<v, fs, x>> \in R
  BY DEF Leads
<1>1. <<v, fs, w>> \in R
  BY DEF Leads
<1> QED
  BY <1>1 DEF Closed

LEMMA LeadsFurther ==
    ASSUME NEW sc, NEW v \in RankViews, NEW w \in RankViews, NEW x \in RankViews, NEW fs \in Seq(Frames),
           NEW f \in Frames, Leads(sc, v, fs, w), Reads(sc, w, f, x)
    PROVE  Leads(sc, v, Append(fs, f), x)
<1> SUFFICES ASSUME NEW R \in SUBSET Trips, Closed(sc, R) PROVE <<v, Append(fs, f), x>> \in R
  BY DEF Leads
<1>1. <<v, fs, w>> \in R
  BY DEF Leads
<1> QED
  BY <1>1 DEF Closed

\* A trip has a first step.
LEMMA LeadsBegins ==
    ASSUME NEW sc, NEW v \in RankViews, NEW w \in RankViews, NEW fs \in Seq(Frames), Leads(sc, v, fs, w)
    PROVE  Begins(sc, v, fs, w)
<1> DEFINE R == {t \in Trips : Leads(sc, t[1], t[2], t[3]) /\ Begins(sc, t[1], t[2], t[3])}
<1>1. \A a, b \in RankViews, gs \in Seq(Frames) :
        <<a, gs, b>> \in R <=> Leads(sc, a, gs, b) /\ Begins(sc, a, gs, b)
  BY DEF Trips
<1>2. R \in SUBSET Trips
  OBVIOUS
<1> HIDE DEF R
<1>3. \A a \in RankViews : <<a, <<>>, a>> \in R
  <2>1. <<>> \in Seq(Frames)
    OBVIOUS
  <2> QED
    BY <1>1, <2>1, LeadsNowhere DEF Begins
<1>4. ASSUME NEW a \in RankViews, NEW b \in RankViews, NEW c \in RankViews, NEW gs \in Seq(Frames),
             <<a, gs, b>> \in R, Silent(sc, b, c)
      PROVE  <<a, gs, c>> \in R
  <2>1. Leads(sc, a, gs, b) /\ Begins(sc, a, gs, b)
    BY <1>1, <1>4
  <2>2. Leads(sc, a, gs, c)
    BY <1>4, <2>1, LeadsOn
  <2>3. CASE a = b /\ gs = <<>>
    <3>1. Leads(sc, c, gs, c)
      BY <2>3, LeadsNowhere
    <3> QED
      BY <1>1, <1>4, <2>2, <2>3, <3>1 DEF Begins
  <2>4. CASE \E x \in RankViews : Silent(sc, a, x) /\ Leads(sc, x, gs, b)
    <3>1. \E x \in RankViews : Silent(sc, a, x) /\ Leads(sc, x, gs, c)
      BY <1>4, <2>4, LeadsOn
    <3> QED
      BY <1>1, <2>2, <3>1 DEF Begins
  <2>5. CASE gs # <<>> /\ \E x \in RankViews : Reads(sc, a, Head(gs), x) /\ Leads(sc, x, Tail(gs), b)
    <3>1. Tail(gs) \in Seq(Frames)
      BY <2>5, HeadTailProperties
    <3>2. \E x \in RankViews : Reads(sc, a, Head(gs), x) /\ Leads(sc, x, Tail(gs), c)
      BY <1>4, <2>5, <3>1, LeadsOn
    <3> QED
      BY <1>1, <2>2, <2>5, <3>2 DEF Begins
  <2> QED
    BY <2>1, <2>3, <2>4, <2>5 DEF Begins
<1>5. ASSUME NEW a \in RankViews, NEW b \in RankViews, NEW c \in RankViews, NEW gs \in Seq(Frames),
             NEW f \in Frames, <<a, gs, b>> \in R, Reads(sc, b, f, c)
      PROVE  <<a, Append(gs, f), c>> \in R
  <2>1. Leads(sc, a, gs, b) /\ Begins(sc, a, gs, b)
    BY <1>1, <1>5
  <2>2. Leads(sc, a, Append(gs, f), c)
    BY <1>5, <2>1, LeadsFurther
  <2> DEFINE more == Append(gs, f)
  <2>3. /\ more \in Seq(Frames) /\ more # <<>>
        /\ Head(more) = IF gs = <<>> THEN f ELSE Head(gs)
        /\ Tail(more) = IF gs = <<>> THEN <<>> ELSE Append(Tail(gs), f)
    BY AppendProperties, HeadTailAppend
  <2> HIDE DEF more
  <2>0. Begins(sc, a, more, c) => <<a, more, c>> \in R
    <3>1. Leads(sc, a, more, c)
      BY <2>2 DEF more
    <3> QED
      BY <1>1, <2>3, <3>1
  <2>4. CASE a = b /\ gs = <<>>
    <3>1. Leads(sc, c, <<>>, c)
      BY LeadsNowhere
    <3>2. Reads(sc, a, Head(more), c) /\ Leads(sc, c, Tail(more), c)
      BY <1>5, <2>3, <2>4, <3>1
    <3>3. Begins(sc, a, more, c)
      BY <2>3, <3>2 DEF Begins
    <3> QED
      BY <2>0, <3>3 DEF more
  <2>5. CASE \E x \in RankViews : Silent(sc, a, x) /\ Leads(sc, x, gs, b)
    <3>1. \E x \in RankViews : Silent(sc, a, x) /\ Leads(sc, x, Append(gs, f), c)
      BY <1>5, <2>5, LeadsFurther
    <3>2. Begins(sc, a, more, c)
      BY <3>1 DEF Begins, more
    <3> QED
      BY <2>0, <3>2 DEF more
  <2>6. CASE gs # <<>> /\ \E x \in RankViews : Reads(sc, a, Head(gs), x) /\ Leads(sc, x, Tail(gs), b)
    <3>1. Tail(gs) \in Seq(Frames)
      BY <2>6, HeadTailProperties
    <3>2. \E x \in RankViews : Reads(sc, a, Head(gs), x) /\ Leads(sc, x, Append(Tail(gs), f), c)
      BY <1>5, <2>6, <3>1, LeadsFurther
    <3>3. \E x \in RankViews : Reads(sc, a, Head(more), x) /\ Leads(sc, x, Tail(more), c)
      BY <2>3, <2>6, <3>2
    <3>4. Begins(sc, a, more, c)
      BY <2>3, <3>3 DEF Begins
    <3> QED
      BY <2>0, <3>4 DEF more
  <2> QED
    BY <2>1, <2>4, <2>5, <2>6 DEF Begins
<1>6. Closed(sc, R)
  BY <1>3, <1>4, <1>5 DEF Closed
<1>7. <<v, fs, w>> \in R
  BY <1>2, <1>6 DEF Leads
<1> QED
  BY <1>1, <1>7

-----------------------------------------------------------------------------
(* Slots in order, and queues *)

LEMMA LeastNumber ==
    ASSUME NEW T \in SUBSET Nat, T # {}
    PROVE  \E n \in T : \A m \in T : n <= m
<1>1. PICK n \in T : \A m \in T : ~(<<m, n>> \in OpToRel(<, Nat))
  BY NatLessThanWellFounded, WFMin
<1>2. ASSUME NEW m \in T PROVE n <= m
  <2>1. m \in Nat /\ n \in Nat
    OBVIOUS
  <2>2. ~(m < n)
    BY <1>1, <2>1 DEF OpToRel
  <2> QED
    BY <2>1, <2>2
<1> QED
  BY <1>2

LEMMA SlotSets ==
    ASSUME NEW S \in SUBSET Slots
    PROVE  /\ IsFiniteSet(S) /\ Cardinality(S) \in Nat /\ S \subseteq Nat
           /\ S = {} <=> Cardinality(S) = 0
<1>1. IsFiniteSet(S) /\ S \subseteq Nat
  BY PolicyAssumption, FS_Subset
<1> QED
  BY <1>1, FS_CardinalityType, FS_EmptySet

Ordered(S, q) ==
    q \in [1..Cardinality(S) -> S] /\ \A i, j \in DOMAIN q : i < j => q[i] < q[j]

\* Any set of slots can be put in order: else take the smallest that cannot, and take its
\* least slot away.
LEMMA OrderExists == ASSUME NEW S \in SUBSET Slots PROVE \E q : Ordered(S, q)
<1> DEFINE Bad == {T \in SUBSET Slots : ~ \E q : Ordered(T, q)}
           sizes == {Cardinality(T) : T \in Bad}
<1> SUFFICES ASSUME Bad # {} PROVE FALSE
  OBVIOUS
<1>1. sizes \in SUBSET Nat /\ sizes # {}
  BY SlotSets
<1>2. PICK T \in Bad : \A U \in Bad : Cardinality(T) <= Cardinality(U)
  <2>1. PICK n \in sizes : \A m \in sizes : n <= m
    <3> HIDE DEF sizes
    <3> QED
      BY <1>1, LeastNumber
  <2> QED
    BY <2>1
<1> DEFINE N == Cardinality(T)
<1>3. IsFiniteSet(T) /\ N \in Nat /\ T \subseteq Nat /\ (T = {} <=> N = 0)
  BY SlotSets
<1>4. T # {}
  <2> SUFFICES ASSUME T = {} PROVE FALSE
    OBVIOUS
  <2>1. 1..N = {}
    BY <1>3
  <2>2. Ordered(T, [i \in 1..N |-> 0])
    BY <2>1 DEF Ordered
  <2> QED
    BY <2>2
<1>5. PICK m \in T : \A t \in T : m <= t
  BY <1>3, <1>4, LeastNumber
<1> DEFINE U == T \ {m}
<1>6. Cardinality(U) = N - 1 /\ U \in SUBSET Slots
  BY <1>3, FS_RemoveElement
<1>7. PICK p : Ordered(U, p)
  <2>1. N - 1 \in Nat /\ N \in Nat /\ ~(N <= N - 1)
    BY <1>3, <1>4
  <2>2. U \notin Bad
    BY <1>2, <1>6, <2>1
  <2> QED
    BY <1>6, <2>2
<1> HIDE DEF N, U
<1>8. N \in Nat /\ N # 0
  BY <1>3, <1>4
<1>9. p \in [1..(N - 1) -> U] /\ \A i, j \in 1..(N - 1) : i < j => p[i] < p[j]
  BY <1>6, <1>7, <1>8 DEF Ordered
<1> DEFINE q == [i \in 1..N |-> IF i = 1 THEN m ELSE p[i - 1]]
<1>10. \A i \in 1..N : i # 1 => i - 1 \in 1..(N - 1) /\ p[i - 1] \in U
  <2>1. \A i \in 1..N : i # 1 => i - 1 \in 1..(N - 1)
    BY <1>8
  <2> QED
    BY <1>9, <2>1
<1>11. U \subseteq T /\ \A t \in U : t \in Nat /\ m \in Nat /\ m < t
  BY <1>3, <1>5 DEF U
<1>12. q \in [1..N -> T]
  BY <1>10, <1>11
<1>13. ASSUME NEW i \in 1..N, NEW j \in 1..N, i < j PROVE q[i] < q[j]
  <2>1. j # 1 /\ q[j] = p[j - 1] /\ j - 1 \in 1..(N - 1)
    BY <1>8, <1>10, <1>13
  <2>2. CASE i = 1
    BY <1>10, <1>11, <2>1, <2>2
  <2>3. CASE i # 1
    <3>1. q[i] = p[i - 1] /\ i - 1 \in 1..(N - 1) /\ i - 1 < j - 1
      BY <1>8, <1>10, <1>13, <2>3
    <3> QED
      BY <1>9, <2>1, <3>1
  <2> QED
    BY <2>2, <2>3
<1>14. Ordered(T, q)
  <2>1. DOMAIN q = 1..N
    OBVIOUS
  <2> HIDE DEF q
  <2> QED
    BY <1>12, <1>13, <2>1 DEF Ordered, N
<1> QED
  BY <1>14

\* InOrder lists the members of a set of slots.
LEMMA InOrderLists ==
    ASSUME NEW S \in SUBSET Slots
    PROVE  /\ InOrder(S) \in [1..Cardinality(S) -> S]
           /\ S = {InOrder(S)[i] : i \in 1..Cardinality(S)}
<1> DEFINE q == InOrder(S)
           N == Cardinality(S)
<1>1. IsFiniteSet(S) /\ N \in Nat /\ S \subseteq Nat
  BY SlotSets
<1>2. Ordered(S, q)
  BY OrderExists DEF Ordered, InOrder
<1> HIDE DEF q
<1>3. q \in [1..N -> S] /\ \A i, j \in 1..N : i < j => q[i] < q[j]
  BY <1>2 DEF Ordered
<1>4. ASSUME NEW i \in 1..N, NEW j \in 1..N, q[i] = q[j] PROVE i = j
  <2> HIDE DEF N
  <2>1. q[i] \in Nat /\ q[j] \in Nat
    BY <1>1, <1>3
  <2>2. ~(q[i] < q[j]) /\ ~(q[j] < q[i])
    BY <1>4, <2>1
  <2>3. i \in Int /\ j \in Int
    BY <1>1
  <2> QED
    BY <1>3, <2>2, <2>3
<1>5. q \in Injection(1..N, S)
  BY <1>3, <1>4 DEF Injection, IsInjective
<1>6. Cardinality(1..N) = N
  BY <1>1, FS_Interval
<1>7. q \in Surjection(1..N, S)
  BY <1>1, <1>5, <1>6, FS_Injection
<1>8. S = {q[i] : i \in 1..N}
  BY <1>3, <1>7 DEF Surjection
<1> QED
  BY <1>3, <1>8 DEF q

-----------------------------------------------------------------------------
(* A rank's step is a function of its view *)

LEMMA PickUnique ==
    ASSUME NEW free \in SUBSET Slots, NEW hits \in SUBSET free, NEW snaps, NEW sc, NEW views,
           NEW deep, NEW s, NEW t,
           \A u \in hits : snaps[u].len \in Nat,
           \A u \in free : views[u].releasedAt \in Instants,
           IsPickOf(s, hits, free, snaps, sc, views, deep),
           IsPickOf(t, hits, free, snaps, sc, views, deep)
    PROVE  s = t
<1>1. free \subseteq Nat /\ hits \subseteq Nat
  BY PolicyAssumption
<1>2. ASSUME NEW set \in SUBSET Nat, IsLowest(s, set), IsLowest(t, set) PROVE s = t
  BY <1>2 DEF IsLowest
<1>3. ASSUME NEW set \in SUBSET Nat, IsHighest(s, set), IsHighest(t, set) PROVE s = t
  BY <1>3 DEF IsHighest
<1>4. CASE hits # {}
  <2>1. IsLongest(s, hits, snaps) /\ IsLongest(t, hits, snaps)
    BY <1>4 DEF IsPickOf
  <2>2. s \in Nat /\ t \in Nat /\ snaps[s].len \in Nat /\ snaps[t].len \in Nat
    BY <1>1, <2>1 DEF IsLongest
  <2> QED
    BY <2>1, <2>2 DEF IsLongest
<1>5. CASE hits = {} /\ sc
  <2>1. IsVictim(s, free, views, deep) /\ IsVictim(t, free, views, deep)
    BY <1>5 DEF IsPickOf
  <2> DEFINE empty == {u \in free : ~views[u].hasSnapshot}
  <2>2. CASE empty # {}
    <3>1. IsLowest(s, empty) /\ IsLowest(t, empty)
      BY <2>1, <2>2 DEF IsVictim
    <3> QED
      BY <1>1, <1>2, <3>1
  <2>3. CASE empty = {} /\ deep \cap free # {}
    <3>1. IsHighest(s, deep \cap free) /\ IsHighest(t, deep \cap free)
      BY <2>1, <2>3 DEF IsVictim
    <3> QED
      BY <1>1, <1>3, <3>1
  <2>4. CASE empty = {} /\ deep \cap free = {}
    <3>1. IsLeastRecent(s, free, views) /\ IsLeastRecent(t, free, views)
      BY <2>1, <2>4 DEF IsVictim
    <3>2. s \in Nat /\ t \in Nat /\ views[s].releasedAt \in Int /\ views[t].releasedAt \in Int
      BY <1>1, <3>1 DEF IsLeastRecent
    <3> QED
      BY <3>1, <3>2 DEF IsLeastRecent
  <2> QED
    BY <2>2, <2>3, <2>4
<1>6. CASE hits = {} /\ ~sc
  <2> DEFINE empty == {u \in free : snaps[u] = NoSnap}
  <2>1. CASE deep \cap free # {}
    <3>1. IsHighest(s, deep \cap free) /\ IsHighest(t, deep \cap free)
      BY <1>6, <2>1 DEF IsPickOf
    <3> QED
      BY <1>1, <1>3, <3>1
  <2>2. CASE deep \cap free = {} /\ empty # {}
    <3>1. IsLowest(s, empty) /\ IsLowest(t, empty)
      BY <1>6, <2>2 DEF IsPickOf
    <3> QED
      BY <1>1, <1>2, <3>1
  <2>3. CASE deep \cap free = {} /\ empty = {}
    <3>1. IsLowest(s, free) /\ IsLowest(t, free)
      BY <1>6, <2>3 DEF IsPickOf
    <3> QED
      BY <1>1, <1>2, <3>1
  <2> QED
    BY <2>1, <2>2, <2>3
<1> QED
  BY <1>4, <1>5, <1>6

LEMMA SilentUnique ==
    ASSUME NEW sc, NEW v \in RankViews, NEW w, NEW x, Silent(sc, v, w), Silent(sc, v, x)
    PROVE  w = x
<1>1. CASE v.todo = <<>>
  BY <1>1 DEF Silent
<1>2. CASE v.todo # <<>> /\ Head(v.todo).type = "cancel"
  BY <1>2 DEF Silent
<1>3. CASE v.todo # <<>> /\ Head(v.todo).type = "admit"
  <2> DEFINE free == IdleOf(v.lanes) \cap Head(v.todo).allowed
             hits == {t \in free : ContinuedBy(v.cache[t], Prompt[Head(v.todo).req])}
             deep == Deep[Head(v.todo).req]
  <2>1. PICK s \in Slots : AdmitPicks(sc, v, s) /\ w = AdmitView(v, s)
    BY <1>3 DEF Silent
  <2>2. PICK t \in Slots : AdmitPicks(sc, v, t) /\ x = AdmitView(v, t)
    BY <1>3 DEF Silent
  <2>3. free \in SUBSET Slots /\ hits \in SUBSET free
    BY DEF IdleOf
  <2>4. \A u \in hits : v.cache[u].len \in Nat
    BY <2>3 DEF RankViews, ContinuedBy, Snapshots
  <2>5. \A u \in free : SlotViewsOf(v)[u].releasedAt \in Instants
    BY <2>3 DEF RankViews, SlotViewsOf
  <2>6. /\ IsPickOf(s, hits, free, v.cache, sc, SlotViewsOf(v), deep)
        /\ IsPickOf(t, hits, free, v.cache, sc, SlotViewsOf(v), deep)
    BY <2>1, <2>2 DEF AdmitPicks
  <2>7. s = t
    <3> HIDE DEF free, hits, deep
    <3> QED
      BY <2>3, <2>4, <2>5, <2>6, PickUnique
  <2> QED
    BY <2>1, <2>2, <2>7
<1> QED
  BY <1>1, <1>2, <1>3 DEF Silent

LEMMA ReadsUnique ==
    ASSUME NEW sc, NEW v, NEW f, NEW w, NEW x, Reads(sc, v, f, w), Reads(sc, v, f, x)
    PROVE  w = x
BY DEF Reads, ReadsStep, ReadsFlag, ReadsShutdown
-----------------------------------------------------------------------------
(* Events that fit *)

LEMMA RoomLeft ==
    ASSUME NEW table, NEW lanesCut \in SUBSET Slots
    PROVE  /\ Cardinality(IdleOf(table) \cup lanesCut) \in Nat
           /\ IsFiniteSet(IdleOf(table) \cup lanesCut)
           /\ IdleOf(table) \cup lanesCut \in SUBSET Slots
<1>1. IdleOf(table) \cup lanesCut \in SUBSET Slots
  BY DEF IdleOf
<1> QED
  BY <1>1, SlotSets

\* The lanes cut by the first events.
CutBy(events, c) == {events[i].lane : i \in 1..c}

\* Fits, for a known number of cancels.
FitsAfter(sc, table, events, j, c) ==
    /\ \A i \in 1..c : events[i].type = "cancel"
    /\ \A i \in (c + 1)..Len(events) :
        /\ events[i].type = "admit"
        /\ IF sc THEN events[i].allowed # {} /\ events[i].allowed \subseteq IdleOf(table)
                 ELSE events[i].allowed = Slots
    /\ (Len(events) - c) + Taken(j) <=
        IF sc THEN 1 ELSE Cardinality(IdleOf(table) \cup CutBy(events, c))

LEMMA FitsIs ==
    ASSUME NEW sc, NEW table, NEW events, NEW j
    PROVE  Fits(sc, table, events, j) <=> \E c \in 0..Len(events) : FitsAfter(sc, table, events, j, c)
BY DEF Fits, FitsAfter, CutBy

LEMMA CutSlots ==
    ASSUME NEW events \in Seq(StepEvents), NEW c \in 0..Len(events),
           \A i \in 1..c : events[i].type = "cancel"
    PROVE  CutBy(events, c) \in SUBSET Slots
<1> SUFFICES ASSUME NEW i \in 1..c PROVE events[i].lane \in Slots
  BY DEF CutBy
<1>1. i \in 1..Len(events) /\ events[i] \in StepEvents
  OBVIOUS
<1>2. events[i].type = "cancel"
  OBVIOUS
<1> QED
  BY <1>1, <1>2 DEF StepEvents

\* More free lanes, or the admission under way over: what fitted still fits.
LEMMA FitsMore ==
    ASSUME NEW sc, NEW table, NEW table2, NEW events \in Seq(StepEvents), NEW j, NEW j2,
           Fits(sc, table, events, j), IdleOf(table) \subseteq IdleOf(table2), Taken(j2) <= Taken(j)
    PROVE  Fits(sc, table2, events, j2)
<1>1. PICK c \in 0..Len(events) : FitsAfter(sc, table, events, j, c)
  BY FitsIs
<1>2. CutBy(events, c) \in SUBSET Slots
  BY <1>1, CutSlots DEF FitsAfter
<1> DEFINE old == IdleOf(table) \cup CutBy(events, c)
           new == IdleOf(table2) \cup CutBy(events, c)
<1>3. Cardinality(old) \in Nat /\ Cardinality(new) \in Nat /\ IsFiniteSet(new) /\ old \subseteq new
  BY <1>2, RoomLeft
<1>4. Cardinality(old) <= Cardinality(new)
  BY <1>3, FS_Subset
<1>5. Taken(j) \in Nat /\ Taken(j2) \in Nat /\ Len(events) - c \in Int
  BY DEF Taken
<1>6. FitsAfter(sc, table2, events, j2, c)
  <2>1. (Len(events) - c) + Taken(j) <= IF sc THEN 1 ELSE Cardinality(old)
    BY <1>1 DEF FitsAfter
  <2>2. (Len(events) - c) + Taken(j2) <= IF sc THEN 1 ELSE Cardinality(new)
    <3> HIDE DEF old, new
    <3> QED
      BY <1>3, <1>4, <1>5, <2>1
  <2> QED
    BY <1>1, <2>2 DEF FitsAfter
<1> QED
  BY <1>6, FitsIs

\* The job becomes a lane.
LEMMA FitsSeam ==
    ASSUME NEW sc, NEW table \in Tables, NEW events \in Seq(StepEvents), NEW j, NEW slot \in Slots, NEW lane,
           j # NoJob, Fits(sc, table, events, j)
    PROVE  Fits(sc, [table EXCEPT ![slot] = lane], events, NoJob)
<1> DEFINE table2 == [table EXCEPT ![slot] = lane]
<1>1. PICK c \in 0..Len(events) : FitsAfter(sc, table, events, j, c)
  BY FitsIs
<1>2. CutBy(events, c) \in SUBSET Slots
  BY <1>1, CutSlots DEF FitsAfter
<1>3. IdleOf(table) \ {slot} \subseteq IdleOf(table2)
  BY DEF IdleOf, BusyOf, Tables
<1> DEFINE old == IdleOf(table) \cup CutBy(events, c)
           new == IdleOf(table2) \cup CutBy(events, c)
<1>4. Cardinality(old) \in Nat /\ Cardinality(new) \in Nat /\ IsFiniteSet(new) /\ IsFiniteSet(old)
      /\ old \ {slot} \subseteq new
  BY <1>2, <1>3, RoomLeft
<1>5. Cardinality(old) <= Cardinality(new) + 1
  <2> HIDE DEF old, new
  <2>0. Cardinality(old \ {slot}) = IF slot \in old THEN Cardinality(old) - 1 ELSE Cardinality(old)
    BY <1>4, FS_RemoveElement
  <2>1. Cardinality(old \ {slot}) >= Cardinality(old) - 1
    BY <1>4, <2>0
  <2>2. Cardinality(old \ {slot}) <= Cardinality(new) /\ Cardinality(old \ {slot}) \in Nat
    BY <1>4, FS_Subset, FS_CardinalityType
  <2> QED
    BY <1>4, <2>1, <2>2
<1>6. Taken(j) = 1 /\ Taken(NoJob) = 0 /\ Len(events) - c \in Nat
  BY DEF Taken
<1>7. (Len(events) - c) + Taken(j) <= IF sc THEN 1 ELSE Cardinality(old)
  BY <1>1 DEF FitsAfter
<1>8. (Len(events) - c) + Taken(NoJob) <= IF sc THEN 1 ELSE Cardinality(new)
  <2> HIDE DEF old, new, table2
  <2> QED
    BY <1>4, <1>5, <1>6, <1>7
<1>9. sc => c + 1 > Len(events)
  BY <1>6, <1>7
<1>10. FitsAfter(sc, table2, events, NoJob, c)
  <2>1. \A i \in (c + 1)..Len(events) :
            events[i].type = "admit" /\ ~sc /\ events[i].allowed = Slots
    BY <1>1, <1>9 DEF FitsAfter
  <2> HIDE DEF table2
  <2> QED
    BY <1>1, <1>8, <2>1 DEF FitsAfter
<1> QED
  BY <1>10, FitsIs
\* A cancel is applied.
LEMMA FitsCancel ==
    ASSUME NEW sc, NEW table \in Tables, NEW events \in Seq(StepEvents), NEW j,
           events # <<>>, Head(events).type = "cancel", Fits(sc, table, events, j)
    PROVE  Fits(sc, [table EXCEPT ![Head(events).lane] = FreeLane], Tail(events), j)
<1> DEFINE cut == Head(events).lane
           table2 == [table EXCEPT ![cut] = FreeLane]
           rest == Tail(events)
<1>1. PICK c \in 0..Len(events) : FitsAfter(sc, table, events, j, c)
  BY FitsIs
<1>2. /\ rest \in Seq(StepEvents) /\ Len(rest) = Len(events) - 1 /\ Len(events) \in Nat \ {0}
      /\ \A i \in 1..Len(rest) : rest[i] = events[i + 1]
      /\ Head(events) = events[1]
  BY HeadTailProperties, EmptySeq
<1>3. c # 0
  <2> SUFFICES ASSUME c = 0 PROVE FALSE
    OBVIOUS
  <2>1. 1 \in (c + 1)..Len(events)
    BY <1>2
  <2> QED
    BY <1>1, <1>2, <2>1 DEF FitsAfter
<1>4. /\ c - 1 \in 0..Len(rest)
      /\ \A i \in 1..(c - 1) : i + 1 \in 1..c /\ rest[i] = events[i + 1]
      /\ \A i \in (c - 1 + 1)..Len(rest) : i + 1 \in (c + 1)..Len(events) /\ rest[i] = events[i + 1]
      /\ Len(rest) - (c - 1) = Len(events) - c
  BY <1>2, <1>3
<1>5. cut \in Slots
  <2>1. events[1] \in StepEvents /\ events[1].type = "cancel"
    BY <1>2
  <2> QED
    BY <1>2, <2>1 DEF StepEvents
<1>6. IdleOf(table) \cup {cut} \subseteq IdleOf(table2)
  BY <1>5 DEF IdleOf, BusyOf, Tables
<1>7. CutBy(events, c) \subseteq {cut} \cup CutBy(rest, c - 1)
  <2> SUFFICES ASSUME NEW i \in 1..c PROVE events[i].lane \in {cut} \cup CutBy(rest, c - 1)
    BY DEF CutBy
  <2>1. CASE i = 1
    BY <1>2, <2>1
  <2>2. CASE i # 1
    <3>1. i - 1 \in 1..(c - 1) /\ (i - 1) + 1 = i
      BY <2>2
    <3>2. rest[i - 1] = events[i]
      BY <1>4, <3>1
    <3> QED
      BY <3>1, <3>2 DEF CutBy
  <2> QED
    BY <2>1, <2>2
<1>8. \A i \in 1..(c - 1) : rest[i].type = "cancel"
  BY <1>1, <1>4 DEF FitsAfter
<1>9. CutBy(rest, c - 1) \in SUBSET Slots
  <2> HIDE DEF rest
  <2> QED
    BY <1>2, <1>4, <1>8, CutSlots
<1>9a. CutBy(events, c) \in SUBSET Slots
  BY <1>1, CutSlots DEF FitsAfter
<1> DEFINE old == IdleOf(table) \cup CutBy(events, c)
           new == IdleOf(table2) \cup CutBy(rest, c - 1)
<1>10. Cardinality(old) <= Cardinality(new) /\ Cardinality(old) \in Nat /\ Cardinality(new) \in Nat
  <2>1. IsFiniteSet(new) /\ Cardinality(new) \in Nat /\ Cardinality(old) \in Nat /\ old \subseteq new
    BY <1>6, <1>7, <1>9, <1>9a, RoomLeft
  <2> HIDE DEF old, new
  <2> QED
    BY <2>1, FS_Subset
<1>11. (Len(rest) - (c - 1)) + Taken(j) <= IF sc THEN 1 ELSE Cardinality(new)
  <2>1. (Len(events) - c) + Taken(j) <= IF sc THEN 1 ELSE Cardinality(old)
    BY <1>1 DEF FitsAfter
  <2>2. Taken(j) \in Nat /\ Len(events) - c \in Int
    BY <1>2 DEF Taken
  <2> HIDE DEF old, new, rest
  <2> QED
    BY <1>4, <1>10, <2>1, <2>2
<1>12. ASSUME NEW i \in (c - 1 + 1)..Len(rest)
       PROVE  /\ rest[i].type = "admit"
              /\ IF sc THEN rest[i].allowed # {} /\ rest[i].allowed \subseteq IdleOf(table2)
                       ELSE rest[i].allowed = Slots
  <2>1. i + 1 \in (c + 1)..Len(events) /\ rest[i] = events[i + 1]
    BY <1>4
  <2> HIDE DEF rest, table2
  <2> QED
    BY <1>1, <1>6, <2>1 DEF FitsAfter
<1>13. FitsAfter(sc, table2, rest, j, c - 1)
  <2> HIDE DEF rest, table2
  <2> QED
    BY <1>8, <1>11, <1>12 DEF FitsAfter
<1> QED
  BY <1>4, <1>13, FitsIs

\* An admit finds a lane, and the events after it still fit.
LEMMA FitsAdmit ==
    ASSUME NEW sc, NEW table \in Tables, NEW events \in Seq(StepEvents), NEW j,
           events # <<>>, Head(events).type = "admit", Fits(sc, table, events, NoJob)
    PROVE  /\ IdleOf(table) \cap Head(events).allowed # {}
           /\ Fits(sc, table, Tail(events), j)
<1> DEFINE rest == Tail(events)
<1>1. PICK c \in 0..Len(events) : FitsAfter(sc, table, events, NoJob, c)
  BY FitsIs
<1>2. /\ rest \in Seq(StepEvents) /\ Len(rest) = Len(events) - 1 /\ Len(events) \in Nat \ {0}
      /\ \A i \in 1..Len(rest) : rest[i] = events[i + 1]
      /\ Head(events) = events[1]
  BY HeadTailProperties, EmptySeq
<1>3. c = 0
  <2> SUFFICES ASSUME c # 0 PROVE FALSE
    OBVIOUS
  <2>1. 1 \in 1..c
    OBVIOUS
  <2> QED
    BY <1>1, <1>2, <2>1 DEF FitsAfter
<1>4. CutBy(events, 0) = {} /\ CutBy(rest, 0) = {}
  BY DEF CutBy
<1> DEFINE idle == Cardinality(IdleOf(table))
<1>5. idle \in Nat /\ (idle = 0 <=> IdleOf(table) = {}) /\ IdleOf(table) \in SUBSET Slots
  BY SlotSets DEF IdleOf
<1>6. Taken(NoJob) = 0 /\ Taken(j) <= 1 /\ Taken(j) \in Nat
  BY DEF Taken
<1>7. Len(events) <= IF sc THEN 1 ELSE idle
  <2>1. IdleOf(table) \cup CutBy(events, 0) = IdleOf(table)
    BY <1>4
  <2>2. (Len(events) - 0) + 0 <= IF sc THEN 1 ELSE idle
    BY <1>1, <1>3, <1>6, <2>1 DEF FitsAfter
  <2> QED
    BY <1>2, <2>2
<1>8. 1 \in (0 + 1)..Len(events)
  BY <1>2
<1>9. IF sc THEN events[1].allowed # {} /\ events[1].allowed \subseteq IdleOf(table)
            ELSE events[1].allowed = Slots
  BY <1>1, <1>3, <1>8 DEF FitsAfter
<1>10. IdleOf(table) \cap Head(events).allowed # {}
  <2>1. ~sc => idle # 0
    BY <1>2, <1>5, <1>7
  <2> QED
    BY <1>2, <1>5, <1>9, <2>1
<1>11. FitsAfter(sc, table, rest, j, 0)
  <2>1. (Len(rest) - 0) + Taken(j) <= IF sc THEN 1 ELSE idle
    BY <1>2, <1>5, <1>6, <1>7
  <2>2. IdleOf(table) \cup CutBy(rest, 0) = IdleOf(table)
    BY <1>4
  <2>3. ASSUME NEW i \in (0 + 1)..Len(rest)
        PROVE  /\ rest[i].type = "admit"
               /\ IF sc THEN rest[i].allowed # {} /\ rest[i].allowed \subseteq IdleOf(table)
                        ELSE rest[i].allowed = Slots
    <3>1. i + 1 \in (0 + 1)..Len(events) /\ rest[i] = events[i + 1]
      BY <1>2
    <3> HIDE DEF rest
    <3> QED
      BY <1>1, <1>3, <3>1 DEF FitsAfter
  <2> HIDE DEF rest, idle
  <2>4. \A i \in 1..0 : rest[i].type = "cancel"
    OBVIOUS
  <2> QED
    BY <2>1, <2>2, <2>3, <2>4 DEF FitsAfter, idle
<1>12. 0 \in 0..Len(rest)
  BY <1>2
<1> QED
  BY <1>10, <1>11, <1>12, FitsIs
-----------------------------------------------------------------------------
(* A step of a rank keeps its view fine *)

LEMMA NoJobType == NoJob \in Jobs /\ \A j \in Jobs : j.req \in Reqs => j # NoJob
BY TpAssumption DEF Jobs, NoJob

LEMMA PrefillFine ==
    ASSUME NEW sc, NEW v \in RankViews, NEW j \in Jobs,
           \A s \in Slots : v.lanes[s] = FreeLane \/ (v.lanes[s].req \in Reqs /\ v.lanes[s].left > 0),
           j.req \in Reqs, j.slot \in IdleOf(v.lanes), Fits(sc, v.lanes, v.todo, j)
    PROVE  PrefillView(v, j) \in RankViews /\ Fine(sc, PrefillView(v, j))
<1> DEFINE w == PrefillView(v, j)
           j2 == [j EXCEPT !.quota = NestedSteps]
           c2 == [v.cache EXCEPT ![j.slot] = IF j.left = 0 THEN SnapOf(j.req) ELSE NoSnap]
           p2 == IF j.left = 0 THEN "seam"
                 ELSE IF NestedSteps > 0 /\ BusyOf(v.lanes) # {} THEN "round" ELSE "flag"
<1>1. j2 \in Jobs /\ j2.req = j.req /\ j2.slot = j.slot /\ j2.left = j.left
  BY TpAssumption DEF Jobs
<1>2. c2 \in [Slots -> Snapshots \cup {NoSnap}]
  <2>1. SnapOf(j.req) \in Snapshots
    BY TpAssumption DEF SnapOf, Snapshots
  <2>2. v.cache \in [Slots -> Snapshots \cup {NoSnap}]
    BY DEF RankViews
  <2> QED
    BY <2>1, <2>2
<1>3. p2 \in Places /\ p2 \in {"seam", "round", "flag"} /\ (p2 # "seam" => j.left # 0)
  BY DEF Places
<1> HIDE DEF j2, c2, p2
<1>4. w = [v EXCEPT !.job = j2, !.pc = p2, !.cache = c2]
  BY DEF PrefillView, j2, c2, p2
<1>5. /\ w \in RankViews /\ w.lanes = v.lanes /\ w.todo = v.todo
      /\ w.job = j2 /\ w.pc = p2
  <2>1. j2 \in [req : Reqs \cup {NoReq}, slot : Slots \cup {NoSlot}, reuse : Nat, left : Nat, quota : Int]
    BY <1>1 DEF Jobs
  <2> QED
    BY <1>1, <1>2, <1>3, <1>4 DEF RankViews
<1>6. j2 # NoJob /\ j # NoJob
  BY <1>1, NoJobType
<1>7. Fits(sc, w.lanes, w.todo, w.job)
  <2>1. Taken(j2) <= Taken(j)
    BY <1>6 DEF Taken
  <2>2. v.todo \in Seq(StepEvents)
    BY DEF RankViews
  <2> QED
    BY <1>5, <2>1, <2>2, FitsMore
<1>8. j.left \in Nat
  BY DEF Jobs
<1> HIDE DEF w
<1>9. Fine(sc, w)
  BY <1>1, <1>3, <1>5, <1>6, <1>7, <1>8 DEF Fine
<1> QED
  BY <1>5, <1>9 DEF w

LEMMA SilentFine ==
    ASSUME NEW sc, NEW v \in RankViews, NEW w, Fine(sc, v), Silent(sc, v, w)
    PROVE  w \in RankViews /\ Fine(sc, w)
<1>1. v.pc = "apply" /\ v.job = NoJob
  BY DEF Silent, Fine
<1>2. v.todo \in Seq(StepEvents) /\ v.lanes \in Tables
  BY DEF RankViews
<1>3. CASE v.todo = <<>> /\ w = [v EXCEPT !.pc = IF BusyOf(v.lanes) # {} THEN "round" ELSE "top"]
  <2> DEFINE p2 == IF BusyOf(v.lanes) # {} THEN "round" ELSE "top"
  <2>1. p2 \in Places /\ p2 \in {"round", "top"}
    BY DEF Places
  <2> HIDE DEF p2
  <2>2. w = [v EXCEPT !.pc = p2]
    BY <1>3 DEF p2
  <2>3. w \in RankViews /\ w.lanes = v.lanes /\ w.todo = v.todo /\ w.job = v.job /\ w.pc = p2
    BY <2>1, <2>2 DEF RankViews
  <2> QED
    BY <1>1, <1>3, <2>1, <2>3 DEF Fine
<1>4. CASE /\ v.todo # <<>> /\ Head(v.todo).type = "cancel"
           /\ w = [v EXCEPT !.lanes = [v.lanes EXCEPT ![Head(v.todo).lane] = FreeLane],
                           !.todo = Tail(v.todo)]
  <2> DEFINE cut == Head(v.todo).lane
             l2 == [v.lanes EXCEPT ![cut] = FreeLane]
             t2 == Tail(v.todo)
  <2>1. t2 \in Seq(StepEvents)
    BY <1>2, <1>4, HeadTailProperties
  <2>2. l2 \in Tables
    <3>1. FreeLane \in [req : Reqs \cup {NoReq}, left : Nat]
      BY DEF FreeLane
    <3> QED
      BY <1>2, <3>1 DEF Tables
  <2>3. Fits(sc, l2, t2, v.job)
    BY <1>2, <1>4, FitsCancel DEF Fine
  <2>4. \A s \in Slots : l2[s] = FreeLane \/ l2[s] = v.lanes[s]
    BY <1>2 DEF Tables
  <2> HIDE DEF l2, t2
  <2>5. w \in RankViews /\ w.lanes = l2 /\ w.todo = t2 /\ w.job = v.job /\ w.pc = v.pc
    BY <1>4, <2>1, <2>2 DEF RankViews, l2, t2
  <2> QED
    BY <1>1, <2>3, <2>4, <2>5 DEF Fine
<1>5. CASE v.todo # <<>> /\ Head(v.todo).type = "admit"
  <2>1. PICK s \in Slots : AdmitPicks(sc, v, s) /\ w = AdmitView(v, s)
    BY <1>5 DEF Silent
  <2> DEFINE r == Head(v.todo).req
             reuse == IF ContinuedBy(v.cache[s], Prompt[r]) THEN v.cache[s].len ELSE 0
             left == IF reuse > 0 THEN Resumed[r] ELSE Boundaries[r]
             j == [NoJob EXCEPT !.req = r, !.slot = s, !.reuse = reuse, !.left = left]
             u == [v EXCEPT !.todo = Tail(v.todo)]
  <2>2. r \in Reqs
    <3>1. Head(v.todo) \in StepEvents
      BY <1>2, <1>5, HeadTailProperties
    <3> QED
      BY <1>5, <3>1 DEF StepEvents
  <2>3. reuse \in Nat
    BY DEF RankViews, ContinuedBy, Snapshots
  <2>4. left \in Nat
    BY <2>2, TpAssumption
  <2>5. j \in Jobs /\ j.req = r /\ j.slot = s
    <3> HIDE DEF left, reuse, r
    <3>1. /\ r \in Reqs \cup {NoReq} /\ s \in Slots \cup {NoSlot} /\ reuse \in Nat /\ left \in Nat
          /\ NoJob \in Jobs
      BY <2>2, <2>3, <2>4, NoJobType
    <3> QED
      BY <3>1 DEF Jobs
  <2>6. Tail(v.todo) \in Seq(StepEvents)
    BY <1>2, <1>5, HeadTailProperties
  <2>7. u \in RankViews /\ u.lanes = v.lanes /\ u.todo = Tail(v.todo)
    BY <2>6 DEF RankViews
  <2>8. s \in IdleOf(v.lanes)
    BY <2>1 DEF AdmitPicks
  <2>9. Fits(sc, u.lanes, u.todo, j)
    BY <1>1, <1>2, <1>5, <2>7, FitsAdmit DEF Fine
  <2>10. w = PrefillView(u, j)
    BY <2>1 DEF AdmitView
  <2>11. \A t \in Slots : u.lanes[t] = FreeLane \/ (u.lanes[t].req \in Reqs /\ u.lanes[t].left > 0)
    BY <2>7 DEF Fine
  <2> HIDE DEF u, j, r
  <2> QED
    BY <2>2, <2>5, <2>7, <2>8, <2>9, <2>10, <2>11, PrefillFine
<1> QED
  BY <1>3, <1>4, <1>5 DEF Silent

LEMMA ReadsFine ==
    ASSUME NEW sc, NEW v \in RankViews, NEW f \in Frames, NEW w, Fine(sc, v), Reads(sc, v, f, w)
    PROVE  w \in RankViews /\ Fine(sc, w)
<1>1. CASE ReadsStep(sc, v, f, w)
  <2>0. f.type = "step"
    BY <1>1 DEF ReadsStep
  <2>1. f.step \in Nat /\ f.events \in Seq(StepEvents)
    <3> HIDE <1>1
    <3> QED
      BY <2>0 DEF Frames
  <2>2. w = [v EXCEPT !.step = f.step, !.todo = f.events, !.pc = "apply"]
    BY <1>1 DEF ReadsStep
  <2>3. w \in RankViews /\ w.lanes = v.lanes /\ w.todo = f.events /\ w.job = v.job /\ w.pc = "apply"
    <3> DEFINE n == f.step
               es == f.events
    <3>1. n \in Int /\ es \in Seq(StepEvents) /\ "apply" \in Places
      BY <2>1 DEF Places
    <3> HIDE DEF n, es
    <3>2. w = [v EXCEPT !.step = n, !.todo = es, !.pc = "apply"]
      BY <2>2 DEF n, es
    <3>3. w \in RankViews /\ w.lanes = v.lanes /\ w.todo = es /\ w.job = v.job /\ w.pc = "apply"
      BY <3>1, <3>2 DEF RankViews
    <3> QED
      BY <3>3 DEF es
  <2>4. v.job = NoJob /\ Fits(sc, v.lanes, f.events, NoJob)
    BY <1>1 DEF ReadsStep, Fine
  <2> QED
    BY <2>3, <2>4 DEF Fine
<1>2. CASE ReadsFlag(v, f, w) /\ f.v
  <2>1. w = [v EXCEPT !.job = NoJob, !.pc = "apply"]
    BY <1>2 DEF ReadsFlag
  <2>2. w \in RankViews /\ w.lanes = v.lanes /\ w.todo = v.todo /\ w.job = NoJob /\ w.pc = "apply"
    BY <2>1, NoJobType DEF RankViews, Places, Jobs
  <2>3. v.todo \in Seq(StepEvents) /\ Taken(NoJob) <= Taken(v.job)
    BY DEF RankViews, Taken
  <2>4. Fits(sc, v.lanes, v.todo, NoJob)
    BY <2>3, FitsMore DEF Fine
  <2> QED
    BY <2>2, <2>4 DEF Fine
<1>3. CASE ReadsFlag(v, f, w) /\ ~f.v
  <2> DEFINE j == [v.job EXCEPT !.left = @ - 1]
  <2>1. v.job # NoJob /\ v.job.left > 0 /\ v.job \in Jobs
    BY <1>3 DEF ReadsFlag, Fine, RankViews, Jobs
  <2>2. v.job.req \in Reqs /\ v.job.slot \in IdleOf(v.lanes)
    BY <2>1 DEF Fine
  <2>3. j \in Jobs /\ j.req = v.job.req /\ j.slot = v.job.slot
    BY <2>1 DEF Jobs
  <2>4. w = PrefillView(v, j)
    BY <1>3 DEF ReadsFlag
  <2> HIDE DEF j
  <2>5. Fits(sc, v.lanes, v.todo, j)
    <3>1. j # NoJob
      BY <2>2, <2>3, NoJobType
    <3>2. Taken(j) <= Taken(v.job) /\ v.todo \in Seq(StepEvents)
      BY <2>1, <3>1 DEF Taken, RankViews
    <3> QED
      BY <3>2, FitsMore DEF Fine
  <2> QED
    BY <2>2, <2>3, <2>4, <2>5, PrefillFine DEF Fine
<1>4. CASE ReadsShutdown(v, f, w)
  <2>1. w = [v EXCEPT !.pc = "over"]
    BY <1>4 DEF ReadsShutdown
  <2>2. w \in RankViews /\ w.lanes = v.lanes /\ w.todo = v.todo /\ w.job = v.job /\ w.pc = "over"
    BY <2>1 DEF RankViews, Places
  <2> QED
    BY <2>2 DEF Fine
<1> QED
  BY <1>1, <1>2, <1>3, <1>4 DEF Reads
-----------------------------------------------------------------------------
(* Queues *)

\* f counts up to place n what Only keeps of a queue.
Keeps(queue, keep, n, f) ==
    f = [i \in 0..n |-> IF i = 0 THEN <<>>
                        ELSE IF queue[i] \in keep THEN Append(f[i - 1], queue[i]) ELSE f[i - 1]]

LEMMA KeepsExists ==
    ASSUME NEW queue, NEW keep, NEW n \in Nat
    PROVE  \E f : Keeps(queue, keep, n, f)
<1> DEFINE Bad == {m \in Nat : ~ \E f : Keeps(queue, keep, m, f)}
<1> SUFFICES ASSUME Bad # {} PROVE FALSE
  OBVIOUS
<1>1. PICK m \in Bad : \A l \in Bad : m <= l
  <2>1. Bad \in SUBSET Nat
    OBVIOUS
  <2> HIDE DEF Bad
  <2> QED
    BY <2>1, LeastNumber
<1>2. m # 0
  <2> DEFINE f == [i \in {0} |-> <<>>]
  <2>1. Keeps(queue, keep, 0, f)
    <3>1. 0..0 = {0}
      OBVIOUS
    <3> QED
      BY <3>1 DEF Keeps
  <2> QED
    BY <2>1
<1>3. m - 1 \in Nat /\ m - 1 \notin Bad
  <2>1. m \in Nat /\ m - 1 \in Nat /\ ~(m <= m - 1)
    BY <1>2
  <2> HIDE DEF Bad
  <2> QED
    BY <1>1, <2>1
<1>4. PICK f : Keeps(queue, keep, m - 1, f)
  BY <1>3
<1> DEFINE g == [i \in 0..m |-> IF i < m THEN f[i]
                                ELSE IF queue[m] \in keep THEN Append(f[m - 1], queue[m]) ELSE f[m - 1]]
<1>5. ASSUME NEW i \in 0..m
      PROVE  g[i] = IF i = 0 THEN <<>>
                    ELSE IF queue[i] \in keep THEN Append(g[i - 1], queue[i]) ELSE g[i - 1]
  <2>1. CASE i = 0
    <3>1. 0 \in 0..(m - 1) /\ i < m /\ f[0] = <<>>
      BY <1>3, <1>4, <2>1 DEF Keeps
    <3> QED
      BY <2>1, <3>1
  <2>2. CASE i # 0 /\ i < m
    <3>1. i \in 0..(m - 1) /\ i - 1 \in 0..m /\ i - 1 < m
      BY <1>3, <2>2
    <3>2. f[i] = IF queue[i] \in keep THEN Append(f[i - 1], queue[i]) ELSE f[i - 1]
      BY <1>4, <2>2, <3>1 DEF Keeps
    <3>3. g[i] = f[i] /\ g[i - 1] = f[i - 1]
      BY <2>2, <3>1
    <3> QED
      BY <2>2, <3>2, <3>3
  <2>3. CASE i = m
    <3>1. m \in Nat /\ ~(m < m) /\ m - 1 \in 0..m /\ m - 1 < m /\ m # 0
      BY <1>2, <1>3
    <3>2. g[m - 1] = f[m - 1]
      BY <3>1
    <3>3. g[m] = IF queue[m] \in keep THEN Append(f[m - 1], queue[m]) ELSE f[m - 1]
      BY <3>1
    <3> QED
      BY <2>3, <3>1, <3>2, <3>3
  <2> QED
    BY <1>3, <2>1, <2>2, <2>3
<1>6. Keeps(queue, keep, m, g)
  <2>1. g = [i \in 0..m |-> g[i]]
    OBVIOUS
  <2> HIDE DEF g
  <2> QED
    BY <1>5, <2>1 DEF Keeps
<1> QED
  BY <1>6

LEMMA OnlyKeeps ==
    ASSUME NEW queue \in Seq(Reqs), NEW keep
    PROVE  \E f : Keeps(queue, keep, Len(queue), f) /\ Only(queue, keep) = f[Len(queue)]
<1> DEFINE f == CHOOSE f : Keeps(queue, keep, Len(queue), f)
<1>1. Keeps(queue, keep, Len(queue), f)
  <2>1. Len(queue) \in Nat
    OBVIOUS
  <2> QED
    BY <2>1, KeepsExists
<1>2. Only(queue, keep) = f[Len(queue)]
  BY DEF Only, Keeps
<1> QED
  BY <1>1, <1>2

\* Two queues alike up to a place keep the same up to it.
LEMMA KeepsAgree ==
    ASSUME NEW p, NEW q, NEW keep, NEW m \in Nat, NEW n \in Nat, NEW k \in Nat, k <= m, k <= n,
           \A i \in 1..k : p[i] = q[i],
           NEW f, NEW g, Keeps(p, keep, m, f), Keeps(q, keep, n, g)
    PROVE  f[k] = g[k]
<1> DEFINE Bad == {i \in 0..k : f[i] # g[i]}
<1> SUFFICES ASSUME Bad # {} PROVE FALSE
  OBVIOUS
<1>1. PICK i \in Bad : \A l \in Bad : i <= l
  <2>1. Bad \in SUBSET Nat
    OBVIOUS
  <2> HIDE DEF Bad
  <2> QED
    BY <2>1, LeastNumber
<1>2. i \in 0..m /\ i \in 0..n /\ i \in 0..k
  OBVIOUS
<1>3. i # 0
  BY <1>2 DEF Keeps
<1>4. i - 1 \in 0..k /\ i \in 1..k /\ ~(i <= i - 1)
  BY <1>2, <1>3
<1>5. f[i - 1] = g[i - 1]
  <2>1. i - 1 \notin Bad
    <3> HIDE DEF Bad
    <3> QED
      BY <1>1, <1>4
  <2> QED
    BY <1>4, <2>1
<1>6. f[i] = IF p[i] \in keep THEN Append(f[i - 1], p[i]) ELSE f[i - 1]
  BY <1>2, <1>3 DEF Keeps
<1>7. g[i] = IF q[i] \in keep THEN Append(g[i - 1], q[i]) ELSE g[i - 1]
  BY <1>2, <1>3 DEF Keeps
<1> QED
  BY <1>4, <1>5, <1>6, <1>7

LEMMA OnlyType ==
    ASSUME NEW queue \in Seq(Reqs), NEW keep
    PROVE  Only(queue, keep) \in Seq(Reqs)
<1>1. PICK f : Keeps(queue, keep, Len(queue), f) /\ Only(queue, keep) = f[Len(queue)]
  BY OnlyKeeps
<1> DEFINE N == Len(queue)
           Bad == {i \in 0..N : f[i] \notin Seq(Reqs)}
<1>2. N \in Nat
  OBVIOUS
<1> SUFFICES ASSUME Bad # {} PROVE FALSE
  BY <1>1, <1>2
<1>3. PICK i \in Bad : \A l \in Bad : i <= l
  <2>1. Bad \in SUBSET Nat
    OBVIOUS
  <2> HIDE DEF Bad
  <2> QED
    BY <2>1, LeastNumber
<1>4. i \in 0..N /\ i # 0
  BY <1>1 DEF Keeps
<1>5. i - 1 \in 0..N /\ i \in 1..N /\ ~(i <= i - 1)
  BY <1>2, <1>4
<1>6. f[i - 1] \in Seq(Reqs)
  <2>1. i - 1 \notin Bad
    <3> HIDE DEF Bad
    <3> QED
      BY <1>3, <1>5
  <2> QED
    BY <1>5, <2>1
<1>7. f[i] = IF queue[i] \in keep THEN Append(f[i - 1], queue[i]) ELSE f[i - 1]
  BY <1>1, <1>4 DEF Keeps
<1>8. queue[i] \in Reqs
  BY <1>5
<1>9. Append(f[i - 1], queue[i]) \in Seq(Reqs)
  BY <1>6, <1>8, AppendProperties
<1>10. f[i] \in Seq(Reqs)
  BY <1>6, <1>7, <1>9
<1> QED
  BY <1>10

LEMMA OnlyCounts ==
    ASSUME NEW queue \in Seq(Reqs), NEW keep
    PROVE  /\ Len(Only(SubSeq(queue, 1, 0), keep)) = 0
           /\ \A i \in 1..Len(queue) :
                Len(Only(SubSeq(queue, 1, i), keep)) <= Len(Only(SubSeq(queue, 1, i - 1), keep)) + 1
<1>1. \A i \in 0..Len(queue) : /\ SubSeq(queue, 1, i) \in Seq(Reqs) /\ Len(SubSeq(queue, 1, i)) = i
                               /\ \A l \in 1..i : SubSeq(queue, 1, i)[l] = queue[l]
  <2> TAKE i \in 0..Len(queue)
  <2>1. 1 \in Int /\ i \in Int /\ \A l \in 1..i : queue[l] \in Reqs
    OBVIOUS
  <2>2. /\ SubSeq(queue, 1, i) \in Seq(Reqs)
        /\ Len(SubSeq(queue, 1, i)) = IF 1 <= i THEN i - 1 + 1 ELSE 0
        /\ \A l \in 1..(i - 1 + 1) : SubSeq(queue, 1, i)[l] = queue[1 + l - 1]
    BY <2>1, SubSeqProperties
  <2>3. i - 1 + 1 = i /\ (~(1 <= i) => i = 0) /\ \A l \in 1..i : 1 + l - 1 = l
    BY <2>1
  <2> QED
    BY <2>2, <2>3
<1>2. Len(Only(SubSeq(queue, 1, 0), keep)) = 0
  <2>1. 0 \in 0..Len(queue)
    OBVIOUS
  <2> DEFINE none == SubSeq(queue, 1, 0)
  <2>2. none \in Seq(Reqs) /\ Len(none) = 0
    BY <1>1, <2>1
  <2> HIDE DEF none
  <2>3. PICK f : Keeps(none, keep, 0, f) /\ Only(none, keep) = f[0]
    BY <2>2, OnlyKeeps
  <2>4. f[0] = <<>>
    BY <2>3 DEF Keeps
  <2> QED
    BY <2>3, <2>4 DEF none
<1>3. ASSUME NEW i \in 1..Len(queue)
      PROVE  Len(Only(SubSeq(queue, 1, i), keep)) <= Len(Only(SubSeq(queue, 1, i - 1), keep)) + 1
  <2> DEFINE p == SubSeq(queue, 1, i)
             q == SubSeq(queue, 1, i - 1)
  <2>1. /\ i \in 0..Len(queue) /\ i - 1 \in 0..Len(queue) /\ i - 1 \in Nat /\ i \in Nat /\ i - 1 <= i
        /\ i # 0 /\ i \in 0..i
    <3> HIDE DEF p, q
    <3>1. Len(queue) \in Nat /\ i \in Nat
      OBVIOUS
    <3> QED
      BY <3>1
  <2>2. p \in Seq(Reqs) /\ Len(p) = i /\ q \in Seq(Reqs) /\ Len(q) = i - 1
        /\ \A l \in 1..(i - 1) : q[l] = p[l]
    BY <1>1, <2>1
  <2> HIDE DEF p, q
  <2>3. PICK f : Keeps(p, keep, i, f) /\ Only(p, keep) = f[i]
    BY <2>2, OnlyKeeps
  <2>4. PICK g : Keeps(q, keep, i - 1, g) /\ Only(q, keep) = g[i - 1]
    BY <2>2, OnlyKeeps
  <2>5. f[i - 1] = g[i - 1]
    <3> DEFINE h == i - 1
    <3>1. /\ h \in Nat /\ i \in Nat /\ h <= i /\ h <= h /\ \A l \in 1..h : p[l] = q[l]
          /\ Keeps(q, keep, h, g)
      BY <2>1, <2>2, <2>4
    <3> HIDE DEF h
    <3>2. f[h] = g[h]
      BY <2>3, <3>1, KeepsAgree
    <3> QED
      BY <3>2 DEF h
  <2>6. f[i] = IF p[i] \in keep THEN Append(f[i - 1], p[i]) ELSE f[i - 1]
    BY <2>1, <2>3 DEF Keeps
  <2>7. g[i - 1] \in Seq(Reqs)
    BY <2>2, <2>4, OnlyType
  <2>8. p[i] \in Reqs
    BY <2>1, <2>2
  <2>9. Len(f[i]) <= Len(g[i - 1]) + 1
    BY <2>5, <2>6, <2>7, <2>8, AppendProperties
  <2>10. Len(Only(p, keep)) <= Len(Only(q, keep)) + 1
    BY <2>3, <2>4, <2>9
  <2> QED
    BY <2>10 DEF p, q
<1> QED
  BY <1>2, <1>3

\* The FIFO arm admits no more requests than it has room for.
LEMMA PoppedFits ==
    ASSUME NEW queue \in Seq(Reqs), Room \in Nat
    PROVE  /\ Popped(queue) \in 0..Len(queue)
           /\ Len(Only(SubSeq(queue, 1, Popped(queue)), Good)) <= Room
<1> DEFINE count(i) == Len(Only(SubSeq(queue, 1, i), Good))
           enough == {i \in 0..Len(queue) : count(i) = Room}
<1>1. \A i \in 0..Len(queue) : count(i) \in Nat
  <2> TAKE i \in 0..Len(queue)
  <2>1. SubSeq(queue, 1, i) \in Seq(Reqs)
    BY SubSeqProperties
  <2>2. Only(SubSeq(queue, 1, i), Good) \in Seq(Reqs)
    BY <2>1, OnlyType
  <2> QED
    BY <2>2
<1>2. count(0) = 0 /\ \A i \in 1..Len(queue) : count(i) <= count(i - 1) + 1
  BY OnlyCounts
<1>3. Popped(queue) = IF enough = {} THEN Len(queue) ELSE Min(enough)
  BY DEF Popped
<1>4. Len(queue) \in Nat
  OBVIOUS
<1> HIDE DEF count
<1>5. CASE enough # {}
  <2>1. enough \in SUBSET Nat
    BY <1>4
  <2>2. Min(enough) \in enough
    <3> HIDE DEF enough
    <3> QED
      BY <1>5, <2>1, LeastNumber DEF Min
  <2>3. Popped(queue) \in 0..Len(queue) /\ count(Popped(queue)) = Room
    BY <1>3, <1>5, <2>2
  <2> QED
    BY <2>3 DEF count
<1>6. CASE enough = {}
  <2> DEFINE Bad == {i \in 0..Len(queue) : count(i) > Room}
  <2>1. Popped(queue) = Len(queue)
    BY <1>3, <1>6
  <2>2. ASSUME Bad # {} PROVE FALSE
    <3>1. PICK i \in Bad : \A l \in Bad : i <= l
      <4>1. Bad \in SUBSET Nat
        BY <1>4
      <4> HIDE DEF Bad
      <4> QED
        BY <2>2, <4>1, LeastNumber
    <3>2. i \in 0..Len(queue) /\ i # 0
      BY <1>2
    <3>3. i - 1 \in 0..Len(queue) /\ i \in 1..Len(queue) /\ ~(i <= i - 1)
      BY <1>4, <3>2
    <3>4. i - 1 \notin Bad
      <4> HIDE DEF Bad
      <4> QED
        BY <3>1, <3>3
    <3>5. count(i - 1) <= Room /\ count(i - 1) # Room
      BY <1>1, <1>6, <3>3, <3>4
    <3>6. count(i) <= count(i - 1) + 1 /\ count(i) > Room
      BY <1>2, <3>3
    <3> QED
      BY <1>1, <3>2, <3>3, <3>5, <3>6
  <2>3. count(Len(queue)) <= Room
    <3>1. Len(queue) \in 0..Len(queue)
      BY <1>4
    <3> QED
      BY <1>1, <2>2, <3>1
  <2> QED
    BY <1>4, <2>1, <2>3 DEF count
<1> QED
  BY <1>5, <1>6
-----------------------------------------------------------------------------
(* The state's types, with their names *)

Caches == [Slots -> Snapshots \cup {NoSnap}]
Releases == [Slots -> [at : Instants, normal : BOOLEAN]]

ClientTypes ==
    /\ scoped \in BOOLEAN
    /\ handed \subseteq Reqs /\ gone \subseteq handed
    /\ finish \in [Reqs -> {"none", "done", "error"}]
    /\ rx \in Seq(Reqs) /\ waiting \in Seq(Reqs)
RankTypes ==
    /\ lanes \in [Ranks -> Tables] /\ cache \in [Ranks -> Caches]
    /\ rel \in [Ranks -> Releases] /\ released \in [Ranks -> Nat]
    /\ stepNo \in [Ranks -> Nat] /\ todo \in [Ranks -> Seq(StepEvents)]
    /\ pc \in [Ranks -> Places] /\ job \in [Ranks -> Jobs]
LinkTypes ==
    /\ agreed \in [Ranks -> Nat]
    /\ ctl \in [Nodes -> Seq(Frames)]
    /\ faults \in 0 .. MaxFaults

LEMMA TypesNamed ==
    /\ TypeOK <=> ClientTypes /\ RankTypes /\ LinkTypes
    /\ TypeOK' <=> ClientTypes' /\ RankTypes' /\ LinkTypes'
<1>1. TypeOK <=> ClientTypes /\ RankTypes /\ LinkTypes
  BY DEF TypeOK, ClientTypes, RankTypes, LinkTypes, Tables, Caches, Releases, Places, Jobs, Frames
<1>2. TypeOK' <=> ClientTypes' /\ RankTypes' /\ LinkTypes'
  BY DEF TypeOK, ClientTypes, RankTypes, LinkTypes, Tables, Caches, Releases, Places, Jobs, Frames
<1> QED
  BY <1>1, <1>2

LEMMA RankSets ==
    /\ 0 \in Ranks /\ 0 \notin Nodes /\ Nodes \subseteq Ranks /\ Nodes # {}
    /\ Ranks = Nodes \cup {0}
<1>1. 0 \in Ranks /\ 1 \in Ranks
  BY TpAssumption DEF Ranks
<1> QED
  BY <1>1 DEF Nodes

LEMMA ViewType ==
    ASSUME RankTypes, NEW k \in Ranks
    PROVE  View(k) \in RankViews
<1>1. /\ lanes[k] \in Tables /\ cache[k] \in Caches /\ rel[k] \in Releases /\ released[k] \in Nat
      /\ stepNo[k] \in Nat /\ todo[k] \in Seq(StepEvents) /\ pc[k] \in Places /\ job[k] \in Jobs
  BY DEF RankTypes
<1> DEFINE p == View(k).pc
           t == View(k).todo
           n == View(k).step
<1>2. p \in Places
  BY <1>1 DEF View, Places
<1>3. t \in Seq(StepEvents) /\ n \in Int
  BY <1>1 DEF View
<1> HIDE DEF p, t, n
<1>4. View(k) = [lanes |-> lanes[k], cache |-> cache[k], rel |-> rel[k], released |-> released[k],
                 step |-> n, todo |-> t, pc |-> p, job |-> job[k]]
  BY DEF View, n, t, p
<1> QED
  BY <1>1, <1>2, <1>3, <1>4 DEF RankViews, Caches, Releases

LEMMA ViewTypeNext ==
    ASSUME RankTypes', NEW k \in Ranks
    PROVE  View(k)' \in RankViews
<1>1. /\ lanes'[k] \in Tables /\ cache'[k] \in Caches /\ rel'[k] \in Releases /\ released'[k] \in Nat
      /\ stepNo'[k] \in Nat /\ todo'[k] \in Seq(StepEvents) /\ pc'[k] \in Places /\ job'[k] \in Jobs
  BY DEF RankTypes
<1> DEFINE p == View(k)'.pc
           t == View(k)'.todo
           n == View(k)'.step
<1>2. p \in Places
  BY <1>1 DEF View, Places
<1>3. t \in Seq(StepEvents) /\ n \in Int
  BY <1>1 DEF View
<1> HIDE DEF p, t, n
<1>4. View(k)' = [lanes |-> lanes'[k], cache |-> cache'[k], rel |-> rel'[k], released |-> released'[k],
                  step |-> n, todo |-> t, pc |-> p, job |-> job'[k]]
  BY DEF View, n, t, p
<1> QED
  BY <1>1, <1>2, <1>3, <1>4 DEF RankViews, Caches, Releases

\* Only rank k's own variables change.
OneMoves(k) ==
    /\ lanes' = [lanes EXCEPT ![k] = lanes'[k]] /\ cache' = [cache EXCEPT ![k] = cache'[k]]
    /\ rel' = [rel EXCEPT ![k] = rel'[k]] /\ released' = [released EXCEPT ![k] = released'[k]]
    /\ stepNo' = [stepNo EXCEPT ![k] = stepNo'[k]] /\ todo' = [todo EXCEPT ![k] = todo'[k]]
    /\ pc' = [pc EXCEPT ![k] = pc'[k]] /\ job' = [job EXCEPT ![k] = job'[k]]

LEMMA OneMovesTypes ==
    ASSUME RankTypes, NEW k \in Ranks, OneMoves(k), View(k)' \in RankViews, ~Planning(k)',
           stepNo'[k] \in Nat
    PROVE  RankTypes'
<1>1. /\ View(k)'.lanes = lanes'[k] /\ View(k)'.cache = cache'[k] /\ View(k)'.rel = rel'[k]
      /\ View(k)'.released = released'[k] /\ View(k)'.job = job'[k]
      /\ View(k)'.todo = todo'[k] /\ View(k)'.pc = pc'[k]
  BY DEF View, Planning
<1>2. /\ lanes'[k] \in Tables /\ cache'[k] \in Caches /\ rel'[k] \in Releases /\ released'[k] \in Nat
      /\ todo'[k] \in Seq(StepEvents) /\ pc'[k] \in Places /\ job'[k] \in Jobs
  BY <1>1 DEF RankViews, Caches, Releases
<1> QED
  BY <1>2 DEF OneMoves, RankTypes

LEMMA OneMovesViews ==
    ASSUME RankTypes, NEW k \in Ranks, OneMoves(k), NEW j \in Ranks, j # k
    PROVE  View(j)' = View(j) /\ pc'[j] = pc[j]
<1>1. /\ lanes'[j] = lanes[j] /\ cache'[j] = cache[j] /\ rel'[j] = rel[j]
      /\ released'[j] = released[j] /\ stepNo'[j] = stepNo[j] /\ todo'[j] = todo[j]
      /\ pc'[j] = pc[j] /\ job'[j] = job[j]
  BY DEF OneMoves, RankTypes
<1> QED
  BY <1>1 DEF View, Planning, Live, Busy
-----------------------------------------------------------------------------
(* The actions of one rank are steps of its view *)

otherThanRanks == <<clientVars, finish, rx, waiting, agreed, ctl, faults>>

\* A view from its parts, and the changes of several parts that steps make.
Parts(a, b, c, d, e, f, g, h) ==
    [lanes |-> a, cache |-> b, rel |-> c, released |-> d, step |-> e, todo |-> f, pc |-> g, job |-> h]
WithLanes(v, table, events) == [v EXCEPT !.lanes = table, !.todo = events]
WithStep(v, n, events, place) == [v EXCEPT !.step = n, !.todo = events, !.pc = place]
WithJob(v, j, place) == [v EXCEPT !.job = j, !.pc = place]
WithPrefill(v, j, place, snaps) == [v EXCEPT !.job = j, !.pc = place, !.cache = snaps]

LEMMA TwoChanged ==
    ASSUME NEW a, NEW b, NEW c, NEW d, NEW e, NEW f, NEW g, NEW h, NEW x, NEW y
    PROVE  /\ WithLanes(Parts(a, b, c, d, e, f, g, h), x, y) = Parts(x, b, c, d, e, y, g, h)
           /\ WithJob(Parts(a, b, c, d, e, f, g, h), x, y) = Parts(a, b, c, d, e, f, y, x)
<1> DEFINE v == Parts(a, b, c, d, e, f, g, h)
<1>1. WithLanes(v, x, y) = Parts(x, b, c, d, e, y, g, h)
  <2> DEFINE w == [v EXCEPT !.lanes = x]
  <2>1. w = Parts(x, b, c, d, e, f, g, h)
    BY DEF Parts
  <2> HIDE DEF w
  <2>2. [w EXCEPT !.todo = y] = Parts(x, b, c, d, e, y, g, h)
    BY <2>1 DEF Parts
  <2> QED
    BY <2>2 DEF WithLanes, w
<1>2. WithJob(v, x, y) = Parts(a, b, c, d, e, f, y, x)
  <2> DEFINE w == [v EXCEPT !.job = x]
  <2>1. w = Parts(a, b, c, d, e, f, g, x)
    BY DEF Parts
  <2> HIDE DEF w
  <2>2. [w EXCEPT !.pc = y] = Parts(a, b, c, d, e, f, y, x)
    BY <2>1 DEF Parts
  <2> QED
    BY <2>2 DEF WithJob, w
<1> QED
  BY <1>1, <1>2

LEMMA ThreeChanged ==
    ASSUME NEW a, NEW b, NEW c, NEW d, NEW e, NEW f, NEW g, NEW h, NEW x, NEW y, NEW z
    PROVE  /\ WithStep(Parts(a, b, c, d, e, f, g, h), x, y, z) = Parts(a, b, c, d, x, y, z, h)
           /\ WithPrefill(Parts(a, b, c, d, e, f, g, h), x, y, z) = Parts(a, z, c, d, e, f, y, x)
<1> DEFINE v == Parts(a, b, c, d, e, f, g, h)
<1>1. WithStep(v, x, y, z) = Parts(a, b, c, d, x, y, z, h)
  <2> DEFINE w == [v EXCEPT !.step = x]
             u == [w EXCEPT !.todo = y]
  <2>1. w = Parts(a, b, c, d, x, f, g, h)
    BY DEF Parts
  <2> HIDE DEF w
  <2>2. u = Parts(a, b, c, d, x, y, g, h)
    BY <2>1 DEF Parts
  <2> HIDE DEF u
  <2>3. [u EXCEPT !.pc = z] = Parts(a, b, c, d, x, y, z, h)
    BY <2>2 DEF Parts
  <2> QED
    BY <2>3 DEF WithStep, w, u
<1>2. WithPrefill(v, x, y, z) = Parts(a, z, c, d, e, f, y, x)
  <2> DEFINE w == [v EXCEPT !.job = x]
             u == [w EXCEPT !.pc = y]
  <2>1. w = Parts(a, b, c, d, e, f, g, x)
    BY DEF Parts
  <2> HIDE DEF w
  <2>2. u = Parts(a, b, c, d, e, f, y, x)
    BY <2>1 DEF Parts
  <2> HIDE DEF u
  <2>3. [u EXCEPT !.cache = z] = Parts(a, z, c, d, e, f, y, x)
    BY <2>2 DEF Parts
  <2> QED
    BY <2>3 DEF WithPrefill, w, u
<1> QED
  BY <1>1, <1>2

LEMMA PlainView ==
    ASSUME NEW k, ~Planning(k)
    PROVE  /\ View(k) = Parts(lanes[k], cache[k], rel[k], released[k], stepNo[k], todo[k], pc[k], job[k])
           /\ View(k).lanes = lanes[k] /\ View(k).cache = cache[k] /\ View(k).rel = rel[k]
           /\ View(k).released = released[k] /\ View(k).step = stepNo[k]
           /\ View(k).todo = todo[k] /\ View(k).pc = pc[k] /\ View(k).job = job[k]
BY DEF View, Planning, Parts

LEMMA PlainViewNext ==
    ASSUME NEW k, ~Planning(k)'
    PROVE  View(k)' = Parts(lanes'[k], cache'[k], rel'[k], released'[k], stepNo'[k], todo'[k],
                            pc'[k], job'[k])
BY DEF View, Planning, Parts

LEMMA BusyIs ==
    ASSUME NEW k
    PROVE  Busy(k) = BusyOf(lanes[k]) /\ Idle(k) = IdleOf(lanes[k])
BY DEF Busy, BusyOf, Idle, IdleOf

LEMMA ApplyIsSilent ==
    ASSUME RankTypes, NEW k \in Ranks, Apply(k), Fine(scoped, View(k))
    PROVE  /\ Silent(scoped, View(k), View(k)') /\ OneMoves(k) /\ ~Planning(k)'
           /\ stepNo'[k] = stepNo[k] /\ UNCHANGED otherThanRanks
<1> DEFINE v == View(k)
<1>0. pc[k] = "apply" /\ ~Planning(k)
  BY DEF Apply, ApplyDone, ApplyCancel, ApplyAdmit, Planning
<1>1. /\ lanes[k] \in Tables /\ cache[k] \in Caches /\ todo[k] \in Seq(StepEvents) /\ job[k] \in Jobs
      /\ pc[k] \in Places
  BY DEF RankTypes
<1>2. /\ v.lanes = lanes[k] /\ v.cache = cache[k] /\ v.rel = rel[k] /\ v.released = released[k]
      /\ v.step = stepNo[k] /\ v.todo = todo[k] /\ v.pc = pc[k] /\ v.job = job[k]
  BY <1>0, PlainView
<1>3. v = Parts(lanes[k], cache[k], rel[k], released[k], stepNo[k], todo[k], pc[k], job[k])
  BY <1>0, PlainView
<1> HIDE DEF v
<1>4. CASE ApplyDone(k)
  <2> DEFINE p == IF BusyOf(v.lanes) # {} THEN "round" ELSE "top"
  <2>1. /\ todo[k] = <<>> /\ pc' = [pc EXCEPT ![k] = p]
        /\ UNCHANGED <<otherThanRanks, lanes, cache, rel, released, stepNo, todo, job>>
    BY <1>2, <1>4, BusyIs DEF ApplyDone, Live, otherThanRanks, tableVars, syncVars
  <2>2. p \in {"round", "top"}
    OBVIOUS
  <2> HIDE DEF p
  <2>3. pc'[k] = p /\ ~Planning(k)'
    BY <2>1, <2>2 DEF RankTypes, Planning
  <2>4. View(k)' = [v EXCEPT !.pc = p]
    BY <1>3, <2>1, <2>3, PlainViewNext DEF Parts
  <2>5. Silent(scoped, v, View(k)')
    BY <1>0, <1>2, <2>1, <2>4 DEF Silent, p
  <2>6. OneMoves(k)
    BY <2>1, <2>3 DEF OneMoves, RankTypes
  <2> QED
    BY <2>1, <2>3, <2>5, <2>6 DEF v
<1>5. CASE ApplyCancel(k)
  <2> DEFINE t == [lanes[k] EXCEPT ![Head(todo[k]).lane] = FreeLane]
  <2>1. /\ todo[k] # <<>> /\ Head(todo[k]).type = "cancel"
        /\ lanes' = [lanes EXCEPT ![k] = t]
        /\ todo' = [todo EXCEPT ![k] = Tail(todo[k])]
        /\ UNCHANGED <<otherThanRanks, cache, rel, released, stepNo, pc, job>>
    BY <1>5 DEF ApplyCancel, otherThanRanks, RankTypes
  <2>2. v.lanes = lanes[k] /\ t = [v.lanes EXCEPT ![Head(v.todo).lane] = FreeLane]
    BY <1>2
  <2> HIDE DEF t
  <2>3. lanes'[k] = t /\ todo'[k] = Tail(todo[k]) /\ ~Planning(k)'
    BY <1>0, <2>1 DEF RankTypes, Planning
  <2>4. View(k)' = [v EXCEPT !.lanes = t, !.todo = Tail(todo[k])]
    <3>0. View(k)' = Parts(t, cache[k], rel[k], released[k], stepNo[k], Tail(todo[k]), pc[k], job[k])
      BY <2>1, <2>3, PlainViewNext
    <3>1. View(k)' = WithLanes(v, t, Tail(todo[k]))
      BY <1>3, <3>0, TwoChanged
    <3> QED
      BY <3>1 DEF WithLanes
  <2>5. Silent(scoped, v, View(k)')
    BY <1>0, <1>2, <2>1, <2>2, <2>4 DEF Silent
  <2>6. OneMoves(k)
    BY <2>1, <2>3 DEF OneMoves, RankTypes
  <2> QED
    BY <2>1, <2>3, <2>5, <2>6 DEF v
<1>6. CASE ApplyAdmit(k)
  <2> DEFINE r == Head(todo[k]).req
             free == IdleOf(v.lanes) \cap Head(v.todo).allowed
             hits == {x \in free : ContinuedBy(v.cache[x], Prompt[r])}
  <2>1. todo[k] # <<>> /\ Head(todo[k]).type = "admit" /\ todo' = [todo EXCEPT ![k] = Tail(todo[k])]
    BY <1>6 DEF ApplyAdmit
  <2>2. free # {}
    <3>1. Fits(scoped, lanes[k], todo[k], NoJob)
      BY <1>0, <1>2 DEF Fine, v
    <3>2. IdleOf(lanes[k]) \cap Head(todo[k]).allowed # {}
      BY <1>1, <2>1, <3>1, FitsAdmit
    <3> QED
      BY <1>2, <3>2
  <2>3. free = Idle(k) \cap Allowed(k, Head(todo[k])) /\ hits = Hits(k, r, free)
    BY <1>2, BusyIs DEF Allowed, Hits
  <2>4. SlotViewsOf(v) = Views(k)
    BY <1>2, BusyIs DEF SlotViewsOf, Views
  <2> DEFINE J(s) == LET reuse == IF s \in hits THEN cache[k][s].len ELSE 0
                     IN  [NoJob EXCEPT !.req = r, !.slot = s, !.reuse = reuse,
                                       !.left = IF reuse > 0 THEN Resumed[r] ELSE Boundaries[r]]
  <2>5. PICK s \in free : /\ IsPickOf(s, hits, free, cache[k], scoped, Views(k), Deep[r])
                          /\ Prefill(k, J(s))
    BY <1>6, <2>2, <2>3 DEF ApplyAdmit
  <2>6. UNCHANGED <<otherThanRanks, lanes, rel, released, stepNo>>
    BY <1>6, <2>2, <2>3 DEF ApplyAdmit, otherThanRanks
  <2>7. AdmitPicks(scoped, v, s)
    BY <1>2, <2>4, <2>5 DEF AdmitPicks
  <2> DEFINE j == J(s)
             u == [v EXCEPT !.todo = Tail(v.todo)]
  <2>8. AdmitView(v, s) = PrefillView(u, j)
    <3>1. s \in hits <=> ContinuedBy(v.cache[s], Prompt[r])
      BY <2>5
    <3> QED
      BY <1>2, <3>1 DEF AdmitView
  <2> HIDE DEF J, j
  <2> DEFINE j2 == [j EXCEPT !.quota = NestedSteps]
             p2 == IF j.left = 0 THEN "seam"
                   ELSE IF NestedSteps > 0 /\ BusyOf(v.lanes) # {} THEN "round" ELSE "flag"
             c2 == [v.cache EXCEPT ![j.slot] = IF j.left = 0 THEN SnapOf(j.req) ELSE NoSnap]
  <2>9. /\ job' = [job EXCEPT ![k] = j2] /\ pc' = [pc EXCEPT ![k] = p2]
        /\ cache' = [cache EXCEPT ![k] = c2]
    BY <1>1, <1>2, <2>5, BusyIs DEF Prefill, j, Live, RankTypes
  <2>10. p2 \in {"seam", "round", "flag"}
    OBVIOUS
  <2>11. PrefillView(u, j) = [u EXCEPT !.job = j2, !.pc = p2, !.cache = c2]
    <3>1. u.lanes = v.lanes /\ u.cache = v.cache
      BY <1>3 DEF Parts
    <3> HIDE DEF u
    <3> QED
      BY <3>1 DEF PrefillView
  <2> HIDE DEF j2, p2, c2
  <2>12. /\ job'[k] = j2 /\ pc'[k] = p2 /\ cache'[k] = c2 /\ todo'[k] = Tail(todo[k])
         /\ ~Planning(k)'
    BY <2>1, <2>9, <2>10 DEF RankTypes, Planning
  <2>13. View(k)' = [u EXCEPT !.job = j2, !.pc = p2, !.cache = c2]
    <3>1. View(k)' = Parts(lanes[k], c2, rel[k], released[k], stepNo[k], Tail(todo[k]), p2, j2)
      BY <2>6, <2>12, PlainViewNext
    <3>2. u = Parts(lanes[k], cache[k], rel[k], released[k], stepNo[k], Tail(todo[k]), pc[k], job[k])
      <4> DEFINE rest == Tail(v.todo)
      <4>1. rest = Tail(todo[k])
        BY <1>2
      <4> HIDE DEF rest
      <4>2. [v EXCEPT !.todo = rest] = Parts(lanes[k], cache[k], rel[k], released[k], stepNo[k], rest,
                                             pc[k], job[k])
        BY <1>3 DEF Parts
      <4> QED
        BY <4>1, <4>2 DEF rest
    <3> HIDE DEF u
    <3>3. View(k)' = WithPrefill(u, j2, p2, c2)
      BY <3>1, <3>2, ThreeChanged
    <3> QED
      BY <3>3 DEF WithPrefill
  <2>14. Silent(scoped, v, View(k)')
    <3>1. s \in Slots /\ View(k)' = AdmitView(v, s)
      BY <2>5, <2>8, <2>11, <2>13 DEF IdleOf
    <3> QED
      BY <1>0, <1>2, <2>1, <2>7, <3>1 DEF Silent
  <2>15. OneMoves(k)
    BY <2>1, <2>6, <2>9, <2>12 DEF OneMoves, RankTypes
  <2> QED
    BY <2>6, <2>12, <2>14, <2>15 DEF v
<1> QED
  BY <1>4, <1>5, <1>6 DEF Apply
\* A chunk boundary takes or sends a HeadFlag.
LEMMA BoundaryReads ==
    ASSUME RankTypes, NEW k \in Ranks, pc[k] = "flag", NEW b \in BOOLEAN, AtBoundary(k, b),
           UNCHANGED <<lanes, rel, released, stepNo, todo>>
    PROVE  ReadsFlag(View(k), FlagFrame(b), View(k)') /\ OneMoves(k) /\ ~Planning(k)'
<1> DEFINE v == View(k)
           f == FlagFrame(b)
<1>0. ~Planning(k)
  BY DEF Planning
<1>1. /\ v.lanes = lanes[k] /\ v.cache = cache[k] /\ v.pc = pc[k] /\ v.job = job[k]
      /\ v = Parts(lanes[k], cache[k], rel[k], released[k], stepNo[k], todo[k], pc[k], job[k])
  BY <1>0, PlainView
<1>2. f.type = "flag" /\ f.v = b
  BY DEF FlagFrame
<1> HIDE DEF v, f
<1>3. CASE b
  <2>1. /\ job' = [job EXCEPT ![k] = NoJob] /\ pc' = [pc EXCEPT ![k] = "apply"] /\ cache' = cache
    BY <1>3 DEF AtBoundary
  <2>2. /\ job'[k] = NoJob /\ pc'[k] = "apply" /\ ~Planning(k)'
    BY <2>1 DEF RankTypes, Planning
  <2>3. View(k)' = Parts(lanes[k], cache[k], rel[k], released[k], stepNo[k], todo[k], "apply", NoJob)
    BY <2>1, <2>2, PlainViewNext
  <2>4. View(k)' = WithJob(v, NoJob, "apply")
    BY <1>1, <2>3, TwoChanged
  <2>5. View(k)' = [v EXCEPT !.job = NoJob, !.pc = "apply"]
    BY <2>4 DEF WithJob
  <2>6. ReadsFlag(v, f, View(k)')
    BY <1>1, <1>2, <1>3, <2>5 DEF ReadsFlag
  <2>7. OneMoves(k)
    BY <2>1, <2>2 DEF OneMoves, RankTypes
  <2> QED
    BY <2>2, <2>6, <2>7 DEF v, f
<1>4. CASE ~b
  <2> DEFINE j == [v.job EXCEPT !.left = @ - 1]
  <2>1. j = [job[k] EXCEPT !.left = @ - 1]
    BY <1>1
  <2>2. Prefill(k, j)
    BY <1>4, <2>1 DEF AtBoundary
  <2> HIDE DEF j
  <2> DEFINE j2 == [j EXCEPT !.quota = NestedSteps]
             p2 == IF j.left = 0 THEN "seam"
                   ELSE IF NestedSteps > 0 /\ BusyOf(v.lanes) # {} THEN "round" ELSE "flag"
             c2 == [v.cache EXCEPT ![j.slot] = IF j.left = 0 THEN SnapOf(j.req) ELSE NoSnap]
  <2>3. /\ job' = [job EXCEPT ![k] = j2] /\ pc' = [pc EXCEPT ![k] = p2]
        /\ cache' = [cache EXCEPT ![k] = c2]
    BY <1>1, <2>2, BusyIs DEF Prefill, Live, RankTypes
  <2>4. p2 \in {"seam", "round", "flag"}
    OBVIOUS
  <2>5. PrefillView(v, j) = WithPrefill(v, j2, p2, c2)
    BY DEF PrefillView, WithPrefill
  <2> HIDE DEF j2, p2, c2
  <2>6. /\ job'[k] = j2 /\ pc'[k] = p2 /\ cache'[k] = c2 /\ ~Planning(k)'
    BY <2>3, <2>4 DEF RankTypes, Planning
  <2>7. View(k)' = Parts(lanes[k], c2, rel[k], released[k], stepNo[k], todo[k], p2, j2)
    BY <2>6, PlainViewNext
  <2>8. View(k)' = PrefillView(v, j)
    BY <1>1, <2>5, <2>7, ThreeChanged
  <2>9. ReadsFlag(v, f, View(k)')
    BY <1>1, <1>2, <1>4, <2>8 DEF ReadsFlag, j
  <2>10. OneMoves(k)
    BY <2>3, <2>6 DEF OneMoves, RankTypes
  <2> QED
    BY <2>6, <2>9, <2>10 DEF v, f
<1> QED
  BY <1>3, <1>4

\* The roles of the ranks: only the head plans, only a mirror waits for a step frame after
\* a step-go, which takes place while a lane is live.
Roles ==
    /\ \A n \in Nodes : pc[n] \notin {"go", "ship"}
    /\ pc[0] # "recv"
    /\ pc[0] = "go" => FastCtl /\ Live(0)

\* What the head has planned fits its lanes.
Planned == Planning(0) => Fits(scoped, lanes[0], todo[0], NoJob)

headSends == <<clientVars, finish, rx, waiting, agreed, faults>>

LEMMA HeadReads ==
    ASSUME RankTypes, Planned, Fine(scoped, View(0)), Ship \/ HeadFlag \/ Shutdown
    PROVE  /\ \E f \in Frames : /\ Reads(scoped, View(0), f, View(0)')
                                /\ ctl' = [n \in Nodes |-> Append(ctl[n], f)]
           /\ OneMoves(0) /\ ~Planning(0)' /\ stepNo'[0] = stepNo[0] /\ UNCHANGED headSends
           /\ Shutdown => pc'[0] = "over"
<1> DEFINE v == View(0)
<1>0. 0 \in Ranks
  BY RankSets
<1>1. CASE Ship
  <2> DEFINE f == StepFrame(stepNo[0], todo[0])
             at == IF FastCtl /\ Live(0) THEN "recv" ELSE "top"
  <2>1. /\ pc[0] = "ship" /\ pc' = [pc EXCEPT ![0] = "apply"]
        /\ ctl' = [n \in Nodes |-> Append(ctl[n], f)]
        /\ UNCHANGED <<headSends, lanes, cache, rel, released, stepNo, todo, job>>
    BY <1>1 DEF Ship, headSends, tableVars, syncVars
  <2>2. Planning(0) /\ pc'[0] = "apply" /\ ~Planning(0)'
    BY <1>0, <2>1 DEF Planning, RankTypes
  <2>3. /\ v = Parts(lanes[0], cache[0], rel[0], released[0], stepNo[0] - 1, <<>>, at, job[0])
        /\ v.step = stepNo[0] - 1 /\ v.pc = at /\ v.lanes = lanes[0]
    BY <2>1, <2>2 DEF View, Parts
  <2>4. View(0)' = Parts(lanes[0], cache[0], rel[0], released[0], stepNo[0], todo[0], "apply", job[0])
    BY <2>1, <2>2, PlainViewNext
  <2>5. View(0)' = WithStep(v, stepNo[0], todo[0], "apply")
    BY <2>3, <2>4, ThreeChanged
  <2>6. stepNo[0] \in Nat /\ todo[0] \in Seq(StepEvents)
    BY <1>0 DEF RankTypes
  <2>7. /\ f.type = "step" /\ f.step = stepNo[0] /\ f.events = todo[0]
    BY DEF StepFrame
  <2>8. f \in Frames
    BY <2>6 DEF StepFrame, Frames
  <2>9. v.pc = "recv" \/ (v.pc = "top" /\ ~(FastCtl /\ BusyOf(v.lanes) # {}))
    BY <2>3, BusyIs DEF Live
  <2>10. Fits(scoped, v.lanes, f.events, NoJob)
    BY <2>2, <2>3, <2>7 DEF Planned
  <2>11. stepNo[0] = (stepNo[0] - 1) + 1
    BY <2>6
  <2> HIDE DEF f, v, at
  <2>12. ReadsStep(scoped, v, f, View(0)')
    BY <2>3, <2>5, <2>7, <2>9, <2>10, <2>11 DEF ReadsStep, WithStep
  <2>13. OneMoves(0)
    BY <2>1, <2>2 DEF OneMoves, RankTypes
  <2>14. ~Shutdown
    BY <2>1 DEF Shutdown
  <2> QED
    BY <2>1, <2>2, <2>8, <2>12, <2>13, <2>14 DEF Reads, v
<1>2. CASE HeadFlag
  <2> DEFINE b == job[0].req \in gone
             f == FlagFrame(b)
  <2>1. /\ pc[0] = "flag" /\ AtBoundary(0, b) /\ b \in BOOLEAN
        /\ ctl' = [n \in Nodes |-> Append(ctl[n], f)]
        /\ UNCHANGED <<headSends, lanes, rel, released, stepNo, todo>>
    BY <1>2 DEF HeadFlag, headSends, syncVars
  <2> HIDE DEF b
  <2>2. ReadsFlag(v, f, View(0)') /\ OneMoves(0) /\ ~Planning(0)'
    BY <1>0, <2>1, BoundaryReads
  <2>3. f \in Frames
    BY <2>1 DEF FlagFrame, Frames
  <2>4. ~Shutdown
    BY <2>1 DEF Shutdown
  <2> QED
    BY <2>1, <2>2, <2>3, <2>4 DEF Reads
<1>3. CASE Shutdown
  <2> DEFINE f == ShutdownFrame
  <2>1. /\ pc[0] = "top" /\ ~Live(0) /\ pc' = [pc EXCEPT ![0] = "over"]
        /\ ctl' = [n \in Nodes |-> Append(ctl[n], f)]
        /\ UNCHANGED <<headSends, lanes, cache, rel, released, stepNo, todo, job>>
    BY <1>3 DEF Shutdown, headSends, tableVars, syncVars
  <2>2. ~Planning(0) /\ pc'[0] = "over" /\ ~Planning(0)'
    BY <1>0, <2>1 DEF Planning, RankTypes
  <2>3. /\ v = Parts(lanes[0], cache[0], rel[0], released[0], stepNo[0], todo[0], pc[0], job[0])
        /\ v.pc = "top" /\ v.lanes = lanes[0]
    BY <2>1, <2>2, PlainView
  <2>4. View(0)' = Parts(lanes[0], cache[0], rel[0], released[0], stepNo[0], todo[0], "over", job[0])
    BY <2>1, <2>2, PlainViewNext
  <2>5. f.type = "shutdown" /\ f \in Frames
    BY DEF ShutdownFrame, Frames
  <2> HIDE DEF f, v
  <2>6. View(0)' = [v EXCEPT !.pc = "over"]
    BY <2>3, <2>4 DEF Parts
  <2>7. ReadsShutdown(v, f, View(0)')
    BY <2>1, <2>3, <2>5, <2>6, BusyIs DEF ReadsShutdown, Live
  <2>8. OneMoves(0)
    BY <2>1, <2>2 DEF OneMoves, RankTypes
  <2> QED
    BY <2>1, <2>2, <2>5, <2>7, <2>8 DEF Reads, v
<1> QED
  BY <1>1, <1>2, <1>3
\* A mirror that can read the frame it is sent does as the head did.
LEMMA MirrorReads ==
    ASSUME RankTypes, LinkTypes, Roles, NEW n \in Nodes, NEW x, Recv(n) \/ NodeFlag(n),
           ctl[n] # <<>> => Reads(scoped, View(n), Head(ctl[n]), x)
    PROVE  /\ View(n)' = x /\ ctl[n] # <<>> /\ ctl' = [ctl EXCEPT ![n] = Tail(@)]
           /\ OneMoves(n) /\ ~Planning(n)' /\ stepNo'[n] \in Nat /\ pc'[n] # "bailed"
           /\ UNCHANGED headSends
<1> DEFINE v == View(n)
           f == Head(ctl[n])
<1>0. n \in Ranks /\ ~Planning(n)
  BY RankSets DEF Roles, Planning
<1>1. /\ v.lanes = lanes[n] /\ v.cache = cache[n] /\ v.pc = pc[n] /\ v.job = job[n]
      /\ v.step = stepNo[n]
      /\ v = Parts(lanes[n], cache[n], rel[n], released[n], stepNo[n], todo[n], pc[n], job[n])
  BY <1>0, PlainView
<1>2. stepNo[n] \in Nat
  BY <1>0 DEF RankTypes
<1>3. ctl[n] # <<>> /\ ctl' = [ctl EXCEPT ![n] = Tail(@)]
  BY DEF Recv, NodeFlag
<1>4. f \in Frames /\ Reads(scoped, v, f, x)
  <2>1. ctl[n] \in Seq(Frames)
    BY DEF LinkTypes
  <2> QED
    BY <1>3, <2>1, HeadTailProperties
<1> HIDE DEF v
<1>5. CASE Recv(n)
  <2>1. pc[n] \in {"recv", "top"}
    BY <1>5 DEF Recv, Reading
  <2>2. ReadsStep(scoped, v, f, x) \/ ReadsShutdown(v, f, x)
    BY <1>1, <1>4, <2>1 DEF Reads, ReadsFlag
  <2>3. UNCHANGED <<headSends, lanes, cache, rel, released, job>>
    BY <1>5 DEF Recv, headSends, tableVars
  <2>4. CASE ReadsStep(scoped, v, f, x)
    <3>1. f.type = "step" /\ f.step = stepNo[n] + 1 /\ x = WithStep(v, f.step, f.events, "apply")
      BY <1>1, <2>4 DEF ReadsStep, WithStep
    <3>2. /\ stepNo' = [stepNo EXCEPT ![n] = f.step] /\ todo' = [todo EXCEPT ![n] = f.events]
          /\ pc' = [pc EXCEPT ![n] = "apply"]
      BY <1>5, <3>1 DEF Recv
    <3> HIDE DEF f
    <3>3. /\ stepNo'[n] = f.step /\ todo'[n] = f.events /\ pc'[n] = "apply" /\ ~Planning(n)'
      BY <1>0, <3>2 DEF RankTypes, Planning
    <3>4. View(n)' = Parts(lanes[n], cache[n], rel[n], released[n], f.step, f.events, "apply", job[n])
      BY <2>3, <3>3, PlainViewNext
    <3>5. View(n)' = x
      BY <1>1, <3>1, <3>4, ThreeChanged
    <3>6. OneMoves(n)
      BY <2>3, <3>2, <3>3 DEF OneMoves, RankTypes
    <3>7. stepNo'[n] \in Nat
      BY <1>2, <3>1, <3>3
    <3> QED
      BY <1>3, <2>3, <3>3, <3>5, <3>6, <3>7
  <2>5. CASE ReadsShutdown(v, f, x)
    <3>1. f.type = "shutdown" /\ x = [v EXCEPT !.pc = "over"]
      BY <2>5 DEF ReadsShutdown
    <3>2. /\ pc' = [pc EXCEPT ![n] = "over"] /\ UNCHANGED <<stepNo, todo>>
      BY <1>5, <3>1 DEF Recv
    <3> HIDE DEF f
    <3>3. pc'[n] = "over" /\ ~Planning(n)'
      BY <1>0, <3>2 DEF RankTypes, Planning
    <3>4. View(n)' = Parts(lanes[n], cache[n], rel[n], released[n], stepNo[n], todo[n], "over", job[n])
      BY <2>3, <3>2, <3>3, PlainViewNext
    <3>5. View(n)' = x
      BY <1>1, <3>1, <3>4 DEF Parts
    <3>6. OneMoves(n)
      BY <2>3, <3>2, <3>3 DEF OneMoves, RankTypes
    <3> QED
      BY <1>2, <1>3, <2>3, <3>2, <3>3, <3>5, <3>6
  <2> QED
    BY <2>2, <2>4, <2>5
<1>6. CASE NodeFlag(n)
  <2>1. pc[n] = "flag" /\ UNCHANGED <<headSends, lanes, rel, released, stepNo, todo>>
    BY <1>6 DEF NodeFlag, headSends, syncVars
  <2>2. ReadsFlag(v, f, x)
    BY <1>1, <1>4, <2>1 DEF Reads, ReadsStep, ReadsShutdown
  <2>3. f.type = "flag" /\ f.v \in BOOLEAN /\ f = FlagFrame(f.v)
    <3>1. f.type = "flag"
      BY <2>2 DEF ReadsFlag
    <3>2. f \in [type : {"flag"}, v : BOOLEAN]
      BY <1>4, <3>1 DEF Frames
    <3> QED
      BY <3>2 DEF FlagFrame
  <2>4. AtBoundary(n, f.v)
    BY <1>6, <2>3 DEF NodeFlag
  <2> DEFINE b == f.v
  <2>5. b \in BOOLEAN /\ AtBoundary(n, b) /\ f = FlagFrame(b)
    BY <2>3, <2>4
  <2> HIDE DEF f, b
  <2>6. ReadsFlag(v, FlagFrame(b), View(n)') /\ OneMoves(n) /\ ~Planning(n)'
    BY <1>0, <2>1, <2>5, BoundaryReads DEF v
  <2>7. View(n)' = x
    BY <2>2, <2>5, <2>6 DEF ReadsFlag
  <2>8. pc'[n] # "bailed"
    <3>1. pc' = [pc EXCEPT ![n] = pc'[n]] /\ pc'[n] \in {"apply", "seam", "round", "flag"}
      BY <1>0, <2>5 DEF AtBoundary, Prefill, RankTypes
    <3> QED
      BY <3>1
  <2> QED
    BY <1>2, <1>3, <2>1, <2>6, <2>7, <2>8
<1> QED
  BY <1>5, <1>6
-----------------------------------------------------------------------------
(* The inductive invariant *)

\* The lockstep counters are the same on every rank.
SameCount == \A j, k \in Ranks : agreed[j] = agreed[k]

NoneBailed == \A k \in Ranks : pc[k] # "bailed"

\* A stopped rank's tables do not matter any more.
RanksFine == \A k \in Ranks \ Stopped : Fine(scoped, View(k))

\* Where a mirror is: behind the head by the frames in its stream, or ahead of it by
\* steps that need no frame.  Behind a head that stopped, the frames still lead somewhere.
Behind(n) == Leads(scoped, View(n), ctl[n], View(0))
Ahead(n) == ctl[n] = <<>> /\ Leads(scoped, View(0), <<>>, View(n))
Orphaned(n) == \E w \in RankViews : Leads(scoped, View(n), ctl[n], w)
InStep(n) == IF 0 \in Stopped THEN Orphaned(n) ELSE Behind(n) \/ Ahead(n)
Sync == \A n \in Nodes \ Stopped : InStep(n)

RankInv == RankTypes /\ Roles /\ NoneBailed /\ SameCount /\ RanksFine /\ Planned /\ Sync
IInv == ClientTypes /\ LinkTypes /\ RankInv

\* A view that waits for the others.
Waits(v) == v.pc \in {"seam", "round"} \/ (v.pc = "top" /\ FastCtl /\ BusyOf(v.lanes) # {})

LEMMA NoFrameNoWay ==
    ASSUME NEW sc, NEW v \in RankViews, NEW w \in RankViews, Leads(sc, v, <<>>, w), v.pc # "apply"
    PROVE  v = w
<1>1. Begins(sc, v, <<>>, w)
  <2>1. <<>> \in Seq(Frames)
    OBVIOUS
  <2> QED
    BY <2>1, LeadsBegins
<1> QED
  BY <1>1 DEF Begins, Silent

LEMMA WaitsThere ==
    ASSUME NEW sc, NEW v \in RankViews, NEW w \in RankViews, NEW fs \in Seq(Frames),
           Leads(sc, v, fs, w), Waits(v)
    PROVE  v = w /\ fs = <<>>
<1>1. Begins(sc, v, fs, w)
  BY LeadsBegins
<1> QED
  BY <1>1 DEF Begins, Silent, Reads, ReadsStep, ReadsFlag, ReadsShutdown, Waits

LEMMA GoesSilently ==
    ASSUME NEW sc, NEW v \in RankViews, NEW x \in RankViews, NEW w \in RankViews, NEW fs \in Seq(Frames),
           Leads(sc, v, fs, w), Silent(sc, v, x)
    PROVE  Leads(sc, x, fs, w) \/ (v = w /\ fs = <<>>)
<1>1. Begins(sc, v, fs, w)
  BY LeadsBegins
<1>2. v.pc = "apply"
  BY DEF Silent
<1>3. \A f, y : ~Reads(sc, v, f, y)
  BY <1>2 DEF Reads, ReadsStep, ReadsFlag, ReadsShutdown
<1>4. CASE \E y \in RankViews : Silent(sc, v, y) /\ Leads(sc, y, fs, w)
  BY <1>4, SilentUnique
<1> QED
  BY <1>1, <1>3, <1>4 DEF Begins

LEMMA GoesByFrame ==
    ASSUME NEW sc, NEW v \in RankViews, NEW w \in RankViews, NEW fs \in Seq(Frames), fs # <<>>,
           Leads(sc, v, fs, w), v.pc # "apply"
    PROVE  \E x \in RankViews : Reads(sc, v, Head(fs), x) /\ Leads(sc, x, Tail(fs), w)
<1>1. Begins(sc, v, fs, w)
  BY LeadsBegins
<1> QED
  BY <1>1 DEF Begins, Silent

-----------------------------------------------------------------------------
(* One rank moves *)

LEMMA StoppedIs ==
    ASSUME NEW k \in Ranks
    PROVE  /\ k \in Stopped <=> pc[k] \in {"stopped", "bailed", "dead", "over"}
           /\ k \in Stopped' <=> pc'[k] \in {"stopped", "bailed", "dead", "over"}
BY DEF Stopped

\* The views and the streams as they are, the invariant stays.
LEMMA ViewsStay ==
    ASSUME RankInv, RankTypes', Roles', Planned', LinkTypes, NEW k \in Ranks,
           UNCHANGED <<scoped, ctl, agreed>>, \A j \in Ranks : View(j)' = View(j),
           \A j \in Ranks : j \in Stopped' <=> j \in Stopped, NoneBailed'
    PROVE  RankInv'
<1>1. SameCount'
  BY DEF RankInv, SameCount
<1>2. RanksFine'
  BY DEF RankInv, RanksFine
<1>3. Sync'
  BY RankSets DEF RankInv, Sync, InStep, Behind, Ahead, Orphaned
<1> QED
  BY <1>1, <1>2, <1>3 DEF RankInv

LEMMA HeadMovesOn ==
    ASSUME RankInv, LinkTypes, OneMoves(0), ~Planning(0)', stepNo'[0] \in Nat, 0 \notin Stopped,
           UNCHANGED <<scoped, agreed>>, View(0)' \in RankViews, Fine(scoped, View(0)'),
           pc'[0] \notin {"recv", "bailed"},
           \A n \in Nodes \ Stopped : InStep(n)'
    PROVE  RankInv'
<1>1. RankTypes'
  BY RankSets, OneMovesTypes DEF RankInv
<1>2. \A n \in Nodes : View(n)' = View(n) /\ pc'[n] = pc[n]
  BY RankSets, OneMovesViews DEF RankInv
<1>3. Roles' /\ NoneBailed' /\ Planned'
  BY <1>2, RankSets DEF RankInv, Roles, NoneBailed, Planned, Planning
<1>4. SameCount'
  BY DEF RankInv, SameCount
<1>5. RanksFine'
  <2> SUFFICES ASSUME NEW k \in Ranks \ Stopped' PROVE Fine(scoped, View(k)')
    BY DEF RanksFine
  <2>1. CASE k = 0
    BY <2>1
  <2>2. CASE k # 0
    <3>1. k \in Nodes /\ k \notin Stopped
      BY <1>2, <2>2, RankSets, StoppedIs
    <3> QED
      BY <1>2, <3>1, RankSets DEF RankInv, RanksFine
  <2> QED
    BY <2>1, <2>2
<1>6. Sync'
  <2> SUFFICES ASSUME NEW n \in Nodes \ Stopped' PROVE InStep(n)'
    BY DEF Sync
  <2>1. n \notin Stopped
    BY <1>2, RankSets, StoppedIs
  <2> QED
    BY <2>1
<1> QED
  BY <1>1, <1>3, <1>4, <1>5, <1>6 DEF RankInv

LEMMA HeadApplies ==
    ASSUME RankInv, LinkTypes, Apply(0)
    PROVE  RankInv' /\ UNCHANGED otherThanRanks
<1>0. 0 \in Ranks /\ pc[0] = "apply" /\ 0 \notin Stopped /\ RankTypes
  BY RankSets, StoppedIs DEF Apply, ApplyDone, ApplyCancel, ApplyAdmit, RankInv
<1>1. View(0) \in RankViews /\ Fine(scoped, View(0))
  BY <1>0, ViewType DEF RankInv, RanksFine
<1>2. /\ Silent(scoped, View(0), View(0)') /\ OneMoves(0) /\ ~Planning(0)'
      /\ stepNo'[0] = stepNo[0] /\ UNCHANGED otherThanRanks
  BY <1>0, <1>1, ApplyIsSilent
<1>3. View(0)' \in RankViews /\ Fine(scoped, View(0)')
  BY <1>1, <1>2, SilentFine
<1>4. pc'[0] \notin {"recv", "bailed"} /\ 0 \notin Stopped'
  <2>1. pc'[0] \in {"apply", "round", "top", "seam", "flag"}
    BY <1>0 DEF Apply, ApplyDone, ApplyCancel, ApplyAdmit, Prefill, RankTypes
  <2> QED
    BY <1>0, <2>1, StoppedIs
<1>5. ASSUME NEW n \in Nodes \ Stopped PROVE InStep(n)'
  <2>0. /\ n \in Ranks /\ n # 0 /\ View(n)' = View(n) /\ View(n) \in RankViews /\ ctl[n] \in Seq(Frames)
        /\ ctl' = ctl /\ scoped' = scoped /\ <<>> \in Seq(Frames)
    BY <1>0, <1>2, RankSets, OneMovesViews, ViewType DEF LinkTypes, otherThanRanks, clientVars
  <2>1. Behind(n) \/ Ahead(n)
    BY <1>0, <1>5 DEF RankInv, Sync, InStep
  <2>2. CASE Behind(n)
    <3>1. Leads(scoped, View(n), ctl[n], View(0)')
      BY <1>1, <1>2, <1>3, <2>0, <2>2, LeadsOn DEF Behind
    <3> QED
      BY <1>4, <2>0, <3>1 DEF InStep, Behind
  <2>3. CASE Ahead(n)
    <3>1. Leads(scoped, View(0)', <<>>, View(n)) \/ View(0) = View(n)
      BY <1>1, <1>2, <1>3, <2>0, <2>3, GoesSilently DEF Ahead
    <3>2. CASE Leads(scoped, View(0)', <<>>, View(n))
      BY <1>4, <2>0, <2>3, <3>2 DEF InStep, Ahead
    <3>3. CASE View(0) = View(n)
      <4>1. Leads(scoped, View(n), <<>>, View(n))
        BY <2>0, LeadsNowhere
      <4>2. Leads(scoped, View(n), <<>>, View(0)')
        BY <1>2, <1>3, <2>0, <3>3, <4>1, LeadsOn
      <4> QED
        BY <1>4, <2>0, <2>3, <4>2 DEF InStep, Behind, Ahead
    <3> QED
      BY <3>1, <3>2, <3>3
  <2> QED
    BY <2>1, <2>2, <2>3
<1>6. stepNo'[0] \in Nat /\ UNCHANGED <<scoped, agreed>>
  BY <1>0, <1>2 DEF RankTypes, otherThanRanks, clientVars
<1>7. RankInv'
  BY <1>0, <1>2, <1>3, <1>4, <1>5, <1>6, HeadMovesOn
<1> QED
  BY <1>2, <1>7
\* A frame the head sends is one more for every mirror to read.
LEMMA HeadSendsFrame ==
    ASSUME RankInv, LinkTypes, Ship \/ HeadFlag \/ Shutdown
    PROVE  RankInv' /\ LinkTypes' /\ UNCHANGED headSends
<1>0. 0 \in Ranks /\ pc[0] \in {"ship", "flag", "top"} /\ 0 \notin Stopped /\ RankTypes /\ Planned
  BY RankSets, StoppedIs DEF Ship, HeadFlag, Shutdown, RankInv
<1>1. View(0) \in RankViews /\ Fine(scoped, View(0))
  BY <1>0, ViewType DEF RankInv, RanksFine
<1>2. /\ \E f \in Frames : /\ Reads(scoped, View(0), f, View(0)')
                           /\ ctl' = [n \in Nodes |-> Append(ctl[n], f)]
      /\ OneMoves(0) /\ ~Planning(0)' /\ stepNo'[0] = stepNo[0] /\ UNCHANGED headSends
      /\ Shutdown => pc'[0] = "over"
  BY <1>0, <1>1, HeadReads
<1>3. PICK f \in Frames : /\ Reads(scoped, View(0), f, View(0)')
                          /\ ctl' = [n \in Nodes |-> Append(ctl[n], f)]
  BY <1>2
<1>4. View(0)' \in RankViews /\ Fine(scoped, View(0)')
  BY <1>1, <1>3, ReadsFine
<1>5. LinkTypes'
  <2>1. \A n \in Nodes : Append(ctl[n], f) \in Seq(Frames)
    BY AppendProperties DEF LinkTypes
  <2> QED
    BY <1>2, <1>3, <2>1 DEF LinkTypes, headSends
<1>6. pc'[0] \notin {"recv", "bailed"}
  BY <1>0 DEF Ship, HeadFlag, Shutdown, AtBoundary, Prefill, RankTypes
<1>7. View(0).pc # "apply"
  BY <1>0 DEF View
<1>8. ASSUME NEW n \in Nodes \ Stopped PROVE InStep(n)'
  <2>0. /\ n \in Ranks /\ n # 0 /\ View(n)' = View(n) /\ View(n) \in RankViews /\ ctl[n] \in Seq(Frames)
        /\ ctl'[n] = Append(ctl[n], f) /\ scoped' = scoped /\ <<>> \in Seq(Frames)
    BY <1>0, <1>2, <1>3, RankSets, OneMovesViews, ViewType DEF LinkTypes, headSends, clientVars
  <2>1. Behind(n) \/ Ahead(n)
    BY <1>0, <1>8 DEF RankInv, Sync, InStep
  <2>2. Leads(scoped, View(n), ctl[n], View(0))
    <3>1. CASE Ahead(n)
      <4>1. View(0) = View(n)
        BY <1>1, <1>7, <2>0, <3>1, NoFrameNoWay DEF Ahead
      <4> QED
        BY <1>1, <3>1, <4>1, LeadsNowhere DEF Ahead
    <3> QED
      BY <2>1, <3>1 DEF Behind
  <2>3. Leads(scoped, View(n), Append(ctl[n], f), View(0)')
    BY <1>1, <1>3, <1>4, <2>0, <2>2, LeadsFurther
  <2> QED
    BY <1>4, <2>0, <2>3 DEF InStep, Behind, Orphaned
<1>9. stepNo'[0] \in Nat /\ UNCHANGED <<scoped, agreed>>
  BY <1>0, <1>2 DEF RankTypes, headSends, clientVars
<1>10. RankInv'
  BY <1>0, <1>2, <1>4, <1>6, <1>8, <1>9, HeadMovesOn
<1> QED
  BY <1>2, <1>5, <1>10

LEMMA MirrorMovesOn ==
    ASSUME RankInv, LinkTypes, NEW n \in Nodes, OneMoves(n), ~Planning(n)', stepNo'[n] \in Nat,
           n \notin Stopped, UNCHANGED <<scoped, agreed>>, pc'[n] # "bailed",
           View(n)' \in RankViews, Fine(scoped, View(n)'),
           \A m \in Nodes : m # n => ctl'[m] = ctl[m],
           n \notin Stopped' => InStep(n)'
    PROVE  RankInv'
<1>0. n \in Ranks /\ n # 0 /\ 0 \in Ranks
  BY RankSets
<1>1. RankTypes'
  BY <1>0, OneMovesTypes DEF RankInv
<1>2. \A j \in Ranks : j # n => View(j)' = View(j) /\ pc'[j] = pc[j]
  BY <1>0, OneMovesViews DEF RankInv
<1>3. Roles' /\ NoneBailed' /\ Planned'
  <2>1. /\ lanes'[0] = lanes[0] /\ todo'[0] = todo[0] /\ pc'[0] = pc[0]
    BY <1>0 DEF OneMoves, RankInv, RankTypes
  <2>2. Planning(0)' <=> Planning(0)
    BY <2>1 DEF Planning
  <2>3. Live(0)' <=> Live(0)
    BY <2>1 DEF Live, Busy
  <2>4. pc'[n] \notin {"go", "ship"}
    BY DEF Planning
  <2>5. Roles'
    BY <1>0, <1>2, <2>1, <2>3, <2>4, RankSets DEF RankInv, Roles
  <2>6. NoneBailed'
    BY <1>2 DEF RankInv, NoneBailed
  <2> QED
    BY <2>1, <2>2, <2>5, <2>6 DEF RankInv, Planned
<1>4. SameCount'
  BY DEF RankInv, SameCount
<1>5. RanksFine'
  <2> SUFFICES ASSUME NEW k \in Ranks \ Stopped' PROVE Fine(scoped, View(k)')
    BY DEF RanksFine
  <2>1. k # n => k \notin Stopped
    BY <1>2, StoppedIs
  <2> QED
    BY <1>2, <2>1 DEF RankInv, RanksFine
<1>6. Sync'
  <2> SUFFICES ASSUME NEW m \in Nodes \ Stopped' PROVE InStep(m)'
    BY DEF Sync
  <2>1. CASE m = n
    BY <2>1
  <2>2. CASE m # n
    <3>1. m \in Ranks /\ m \notin Stopped /\ View(m)' = View(m) /\ ctl'[m] = ctl[m] /\ View(0)' = View(0)
          /\ (0 \in Stopped' <=> 0 \in Stopped)
      BY <1>0, <1>2, <2>2, RankSets, StoppedIs
    <3> QED
      BY <3>1 DEF RankInv, Sync, InStep, Behind, Ahead, Orphaned
  <2> QED
    BY <2>1, <2>2
<1> QED
  BY <1>1, <1>3, <1>4, <1>5, <1>6 DEF RankInv

LEMMA MirrorApplies ==
    ASSUME RankInv, LinkTypes, NEW n \in Nodes, Apply(n)
    PROVE  RankInv' /\ UNCHANGED otherThanRanks
<1>0. /\ n \in Ranks /\ n # 0 /\ 0 \in Ranks /\ pc[n] = "apply" /\ n \notin Stopped /\ RankTypes
  BY RankSets, StoppedIs DEF Apply, ApplyDone, ApplyCancel, ApplyAdmit, RankInv
<1>1. View(n) \in RankViews /\ Fine(scoped, View(n))
  BY <1>0, ViewType DEF RankInv, RanksFine
<1>2. /\ Silent(scoped, View(n), View(n)') /\ OneMoves(n) /\ ~Planning(n)'
      /\ stepNo'[n] = stepNo[n] /\ UNCHANGED otherThanRanks
  BY <1>0, <1>1, ApplyIsSilent
<1>3. View(n)' \in RankViews /\ Fine(scoped, View(n)')
  BY <1>1, <1>2, SilentFine
<1>4. pc'[n] # "bailed" /\ pc'[0] = pc[0] /\ View(0)' = View(0)
  <2>1. pc'[n] \in {"apply", "round", "top", "seam", "flag"}
    BY <1>0 DEF Apply, ApplyDone, ApplyCancel, ApplyAdmit, Prefill, RankTypes
  <2> QED
    BY <1>0, <1>2, <2>1, OneMovesViews
<1>5. InStep(n)'
  <2>0. /\ View(0) \in RankViews /\ ctl[n] \in Seq(Frames)
        /\ ctl' = ctl /\ scoped' = scoped /\ <<>> \in Seq(Frames)
        /\ (0 \in Stopped' <=> 0 \in Stopped)
    BY <1>0, <1>2, <1>4, RankSets, StoppedIs, ViewType DEF LinkTypes, otherThanRanks, clientVars
  <2>1. InStep(n)
    BY <1>0 DEF RankInv, Sync
  <2>2. Leads(scoped, View(n)', <<>>, View(n)')
    BY <1>3, LeadsNowhere
  <2>3. CASE 0 \in Stopped
    <3>1. PICK w \in RankViews : Leads(scoped, View(n), ctl[n], w)
      BY <2>1, <2>3 DEF InStep, Orphaned
    <3>2. Leads(scoped, View(n)', ctl[n], w) \/ (View(n) = w /\ ctl[n] = <<>>)
      BY <1>1, <1>2, <1>3, <2>0, <3>1, GoesSilently
    <3>3. \E y \in RankViews : Leads(scoped, View(n)', ctl[n], y)
      BY <1>3, <2>2, <3>2
    <3> QED
      BY <2>0, <2>3, <3>3 DEF InStep, Orphaned
  <2>4. CASE 0 \notin Stopped /\ Behind(n)
    <3>1. Leads(scoped, View(n)', ctl[n], View(0)) \/ (View(n) = View(0) /\ ctl[n] = <<>>)
      BY <1>1, <1>2, <1>3, <2>0, <2>4, GoesSilently DEF Behind
    <3>2. CASE Leads(scoped, View(n)', ctl[n], View(0))
      BY <1>4, <2>0, <2>4, <3>2 DEF InStep, Behind
    <3>3. CASE View(n) = View(0) /\ ctl[n] = <<>>
      <4>1. Leads(scoped, View(0), <<>>, View(n)')
        BY <1>1, <1>2, <1>3, <2>0, <3>3, LeadsNowhere, LeadsOn
      <4> QED
        BY <1>4, <2>0, <2>4, <3>3, <4>1 DEF InStep, Ahead
    <3> QED
      BY <3>1, <3>2, <3>3
  <2>5. CASE 0 \notin Stopped /\ Ahead(n)
    <3>1. Leads(scoped, View(0), <<>>, View(n)')
      BY <1>1, <1>2, <1>3, <2>0, <2>5, LeadsOn DEF Ahead
    <3> QED
      BY <1>4, <2>0, <2>5, <3>1 DEF InStep, Ahead
  <2> QED
    BY <2>1, <2>3, <2>4, <2>5 DEF InStep
<1>6. stepNo'[n] \in Nat /\ UNCHANGED <<scoped, agreed, ctl>>
  BY <1>0, <1>2 DEF RankTypes, otherThanRanks, clientVars
<1>7. RankInv'
  BY <1>0, <1>2, <1>3, <1>4, <1>5, <1>6, MirrorMovesOn
<1> QED
  BY <1>2, <1>7

LEMMA MirrorReadsOn ==
    ASSUME RankInv, LinkTypes, NEW n \in Nodes, Recv(n) \/ NodeFlag(n)
    PROVE  RankInv' /\ LinkTypes' /\ UNCHANGED headSends
<1>0. /\ n \in Ranks /\ n # 0 /\ 0 \in Ranks /\ pc[n] \in {"recv", "top", "flag"} /\ n \notin Stopped
      /\ RankTypes /\ Roles /\ ctl[n] # <<>> /\ ctl[n] \in Seq(Frames)
  BY RankSets, StoppedIs DEF Recv, NodeFlag, Reading, RankInv, LinkTypes
<1>1. View(n) \in RankViews /\ Fine(scoped, View(n)) /\ View(n).pc = pc[n] /\ View(0) \in RankViews
  BY <1>0, ViewType DEF RankInv, RanksFine, View
<1>2. \E w \in RankViews : /\ Leads(scoped, View(n), ctl[n], w)
                           /\ 0 \notin Stopped => w = View(0)
  BY <1>0, <1>1 DEF RankInv, Sync, InStep, Behind, Ahead, Orphaned
<1>3. PICK w \in RankViews : Leads(scoped, View(n), ctl[n], w) /\ (0 \notin Stopped => w = View(0))
  BY <1>2
<1>4. PICK x \in RankViews : /\ Reads(scoped, View(n), Head(ctl[n]), x)
                             /\ Leads(scoped, x, Tail(ctl[n]), w)
  BY <1>0, <1>1, <1>3, GoesByFrame
<1>5. /\ View(n)' = x /\ ctl' = [ctl EXCEPT ![n] = Tail(@)]
      /\ OneMoves(n) /\ ~Planning(n)' /\ stepNo'[n] \in Nat /\ pc'[n] # "bailed"
      /\ UNCHANGED headSends
  BY <1>0, <1>4, MirrorReads
<1>6. Head(ctl[n]) \in Frames /\ Tail(ctl[n]) \in Seq(Frames)
  BY <1>0, HeadTailProperties
<1>7. Fine(scoped, x)
  BY <1>1, <1>4, <1>6, ReadsFine
<1>8. LinkTypes'
  BY <1>5, <1>6 DEF LinkTypes, headSends
<1>9. /\ \A m \in Nodes : m # n => ctl'[m] = ctl[m]
      /\ ctl'[n] = Tail(ctl[n]) /\ UNCHANGED <<scoped, agreed>>
  BY <1>5 DEF LinkTypes, headSends, clientVars
<1>10. InStep(n)'
  <2>1. View(0)' = View(0) /\ (0 \in Stopped' <=> 0 \in Stopped)
    BY <1>0, <1>5, OneMovesViews, StoppedIs
  <2> QED
    BY <1>3, <1>4, <1>5, <1>9, <2>1 DEF InStep, Behind, Orphaned
<1>11. RankInv'
  BY <1>0, <1>5, <1>7, <1>9, <1>10, MirrorMovesOn
<1> QED
  BY <1>5, <1>8, <1>11
\* A rank that stops leaves the others where they are.
LEMMA RankStops ==
    ASSUME RankInv, LinkTypes, NEW k \in Ranks, NEW p \in {"stopped", "dead", "over"},
           pc' = [pc EXCEPT ![k] = p], RankTypes',
           UNCHANGED <<scoped, ctl, agreed, todo>>, k # 0 => UNCHANGED lanes,
           \A j \in Ranks : j # k => View(j)' = View(j)
    PROVE  RankInv'
<1>0. 0 \in Ranks /\ RankTypes
  BY RankSets DEF RankInv
<1>1. pc'[k] = p /\ \A j \in Ranks : j # k => pc'[j] = pc[j]
  BY <1>0 DEF RankTypes
<1>2. k \in Stopped' /\ \A j \in Ranks : j # k => (j \in Stopped' <=> j \in Stopped)
  BY <1>1, StoppedIs
<1>3. Roles' /\ NoneBailed'
  BY <1>0, <1>1, RankSets DEF RankInv, Roles, NoneBailed, Live, Busy
<1>4. Planned' /\ SameCount'
  BY <1>0, <1>1 DEF RankInv, Planned, Planning, SameCount
<1>5. RanksFine'
  BY <1>2 DEF RankInv, RanksFine
<1>6. ASSUME NEW n \in Nodes \ Stopped' PROVE InStep(n)'
  <2>0. n \in Ranks /\ n \notin Stopped /\ View(n)' = View(n) /\ InStep(n) /\ View(n) \in RankViews
        /\ View(0) \in RankViews
    BY <1>0, <1>2, RankSets, ViewType DEF RankInv, Sync
  <2>1. CASE k # 0
    <3>1. View(0)' = View(0) /\ (0 \in Stopped' <=> 0 \in Stopped)
      BY <1>0, <1>2, <2>1
    <3> QED
      BY <2>0, <3>1 DEF InStep, Behind, Ahead, Orphaned
  <2>2. CASE k = 0
    <3>1. \E w \in RankViews : Leads(scoped, View(n), ctl[n], w)
      <4>1. Leads(scoped, View(n), <<>>, View(n))
        BY <2>0, LeadsNowhere
      <4> QED
        BY <2>0, <4>1 DEF InStep, Behind, Ahead, Orphaned
    <3> QED
      BY <1>2, <2>0, <2>2, <3>1 DEF InStep, Orphaned
  <2> QED
    BY <2>1, <2>2
<1> QED
  BY <1>3, <1>4, <1>5, <1>6 DEF RankInv, Sync

LEMMA FreeTables == [s \in Slots |-> FreeLane] \in Tables
<1>1. FreeLane \in [req : Reqs \cup {NoReq}, left : Nat]
  BY DEF FreeLane
<1> QED
  BY <1>1 DEF Tables

LEMMA RankFails ==
    ASSUME IInv, NEW k \in Ranks, Fails(k), faults' \in 0..MaxFaults
    PROVE  IInv'
<1>0. RankInv /\ RankTypes /\ LinkTypes /\ ClientTypes /\ 0 \in Ranks
  BY RankSets DEF IInv, RankInv
<1>1. /\ pc' = [pc EXCEPT ![k] = "stopped"]
      /\ UNCHANGED <<scoped, handed, gone, cache, rel, released, stepNo, agreed, todo, ctl>>
  BY DEF Fails, HeadFails, clientVars, syncVars
<1>2. k # 0 => UNCHANGED <<finish, lanes, rx, waiting, job>>
  BY DEF Fails
<1>3. k = 0 => /\ finish' = [r \in Reqs |-> IF r \in HeadHolds /\ finish[r] = "none" THEN "error" ELSE finish[r]]
               /\ lanes' = [lanes EXCEPT ![0] = [s \in Slots |-> FreeLane]]
               /\ rx' = <<>> /\ waiting' = <<>>
               /\ job' = [job EXCEPT ![0] = NoJob]
  BY DEF Fails, HeadFails
<1>4. ClientTypes'
  <2>1. k = 0 => finish' \in [Reqs -> {"none", "done", "error"}]
    BY <1>0, <1>3 DEF ClientTypes
  <2>2. finish' \in [Reqs -> {"none", "done", "error"}]
    BY <1>0, <1>2, <2>1 DEF ClientTypes
  <2>3. rx' \in Seq(Reqs) /\ waiting' \in Seq(Reqs)
    <3>1. <<>> \in Seq(Reqs)
      OBVIOUS
    <3>2. k = 0 => rx' = <<>> /\ waiting' = <<>>
      BY <1>3
    <3> QED
      BY <1>0, <1>2, <3>1, <3>2 DEF ClientTypes
  <2> QED
    BY <1>0, <1>1, <2>2, <2>3 DEF ClientTypes
<1>5. LinkTypes'
  BY <1>0, <1>1 DEF LinkTypes
<1>6. lanes' \in [Ranks -> Tables] /\ job' \in [Ranks -> Jobs]
  BY <1>0, <1>2, <1>3, FreeTables, NoJobType DEF RankTypes
<1>7. pc' \in [Ranks -> Places]
  <2>1. "stopped" \in Places
    BY DEF Places
  <2> QED
    BY <1>0, <1>1, <2>1 DEF RankTypes
<1>8. RankTypes'
  BY <1>0, <1>1, <1>6, <1>7 DEF RankTypes
<1>9. \A j \in Ranks : j # k => View(j)' = View(j)
  <2> SUFFICES ASSUME NEW j \in Ranks, j # k PROVE View(j)' = View(j)
    OBVIOUS
  <2>1. lanes'[j] = lanes[j] /\ job'[j] = job[j] /\ pc'[j] = pc[j]
    BY <1>0, <1>1, <1>2, <1>3 DEF RankTypes
  <2> QED
    BY <1>1, <2>1 DEF View, Planning, Live, Busy
<1>10. RankInv'
  BY <1>0, <1>1, <1>2, <1>8, <1>9, RankStops
<1> QED
  BY <1>4, <1>5, <1>10 DEF IInv

LEMMA RankCrashes ==
    ASSUME IInv, NEW k \in Ranks, Crash(k) \/ (k \in Nodes /\ StreamClosed(k))
    PROVE  IInv'
<1>0. RankInv /\ RankTypes /\ LinkTypes /\ ClientTypes /\ 0 \in Ranks
  BY RankSets DEF IInv, RankInv
<1> DEFINE p == IF Crash(k) THEN "dead" ELSE "over"
<1>1. /\ pc' = [pc EXCEPT ![k] = p]
      /\ UNCHANGED <<clientVars, finish, rx, waiting, tableVars, syncVars, job, ctl>>
      /\ faults' \in 0..MaxFaults
  <2>1. CASE Crash(k)
    <3>1. faults' = faults + 1 /\ faults < MaxFaults /\ faults \in 0..MaxFaults /\ MaxFaults \in Nat
      BY <1>0, <2>1, TpAssumption DEF Crash, LinkTypes
    <3> QED
      BY <2>1, <3>1 DEF Crash
  <2>2. CASE ~Crash(k)
    BY <1>0, <2>2 DEF StreamClosed, LinkTypes
  <2> QED
    BY <2>1, <2>2
<1>2. p \in {"stopped", "dead", "over"} /\ p \in Places
  BY DEF Places
<1> HIDE DEF p
<1>3. /\ UNCHANGED <<scoped, handed, gone, finish, rx, waiting, lanes, cache, rel, released,
                     stepNo, agreed, todo, job, ctl>>
  BY <1>1 DEF clientVars, tableVars, syncVars
<1>4. ClientTypes' /\ LinkTypes' /\ RankTypes'
  BY <1>0, <1>1, <1>2, <1>3 DEF ClientTypes, LinkTypes, RankTypes
<1>5. \A j \in Ranks : j # k => View(j)' = View(j)
  <2> SUFFICES ASSUME NEW j \in Ranks, j # k PROVE View(j)' = View(j)
    OBVIOUS
  <2>1. pc'[j] = pc[j]
    BY <1>0, <1>1 DEF RankTypes
  <2> QED
    BY <1>3, <2>1 DEF View, Planning, Live, Busy
<1>6. RankInv'
  BY <1>0, <1>1, <1>2, <1>3, <1>4, <1>5, RankStops
<1> QED
  BY <1>4, <1>6 DEF IInv

\* Clients only touch what is theirs.
LEMMA ClientActs ==
    ASSUME IInv, NEW r \in Reqs, Submit(r) \/ Leave(r) \/ SenderDropped(r)
    PROVE  IInv'
<1>0. RankInv /\ RankTypes /\ LinkTypes /\ ClientTypes
  BY DEF IInv, RankInv
<1>1. UNCHANGED <<scoped, lanes, cache, rel, released, stepNo, agreed, todo, pc, job, ctl, faults>>
  BY DEF Submit, Leave, SenderDropped, clientVars, tableVars, syncVars
<1>2. ClientTypes'
  <2>1. CASE Submit(r)
    <3>1. Append(rx, r) \in Seq(Reqs)
      BY <1>0 DEF ClientTypes
    <3> QED
      BY <1>0, <2>1, <3>1 DEF ClientTypes, Submit
  <2>2. CASE Leave(r)
    BY <1>0, <2>2 DEF ClientTypes, Leave
  <2>3. CASE SenderDropped(r)
    BY <1>0, <2>3 DEF ClientTypes, SenderDropped, clientVars
  <2> QED
    BY <2>1, <2>2, <2>3
<1>3. RankTypes' /\ LinkTypes'
  BY <1>0, <1>1 DEF RankTypes, LinkTypes
<1>4. \A j \in Ranks : View(j)' = View(j)
  BY <1>1 DEF View, Planning, Live, Busy
<1>5. Roles' /\ Planned' /\ NoneBailed' /\ \A j \in Ranks : j \in Stopped' <=> j \in Stopped
  BY <1>0, <1>1, StoppedIs DEF RankInv, Roles, Planned, Planning, NoneBailed, Live, Busy
<1>6. RankInv'
  BY <1>0, <1>1, <1>3, <1>4, <1>5, RankSets, ViewsStay
<1> QED
  BY <1>2, <1>3, <1>6 DEF IInv
-----------------------------------------------------------------------------
(* The head plans a step *)

LEMMA JoinParts ==
    ASSUME NEW S, NEW cs \in Seq(S), NEW ad \in Seq(S)
    PROVE  /\ cs \o ad \in Seq(S) /\ Len(cs) \in 0..Len(cs \o ad)
           /\ \A i \in 1..Len(cs) : (cs \o ad)[i] = cs[i]
           /\ \A i \in (Len(cs) + 1)..Len(cs \o ad) :
                    i - Len(cs) \in 1..Len(ad) /\ (cs \o ad)[i] = ad[i - Len(cs)]
           /\ Len(cs \o ad) - Len(cs) = Len(ad) /\ Len(ad) \in Nat
<1>1. /\ cs \o ad \in Seq(S) /\ Len(cs \o ad) = Len(cs) + Len(ad)
      /\ Len(cs) \in Nat /\ Len(ad) \in Nat
  BY ConcatProperties
<1>2. \A i \in 1..(Len(cs) + Len(ad)) : (cs \o ad)[i] = IF i <= Len(cs) THEN cs[i] ELSE ad[i - Len(cs)]
  BY ConcatProperties
<1>3. \A i \in 1..Len(cs) : i \in 1..(Len(cs) + Len(ad)) /\ i <= Len(cs)
  BY <1>1
<1>4. \A i \in (Len(cs) + 1)..(Len(cs) + Len(ad)) :
         i \in 1..(Len(cs) + Len(ad)) /\ ~(i <= Len(cs)) /\ i - Len(cs) \in 1..Len(ad)
  BY <1>1
<1>5. Len(cs) \in 0..Len(cs \o ad) /\ Len(cs \o ad) - Len(cs) = Len(ad)
  BY <1>1
<1> QED
  BY <1>1, <1>2, <1>3, <1>4, <1>5

LEMMA CutSame ==
    ASSUME NEW p, NEW q, NEW n, \A i \in 1..n : p[i] = q[i]
    PROVE  CutBy(p, n) = CutBy(q, n)
BY DEF CutBy

LEMMA JoinFits ==
    ASSUME NEW sc, NEW table, NEW cs \in Seq(StepEvents), NEW ad \in Seq(StepEvents),
           \A i \in 1..Len(cs) : cs[i].type = "cancel",
           \A i \in 1..Len(ad) :
              /\ ad[i].type = "admit"
              /\ IF sc THEN ad[i].allowed # {} /\ ad[i].allowed \subseteq IdleOf(table)
                       ELSE ad[i].allowed = Slots,
           Len(ad) <= IF sc THEN 1 ELSE Cardinality(IdleOf(table) \cup CutBy(cs, Len(cs)))
    PROVE  cs \o ad \in Seq(StepEvents) /\ Fits(sc, table, cs \o ad, NoJob)
<1> DEFINE es == cs \o ad
           c == Len(cs)
<1>1. /\ es \in Seq(StepEvents) /\ c \in 0..Len(es)
      /\ \A i \in 1..c : es[i] = cs[i]
      /\ \A i \in (c + 1)..Len(es) : i - c \in 1..Len(ad) /\ es[i] = ad[i - c]
      /\ Len(es) - c = Len(ad) /\ Len(ad) \in Nat
  BY JoinParts
<1>2. (Len(es) - c) + Taken(NoJob) = Len(ad)
  BY <1>1 DEF Taken
<1> HIDE DEF es
<1>5. CutBy(es, c) = CutBy(cs, c)
  <2>1. \A i \in 1..c : es[i] = cs[i]
    BY <1>1
  <2> HIDE DEF c
  <2> QED
    BY <2>1, CutSame
<1>7. FitsAfter(sc, table, es, NoJob, c)
  <2>1. \A i \in 1..c : es[i].type = "cancel"
    BY <1>1
  <2>2. \A i \in (c + 1)..Len(es) :
            /\ es[i].type = "admit"
            /\ IF sc THEN es[i].allowed # {} /\ es[i].allowed \subseteq IdleOf(table)
                     ELSE es[i].allowed = Slots
    BY <1>1
  <2>3. (Len(es) - c) + Taken(NoJob) <= IF sc THEN 1 ELSE Cardinality(IdleOf(table) \cup CutBy(es, c))
    BY <1>2, <1>5
  <2> HIDE DEF c
  <2> QED
    BY <2>1, <2>2, <2>3 DEF FitsAfter
<1> QED
  BY <1>1, <1>7, FitsIs DEF es

LEMMA CancelsCut ==
    /\ Cancels \in Seq(StepEvents) /\ \A i \in 1..Len(Cancels) : Cancels[i].type = "cancel"
    /\ CutBy(Cancels, Len(Cancels)) = GoneLanes
    /\ GoneLanes \in SUBSET Slots /\ Room \in Nat
<1> DEFINE order == InOrder(GoneLanes)
           N == Cardinality(GoneLanes)
<1>1. GoneLanes \in SUBSET Slots /\ N \in Nat
  BY SlotSets DEF GoneLanes, Busy
<1>2. order \in [1..N -> GoneLanes] /\ GoneLanes = {order[i] : i \in 1..N}
  BY <1>1, InOrderLists
<1> HIDE DEF order, N
<1>3. Cancels = [i \in 1..N |-> CancelEvent(order[i])]
  <2>1. DOMAIN order = 1..N
    BY <1>2
  <2> QED
    BY <2>1 DEF Cancels, order
<1>4. \A i \in 1..N : CancelEvent(order[i]) \in StepEvents
  <2> TAKE i \in 1..N
  <2>1. order[i] \in Slots
    BY <1>1, <1>2
  <2> QED
    BY <2>1 DEF CancelEvent, StepEvents
<1>5. Cancels \in Seq(StepEvents) /\ Len(Cancels) = N
  <2>1. Cancels \in [1..N -> StepEvents]
    BY <1>3, <1>4
  <2> QED
    BY <1>1, <2>1
<1>6. \A i \in 1..N : Cancels[i].type = "cancel" /\ Cancels[i].lane = order[i]
  BY <1>3 DEF CancelEvent
<1>7. CutBy(Cancels, N) = GoneLanes
  BY <1>2, <1>6 DEF CutBy
<1>8. Room \in Nat
  BY <1>1, SlotSets DEF Room, Idle
<1> QED
  BY <1>1, <1>5, <1>6, <1>7, <1>8

LEMMA BeginKeeps ==
    ASSUME RankInv, LinkTypes, pc[0] = "top", NEW events \in Seq(StepEvents), Begin(events),
           Fits(scoped, lanes[0], events, NoJob),
           UNCHANGED <<scoped, lanes, cache, rel, released, agreed, job, ctl, faults>>
    PROVE  RankInv' /\ LinkTypes'
<1>0. 0 \in Ranks /\ RankTypes /\ 0 \notin Stopped
  BY RankSets, StoppedIs DEF RankInv
<1>1. stepNo[0] \in Nat /\ pc[0] \in Places /\ todo[0] \in Seq(StepEvents)
  BY <1>0 DEF RankTypes
<1>2. ~Planning(0) /\ todo[0] = <<>>
  BY <1>0 DEF Planning, RankInv, RanksFine, Fine, View
<1>3. LinkTypes'
  BY DEF LinkTypes
<1>4. CASE events = <<>> /\ ~Live(0)
  <2>1. UNCHANGED <<stepNo, todo, pc>>
    BY <1>4 DEF Begin
  <2>2. \A j \in Ranks : View(j)' = View(j)
    BY <2>1 DEF View, Planning, Live, Busy
  <2>3. RankTypes'
    BY <1>0, <2>1 DEF RankTypes
  <2>4. Roles' /\ Planned' /\ NoneBailed' /\ \A j \in Ranks : j \in Stopped' <=> j \in Stopped
    BY <1>0, <2>1, StoppedIs DEF RankInv, Roles, Planned, Planning, NoneBailed, Live, Busy
  <2> QED
    BY <1>0, <1>3, <2>2, <2>3, <2>4, ViewsStay
<1>5. CASE ~(events = <<>> /\ ~Live(0))
  <2> DEFINE p == IF FastCtl /\ Live(0) THEN "go" ELSE "ship"
  <2>1. /\ stepNo' = [stepNo EXCEPT ![0] = @ + 1] /\ todo' = [todo EXCEPT ![0] = events]
        /\ pc' = [pc EXCEPT ![0] = p]
    BY <1>5 DEF Begin
  <2>2. p \in {"go", "ship"} /\ p \in Places /\ (p = "go" <=> FastCtl /\ Live(0))
    BY DEF Places
  <2> HIDE DEF p
  <2>3. stepNo'[0] = stepNo[0] + 1 /\ todo'[0] = events /\ pc'[0] = p
    BY <1>0, <2>1 DEF RankTypes
  <2>4. \A j \in Ranks : j # 0 => stepNo'[j] = stepNo[j] /\ todo'[j] = todo[j] /\ pc'[j] = pc[j]
    BY <1>0, <2>1 DEF RankTypes
  <2>5. RankTypes'
    BY <1>0, <1>1, <2>1, <2>2 DEF RankTypes
  <2>6. View(0)' = View(0)
    <3>1. Planning(0)' /\ stepNo'[0] - 1 = stepNo[0] /\ Live(0)' = Live(0)
      BY <1>1, <2>2, <2>3 DEF Planning, Live, Busy
    <3>2. View(0)' = Parts(lanes[0], cache[0], rel[0], released[0], stepNo[0], <<>>, "top", job[0])
      BY <2>2, <2>3, <3>1 DEF View, Parts
    <3>3. View(0) = Parts(lanes[0], cache[0], rel[0], released[0], stepNo[0], todo[0], pc[0], job[0])
      BY <1>2, PlainView
    <3> QED
      BY <1>2, <3>2, <3>3
  <2>7. \A j \in Ranks : View(j)' = View(j)
    <3> SUFFICES ASSUME NEW j \in Ranks, j # 0 PROVE View(j)' = View(j)
      BY <2>6
    <3>1. Planning(j)' = Planning(j) /\ Live(j)' = Live(j)
      BY <2>4 DEF Planning, Live, Busy
    <3> QED
      BY <2>4, <3>1 DEF View
  <2>8. Live(0)' = Live(0)
    BY DEF Live, Busy
  <2>9. Roles' /\ NoneBailed' /\ Planned'
    BY <1>0, <2>2, <2>3, <2>4, <2>8, RankSets DEF RankInv, Roles, NoneBailed, Planned
  <2>10. \A j \in Ranks : j \in Stopped' <=> j \in Stopped
    BY <1>0, <2>2, <2>3, <2>4, StoppedIs
  <2> QED
    BY <1>0, <1>3, <2>5, <2>7, <2>9, <2>10, ViewsStay
<1> QED
  BY <1>4, <1>5

LEMMA HeadPlans ==
    ASSUME IInv, Plan
    PROVE  IInv'
<1>0. RankInv /\ LinkTypes /\ ClientTypes /\ pc[0] = "top"
  BY DEF IInv, Plan, PlanFifo, PlanHold, PlanScoped
<1> DEFINE queue == waiting \o rx
<1>1. queue \in Seq(Reqs) /\ scoped \in BOOLEAN
  BY <1>0, ConcatProperties DEF ClientTypes
<1> HIDE DEF queue
<1>2. Fits(scoped, lanes[0], Cancels, NoJob)
  <2>1. <<>> \in Seq(StepEvents) /\ Len(<<>>) = 0 /\ Cancels \o <<>> = Cancels
    BY CancelsCut, ConcatEmptySeq
  <2>2. 0 <= IF scoped THEN 1 ELSE Cardinality(IdleOf(lanes[0]) \cup CutBy(Cancels, Len(Cancels)))
    BY CancelsCut, RoomLeft
  <2>3. \A i \in 1..0 : /\ <<>>[i].type = "admit"
                        /\ IF scoped THEN <<>>[i].allowed # {} /\ <<>>[i].allowed \subseteq IdleOf(lanes[0])
                                     ELSE <<>>[i].allowed = Slots
    OBVIOUS
  <2>4. Fits(scoped, lanes[0], Cancels \o <<>>, NoJob)
    BY <2>1, <2>2, <2>3, CancelsCut, JoinFits
  <2> QED
    BY <2>1, <2>4
<1>3. CASE PlanHold
  <2>1. Begin(Cancels) /\ UNCHANGED <<clientVars, finish, tableVars, agreed, job, ctl, faults>>
        /\ waiting' = Only(queue, Present) /\ rx' = <<>>
    BY <1>3 DEF PlanHold, queue
  <2>2. RankInv' /\ LinkTypes'
    BY <1>0, <1>2, <2>1, CancelsCut, BeginKeeps DEF clientVars, tableVars
  <2>3. waiting' \in Seq(Reqs)
    BY <1>1, <2>1, OnlyType
  <2>4. ClientTypes'
    BY <1>0, <2>1, <2>3 DEF ClientTypes, clientVars
  <2> QED
    BY <2>2, <2>4 DEF IInv
<1>4. CASE PlanScoped
  <2> DEFINE present == Only(queue, Present)
  <2>1. present \in Seq(Reqs)
    BY <1>1, OnlyType
  <2>2. PICK i \in DOMAIN present, allowed \in SUBSET Idle(0) :
            /\ allowed # {}
            /\ waiting' = RemoveAt(present, i)
            /\ IF present[i] \in Refused
               THEN finish' = [finish EXCEPT ![present[i]] = "error"] /\ Begin(Cancels)
               ELSE finish' = finish /\ Begin(Events(Cancels, <<AdmitEvent(present[i], allowed)>>))
    BY <1>4 DEF PlanScoped, queue
  <2> HIDE DEF present
  <2>3. scoped /\ rx' = <<>> /\ UNCHANGED <<clientVars, tableVars, agreed, job, ctl, faults>>
    BY <1>4 DEF PlanScoped
  <2>4. present[i] \in Reqs /\ i \in 1..Len(present)
    BY <2>1, <2>2
  <2>5. waiting' \in Seq(Reqs)
    <3>1. SubSeq(present, 1, i - 1) \in Seq(Reqs)
      <4>1. 1 \in Int /\ i - 1 \in Int /\ \A l \in 1..(i - 1) : present[l] \in Reqs
        BY <2>1, <2>4
      <4> QED
        BY <4>1, SubSeqProperties
    <3>2. SubSeq(present, i + 1, Len(present)) \in Seq(Reqs)
      <4>1. i + 1 \in Int /\ Len(present) \in Int /\ \A l \in (i + 1)..Len(present) : present[l] \in Reqs
        BY <2>1, <2>4
      <4> QED
        BY <4>1, SubSeqProperties
    <3> QED
      BY <2>2, <3>1, <3>2, ConcatProperties DEF RemoveAt
  <2>6. finish' \in [Reqs -> {"none", "done", "error"}]
    BY <1>0, <2>2, <2>4 DEF ClientTypes
  <2>7. ClientTypes'
    BY <1>0, <2>3, <2>5, <2>6 DEF ClientTypes, clientVars
  <2>8. UNCHANGED <<scoped, lanes, cache, rel, released, agreed, job, ctl, faults>>
    BY <2>3 DEF clientVars, tableVars
  <2>9. CASE present[i] \in Refused
    <3>1. Begin(Cancels)
      BY <2>2, <2>9
    <3>2. RankInv' /\ LinkTypes'
      BY <1>0, <1>2, <2>8, <3>1, CancelsCut, BeginKeeps
    <3> QED
      BY <2>7, <3>2 DEF IInv
  <2>10. CASE present[i] \notin Refused
    <3> DEFINE e == AdmitEvent(present[i], allowed)
               ad == <<e>>
    <3>1. e \in StepEvents /\ e.type = "admit" /\ e.allowed = allowed
      BY <2>2, <2>4 DEF AdmitEvent, StepEvents, Idle
    <3> HIDE DEF e
    <3>2. ad \in Seq(StepEvents) /\ Len(ad) = 1 /\ ad[1] = e
      BY <3>1
    <3>3. Begin(Cancels \o ad)
      BY <2>2, <2>10 DEF Events, e
    <3> HIDE DEF ad
    <3>4. \A l \in 1..Len(ad) :
              /\ ad[l].type = "admit"
              /\ IF scoped THEN ad[l].allowed # {} /\ ad[l].allowed \subseteq IdleOf(lanes[0])
                           ELSE ad[l].allowed = Slots
      <4>1. \A l \in 1..Len(ad) : ad[l] = e
        <5> SUFFICES ASSUME NEW l \in 1..Len(ad) PROVE ad[l] = e
          OBVIOUS
        <5>1. l = 1
          BY <3>2
        <5> QED
          BY <3>2, <5>1
      <4>2. allowed # {} /\ allowed \subseteq IdleOf(lanes[0]) /\ scoped
        BY <2>2, <2>3, BusyIs
      <4> QED
        BY <3>1, <4>1, <4>2
    <3>5. Len(ad) <= IF scoped THEN 1 ELSE Cardinality(IdleOf(lanes[0]) \cup CutBy(Cancels, Len(Cancels)))
      BY <2>3, <3>2
    <3>6. Cancels \o ad \in Seq(StepEvents) /\ Fits(scoped, lanes[0], Cancels \o ad, NoJob)
      BY <3>2, <3>4, <3>5, CancelsCut, JoinFits
    <3>7. RankInv' /\ LinkTypes'
      BY <1>0, <2>8, <3>3, <3>6, BeginKeeps
    <3> QED
      BY <2>7, <3>7 DEF IInv
  <2> QED
    BY <2>9, <2>10
<1>5. CASE PlanFifo
  <2> DEFINE popped == SubSeq(queue, 1, Popped(queue))
             admits == Only(popped, Good)
             ad == [i \in DOMAIN admits |-> AdmitEvent(admits[i], Slots)]
             rest == SubSeq(queue, Popped(queue) + 1, Len(queue))
  <2>1. /\ waiting' = Only(rest, Present) /\ rx' = <<>>
        /\ finish' = [r \in Reqs |-> IF r \in (ToSet(popped) \cap Refused) \ gone
                                     THEN "error" ELSE finish[r]]
        /\ Begin(Cancels \o ad)
        /\ ~scoped /\ UNCHANGED <<clientVars, tableVars, agreed, job, ctl, faults>>
    BY <1>5 DEF PlanFifo, Events, queue
  <2>2. Popped(queue) \in 0..Len(queue) /\ Len(admits) <= Room
    BY <1>1, CancelsCut, PoppedFits
  <2>3. popped \in Seq(Reqs) /\ rest \in Seq(Reqs)
    <3> DEFINE n == Popped(queue)
    <3>1. n \in 0..Len(queue) /\ Len(queue) \in Nat
      BY <1>1, <2>2
    <3> HIDE DEF n
    <3>2. /\ 1 \in Int /\ n \in Int /\ n + 1 \in Int /\ Len(queue) \in Int
          /\ \A l \in 1..n : queue[l] \in Reqs
          /\ \A l \in (n + 1)..Len(queue) : queue[l] \in Reqs
      BY <1>1, <3>1
    <3>3. SubSeq(queue, 1, n) \in Seq(Reqs) /\ SubSeq(queue, n + 1, Len(queue)) \in Seq(Reqs)
      BY <3>2, SubSeqProperties
    <3> QED
      BY <3>3 DEF n
  <2> HIDE DEF popped, rest
  <2>4. admits \in Seq(Reqs) /\ Only(rest, Present) \in Seq(Reqs)
    BY <2>3, OnlyType
  <2>5. ClientTypes'
    BY <1>0, <2>1, <2>4 DEF ClientTypes, clientVars
  <2>6. UNCHANGED <<scoped, lanes, cache, rel, released, agreed, job, ctl, faults>>
    BY <2>1 DEF clientVars, tableVars
  <2> HIDE DEF admits
  <2>7. /\ ad \in Seq(StepEvents) /\ Len(ad) = Len(admits)
        /\ \A i \in 1..Len(ad) : ad[i].type = "admit" /\ ad[i].allowed = Slots
    <3>1. DOMAIN admits = 1..Len(admits) /\ Len(admits) \in Nat
      BY <2>4
    <3>2. \A i \in 1..Len(admits) : /\ AdmitEvent(admits[i], Slots) \in StepEvents
                                    /\ AdmitEvent(admits[i], Slots).type = "admit"
                                    /\ AdmitEvent(admits[i], Slots).allowed = Slots
      <4> TAKE i \in 1..Len(admits)
      <4>1. admits[i] \in Reqs
        BY <2>4
      <4> QED
        BY <4>1 DEF AdmitEvent, StepEvents
    <3>3. ad \in [1..Len(admits) -> StepEvents]
      BY <3>1, <3>2
    <3>4. ad \in Seq(StepEvents) /\ Len(ad) = Len(admits)
      BY <3>1, <3>3
    <3>5. \A i \in 1..Len(admits) : ad[i] = AdmitEvent(admits[i], Slots)
      BY <3>1
    <3> HIDE DEF ad
    <3> QED
      BY <3>2, <3>4, <3>5
  <2> HIDE DEF ad
  <2>8. Len(ad) <= IF scoped THEN 1 ELSE Cardinality(IdleOf(lanes[0]) \cup CutBy(Cancels, Len(Cancels)))
    BY <2>1, <2>2, <2>7, CancelsCut, BusyIs DEF Room
  <2>9. Cancels \o ad \in Seq(StepEvents) /\ Fits(scoped, lanes[0], Cancels \o ad, NoJob)
    BY <2>1, <2>7, <2>8, CancelsCut, JoinFits
  <2>10. RankInv' /\ LinkTypes'
    BY <1>0, <2>1, <2>6, <2>9, BeginKeeps
  <2> QED
    BY <2>5, <2>10 DEF IInv
<1> QED
  BY <1>3, <1>4, <1>5 DEF Plan
-----------------------------------------------------------------------------
(* The ranks meet *)

LEMMA MeetingWaits ==
    ASSUME RankInv, NEW k \in Ranks, Point(k) # "none"
    PROVE  Waits(View(k)) /\ k \notin Stopped
<1>1. pc[k] \in {"go", "top", "seam", "round"} /\ k \notin Stopped
  BY StoppedIs DEF Point
<1>2. CASE pc[k] = "go"
  <2>1. k = 0 /\ FastCtl /\ Live(0)
    BY <1>2, RankSets DEF RankInv, Roles
  <2>2. View(k).pc = "top" /\ View(k).lanes = lanes[0]
    BY <1>2, <2>1 DEF View
  <2> QED
    BY <1>1, <2>1, <2>2, BusyIs DEF Waits, Live
<1>3. CASE pc[k] = "top"
  <2>1. FastCtl /\ Live(k)
    BY <1>3 DEF Point
  <2>2. View(k).pc = "top" /\ View(k).lanes = lanes[k]
    BY <1>3 DEF View
  <2> QED
    BY <1>1, <2>1, <2>2, BusyIs DEF Waits, Live
<1>4. CASE pc[k] \in {"seam", "round"}
  BY <1>1, <1>4 DEF Waits, View
<1> QED
  BY <1>1, <1>2, <1>3, <1>4

LEMMA AllAlike ==
    ASSUME RankInv, LinkTypes, AllMeet
    PROVE  /\ \A k \in Ranks : View(k) = View(0) /\ k \notin Stopped
           /\ \A n \in Nodes : ctl[n] = <<>>
<1>1. \A k \in Ranks : Waits(View(k)) /\ k \notin Stopped /\ View(k) \in RankViews
  BY MeetingWaits, ViewType DEF AllMeet, RankInv
<1>2. ASSUME NEW n \in Nodes PROVE View(n) = View(0) /\ ctl[n] = <<>>
  <2>1. n \in Ranks /\ 0 \in Ranks /\ ctl[n] \in Seq(Frames) /\ <<>> \in Seq(Frames)
    BY RankSets DEF LinkTypes
  <2>2. Behind(n) \/ Ahead(n)
    BY <1>1, <2>1 DEF RankInv, Sync, InStep
  <2>3. CASE Behind(n)
    BY <1>1, <2>1, <2>3, WaitsThere DEF Behind
  <2>4. CASE Ahead(n)
    BY <1>1, <2>1, <2>4, WaitsThere DEF Ahead
  <2> QED
    BY <2>2, <2>3, <2>4
<1> QED
  BY <1>1, <1>2, RankSets

\* What alike views mean for the variables.
LEMMA AlikeTables ==
    ASSUME RankInv, LinkTypes, AllMeet, NEW k \in Ranks
    PROVE  /\ lanes[k] = lanes[0] /\ cache[k] = cache[0] /\ rel[k] = rel[0]
           /\ released[k] = released[0] /\ job[k] = job[0]
           /\ pc[0] = "go" => FastCtl /\ Live(0)
           /\ pc[0] = "go" /\ k # 0 => pc[k] = "top" /\ stepNo[k] = stepNo[0] - 1 /\ todo[k] = <<>>
           /\ pc[0] # "go" => /\ pc[k] = pc[0] /\ pc[0] \in {"seam", "round"}
                              /\ stepNo[k] = stepNo[0] /\ todo[k] = todo[0]
<1>1. View(k) = View(0) /\ 0 \in Ranks /\ (k # 0 => k \in Nodes)
  BY AllAlike, RankSets
<1>2. /\ lanes[k] = lanes[0] /\ cache[k] = cache[0] /\ rel[k] = rel[0]
      /\ released[k] = released[0] /\ job[k] = job[0]
  BY <1>1 DEF View
<1>3. pc[0] = "go" => FastCtl /\ Live(0)
  BY DEF RankInv, Roles
<1>4. k # 0 => ~Planning(k)
  BY <1>1 DEF RankInv, Roles, Planning
<1>5. pc[0] \in {"go", "seam", "round"}
  BY <1>1 DEF AllMeet, Point
<1>6. ASSUME pc[0] = "go", k # 0 PROVE pc[k] = "top" /\ stepNo[k] = stepNo[0] - 1 /\ todo[k] = <<>>
  <2>1. View(0).pc = "top" /\ View(0).step = stepNo[0] - 1 /\ View(0).todo = <<>>
    BY <1>6 DEF View, Planning
  <2>2. View(k).pc = pc[k] /\ View(k).step = stepNo[k] /\ View(k).todo = todo[k]
    BY <1>4, <1>6, PlainView
  <2> QED
    BY <1>1, <2>1, <2>2
<1>7. ASSUME pc[0] # "go"
      PROVE  /\ pc[k] = pc[0] /\ pc[0] \in {"seam", "round"}
             /\ stepNo[k] = stepNo[0] /\ todo[k] = todo[0]
  <2>1. pc[0] \in {"seam", "round"} /\ ~Planning(0)
    BY <1>5, <1>7 DEF Planning
  <2>2. View(0).pc = pc[0] /\ View(0).step = stepNo[0] /\ View(0).todo = todo[0]
    BY <2>1, PlainView
  <2>3. View(k).pc = pc[k] /\ View(k).step = stepNo[k] /\ View(k).todo = todo[k]
    BY <1>4, <2>1, PlainView
  <2> QED
    BY <1>1, <2>1, <2>2, <2>3
<1> QED
  BY <1>2, <1>3, <1>6, <1>7

LEMMA AllMeetFine ==
    ASSUME RankInv, LinkTypes, AllMeet
    PROVE  Fine(scoped, View(0))
BY AllAlike, RankSets DEF RankInv, RanksFine

\* The views are alike again: the ranks are in step.
LEMMA MeetAgain ==
    ASSUME RankTypes', Roles', NoneBailed', SameCount', Planned',
           \A k \in Ranks : View(k)' = View(0)' /\ k \notin Stopped',
           \A n \in Nodes : ctl'[n] = <<>>, Fine(scoped, View(0))'
    PROVE  RankInv'
<1>1. RanksFine'
  BY DEF RanksFine
<1>2. ASSUME NEW n \in Nodes PROVE InStep(n)'
  <2>1. n \in Ranks /\ 0 \in Ranks /\ View(n)' = View(0)' /\ 0 \notin Stopped'
    BY RankSets
  <2>2. View(0)' \in RankViews
    BY <2>1, ViewTypeNext
  <2>3. Leads(scoped', View(0)', <<>>, View(0)')
    BY <2>2, LeadsNowhere
  <2> QED
    BY <2>1, <2>3 DEF InStep, Behind
<1> QED
  BY <1>1, <1>2 DEF RankInv, Sync

LEMMA CountsOn ==
    ASSUME RankInv, LinkTypes, agreed' = [k \in Ranks |-> agreed[k] + 1], UNCHANGED <<ctl, faults>>
    PROVE  SameCount' /\ LinkTypes'
BY DEF RankInv, SameCount, LinkTypes

LEMMA GoKeeps ==
    ASSUME IInv, Go
    PROVE  IInv'
<1>0. RankInv /\ RankTypes /\ LinkTypes /\ ClientTypes /\ AllMeet /\ 0 \in Ranks /\ Fine(scoped, View(0))
  BY AllMeetFine, RankSets DEF IInv, RankInv, Go, MeetAt
<1>1. /\ agreed' = [k \in Ranks |-> agreed[k] + 1]
      /\ UNCHANGED <<scoped, handed, gone, finish, rx, waiting, lanes, cache, rel, released, todo, job,
                     ctl, faults>>
      /\ pc' = [k \in Ranks |->
                IF k = 0 THEN (IF todo[0] = <<>> THEN "round" ELSE "ship")
                ELSE IF stepNo[k] + 1 # stepNo[0] THEN "bailed"
                ELSE IF todo[0] = <<>> THEN "round" ELSE "recv"]
      /\ stepNo' = [k \in Ranks |-> IF todo[0] = <<>> THEN stepNo[0] ELSE stepNo[k]]
  BY DEF Go, MeetAt, clientVars, tableVars
<1>2. pc[0] = "go" /\ FastCtl /\ Live(0)
  <2>1. Point(0) = "go"
    BY DEF Go, MeetAt
  <2>2. pc[0] = "go"
    BY <2>1 DEF Point
  <2> QED
    BY <1>0, <2>2 DEF RankInv, Roles
<1>3. \A k \in Ranks :
        /\ lanes[k] = lanes[0] /\ cache[k] = cache[0] /\ rel[k] = rel[0]
        /\ released[k] = released[0] /\ job[k] = job[0]
        /\ k # 0 => stepNo[k] = stepNo[0] - 1 /\ todo[k] = <<>>
  BY <1>0, <1>2, AlikeTables
<1>4. stepNo[0] \in Nat /\ \A k \in Ranks : stepNo[k] \in Nat
  BY <1>0 DEF RankTypes
<1>5. \A k \in Ranks : pc'[k] = IF todo[0] = <<>> THEN "round" ELSE IF k = 0 THEN "ship" ELSE "recv"
  BY <1>1, <1>3, <1>4
<1>6. pc' \in [Ranks -> Places]
  <2>1. \A k \in Ranks : pc'[k] \in Places
    BY <1>5 DEF Places
  <2> QED
    BY <1>1, <2>1
<1>7. RankTypes' /\ ClientTypes' /\ LinkTypes' /\ SameCount'
  BY <1>0, <1>1, <1>4, <1>6, CountsOn DEF RankTypes, ClientTypes
<1>8. Roles' /\ NoneBailed' /\ Planned' /\ \A k \in Ranks : k \notin Stopped'
  <2>1. \A k \in Ranks : pc'[k] \in {"round", "ship", "recv"} /\ (pc'[k] = "ship" => k = 0)
                         /\ (pc'[k] = "recv" => k # 0)
    BY <1>5
  <2>2. \A k \in Ranks : k \notin Stopped'
    BY <2>1, StoppedIs
  <2>3. Planned'
    BY <1>0, <1>1, <1>2 DEF RankInv, Planned, Planning
  <2> QED
    BY <2>1, <2>2, <2>3, RankSets DEF Roles, NoneBailed
<1>9. \A n \in Nodes : ctl'[n] = <<>>
  BY <1>0, <1>1, AllAlike
<1>10. /\ View(0).lanes = lanes[0] /\ View(0).job = job[0] /\ View(0).todo = <<>> /\ View(0).pc = "top"
  BY <1>2 DEF View, Planning
<1>11. Live(0)'
  BY <1>1, <1>2 DEF Live, Busy
<1>12. CASE todo[0] = <<>>
  <2>1. \A k \in Ranks : ~Planning(k)' /\ pc'[k] = "round" /\ stepNo'[k] = stepNo[0] /\ todo'[k] = <<>>
    BY <1>1, <1>3, <1>5, <1>12 DEF Planning
  <2>2. \A k \in Ranks : View(k)' = Parts(lanes[0], cache[0], rel[0], released[0], stepNo[0], <<>>,
                                          "round", job[0])
    <3> TAKE k \in Ranks
    <3>1. View(k)' = Parts(lanes'[k], cache'[k], rel'[k], released'[k], stepNo'[k], todo'[k],
                           pc'[k], job'[k])
      BY <2>1, PlainViewNext
    <3> QED
      BY <1>1, <1>3, <2>1, <3>1
  <2>3. Fine(scoped, View(0))'
    <3>1. /\ View(0)'.lanes = lanes[0] /\ View(0)'.job = job[0] /\ View(0)'.todo = <<>>
          /\ View(0)'.pc = "round"
      BY <1>0, <2>2 DEF Parts
    <3> QED
      BY <1>0, <1>1, <1>10, <3>1 DEF Fine
  <2> QED
    BY <1>0, <1>7, <1>8, <1>9, <2>2, <2>3, MeetAgain DEF IInv
<1>13. CASE todo[0] # <<>>
  <2>1. \A k \in Ranks : stepNo'[k] = stepNo[k] /\ todo'[k] = todo[k]
    BY <1>1, <1>13
  <2>2. View(0)' = Parts(lanes[0], cache[0], rel[0], released[0], stepNo[0] - 1, <<>>, "recv", job[0])
    <3>1. pc'[0] = "ship" /\ Planning(0)'
      BY <1>0, <1>5, <1>13 DEF Planning
    <3> QED
      BY <1>0, <1>1, <1>2, <1>11, <2>1, <3>1 DEF View, Parts
  <2>3. \A k \in Ranks : View(k)' = View(0)'
    <3> SUFFICES ASSUME NEW k \in Ranks, k # 0 PROVE View(k)' = View(0)'
      OBVIOUS
    <3>1. pc'[k] = "recv" /\ ~Planning(k)'
      BY <1>5, <1>13 DEF Planning
    <3>2. View(k)' = Parts(lanes'[k], cache'[k], rel'[k], released'[k], stepNo'[k], todo'[k],
                           pc'[k], job'[k])
      BY <3>1, PlainViewNext
    <3> QED
      BY <1>1, <1>3, <2>1, <2>2, <3>1, <3>2
  <2>4. Fine(scoped, View(0))'
    <3>1. /\ View(0)'.lanes = lanes[0] /\ View(0)'.job = job[0] /\ View(0)'.todo = <<>>
          /\ View(0)'.pc = "recv"
      BY <2>2 DEF Parts
    <3> QED
      BY <1>0, <1>1, <1>10, <3>1 DEF Fine
  <2> QED
    BY <1>0, <1>7, <1>8, <1>9, <2>3, <2>4, MeetAgain DEF IInv
<1> QED
  BY <1>12, <1>13
-----------------------------------------------------------------------------
(* The seam *)

\* All ranks have the same new tables after a meeting: the invariant holds again.
LEMMA MeetOn ==
    ASSUME IInv, AllMeet, agreed' = [k \in Ranks |-> agreed[k] + 1],
           UNCHANGED <<scoped, ctl, faults>>, ClientTypes',
           NEW w \in RankViews, Fine(scoped, w), w.pc \in {"apply", "round", "top", "flag"}, w.step \in Nat,
           lanes' = [k \in Ranks |-> w.lanes], cache' = [k \in Ranks |-> w.cache],
           rel' = [k \in Ranks |-> w.rel], released' = [k \in Ranks |-> w.released],
           stepNo' = [k \in Ranks |-> w.step], todo' = [k \in Ranks |-> w.todo],
           pc' = [k \in Ranks |-> w.pc], job' = [k \in Ranks |-> w.job]
    PROVE  IInv'
<1>0. RankInv /\ LinkTypes /\ 0 \in Ranks
  BY RankSets DEF IInv
<1>1. SameCount' /\ LinkTypes'
  BY <1>0, CountsOn
<1>2. /\ w.lanes \in Tables /\ w.cache \in Caches /\ w.rel \in Releases /\ w.released \in Nat
      /\ w.todo \in Seq(StepEvents) /\ w.pc \in Places /\ w.job \in Jobs
  BY DEF RankViews, Caches, Releases
<1>3. RankTypes'
  BY <1>2 DEF RankTypes
<1>4. \A k \in Ranks : pc'[k] \in {"apply", "round", "top", "flag"} /\ ~Planning(k)'
  BY DEF Planning
<1>5. Roles' /\ NoneBailed' /\ Planned' /\ \A k \in Ranks : k \notin Stopped'
  BY <1>4, StoppedIs, RankSets DEF Roles, NoneBailed, Planned
<1>6. \A k \in Ranks : View(k)' = w
  <2> TAKE k \in Ranks
  <2>1. View(k)' = Parts(w.lanes, w.cache, w.rel, w.released, w.step, w.todo, w.pc, w.job)
    BY <1>4, PlainViewNext
  <2>2. w = Parts(w.lanes, w.cache, w.rel, w.released, w.step, w.todo, w.pc, w.job)
    BY DEF RankViews, Parts
  <2> QED
    BY <2>1, <2>2
<1>7. Fine(scoped, View(0))'
  BY <1>0, <1>6
<1>8. \A n \in Nodes : ctl'[n] = <<>>
  BY <1>0, AllAlike
<1> QED
  BY <1>0, <1>1, <1>3, <1>5, <1>6, <1>7, <1>8, MeetAgain DEF IInv

LEMMA SeamKeeps ==
    ASSUME IInv, Seam
    PROVE  IInv'
<1>0. RankInv /\ RankTypes /\ LinkTypes /\ ClientTypes /\ AllMeet /\ 0 \in Ranks /\ Fine(scoped, View(0))
  BY AllMeetFine, RankSets DEF IInv, RankInv, Seam, MeetAt
<1>1. pc[0] = "seam"
  <2>1. Point(0) = "seam"
    BY DEF Seam, MeetAt
  <2> QED
    BY <2>1 DEF Point
<1>2. PICK ends \in BOOLEAN :
        /\ MaxNew[job[0].req] = 1 => ends
        /\ lanes' = [k \in Ranks |->
                IF ends THEN lanes[k]
                ELSE [lanes[k] EXCEPT ![job[k].slot] =
                        [req |-> job[k].req, left |-> MaxNew[job[k].req] - 1]]]
        /\ finish' = IF ends THEN [finish EXCEPT ![job[0].req] = "done"] ELSE finish
  BY DEF Seam
<1>3. /\ agreed' = [k \in Ranks |-> agreed[k] + 1]
      /\ job' = [k \in Ranks |-> NoJob] /\ pc' = [k \in Ranks |-> "apply"]
      /\ UNCHANGED <<scoped, handed, gone, rx, waiting, cache, rel, released, stepNo, todo, ctl, faults>>
  BY DEF Seam, MeetAt, clientVars
<1>4. \A k \in Ranks :
        /\ lanes[k] = lanes[0] /\ cache[k] = cache[0] /\ rel[k] = rel[0]
        /\ released[k] = released[0] /\ job[k] = job[0]
        /\ stepNo[k] = stepNo[0] /\ todo[k] = todo[0]
  BY <1>0, <1>1, AlikeTables
<1>5. /\ View(0).lanes = lanes[0] /\ View(0).job = job[0] /\ View(0).todo = todo[0]
      /\ View(0).pc = "seam"
  BY <1>1, PlainView DEF Planning
<1>6. /\ job[0] # NoJob /\ job[0].req \in Reqs /\ job[0].slot \in IdleOf(lanes[0])
      /\ \A s \in Slots : lanes[0][s] = FreeLane \/ (lanes[0][s].req \in Reqs /\ lanes[0][s].left > 0)
      /\ Fits(scoped, lanes[0], todo[0], job[0])
  BY <1>0, <1>5 DEF Fine
<1>7. /\ lanes[0] \in Tables /\ cache[0] \in Caches /\ rel[0] \in Releases /\ released[0] \in Nat
      /\ stepNo[0] \in Nat /\ todo[0] \in Seq(StepEvents) /\ job[0] \in Jobs
  BY <1>0 DEF RankTypes
<1> DEFINE more == MaxNew[job[0].req] - 1
           lane == [req |-> job[0].req, left |-> more]
           table == IF ends THEN lanes[0] ELSE [lanes[0] EXCEPT ![job[0].slot] = lane]
           w == Parts(table, cache[0], rel[0], released[0], stepNo[0], todo[0], "apply", NoJob)
<1>8. job[0].slot \in Slots
  BY <1>6 DEF IdleOf
<1>9. ~ends => MaxNew[job[0].req] - 1 \in Nat \ {0}
  <2>1. MaxNew[job[0].req] \in Nat \ {0}
    BY <1>6, TpAssumption
  <2> QED
    BY <1>2, <2>1
<1>10. ~ends => lane.req \in Reqs /\ lane.left \in Nat /\ lane.left > 0
                /\ lane \in [req : Reqs \cup {NoReq}, left : Nat]
  <2>1. ~ends => more \in Nat \ {0}
    BY <1>9
  <2> HIDE DEF more
  <2>2. ~ends => more \in Nat /\ more > 0
    BY <2>1
  <2> QED
    BY <1>6, <2>2
<1> HIDE DEF lane, more
<1>11. table \in Tables
  BY <1>7, <1>10 DEF Tables
<1>12. \A s \in Slots : table[s] = FreeLane \/ (table[s].req \in Reqs /\ table[s].left > 0)
  BY <1>6, <1>7, <1>10 DEF Tables
<1>13. Fits(scoped, table, todo[0], NoJob)
  <2>1. CASE ends
    <3>1. Taken(NoJob) <= Taken(job[0])
      BY DEF Taken
    <3> QED
      BY <1>6, <1>7, <2>1, <3>1, FitsMore
  <2>2. CASE ~ends
    BY <1>6, <1>7, <1>8, <2>2, FitsSeam
  <2> QED
    BY <2>1, <2>2
<1>14. lanes' = [k \in Ranks |-> table]
  BY <1>2, <1>4 DEF lane, more
<1>15. finish' \in [Reqs -> {"none", "done", "error"}]
  BY <1>0, <1>2, <1>6 DEF ClientTypes
<1> HIDE DEF table
<1>16. /\ w.lanes = table /\ w.cache = cache[0] /\ w.rel = rel[0] /\ w.released = released[0]
       /\ w.step = stepNo[0] /\ w.todo = todo[0] /\ w.pc = "apply" /\ w.job = NoJob
  BY DEF Parts
<1>17. w \in RankViews
  BY <1>7, <1>11, NoJobType DEF Parts, RankViews, Places, Caches, Releases
<1> HIDE DEF w
<1>18. Fine(scoped, w)
  BY <1>12, <1>13, <1>16 DEF Fine
<1>19. ClientTypes'
  BY <1>0, <1>3, <1>15 DEF ClientTypes
<1>20. /\ lanes' = [k \in Ranks |-> w.lanes] /\ cache' = [k \in Ranks |-> w.cache]
       /\ rel' = [k \in Ranks |-> w.rel] /\ released' = [k \in Ranks |-> w.released]
  BY <1>0, <1>3, <1>4, <1>14, <1>16 DEF RankTypes
<1>21. /\ stepNo' = [k \in Ranks |-> w.step] /\ todo' = [k \in Ranks |-> w.todo]
       /\ pc' = [k \in Ranks |-> w.pc] /\ job' = [k \in Ranks |-> w.job]
  BY <1>0, <1>3, <1>4, <1>16 DEF RankTypes
<1>22. w.step \in Nat /\ w.pc \in {"apply", "round", "top", "flag"}
  BY <1>7, <1>16
<1> QED
  BY <1>0, <1>3, <1>17, <1>18, <1>19, <1>20, <1>21, <1>22, MeetOn
-----------------------------------------------------------------------------
(* A round *)

\* What a round makes of one rank's tables: `out` are the lanes it frees.
RoundTable(table, out, stepped) ==
    [s \in Slots |-> IF s \in out THEN FreeLane
                     ELSE IF table[s].req \in stepped THEN [table[s] EXCEPT !.left = @ - 1]
                     ELSE table[s]]
RoundRel(places, count, out) ==
    [s \in Slots |-> IF scoped /\ s \in out
                     THEN [at |-> count + Cardinality({t \in out : t < s}), normal |-> TRUE]
                     ELSE places[s]]
RoundPlace(j, more, rest) ==
    IF more /\ rest # {} THEN "round"
    ELSE IF j = NoJob THEN "top"
    ELSE IF j.quota > 1 /\ rest # {} THEN "round" ELSE "flag"
RoundJob(j, more, rest) ==
    IF j # NoJob /\ ~(more /\ rest # {}) THEN [j EXCEPT !.quota = @ - 1] ELSE j

LEMMA RunningReqs ==
    ASSUME \A s \in Busy(0) : lanes[0][s].req \in Reqs
    PROVE  ToSet(Running(0)) \subseteq Reqs
<1> DEFINE order == InOrder(Busy(0))
<1>1. Busy(0) \in SUBSET Slots
  BY DEF Busy
<1>2. \A i \in DOMAIN order : order[i] \in Busy(0)
  BY <1>1, InOrderLists
<1>3. Running(0) = [i \in DOMAIN order |-> lanes[0][order[i]].req]
  BY DEF Running
<1> HIDE DEF order
<1> QED
  BY <1>2, <1>3 DEF ToSet

LEMMA RoundTableFine ==
    ASSUME NEW table \in Tables, NEW stepped \in SUBSET Reqs, NEW over \in SUBSET stepped,
           NEW out, out = {s \in BusyOf(table) : table[s].req \in over},
           \A s \in Slots : table[s] = FreeLane \/ (table[s].req \in Reqs /\ table[s].left > 0),
           \A s \in BusyOf(table) : table[s].left = 1 /\ table[s].req \in stepped => table[s].req \in over
    PROVE  /\ RoundTable(table, out, stepped) \in Tables
           /\ \A s \in Slots : RoundTable(table, out, stepped)[s] = FreeLane
                \/ /\ RoundTable(table, out, stepped)[s].req \in Reqs
                   /\ RoundTable(table, out, stepped)[s].left > 0
           /\ IdleOf(table) \subseteq IdleOf(RoundTable(table, out, stepped))
<1> DEFINE new == RoundTable(table, out, stepped)
           Lane == [req : Reqs \cup {NoReq}, left : Nat]
<1>0. FreeLane \in Lane /\ FreeLane.req \notin Reqs
  BY TpAssumption DEF FreeLane
<1>1. ASSUME NEW s \in Slots
      PROVE  /\ new[s] \in Lane
             /\ new[s] = FreeLane \/ (new[s].req \in Reqs /\ new[s].left > 0)
             /\ table[s] = FreeLane => new[s] = FreeLane
  <2>1. table[s] \in Lane
    BY DEF Tables
  <2> DEFINE less == [table[s] EXCEPT !.left = @ - 1]
  <2>2. new[s] = IF s \in out THEN FreeLane ELSE IF table[s].req \in stepped THEN less ELSE table[s]
    BY DEF RoundTable
  <2>3. CASE s \in out
    BY <1>0, <2>2, <2>3
  <2>4. CASE s \notin out /\ table[s].req \notin stepped
    BY <2>1, <2>2, <2>4
  <2>5. CASE s \notin out /\ table[s].req \in stepped
    <3>1. table[s].req \in Reqs /\ table[s] # FreeLane
      BY <1>0, <2>5
    <3>2. s \in BusyOf(table)
      BY <3>1 DEF BusyOf
    <3>3. table[s].left # 1 /\ table[s].left > 0 /\ table[s].left \in Nat
      BY <2>1, <2>5, <3>1, <3>2
    <3>4. less.req = table[s].req /\ less.left = table[s].left - 1 /\ less \in [req : Reqs \cup {NoReq}, left : Int]
      BY <2>1, <3>3
    <3>5. table[s].left - 1 > 0 /\ table[s].left - 1 \in Nat
      BY <3>3
    <3> HIDE DEF less
    <3>6. less.left > 0 /\ less.left \in Nat /\ less.req \in Reqs
      BY <3>1, <3>4, <3>5
    <3>7. less \in Lane
      BY <3>4, <3>6
    <3> QED
      BY <2>2, <2>5, <3>1, <3>6, <3>7
  <2> QED
    BY <2>3, <2>4, <2>5
<1>2. new \in Tables
  <2>1. new = [s \in Slots |-> new[s]]
    BY DEF RoundTable
  <2> HIDE DEF new
  <2> QED
    BY <1>1, <2>1 DEF Tables
<1> HIDE DEF new
<1>3. IdleOf(table) \subseteq IdleOf(new)
  BY <1>1 DEF IdleOf, BusyOf
<1> QED
  BY <1>1, <1>2, <1>3 DEF new

LEMMA RoundRelType ==
    ASSUME NEW places \in Releases, NEW count \in Nat, NEW out \in SUBSET Slots
    PROVE  RoundRel(places, count, out) \in Releases /\ count + Cardinality(out) \in Nat
<1> DEFINE ahead(s) == {t \in out : t < s}
           stamp(s) == count + Cardinality(ahead(s))
<1>1. \A s \in Slots : ahead(s) \in SUBSET Slots
  OBVIOUS
<1>2. \A s \in Slots : Cardinality(ahead(s)) \in Nat
  <2> HIDE DEF ahead
  <2> QED
    BY <1>1, SlotSets
<1> HIDE DEF ahead
<1>3. \A s \in Slots : stamp(s) \in Nat
  BY <1>2
<1>4. RoundRel(places, count, out) =
        [s \in Slots |-> IF scoped /\ s \in out THEN [at |-> stamp(s), normal |-> TRUE] ELSE places[s]]
  BY DEF RoundRel, ahead
<1> HIDE DEF stamp
<1>5. RoundRel(places, count, out) \in Releases
  BY <1>3, <1>4 DEF Releases
<1> QED
  BY <1>5, SlotSets
\* A job keeps all but its quota.
LEMMA RoundJobKeeps ==
    ASSUME NEW j \in Jobs, NEW more, NEW rest, j = NoJob \/ j.req \in Reqs
    PROVE  /\ RoundJob(j, more, rest) \in Jobs
           /\ j = NoJob <=> RoundJob(j, more, rest) = NoJob
           /\ j # NoJob => /\ RoundJob(j, more, rest).req = j.req
                           /\ RoundJob(j, more, rest).slot = j.slot
                           /\ RoundJob(j, more, rest).left = j.left
<1> DEFINE less == [j EXCEPT !.quota = @ - 1]
<1>1. less \in Jobs /\ less.req = j.req /\ less.slot = j.slot /\ less.left = j.left
  <2>1. j.quota \in Int /\ j.quota - 1 \in Int
    BY DEF Jobs
  <2> DEFINE q == j.quota - 1
  <2>2. less = [j EXCEPT !.quota = q]
    OBVIOUS
  <2>3. q \in Int
    BY <2>1
  <2> HIDE DEF q, less
  <2> QED
    BY <2>2, <2>3 DEF Jobs
<1>2. RoundJob(j, more, rest) \in {j, less} /\ (j = NoJob => RoundJob(j, more, rest) = j)
  BY DEF RoundJob
<1> HIDE DEF less
<1> QED
  BY <1>1, <1>2, NoJobType

LEMMA RoundIs ==
    ASSUME Round
    PROVE  \E stepped \in SUBSET ToSet(Running(0)), more \in BOOLEAN :
           \E over \in SUBSET stepped :
        /\ \A s \in Busy(0) : lanes[0][s].left = 1 /\ lanes[0][s].req \in stepped
                                => lanes[0][s].req \in over
        /\ LET out == [k \in Ranks |-> {s \in Busy(k) : Freed(k, s, over)}]
           IN  /\ lanes' = [k \in Ranks |-> RoundTable(lanes[k], out[k], stepped)]
               /\ rel' = [k \in Ranks |-> RoundRel(rel[k], released[k], out[k])]
               /\ released' = [k \in Ranks |-> released[k] + Cardinality(out[k])]
               /\ pc' = [k \in Ranks |-> RoundPlace(job[k], more, Busy(k) \ out[k])]
               /\ job' = [k \in Ranks |-> RoundJob(job[k], more, Busy(k) \ out[k])]
        /\ finish' = [r \in Reqs |-> IF r \in over THEN "done" ELSE finish[r]]
<1>1. PICK stepped \in SUBSET ToSet(Running(0)), more \in BOOLEAN :
        \E over \in SUBSET stepped :
        /\ stepped # {}
        /\ \A s \in Busy(0) : lanes[0][s].left = 1 /\ lanes[0][s].req \in stepped
                                => lanes[0][s].req \in over
        /\ LET out == [k \in Ranks |-> {s \in Busy(k) : Freed(k, s, over)}]
           IN  /\ lanes' = [k \in Ranks |-> [s \in Slots |->
                        IF s \in out[k] THEN FreeLane
                        ELSE IF lanes[k][s].req \in stepped
                             THEN [lanes[k][s] EXCEPT !.left = @ - 1] ELSE lanes[k][s]]]
               /\ rel' = [k \in Ranks |-> [s \in Slots |->
                        IF scoped /\ s \in out[k]
                        THEN [at |-> released[k] + Cardinality({t \in out[k] : t < s}),
                              normal |-> TRUE]
                        ELSE rel[k][s]]]
               /\ released' = [k \in Ranks |-> released[k] + Cardinality(out[k])]
               /\ pc' = [k \in Ranks |-> AfterRound(k, Busy(k) \ out[k] # {}, more)]
               /\ job' = [k \in Ranks |->
                        IF job[k] # NoJob /\ ~(more /\ Busy(k) \ out[k] # {})
                        THEN [job[k] EXCEPT !.quota = @ - 1] ELSE job[k]]
        /\ finish' = [r \in Reqs |-> IF r \in over THEN "done" ELSE finish[r]]
  BY Zenon DEF Round
<1>2. PICK over \in SUBSET stepped :
        /\ \A s \in Busy(0) : lanes[0][s].left = 1 /\ lanes[0][s].req \in stepped
                                => lanes[0][s].req \in over
        /\ LET out == [k \in Ranks |-> {s \in Busy(k) : Freed(k, s, over)}]
           IN  /\ lanes' = [k \in Ranks |-> RoundTable(lanes[k], out[k], stepped)]
               /\ rel' = [k \in Ranks |-> RoundRel(rel[k], released[k], out[k])]
               /\ released' = [k \in Ranks |-> released[k] + Cardinality(out[k])]
               /\ pc' = [k \in Ranks |-> RoundPlace(job[k], more, Busy(k) \ out[k])]
               /\ job' = [k \in Ranks |-> RoundJob(job[k], more, Busy(k) \ out[k])]
        /\ finish' = [r \in Reqs |-> IF r \in over THEN "done" ELSE finish[r]]
  BY <1>1, Zenon DEF RoundTable, RoundRel, RoundPlace, RoundJob, AfterRound
<1> QED
  BY <1>2, Zenon

LEMMA RoundKeeps ==
    ASSUME IInv, Round
    PROVE  IInv'
<1>0. RankInv /\ RankTypes /\ LinkTypes /\ ClientTypes /\ AllMeet /\ 0 \in Ranks /\ Fine(scoped, View(0))
  BY AllMeetFine, RankSets DEF IInv, RankInv, Round, MeetAt
<1>1. pc[0] = "round"
  <2>1. Point(0) = "round"
    BY DEF Round, MeetAt
  <2> QED
    BY <2>1 DEF Point
<1>2. PICK stepped \in SUBSET ToSet(Running(0)), more \in BOOLEAN :
       \E over \in SUBSET stepped :
        /\ \A s \in Busy(0) : lanes[0][s].left = 1 /\ lanes[0][s].req \in stepped
                                => lanes[0][s].req \in over
        /\ LET out == [k \in Ranks |-> {s \in Busy(k) : Freed(k, s, over)}]
           IN  /\ lanes' = [k \in Ranks |-> RoundTable(lanes[k], out[k], stepped)]
               /\ rel' = [k \in Ranks |-> RoundRel(rel[k], released[k], out[k])]
               /\ released' = [k \in Ranks |-> released[k] + Cardinality(out[k])]
               /\ pc' = [k \in Ranks |-> RoundPlace(job[k], more, Busy(k) \ out[k])]
               /\ job' = [k \in Ranks |-> RoundJob(job[k], more, Busy(k) \ out[k])]
        /\ finish' = [r \in Reqs |-> IF r \in over THEN "done" ELSE finish[r]]
  BY RoundIs
<1>3. PICK over \in SUBSET stepped :
        /\ \A s \in Busy(0) : lanes[0][s].left = 1 /\ lanes[0][s].req \in stepped
                                => lanes[0][s].req \in over
        /\ LET out == [k \in Ranks |-> {s \in Busy(k) : Freed(k, s, over)}]
           IN  /\ lanes' = [k \in Ranks |-> RoundTable(lanes[k], out[k], stepped)]
               /\ rel' = [k \in Ranks |-> RoundRel(rel[k], released[k], out[k])]
               /\ released' = [k \in Ranks |-> released[k] + Cardinality(out[k])]
               /\ pc' = [k \in Ranks |-> RoundPlace(job[k], more, Busy(k) \ out[k])]
               /\ job' = [k \in Ranks |-> RoundJob(job[k], more, Busy(k) \ out[k])]
        /\ finish' = [r \in Reqs |-> IF r \in over THEN "done" ELSE finish[r]]
  BY <1>2
<1>4. /\ agreed' = [k \in Ranks |-> agreed[k] + 1]
      /\ UNCHANGED <<scoped, handed, gone, rx, waiting, cache, stepNo, todo, ctl, faults>>
  BY DEF Round, MeetAt, clientVars
<1>5. \A k \in Ranks :
        /\ lanes[k] = lanes[0] /\ cache[k] = cache[0] /\ rel[k] = rel[0]
        /\ released[k] = released[0] /\ job[k] = job[0]
        /\ stepNo[k] = stepNo[0] /\ todo[k] = todo[0]
  BY <1>0, <1>1, AlikeTables
<1>6. /\ View(0).lanes = lanes[0] /\ View(0).job = job[0] /\ View(0).todo = todo[0]
      /\ View(0).pc = "round"
  BY <1>1, PlainView DEF Planning
<1>7. /\ job[0] = NoJob \/ (job[0].req \in Reqs /\ job[0].slot \in IdleOf(lanes[0]) /\ job[0].left > 0)
      /\ \A s \in Slots : lanes[0][s] = FreeLane \/ (lanes[0][s].req \in Reqs /\ lanes[0][s].left > 0)
      /\ job[0] = NoJob => todo[0] = <<>>
      /\ Fits(scoped, lanes[0], todo[0], job[0])
  BY <1>0, <1>6 DEF Fine
<1>8. /\ lanes[0] \in Tables /\ cache[0] \in Caches /\ rel[0] \in Releases /\ released[0] \in Nat
      /\ stepNo[0] \in Nat /\ todo[0] \in Seq(StepEvents) /\ job[0] \in Jobs
  BY <1>0 DEF RankTypes
<1> DEFINE out == {s \in BusyOf(lanes[0]) : lanes[0][s].req \in over}
           rest == BusyOf(lanes[0]) \ out
           table == RoundTable(lanes[0], out, stepped)
           stamps == RoundRel(rel[0], released[0], out)
           count == released[0] + Cardinality(out)
           place == RoundPlace(job[0], more, rest)
           j == RoundJob(job[0], more, rest)
           w == Parts(table, cache[0], stamps, count, stepNo[0], todo[0], place, j)
<1>9. \A k \in Ranks : {s \in Busy(k) : Freed(k, s, over)} = out /\ Busy(k) = BusyOf(lanes[0])
  BY <1>5, BusyIs DEF Freed
<1>10. /\ lanes' = [k \in Ranks |-> table] /\ rel' = [k \in Ranks |-> stamps]
       /\ released' = [k \in Ranks |-> count] /\ pc' = [k \in Ranks |-> place]
       /\ job' = [k \in Ranks |-> j]
  <2> DEFINE outs == [k \in Ranks |-> {s \in Busy(k) : Freed(k, s, over)}]
  <2>1. /\ lanes' = [k \in Ranks |-> RoundTable(lanes[k], outs[k], stepped)]
        /\ rel' = [k \in Ranks |-> RoundRel(rel[k], released[k], outs[k])]
        /\ released' = [k \in Ranks |-> released[k] + Cardinality(outs[k])]
        /\ pc' = [k \in Ranks |-> RoundPlace(job[k], more, Busy(k) \ outs[k])]
        /\ job' = [k \in Ranks |-> RoundJob(job[k], more, Busy(k) \ outs[k])]
    BY <1>3
  <2>2. \A k \in Ranks : outs[k] = out /\ Busy(k) = BusyOf(lanes[0])
    BY <1>9
  <2> HIDE DEF outs, out
  <2> QED
    BY <1>5, <2>1, <2>2
<1>11. \A s \in BusyOf(lanes[0]) : lanes[0][s].left = 1 /\ lanes[0][s].req \in stepped
                                => lanes[0][s].req \in over
  BY <1>3, BusyIs
<1>12. stepped \subseteq Reqs
  <2>1. \A s \in Busy(0) : lanes[0][s].req \in Reqs
    BY <1>7 DEF Busy
  <2> QED
    BY <2>1, RunningReqs
<1>13. finish' \in [Reqs -> {"none", "done", "error"}]
  <2>1. finish' = [r \in Reqs |-> IF r \in over THEN "done" ELSE finish[r]]
    BY <1>3
  <2> QED
    BY <1>0, <2>1 DEF ClientTypes
<1>14. out \in SUBSET Slots
  BY DEF BusyOf
<1> HIDE DEF out
<1>15. /\ table \in Tables
       /\ \A s \in Slots : table[s] = FreeLane \/ (table[s].req \in Reqs /\ table[s].left > 0)
       /\ IdleOf(lanes[0]) \subseteq IdleOf(table)
  BY <1>7, <1>8, <1>11, <1>12, RoundTableFine DEF out
<1>16. stamps \in Releases /\ count \in Nat
  BY <1>8, <1>14, RoundRelType
<1>17. /\ j \in Jobs /\ (job[0] = NoJob <=> j = NoJob)
       /\ job[0] # NoJob => j.req = job[0].req /\ j.slot = job[0].slot /\ j.left = job[0].left
  BY <1>7, <1>8, RoundJobKeeps
<1>18. place \in {"round", "top", "flag"} /\ (place = "top" => job[0] = NoJob)
       /\ (place = "flag" => job[0] # NoJob)
  BY DEF RoundPlace
<1> HIDE DEF table, stamps, count, place, j, rest
<1>19. Fits(scoped, table, todo[0], j)
  <2>1. Taken(j) <= Taken(job[0])
    BY <1>17 DEF Taken
  <2> QED
    BY <1>7, <1>8, <1>15, <2>1, FitsMore
<1>20. /\ w.lanes = table /\ w.cache = cache[0] /\ w.rel = stamps /\ w.released = count
       /\ w.step = stepNo[0] /\ w.todo = todo[0] /\ w.pc = place /\ w.job = j
  BY DEF Parts
<1>21. w \in RankViews
  BY <1>8, <1>15, <1>16, <1>17, <1>18 DEF Parts, RankViews, Places, Caches, Releases
<1> HIDE DEF w
<1>22. Fine(scoped, w)
  <2>1. j = NoJob \/ (j.req \in Reqs /\ j.slot \in IdleOf(table) /\ j.left > 0)
    BY <1>7, <1>15, <1>17
  <2> QED
    BY <1>7, <1>15, <1>17, <1>18, <1>19, <1>20, <2>1 DEF Fine
<1>23. ClientTypes'
  BY <1>0, <1>4, <1>13 DEF ClientTypes
<1>24. /\ lanes' = [k \in Ranks |-> w.lanes] /\ cache' = [k \in Ranks |-> w.cache]
       /\ rel' = [k \in Ranks |-> w.rel] /\ released' = [k \in Ranks |-> w.released]
  BY <1>0, <1>4, <1>5, <1>10, <1>20 DEF RankTypes
<1>25. /\ stepNo' = [k \in Ranks |-> w.step] /\ todo' = [k \in Ranks |-> w.todo]
       /\ pc' = [k \in Ranks |-> w.pc] /\ job' = [k \in Ranks |-> w.job]
  BY <1>0, <1>4, <1>5, <1>10, <1>20 DEF RankTypes
<1>26. w.step \in Nat /\ w.pc \in {"apply", "round", "top", "flag"}
  BY <1>8, <1>18, <1>20
<1> QED
  BY <1>0, <1>4, <1>21, <1>22, <1>23, <1>24, <1>25, <1>26, MeetOn
-----------------------------------------------------------------------------
(* The invariant *)

LEMMA InitInv ==
    ASSUME Init
    PROVE  IInv
<1> DEFINE w == Parts([s \in Slots |-> FreeLane], [s \in Slots |-> NoSnap],
                      [s \in Slots |-> [at |-> Never, normal |-> FALSE]], 0, 0, <<>>, "top", NoJob)
<1>1. /\ [s \in Slots |-> FreeLane] \in Tables /\ [s \in Slots |-> NoSnap] \in Caches
      /\ [s \in Slots |-> [at |-> Never, normal |-> FALSE]] \in Releases
      /\ <<>> \in Seq(StepEvents) /\ "top" \in Places /\ NoJob \in Jobs /\ 0 \in Nat
  BY FreeTables, NoJobType DEF Caches, Releases, Places
<1>2. RankTypes
  BY <1>1 DEF Init, RankTypes
<1>3. ClientTypes /\ LinkTypes
  <2>1. 0 \in 0..MaxFaults
    BY TpAssumption
  <2>2. ClientTypes
    BY TpAssumption DEF Init, ClientTypes
  <2>3. LinkTypes
    BY <2>1 DEF Init, LinkTypes
  <2> QED
    BY <2>2, <2>3
<1>4. \A k \in Ranks : pc[k] = "top" /\ ~Planning(k) /\ k \notin Stopped
  BY StoppedIs DEF Init, Planning
<1>5. Roles /\ NoneBailed /\ SameCount /\ Planned
  BY <1>4, RankSets DEF Init, Roles, NoneBailed, SameCount, Planned
<1>6. ASSUME NEW k \in Ranks PROVE View(k) = w
  <2>1. View(k) = Parts(lanes[k], cache[k], rel[k], released[k], stepNo[k], todo[k], pc[k], job[k])
    BY <1>4, PlainView
  <2> QED
    BY <2>1 DEF Init
<1>7. w \in RankViews
  BY <1>2, <1>6, RankSets, ViewType
<1>8. /\ w.lanes = [s \in Slots |-> FreeLane] /\ w.todo = <<>> /\ w.pc = "top" /\ w.job = NoJob
  BY DEF Parts
<1> HIDE DEF w
<1>9. Fits(scoped, w.lanes, <<>>, NoJob)
  <2>1. Cardinality(IdleOf(w.lanes) \cup {}) \in Nat
    BY RoomLeft
  <2>2. Len(<<>>) = 0 /\ CutBy(<<>>, 0) = {} /\ Taken(NoJob) = 0
    BY DEF CutBy, Taken
  <2> DEFINE room == Cardinality(IdleOf(w.lanes) \cup {})
  <2>3. (Len(<<>>) - 0) + Taken(NoJob) <= IF scoped THEN 1 ELSE room
    <3> HIDE DEF room
    <3>1. (Len(<<>>) - 0) + Taken(NoJob) = 0
      BY <2>2
    <3>2. 0 <= 1 /\ 0 <= room
      BY <2>1 DEF room
    <3> QED
      BY <3>1, <3>2
  <2>4. FitsAfter(scoped, w.lanes, <<>>, NoJob, 0)
    <3>1. \A i \in 1..0 : FALSE
      OBVIOUS
    <3>2. \A i \in (0 + 1)..Len(<<>>) : FALSE
      BY <2>2
    <3> QED
      BY <2>2, <2>3, <3>1, <3>2, Zenon DEF FitsAfter
  <2>5. 0 \in 0..Len(<<>>)
    BY <2>2
  <2> QED
    BY <2>4, <2>5, FitsIs
<1>10. Fine(scoped, w)
  BY <1>8, <1>9 DEF Fine
<1>11. RanksFine
  BY <1>6, <1>10 DEF RanksFine
<1>12. Sync
  <2> SUFFICES ASSUME NEW n \in Nodes PROVE InStep(n)
    BY DEF Sync
  <2>1. n \in Ranks /\ 0 \in Ranks /\ 0 \notin Stopped /\ View(n) = w /\ View(0) = w /\ ctl[n] = <<>>
    BY <1>4, <1>6, RankSets DEF Init
  <2>2. Leads(scoped, w, <<>>, w)
    BY <1>7, LeadsNowhere
  <2> QED
    BY <2>1, <2>2 DEF InStep, Behind
<1> QED
  BY <1>2, <1>3, <1>5, <1>11, <1>12 DEF IInv, RankInv

LEMMA StutterInv ==
    ASSUME IInv, UNCHANGED vars
    PROVE  IInv'
<1>1. /\ UNCHANGED <<scoped, handed, gone, finish, rx, waiting, lanes, cache, rel, released>>
      /\ UNCHANGED <<stepNo, agreed, todo, pc, job, ctl, faults>>
  BY DEF vars, clientVars, tableVars, syncVars
<1>2. ClientTypes' /\ LinkTypes' /\ RankTypes'
  BY <1>1 DEF IInv, RankInv, ClientTypes, LinkTypes, RankTypes
<1>3. Roles' /\ NoneBailed' /\ Planned'
  BY <1>1 DEF IInv, RankInv, Roles, NoneBailed, Planned, Planning, Live, Busy
<1>4. \A k \in Ranks : View(k)' = View(k) /\ (k \in Stopped' <=> k \in Stopped)
  BY <1>1 DEF View, Planning, Live, Busy, Stopped
<1> QED
  BY <1>1, <1>2, <1>3, <1>4, RankSets, ViewsStay DEF IInv

LEMMA HeadActs ==
    ASSUME IInv, HeadStep \/ Shutdown
    PROVE  IInv'
<1>1. CASE Plan
  BY <1>1, HeadPlans
<1>2. CASE Ship \/ HeadFlag \/ Shutdown
  <2>1. RankInv' /\ LinkTypes' /\ UNCHANGED headSends
    BY <1>2, HeadSendsFrame DEF IInv
  <2> QED
    BY <2>1 DEF IInv, ClientTypes, headSends, clientVars
<1>3. CASE Apply(0)
  <2>1. RankInv' /\ UNCHANGED otherThanRanks
    BY <1>3, HeadApplies DEF IInv
  <2> QED
    BY <2>1 DEF IInv, ClientTypes, LinkTypes, otherThanRanks, clientVars
<1> QED
  BY <1>1, <1>2, <1>3 DEF HeadStep
LEMMA MirrorActs ==
    ASSUME IInv, NEW n \in Nodes, NodeStep(n)
    PROVE  IInv'
<1>1. CASE Recv(n) \/ NodeFlag(n)
  <2>1. RankInv' /\ LinkTypes' /\ UNCHANGED headSends
    BY <1>1, MirrorReadsOn DEF IInv
  <2> QED
    BY <2>1 DEF IInv, ClientTypes, headSends, clientVars
<1>2. CASE StreamClosed(n)
  BY <1>2, RankSets, RankCrashes
<1>3. CASE Apply(n)
  <2>1. RankInv' /\ UNCHANGED otherThanRanks
    BY <1>3, MirrorApplies DEF IInv
  <2> QED
    BY <2>1 DEF IInv, ClientTypes, LinkTypes, otherThanRanks, clientVars
<1> QED
  BY <1>1, <1>2, <1>3 DEF NodeStep

LEMMA StepInv ==
    ASSUME IInv, [Next]_vars
    PROVE  IInv'
<1>1. CASE \E r \in Reqs : Submit(r) \/ Leave(r) \/ SenderDropped(r)
  BY <1>1, ClientActs
<1>2. CASE HeadStep \/ Shutdown
  BY <1>2, HeadActs
<1>3. CASE \E n \in Nodes : NodeStep(n)
  BY <1>3, MirrorActs
<1>4. CASE Meeting
  BY <1>4, GoKeeps, SeamKeeps, RoundKeeps DEF Meeting
<1>5. CASE \E k \in Ranks : DeviceFault(k) \/ LinkFails(k)
  <2>1. PICK k \in Ranks : DeviceFault(k) \/ LinkFails(k)
    BY <1>5
  <2>2. Fails(k)
    BY <2>1 DEF DeviceFault, LinkFails
  <2>3. faults' \in 0..MaxFaults
    <3>1. faults \in 0..MaxFaults /\ MaxFaults \in Nat
      BY TpAssumption DEF IInv, LinkTypes
    <3>2. faults' = faults \/ (faults < MaxFaults /\ faults' = faults + 1)
      BY <2>1 DEF DeviceFault, LinkFails
    <3> QED
      BY <3>1, <3>2
  <2> QED
    BY <2>2, <2>3, RankFails
<1>6. CASE \E k \in Ranks : Crash(k)
  BY <1>6, RankCrashes
<1>7. CASE UNCHANGED vars
  BY <1>7, StutterInv
<1> QED
  BY <1>1, <1>2, <1>3, <1>4, <1>5, <1>6, <1>7 DEF Next, Client

LEMMA Inductive == Spec => []IInv
<1>1. Init => IInv
  BY InitInv
<1>2. IInv /\ [Next]_vars => IInv'
  BY StepInv
<1> QED
  BY <1>1, <1>2, PTL DEF Spec

-----------------------------------------------------------------------------
(* The theorems *)

\* TypeOK: every variable of the head, its mirrors and the streams between them keeps its
\* type, in particular no lane's count of tokens left runs below zero and no rank is at a
\* place its code does not have.
THEOREM TypeCorrect == Spec => []TypeOK
<1>1. IInv => TypeOK
  BY TypesNamed DEF IInv, RankInv
<1> QED
  BY <1>1, Inductive, PTL

\* Lockstep: no rank ever bails out of the session (run_tp_mirror's "head step ... after
\* local step ..." and "control plane out of step"), and when all ranks meet they bring the
\* same words, so tp_round's comparison never fails ("ranks diverged").
THEOREM LockstepHolds == Spec => []Lockstep
<1>1. ASSUME IInv PROVE Lockstep
  <2>1. RankInv /\ LinkTypes /\ NoneBailed /\ SameCount
    BY <1>1 DEF IInv, RankInv
  <2>2. ASSUME AllMeet, NEW n \in Nodes PROVE Frame(n) = Frame(0)
    <3>1. n \in Ranks /\ n # 0 /\ 0 \in Ranks
      BY RankSets
    <3>2. lanes[n] = lanes[0] /\ job[n] = job[0]
      BY <2>1, <2>2, <3>1, AlikeTables
    <3>3. Point(n) = Point(0)
      <4>1. CASE pc[0] = "go"
        <5>1. pc[n] = "top" /\ FastCtl /\ Live(0)
          BY <2>1, <2>2, <3>1, <4>1, AlikeTables
        <5>2. Live(n)
          BY <3>2, <5>1 DEF Live, Busy
        <5> QED
          BY <3>1, <4>1, <5>1, <5>2 DEF Point
      <4>2. CASE pc[0] # "go"
        <5>1. pc[n] = pc[0] /\ pc[0] \in {"seam", "round"}
          BY <2>1, <2>2, <3>1, <4>2, AlikeTables
        <5> QED
          BY <5>1 DEF Point
      <4> QED
        BY <4>1, <4>2
    <3>4. agreed[n] = agreed[0]
      BY <2>1, <3>1 DEF SameCount
    <3>5. Running(n) = Running(0)
      BY <3>2 DEF Running, Busy
    <3> QED
      BY <3>2, <3>3, <3>4, <3>5 DEF Frame
  <2> QED
    BY <2>1, <2>2 DEF Lockstep, NoneBailed, Agree
<1> QED
  BY <1>1, Inductive, PTL

\* SameTables: whenever the ranks meet, each has computed the same lane table, prefix-cache
\* snapshots, release order and admission in progress from its own copy.
THEOREM SameTablesHold == Spec => []SameTables
<1>1. ASSUME IInv PROVE SameTables
  <2>1. RankInv /\ LinkTypes
    BY <1>1 DEF IInv
  <2> QED
    BY <2>1, RankSets, AlikeTables DEF SameTables
<1> QED
  BY <1>1, Inductive, PTL

\* AdmitFindsLane: an admit the head has shipped finds one of its allowed lanes free on
\* every rank when its turn comes, so apply_admit never refuses it or puts it back.
THEOREM AdmitFindsLaneHolds == Spec => []AdmitFindsLane
<1>1. ASSUME IInv PROVE AdmitFindsLane
  <2> SUFFICES ASSUME NEW k \in Ranks, pc[k] = "apply", todo[k] # <<>>, Head(todo[k]).type = "admit"
               PROVE  Idle(k) \cap Head(todo[k]).allowed # {}
    BY DEF AdmitFindsLane
  <2>1. k \notin Stopped
    BY StoppedIs
  <2>2. /\ View(k).lanes = lanes[k] /\ View(k).todo = todo[k] /\ View(k).pc = "apply"
        /\ View(k).job = job[k]
    BY PlainView DEF Planning
  <2>3. lanes[k] \in Tables /\ todo[k] \in Seq(StepEvents)
    BY <1>1 DEF IInv, RankInv, RankTypes
  <2>4. Fine(scoped, View(k))
    BY <1>1, <2>1 DEF IInv, RankInv, RanksFine
  <2>5. job[k] = NoJob /\ Fits(scoped, lanes[k], todo[k], NoJob)
    BY <2>2, <2>4 DEF Fine
  <2> QED
    BY <2>3, <2>5, FitsAdmit, BusyIs
<1> QED
  BY <1>1, Inductive, PTL
-----------------------------------------------------------------------------
(***************************************************************************)
(* That the head is a lane server.  A request that was handed over is in   *)
(* one place on the head until it is answered: in the channel or the       *)
(* queue, among the admits of the step that are not applied yet, in the    *)
(* admission under way or in a lane.  What a step of any rank does to it   *)
(* there is what LaneService allows.                                       *)
(***************************************************************************)

Singles(q) == \A i, j \in DOMAIN q : q[i] = q[j] => i = j
AdmitsOf(es) == {i \in DOMAIN es : es[i].type = "admit"}
AdmitReqs(es) == {es[i].req : i \in AdmitsOf(es)}
SingleAdmits(es) == \A i, j \in AdmitsOf(es) : es[i].req = es[j].req => i = j
TableReqs(table) == {table[s].req : s \in BusyOf(table)}
SingleLanes(table) == \A s, t \in BusyOf(table) : table[s].req = table[t].req => s = t

LEMMA AppendElements ==
    ASSUME NEW S, NEW q \in Seq(S), NEW x \in S
    PROVE  /\ Append(q, x) \in Seq(S)
           /\ ToSet(Append(q, x)) = ToSet(q) \cup {x}
           /\ Singles(q) /\ x \notin ToSet(q) => Singles(Append(q, x))
<1> DEFINE p == Append(q, x)
<1>1. /\ p \in Seq(S) /\ Len(q) \in Nat /\ DOMAIN q = 1..Len(q) /\ DOMAIN p = 1..(Len(q) + 1)
      /\ p[Len(q) + 1] = x
      /\ \A i \in 1..Len(q) : p[i] = q[i]
  BY AppendProperties, LenProperties
<1> HIDE DEF p
<1>2. \A i \in DOMAIN p : i = Len(q) + 1 \/ i \in DOMAIN q
  BY <1>1
<1>3. Len(q) + 1 \in DOMAIN p /\ \A i \in DOMAIN q : i \in DOMAIN p /\ p[i] = q[i]
  BY <1>1
<1>4. ToSet(p) = ToSet(q) \cup {x}
  BY <1>1, <1>2, <1>3 DEF ToSet
<1>5. ASSUME Singles(q), x \notin ToSet(q) PROVE Singles(p)
  BY <1>1, <1>2, <1>3, <1>5 DEF Singles, ToSet
<1> QED
  BY <1>1, <1>4, <1>5 DEF p

LEMMA ConcatElements ==
    ASSUME NEW S, NEW q \in Seq(S), NEW p \in Seq(S)
    PROVE  ToSet(q \o p) = ToSet(q) \cup ToSet(p)
<1>1. /\ Len(q) \in Nat /\ Len(p) \in Nat /\ DOMAIN q = 1..Len(q) /\ DOMAIN p = 1..Len(p)
      /\ DOMAIN (q \o p) = 1..(Len(q) + Len(p))
      /\ \A i \in 1..(Len(q) + Len(p)) : (q \o p)[i] = IF i <= Len(q) THEN q[i] ELSE p[i - Len(q)]
  BY ConcatProperties, LenProperties
<1>2. ASSUME NEW i \in DOMAIN (q \o p) PROVE (q \o p)[i] \in ToSet(q) \cup ToSet(p)
  <2>1. CASE i <= Len(q)
    BY <1>1, <2>1 DEF ToSet
  <2>2. CASE ~(i <= Len(q))
    <3>1. i - Len(q) \in DOMAIN p
      BY <1>1, <2>2
    <3> QED
      BY <1>1, <2>2, <3>1 DEF ToSet
  <2> QED
    BY <2>1, <2>2
<1>3. ASSUME NEW i \in DOMAIN q PROVE q[i] \in ToSet(q \o p)
  <2>1. i \in DOMAIN (q \o p) /\ (q \o p)[i] = q[i]
    BY <1>1
  <2> QED
    BY <2>1 DEF ToSet
<1>4. ASSUME NEW i \in DOMAIN p PROVE p[i] \in ToSet(q \o p)
  <2>1. i + Len(q) \in DOMAIN (q \o p) /\ ~(i + Len(q) <= Len(q)) /\ i + Len(q) - Len(q) = i
    BY <1>1
  <2>2. (q \o p)[i + Len(q)] = p[i]
    BY <1>1, <2>1
  <2> QED
    BY <2>1, <2>2 DEF ToSet
<1>5. ToSet(q \o p) \subseteq ToSet(q) \cup ToSet(p)
  BY <1>2 DEF ToSet
<1>6. ToSet(q) \subseteq ToSet(q \o p) /\ ToSet(p) \subseteq ToSet(q \o p)
  BY <1>3, <1>4 DEF ToSet
<1> QED
  BY <1>5, <1>6

\* What Only leaves of a queue: the elements to keep, each as often as before.
LEMMA OnlyElements ==
    ASSUME NEW queue \in Seq(Reqs), NEW keep
    PROVE  /\ ToSet(Only(queue, keep)) = ToSet(queue) \cap keep
           /\ Singles(queue) => Singles(Only(queue, keep))
<1>1. PICK f : Keeps(queue, keep, Len(queue), f) /\ Only(queue, keep) = f[Len(queue)]
  BY OnlyKeeps
<1> DEFINE N == Len(queue)
           Upto(i) == {queue[l] : l \in 1..i}
           KeptTo(i) == /\ f[i] \in Seq(Reqs) /\ ToSet(f[i]) = Upto(i) \cap keep
                        /\ Singles(queue) => Singles(f[i])
           Bad == {i \in 0..N : ~KeptTo(i)}
<1>2. N \in Nat /\ DOMAIN queue = 1..N /\ \A i \in 1..N : queue[i] \in Reqs
  BY LenProperties
<1>3. Upto(0) = {} /\ Upto(N) = ToSet(queue)
  BY <1>2 DEF ToSet
<1>4. ASSUME NEW i \in 1..N PROVE Upto(i) = Upto(i - 1) \cup {queue[i]}
  <2>1. 1..i = 1..(i - 1) \cup {i}
    BY <1>2
  <2> QED
    BY <2>1
<1>5. ASSUME NEW i \in 1..N, Singles(queue) PROVE queue[i] \notin Upto(i - 1)
  <2>1. \A l \in 1..(i - 1) : l \in 1..N /\ l # i
    BY <1>2
  <2> QED
    BY <1>2, <1>5, <2>1 DEF Singles
<1>6. \A i \in 0..N : f[i] = IF i = 0 THEN <<>>
                             ELSE IF queue[i] \in keep THEN Append(f[i - 1], queue[i]) ELSE f[i - 1]
  BY <1>1 DEF Keeps
<1> HIDE DEF N, Upto
<1>7. KeptTo(0)
  <2>1. f[0] = <<>>
    BY <1>2, <1>6
  <2>2. <<>> \in Seq(Reqs) /\ ToSet(<<>>) = {} /\ Singles(<<>>)
    BY DEF ToSet, Singles
  <2> QED
    BY <1>3, <2>1, <2>2
<1>8. ASSUME NEW i \in 1..N, KeptTo(i - 1) PROVE KeptTo(i)
  <2> DEFINE g == f[i - 1]
             seen == Upto(i - 1)
  <2>1. g \in Seq(Reqs) /\ ToSet(g) = seen \cap keep /\ (Singles(queue) => Singles(g))
    BY <1>8
  <2>2. f[i] = IF queue[i] \in keep THEN Append(g, queue[i]) ELSE g
    <3>1. i \in 0..N /\ i # 0
      BY <1>2
    <3> QED
      BY <1>6, <3>1
  <2>3. Upto(i) = seen \cup {queue[i]} /\ (Singles(queue) => queue[i] \notin seen) /\ queue[i] \in Reqs
    BY <1>2, <1>4, <1>5
  <2> HIDE DEF g, seen
  <2>4. CASE queue[i] \in keep
    <3>1. /\ Append(g, queue[i]) \in Seq(Reqs)
          /\ ToSet(Append(g, queue[i])) = ToSet(g) \cup {queue[i]}
          /\ Singles(g) /\ queue[i] \notin ToSet(g) => Singles(Append(g, queue[i]))
      BY <2>1, <2>3, AppendElements
    <3> QED
      BY <2>1, <2>2, <2>3, <2>4, <3>1
  <2>5. CASE queue[i] \notin keep
    BY <2>1, <2>2, <2>3, <2>5
  <2> QED
    BY <2>4, <2>5
<1> HIDE DEF KeptTo
<1>9. Bad = {}
  <2> SUFFICES ASSUME Bad # {} PROVE FALSE
    OBVIOUS
  <2>1. PICK i \in Bad : \A l \in Bad : i <= l
    <3>1. Bad \in SUBSET Nat
      BY <1>2
    <3> HIDE DEF Bad
    <3> QED
      BY <3>1, LeastNumber
  <2>2. i \in 0..N /\ ~KeptTo(i)
    OBVIOUS
  <2>3. i \in 1..N /\ i - 1 \in 0..N /\ ~(i <= i - 1)
    <3>1. i # 0
      BY <1>7, <2>2
    <3> QED
      BY <1>2, <2>2, <3>1
  <2>4. i - 1 \notin Bad
    <3> HIDE DEF Bad
    <3> QED
      BY <2>1, <2>3
  <2>5. KeptTo(i - 1)
    BY <2>3, <2>4
  <2> QED
    BY <1>8, <2>2, <2>3, <2>5
<1>10. KeptTo(N)
  <2>1. N \in 0..N
    BY <1>2
  <2> QED
    BY <1>9, <2>1
<1>11. f[N] = Only(queue, keep)
  BY <1>1 DEF N
<1> QED
  BY <1>3, <1>10, <1>11 DEF KeptTo

\* The two ends of a queue.
LEMMA FrontIs ==
    ASSUME NEW S, NEW q \in Seq(S), NEW n \in 0..Len(q)
    PROVE  LET front == SubSeq(q, 1, n)
           IN  front \in Seq(S) /\ Len(front) = n /\ \A i \in 1..n : front[i] = q[i]
<1> DEFINE front == SubSeq(q, 1, n)
           N == Len(q)
<1>1. N \in Nat /\ n \in Nat /\ n <= N /\ \A i \in 1..N : q[i] \in S
  BY LenProperties
<1>2. 1 \in Int /\ n \in Int /\ \A l \in 1..n : q[l] \in S
  BY <1>1
<1>3. /\ front \in Seq(S)
      /\ Len(front) = IF 1 <= n THEN n - 1 + 1 ELSE 0
      /\ \A l \in 1..(n - 1 + 1) : front[l] = q[1 + l - 1]
  BY <1>2, SubSeqProperties
<1>4. n - 1 + 1 = n /\ (~(1 <= n) => n = 0) /\ \A l \in 1..n : 1 + l - 1 = l
  BY <1>1
<1> HIDE DEF front
<1>5. Len(front) = n
  BY <1>3, <1>4
<1>6. \A i \in 1..n : front[i] = q[i]
  BY <1>3, <1>4
<1> QED
  BY <1>3, <1>5, <1>6 DEF front

LEMMA BackIs ==
    ASSUME NEW S, NEW q \in Seq(S), NEW n \in 0..Len(q)
    PROVE  LET back == SubSeq(q, n + 1, Len(q))
           IN  back \in Seq(S) /\ Len(back) = Len(q) - n /\ \A i \in 1..(Len(q) - n) : back[i] = q[i + n]
<1> DEFINE N == Len(q)
           m == n + 1
           back == SubSeq(q, m, N)
<1>1. N \in Nat /\ n \in Nat /\ n <= N /\ \A i \in 1..N : q[i] \in S
  BY LenProperties
<1>2. m \in Int /\ N \in Int /\ \A l \in m..N : q[l] \in S
  BY <1>1
<1>3. N - m + 1 = N - n /\ (~(m <= N) => N - n = 0) /\ \A l \in 1..(N - n) : m + l - 1 = l + n
  BY <1>1
<1> HIDE DEF m, N
<1>4. /\ back \in Seq(S)
      /\ Len(back) = IF m <= N THEN N - m + 1 ELSE 0
      /\ \A l \in 1..(N - m + 1) : back[l] = q[m + l - 1]
  BY <1>2, SubSeqProperties
<1> HIDE DEF back
<1>5. Len(back) = N - n
  BY <1>3, <1>4
<1>6. \A i \in 1..(N - n) : back[i] = q[i + n]
  BY <1>3, <1>4
<1> QED
  BY <1>4, <1>5, <1>6 DEF back, m, N

\* A queue cut in two.
LEMMA CutElements ==
    ASSUME NEW queue \in Seq(Reqs), NEW n \in 0..Len(queue)
    PROVE  LET front == SubSeq(queue, 1, n)
               back == SubSeq(queue, n + 1, Len(queue))
           IN  /\ front \in Seq(Reqs) /\ back \in Seq(Reqs)
               /\ ToSet(front) \cup ToSet(back) = ToSet(queue)
               /\ Singles(queue) => /\ Singles(front) /\ Singles(back)
                                    /\ ToSet(front) \cap ToSet(back) = {}
<1> DEFINE N == Len(queue)
           front == SubSeq(queue, 1, n)
           back == SubSeq(queue, n + 1, N)
<1>1. N \in Nat /\ n \in Nat /\ n <= N /\ DOMAIN queue = 1..N /\ \A i \in 1..N : queue[i] \in Reqs
  BY LenProperties
<1>2. front \in Seq(Reqs) /\ DOMAIN front = 1..n /\ \A i \in 1..n : front[i] = queue[i]
  <2>1. front \in Seq(Reqs) /\ Len(front) = n /\ \A i \in 1..n : front[i] = queue[i]
    BY FrontIs
  <2> HIDE DEF front
  <2> QED
    BY <2>1, LenProperties
<1>3. back \in Seq(Reqs) /\ DOMAIN back = 1..(N - n) /\ \A i \in 1..(N - n) : back[i] = queue[i + n]
  <2>1. back \in Seq(Reqs) /\ Len(back) = N - n /\ \A i \in 1..(N - n) : back[i] = queue[i + n]
    BY BackIs
  <2> HIDE DEF back, N
  <2> QED
    BY <2>1, LenProperties
<1> HIDE DEF front, back, N
<1>4. \A i \in 1..n : i \in 1..N
  BY <1>1
<1>5. \A i \in 1..(N - n) : i + n \in 1..N /\ i + n > n
  BY <1>1
<1>6. \A i \in 1..N : i \in 1..n \/ (i - n \in 1..(N - n) /\ i - n + n = i)
  BY <1>1
<1>7. ToSet(front) \cup ToSet(back) \subseteq ToSet(queue)
  BY <1>1, <1>2, <1>3, <1>4, <1>5 DEF ToSet
<1>8. ASSUME NEW i \in 1..N PROVE queue[i] \in ToSet(front) \cup ToSet(back)
  <2>1. CASE i \in 1..n
    BY <1>2, <2>1 DEF ToSet
  <2>2. CASE i - n \in 1..(N - n) /\ i - n + n = i
    <3>1. back[i - n] = queue[i]
      BY <1>3, <2>2
    <3> QED
      BY <1>3, <2>2, <3>1 DEF ToSet
  <2> QED
    BY <1>6, <2>1, <2>2
<1>9. ASSUME Singles(queue) PROVE Singles(front) /\ Singles(back) /\ ToSet(front) \cap ToSet(back) = {}
  <2>1. \A i, j \in 1..N : queue[i] = queue[j] => i = j
    BY <1>1, <1>9 DEF Singles
  <2>2. Singles(front)
    BY <1>2, <1>4, <2>1 DEF Singles
  <2>3. \A i, j \in 1..(N - n) : i + n = j + n => i = j
    BY <1>1
  <2>4. Singles(back)
    BY <1>3, <1>5, <2>1, <2>3 DEF Singles
  <2>5. \A i \in 1..n, j \in 1..(N - n) : front[i] # back[j]
    <3> TAKE i \in 1..n, j \in 1..(N - n)
    <3>1. i # j + n /\ i \in 1..N /\ j + n \in 1..N
      BY <1>1
    <3> QED
      BY <1>2, <1>3, <2>1, <3>1
  <2> QED
    BY <1>2, <1>3, <2>2, <2>4, <2>5 DEF ToSet
<1>10. ToSet(queue) \subseteq ToSet(front) \cup ToSet(back)
  BY <1>1, <1>8 DEF ToSet
<1> QED
  BY <1>2, <1>3, <1>7, <1>9, <1>10 DEF front, back, N
\* A queue without its i-th element.
LEMMA RemoveAtElements ==
    ASSUME NEW q \in Seq(Reqs), NEW i \in 1..Len(q), Singles(q)
    PROVE  /\ RemoveAt(q, i) \in Seq(Reqs) /\ Singles(RemoveAt(q, i))
           /\ ToSet(RemoveAt(q, i)) = ToSet(q) \ {q[i]}
<1> DEFINE N == Len(q)
           front == SubSeq(q, 1, i - 1)
           back == SubSeq(q, i + 1, N)
           r == RemoveAt(q, i)
<1>1. N \in Nat /\ i \in 1..N /\ DOMAIN q = 1..N /\ \A k \in 1..N : q[k] \in Reqs
  BY LenProperties
<1>2. front \in Seq(Reqs) /\ Len(front) = i - 1 /\ \A k \in 1..(i - 1) : front[k] = q[k]
  <2> DEFINE n == i - 1
  <2>1. n \in 0..Len(q)
    BY <1>1
  <2> HIDE DEF n
  <2>2. LET f == SubSeq(q, 1, n) IN f \in Seq(Reqs) /\ Len(f) = n /\ \A k \in 1..n : f[k] = q[k]
    BY <2>1, FrontIs
  <2> QED
    BY <2>2 DEF n
<1>3. back \in Seq(Reqs) /\ Len(back) = N - i /\ \A k \in 1..(N - i) : back[k] = q[k + i]
  <2>1. i \in 0..Len(q)
    BY <1>1
  <2> QED
    BY <2>1, BackIs
<1>4. r = front \o back
  BY DEF RemoveAt
<1> HIDE DEF front, back, N, r
<1>5. /\ r \in Seq(Reqs) /\ DOMAIN r = 1..(N - 1)
      /\ \A k \in 1..(N - 1) : r[k] = IF k < i THEN q[k] ELSE q[k + 1]
  <2>1. /\ r \in Seq(Reqs) /\ Len(r) = Len(front) + Len(back)
        /\ \A k \in 1..(Len(front) + Len(back)) : r[k] = IF k <= Len(front) THEN front[k] ELSE back[k - Len(front)]
    BY <1>2, <1>3, <1>4, ConcatProperties
  <2>2. Len(front) + Len(back) = N - 1
    BY <1>1, <1>2, <1>3
  <2>3. ASSUME NEW k \in 1..(N - 1) PROVE r[k] = IF k < i THEN q[k] ELSE q[k + 1]
    <3>1. CASE k < i
      <4>1. k \in 1..(i - 1) /\ k <= Len(front) /\ k \in 1..(Len(front) + Len(back))
        BY <1>1, <1>2, <2>2, <3>1
      <4> QED
        BY <1>2, <2>1, <3>1, <4>1
    <3>2. CASE ~(k < i)
      <4>1. /\ ~(k <= Len(front)) /\ k - Len(front) \in 1..(N - i) /\ k - Len(front) + i = k + 1
            /\ k \in 1..(Len(front) + Len(back))
        BY <1>1, <1>2, <2>2, <3>2
      <4> QED
        BY <1>3, <2>1, <3>2, <4>1
    <3> QED
      BY <3>1, <3>2
  <2> QED
    BY <2>1, <2>2, <2>3, LenProperties
<1>6. \A k \in 1..(N - 1) : LET l == IF k < i THEN k ELSE k + 1
                            IN  l \in 1..N /\ l # i /\ r[k] = q[l]
  BY <1>1, <1>5
<1>7. \A j, k \in 1..(N - 1) : (IF j < i THEN j ELSE j + 1) = (IF k < i THEN k ELSE k + 1) => j = k
  BY <1>1
<1>8. \A l \in 1..N : l # i => LET k == IF l < i THEN l ELSE l - 1
                               IN  k \in 1..(N - 1) /\ (IF k < i THEN k ELSE k + 1) = l
  BY <1>1
<1>9. \A l, m \in 1..N : q[l] = q[m] => l = m
  BY <1>1 DEF Singles
<1>10. Singles(r)
  <2> SUFFICES ASSUME NEW j \in 1..(N - 1), NEW k \in 1..(N - 1), r[j] = r[k] PROVE j = k
    BY <1>5 DEF Singles
  <2> DEFINE a == IF j < i THEN j ELSE j + 1
             b == IF k < i THEN k ELSE k + 1
  <2>1. a \in 1..N /\ b \in 1..N /\ r[j] = q[a] /\ r[k] = q[b]
    BY <1>6
  <2>2. a = b => j = k
    BY <1>7
  <2> HIDE DEF a, b
  <2> QED
    BY <1>9, <2>1, <2>2
<1>11. ToSet(r) \subseteq ToSet(q) \ {q[i]}
  <2> SUFFICES ASSUME NEW k \in 1..(N - 1) PROVE r[k] \in ToSet(q) \ {q[i]}
    BY <1>5 DEF ToSet
  <2> DEFINE a == IF k < i THEN k ELSE k + 1
  <2>1. a \in 1..N /\ a # i /\ r[k] = q[a]
    BY <1>6
  <2> HIDE DEF a
  <2>2. q[a] # q[i] /\ q[a] \in ToSet(q)
    BY <1>1, <1>9, <2>1 DEF ToSet
  <2> QED
    BY <2>1, <2>2
<1>12. ToSet(q) \ {q[i]} \subseteq ToSet(r)
  <2> SUFFICES ASSUME NEW l \in 1..N, l # i PROVE q[l] \in ToSet(r)
    BY <1>1 DEF ToSet
  <2> DEFINE k == IF l < i THEN l ELSE l - 1
  <2>1. k \in 1..(N - 1) /\ (IF k < i THEN k ELSE k + 1) = l
    BY <1>8
  <2> HIDE DEF k
  <2>2. r[k] = q[l]
    BY <1>5, <2>1
  <2> QED
    BY <1>5, <2>1, <2>2 DEF ToSet
<1> QED
  BY <1>5, <1>10, <1>11, <1>12 DEF r

\* The step's next event is applied.
LEMMA TailAdmits ==
    ASSUME NEW es \in Seq(StepEvents), es # <<>>
    PROVE  /\ SingleAdmits(es) => SingleAdmits(Tail(es))
           /\ Head(es).type # "admit" => AdmitReqs(es) = AdmitReqs(Tail(es))
           /\ Head(es).type = "admit" =>
                /\ AdmitReqs(es) = AdmitReqs(Tail(es)) \cup {Head(es).req}
                /\ SingleAdmits(es) => Head(es).req \notin AdmitReqs(Tail(es))
           /\ \A i \in DOMAIN Tail(es) : \E j \in DOMAIN es : Tail(es)[i] = es[j]
<1> DEFINE rest == Tail(es)
           N == Len(es)
<1>1. /\ N \in Nat \ {0} /\ DOMAIN es = 1..N /\ Head(es) = es[1] /\ DOMAIN rest = 1..(N - 1)
      /\ \A i \in 1..(N - 1) : rest[i] = es[i + 1]
  BY EmptySeq, LenProperties, HeadTailProperties
<1> HIDE DEF rest, N
<1>2. /\ \A i \in 1..(N - 1) : i + 1 \in 1..N /\ i + 1 # 1
      /\ \A i \in 1..N : i = 1 \/ (i - 1 \in 1..(N - 1) /\ i - 1 + 1 = i)
      /\ \A i, j \in 1..(N - 1) : i + 1 = j + 1 => i = j
      /\ 1 \in 1..N
  BY <1>1
<1>3. \A i \in AdmitsOf(rest) : i + 1 \in AdmitsOf(es) /\ i + 1 # 1 /\ rest[i].req = es[i + 1].req
                                /\ i \in 1..(N - 1)
  BY <1>1, <1>2 DEF AdmitsOf
<1>4. \A i \in AdmitsOf(es) : i = 1 \/ (i - 1 \in AdmitsOf(rest) /\ rest[i - 1].req = es[i].req)
  BY <1>1, <1>2 DEF AdmitsOf
<1>5. SingleAdmits(es) => SingleAdmits(rest)
  BY <1>2, <1>3 DEF SingleAdmits
<1>6. AdmitReqs(rest) \subseteq AdmitReqs(es)
  BY <1>3 DEF AdmitReqs
<1>7. AdmitReqs(es) \subseteq AdmitReqs(rest) \cup (IF es[1].type = "admit" THEN {es[1].req} ELSE {})
  <2> SUFFICES ASSUME NEW i \in AdmitsOf(es)
               PROVE  es[i].req \in AdmitReqs(rest) \cup (IF es[1].type = "admit" THEN {es[1].req} ELSE {})
    BY DEF AdmitReqs
  <2>1. CASE i = 1
    BY <2>1 DEF AdmitsOf
  <2>2. CASE i - 1 \in AdmitsOf(rest) /\ rest[i - 1].req = es[i].req
    BY <2>2 DEF AdmitReqs
  <2> QED
    BY <1>4, <2>1, <2>2
<1>8. es[1].type = "admit" => 1 \in AdmitsOf(es) /\ es[1].req \in AdmitReqs(es)
  BY <1>1, <1>2 DEF AdmitsOf, AdmitReqs
<1>9. es[1].type = "admit" /\ SingleAdmits(es) => es[1].req \notin AdmitReqs(rest)
  BY <1>3, <1>8 DEF SingleAdmits, AdmitReqs
<1>10. \A i \in DOMAIN rest : \E j \in DOMAIN es : rest[i] = es[j]
  BY <1>1, <1>2
<1> QED
  BY <1>1, <1>5, <1>6, <1>7, <1>8, <1>9, <1>10 DEF rest

\* The events of a step: cancels, then an admit for each request.
LEMMA JoinAdmits ==
    ASSUME NEW cs \in Seq(StepEvents), NEW ad \in Seq(StepEvents), NEW q \in Seq(Reqs),
           \A i \in 1..Len(cs) : cs[i].type = "cancel",
           Len(ad) = Len(q),
           \A i \in 1..Len(ad) : ad[i].type = "admit" /\ ad[i].req = q[i]
    PROVE  /\ AdmitReqs(cs \o ad) = ToSet(q)
           /\ Singles(q) => SingleAdmits(cs \o ad)
           /\ \A i \in DOMAIN (cs \o ad) : (cs \o ad)[i].type = "cancel" =>
                i \in DOMAIN cs /\ (cs \o ad)[i] = cs[i]
<1> DEFINE es == cs \o ad
           C == Len(cs)
           A == Len(ad)
<1>1. /\ C \in Nat /\ A \in Nat /\ DOMAIN cs = 1..C /\ DOMAIN q = 1..A /\ DOMAIN es = 1..(C + A)
      /\ \A i \in 1..(C + A) : es[i] = IF i <= C THEN cs[i] ELSE ad[i - C]
  <2>1. C \in Nat /\ A \in Nat /\ DOMAIN cs = 1..C /\ DOMAIN q = 1..A
    BY LenProperties
  <2>2. es \in Seq(StepEvents) /\ Len(es) = C + A
    BY ConcatProperties
  <2>3. \A i \in 1..(C + A) : es[i] = IF i <= C THEN cs[i] ELSE ad[i - C]
    BY ConcatProperties
  <2> HIDE DEF es, C, A
  <2> QED
    BY <2>1, <2>2, <2>3, LenProperties
<1> HIDE DEF es, C, A
<1>2. /\ \A i \in 1..(C + A) : i <= C => i \in 1..C
      /\ \A i \in 1..(C + A) : ~(i <= C) => i - C \in 1..A /\ i - C + C = i
      /\ \A i \in 1..A : i + C \in 1..(C + A) /\ ~(i + C <= C) /\ i + C - C = i
      /\ \A i, j \in 1..(C + A) : i - C = j - C => i = j
  BY <1>1
<1>3. /\ \A i \in 1..C : cs[i].type = "cancel"
      /\ \A i \in 1..A : ad[i].type = "admit" /\ ad[i].req = q[i]
  BY DEF C, A
<1>4. \A i \in 1..(C + A) : es[i].type = "admit" <=> ~(i <= C)
  <2> TAKE i \in 1..(C + A)
  <2>1. CASE i <= C
    BY <1>1, <1>2, <1>3, <2>1
  <2>2. CASE ~(i <= C)
    <3>1. es[i] = ad[i - C] /\ i - C \in 1..A
      BY <1>1, <1>2, <2>2
    <3> QED
      BY <1>3, <2>2, <3>1
  <2> QED
    BY <2>1, <2>2
<1>5. ASSUME NEW i \in AdmitsOf(es) PROVE i \in 1..(C + A) /\ i - C \in 1..A /\ es[i].req = q[i - C]
  <2>1. i \in 1..(C + A) /\ ~(i <= C)
    BY <1>1, <1>4 DEF AdmitsOf
  <2>2. es[i] = ad[i - C] /\ i - C \in 1..A
    BY <1>1, <1>2, <2>1
  <2> QED
    BY <1>3, <2>1, <2>2
<1>6. ASSUME NEW i \in 1..A PROVE i + C \in AdmitsOf(es) /\ es[i + C].req = q[i]
  <2>1. i + C \in 1..(C + A) /\ ~(i + C <= C) /\ i + C - C = i
    BY <1>2
  <2>2. es[i + C] = ad[i]
    BY <1>1, <2>1
  <2>3. i + C \in AdmitsOf(es)
    BY <1>1, <1>4, <2>1 DEF AdmitsOf
  <2> QED
    BY <1>3, <2>2, <2>3
<1>7. AdmitReqs(es) = ToSet(q)
  <2>1. ASSUME NEW i \in AdmitsOf(es) PROVE es[i].req \in ToSet(q)
    BY <1>1, <1>5 DEF ToSet
  <2>2. ASSUME NEW i \in 1..A PROVE q[i] \in AdmitReqs(es)
    BY <1>6 DEF AdmitReqs
  <2> QED
    BY <1>1, <2>1, <2>2 DEF AdmitReqs, ToSet
<1>8. Singles(q) => SingleAdmits(es)
  <2> SUFFICES ASSUME Singles(q), NEW i \in AdmitsOf(es), NEW j \in AdmitsOf(es), es[i].req = es[j].req
               PROVE  i = j
    BY DEF SingleAdmits
  <2>1. /\ i \in 1..(C + A) /\ j \in 1..(C + A) /\ i - C \in DOMAIN q /\ j - C \in DOMAIN q
        /\ q[i - C] = q[j - C]
    BY <1>1, <1>5
  <2>2. i - C = j - C
    BY <2>1 DEF Singles
  <2> QED
    BY <1>2, <2>1, <2>2
<1>9. ASSUME NEW i \in DOMAIN es, es[i].type = "cancel" PROVE i \in DOMAIN cs /\ es[i] = cs[i]
  <2>1. i \in 1..(C + A) /\ es[i].type # "admit"
    BY <1>1, <1>9
  <2>2. i <= C
    BY <1>4, <2>1
  <2> QED
    BY <1>1, <1>2, <2>1, <2>2
<1> QED
  BY <1>7, <1>8, <1>9 DEF es

\* Lanes only end.
LEMMA LanesLeave ==
    ASSUME NEW table, NEW next,
           \A s \in Slots : next[s] = FreeLane \/ (s \in BusyOf(table) /\ next[s].req = table[s].req)
    PROVE  /\ TableReqs(next) \subseteq TableReqs(table)
           /\ SingleLanes(table) => SingleLanes(next)
           /\ BusyOf(next) \subseteq BusyOf(table)
<1>1. \A s \in BusyOf(next) : s \in BusyOf(table) /\ next[s].req = table[s].req
  BY DEF BusyOf
<1> QED
  BY <1>1 DEF TableReqs, SingleLanes
-----------------------------------------------------------------------------
(* What the head holds, and what it owes *)

Queued == ToSet(waiting) \cup ToSet(rx)
Admitting == AdmitReqs(todo[0])
Prefilling == {job[0].req} \ {NoReq}
InLanes == TableReqs(lanes[0])
InHand == Queued \cup Admitting \cup Prefilling \cup InLanes

\* A request is in one place, once.
Apart ==
    /\ Singles(waiting \o rx) /\ SingleAdmits(todo[0]) /\ SingleLanes(lanes[0])
    /\ Queued \cap Admitting = {} /\ Queued \cap (Prefilling \cup InLanes) = {}
    /\ Admitting \cap (Prefilling \cup InLanes) = {} /\ Prefilling \cap InLanes = {}

\* While the head is up it holds the requests it owes an answer, but for those whose
\* client left.
Owed ==
    /\ \A r \in InHand : r \in handed /\ (0 \notin Stopped => finish[r] = "none")
    /\ \A r \in handed \ InHand : finish[r] # "none" \/ r \in gone
    /\ \A r \in Reqs \ handed : finish[r] = "none"

\* A lane about to be cancelled is not taken over by a client that stays.
CancelsOk ==
    \A i \in DOMAIN todo[0] : todo[0][i].type = "cancel" =>
        /\ job[0] = NoJob
        /\ lanes[0][todo[0][i].lane] = FreeLane \/ lanes[0][todo[0][i].lane].req \in gone

JobFits == job[0] = NoJob \/ (job[0].req \in Reqs /\ job[0].slot \in IdleOf(lanes[0]))

HeadInv == Apart /\ Owed /\ CancelsOk /\ JobFits

\* What a step of the scheduler may do to what the head holds.
Handles ==
    /\ InHand' \subseteq InHand
    /\ \A r \in InHand' : r \in Prefilling \cup InLanes => r \in Prefilling' \cup InLanes'
    /\ \A r \in InHand \ InHand' : finish'[r] # "none" \/ r \in gone
    /\ \A r \in Reqs :
        \/ finish'[r] = finish[r]
        \/ finish[r] = "none" /\ r \in InHand
           /\ (finish'[r] = "error" \/ (finish'[r] = "done" /\ r \in Prefilling \cup InLanes /\ 0 \notin Stopped))
    /\ 0 \notin Stopped' => \A r \in InHand' : finish'[r] = finish[r]
    /\ 0 \in Stopped => 0 \in Stopped'
    /\ UNCHANGED <<handed, gone>>

\* What a client sees of a request.
Sees(r, to, fin, hand, runs, inHand) ==
    to = IF fin[r] = "done" THEN "done"
         ELSE IF fin[r] = "error" THEN "failed"
         ELSE IF r \notin hand THEN "new"
         ELSE IF r \in runs THEN "running"
         ELSE IF r \in inHand THEN "queued" ELSE "dropped"

LEMMA StateSeen ==
    ASSUME NEW r \in Reqs
    PROVE  Sees(r, StateOf(r), finish, handed, Prefilling \cup InLanes, InHand)
<1>1. job[0].req = r <=> r \in Prefilling
  BY TpAssumption DEF Prefilling
<1>2. (\E s \in Busy(0) : lanes[0][s].req = r) <=> r \in InLanes
  BY DEF InLanes, TableReqs, BusyOf, Busy
<1>3. Unapplied = Admitting
  BY DEF Unapplied, Admitting, AdmitReqs, AdmitsOf
<1>4. r \in ToSet(rx) \cup ToSet(waiting) \cup Unapplied <=> r \in Queued \cup Admitting
  BY <1>3 DEF Queued
<1> HIDE DEF Queued, Admitting, Prefilling, InLanes
<1> QED
  BY <1>1, <1>2, <1>4 DEF Sees, StateOf, InHand

LEMMA StateSeenNext ==
    ASSUME NEW r \in Reqs
    PROVE  Sees(r, StateOf(r)', finish', handed', Prefilling' \cup InLanes', InHand')
<1>1. job'[0].req = r <=> r \in Prefilling'
  BY TpAssumption DEF Prefilling
<1>2. (\E s \in Busy(0)' : lanes'[0][s].req = r) <=> r \in InLanes'
  BY DEF InLanes, TableReqs, BusyOf, Busy
<1>3. Unapplied' = Admitting'
  BY DEF Unapplied, Admitting, AdmitReqs, AdmitsOf
<1>4. r \in ToSet(rx') \cup ToSet(waiting') \cup Unapplied' <=> r \in Queued' \cup Admitting'
  BY <1>3 DEF Queued
<1> HIDE DEF Queued, Admitting, Prefilling, InLanes
<1> QED
  BY <1>1, <1>2, <1>4 DEF Sees, StateOf, InHand

\* A step that handles what the head holds moves each request as a lane server may.
LEMMA Served ==
    ASSUME finish \in [Reqs -> {"none", "done", "error"}], finish' \in [Reqs -> {"none", "done", "error"}],
           handed \subseteq Reqs, Owed, Handles
    PROVE  /\ Owed'
           /\ \A r \in Reqs : Service!Moves(r, StateOf(r), StateOf(r)')
<1> DEFINE runs == Prefilling \cup InLanes
<1>1. /\ InHand' \subseteq InHand /\ handed' = handed /\ gone' = gone
      /\ \A r \in InHand' : r \in runs => r \in runs'
      /\ \A r \in InHand \ InHand' : finish'[r] # "none" \/ r \in gone
      /\ \A r \in Reqs :
            \/ finish'[r] = finish[r]
            \/ finish[r] = "none" /\ r \in InHand
               /\ (finish'[r] = "error" \/ (finish'[r] = "done" /\ r \in runs /\ 0 \notin Stopped))
      /\ 0 \notin Stopped' => \A r \in InHand' : finish'[r] = finish[r]
      /\ 0 \in Stopped => 0 \in Stopped'
  BY DEF Handles
<1>2. /\ \A r \in InHand : r \in handed /\ (0 \notin Stopped => finish[r] = "none")
      /\ \A r \in handed \ InHand : finish[r] # "none" \/ r \in gone
      /\ \A r \in Reqs \ handed : finish[r] = "none"
  BY DEF Owed
<1>3. runs \subseteq InHand /\ runs' \subseteq InHand'
  BY DEF InHand
<1>4. \A r \in Reqs : /\ Sees(r, StateOf(r), finish, handed, runs, InHand)
                      /\ Sees(r, StateOf(r)', finish', handed', runs', InHand')
  BY StateSeen, StateSeenNext
<1>5. \A r \in Reqs : finish[r] \in {"none", "done", "error"} /\ finish'[r] \in {"none", "done", "error"}
  OBVIOUS
<1> HIDE DEF runs
<1>6. Owed'
  <2>1. \A r \in InHand' : r \in handed' /\ (0 \notin Stopped' => finish'[r] = "none")
    BY <1>1, <1>2
  <2>2. \A r \in handed' \ InHand' : finish'[r] # "none" \/ r \in gone'
    BY <1>1, <1>2
  <2>3. \A r \in Reqs \ handed' : finish'[r] = "none"
    BY <1>1, <1>2
  <2> QED
    BY <2>1, <2>2, <2>3 DEF Owed
<1>7. ASSUME NEW r \in Reqs PROVE Service!Moves(r, StateOf(r), StateOf(r)')
  <2> DEFINE from == StateOf(r)
             to == StateOf(r)'
  <2>1. /\ Sees(r, from, finish, handed, runs, InHand)
        /\ Sees(r, to, finish', handed', runs', InHand')
    BY <1>4
  <2> HIDE DEF from, to
  <2>2. finish[r] \in {"none", "done", "error"} /\ finish'[r] \in {"none", "done", "error"}
    BY <1>5
  <2>3. CASE r \notin handed \/ finish[r] # "none" \/ r \notin InHand
    <3>1. finish'[r] = finish[r]
      BY <1>1, <1>2, <2>3
    <3>2. r \notin handed => r \notin InHand
      BY <1>2
    <3>3. r \notin InHand => r \notin InHand' /\ r \notin runs /\ r \notin runs'
      BY <1>1, <1>3
    <3>4. to = from
      BY <1>1, <2>1, <2>2, <2>3, <3>1, <3>2, <3>3 DEF Sees
    <3> QED
      BY <3>4 DEF Service!Moves, from, to
  <2>4. CASE r \in handed /\ finish[r] = "none" /\ r \in InHand
    <3>1. from = IF r \in runs THEN "running" ELSE "queued"
      BY <2>1, <2>4 DEF Sees
    <3>2. CASE finish'[r] = "none" /\ r \in InHand'
      <4>1. to = IF r \in runs' THEN "running" ELSE "queued"
        BY <1>1, <2>1, <2>4, <3>2 DEF Sees
      <4> QED
        BY <1>1, <3>1, <3>2, <4>1 DEF Service!Moves, from, to
    <3>3. CASE finish'[r] = "none" /\ r \notin InHand'
      <4>1. to = "dropped" /\ r \in gone
        BY <1>1, <1>3, <2>1, <2>4, <3>3 DEF Sees
      <4> QED
        BY <3>1, <4>1 DEF Service!Moves, Service!Held, from, to
    <3>4. CASE finish'[r] = "error"
      <4>1. to = "failed"
        BY <2>1, <3>4 DEF Sees
      <4> QED
        BY <3>1, <4>1 DEF Service!Moves, Service!Held, from, to
    <3>5. CASE finish'[r] = "done"
      <4>1. to = "done" /\ r \in runs /\ 0 \notin Stopped
        BY <1>1, <2>1, <2>4, <3>5 DEF Sees
      <4> QED
        BY <3>1, <4>1 DEF Service!Moves, from, to
    <3> QED
      BY <2>2, <3>2, <3>3, <3>4, <3>5
  <2> QED
    BY <2>3, <2>4
<1> QED
  BY <1>6, <1>7
HeadMoves == Handles /\ Apart' /\ CancelsOk' /\ JobFits'

LEMMA HeadKnows ==
    ASSUME IInv, pc[0] \in {"top", "apply", "flag", "seam", "round"}
    PROVE  /\ lanes[0] \in Tables /\ todo[0] \in Seq(StepEvents) /\ job[0] \in Jobs
           /\ lanes \in [Ranks -> Tables] /\ todo \in [Ranks -> Seq(StepEvents)] /\ job \in [Ranks -> Jobs]
           /\ pc \in [Ranks -> Places] /\ 0 \in Ranks
           /\ \A s \in Slots : lanes[0][s] = FreeLane \/ (lanes[0][s].req \in Reqs /\ lanes[0][s].left > 0)
           /\ job[0] = NoJob \/ (job[0].req \in Reqs /\ job[0].slot \in IdleOf(lanes[0]))
           /\ pc[0] \in {"top", "apply"} => job[0] = NoJob
           /\ pc[0] \in {"flag", "seam"} => job[0] # NoJob
           /\ pc[0] = "top" \/ (pc[0] = "round" /\ job[0] = NoJob) => todo[0] = <<>>
           /\ Fits(scoped, lanes[0], todo[0], job[0])
           /\ 0 \notin Stopped
<1>1. 0 \in Ranks /\ RankTypes /\ RanksFine
  BY RankSets DEF IInv, RankInv
<1>2. 0 \notin Stopped
  BY <1>1, StoppedIs
<1>3. ~Planning(0) /\ Fine(scoped, View(0))
  BY <1>1, <1>2 DEF Planning, RanksFine
<1>4. View(0).lanes = lanes[0] /\ View(0).job = job[0] /\ View(0).todo = todo[0] /\ View(0).pc = pc[0]
  BY <1>3, PlainView
<1>5. /\ \A s \in Slots : lanes[0][s] = FreeLane \/ (lanes[0][s].req \in Reqs /\ lanes[0][s].left > 0)
      /\ job[0] = NoJob \/ (job[0].req \in Reqs /\ job[0].slot \in IdleOf(lanes[0]))
      /\ pc[0] \in {"top", "recv", "apply"} => job[0] = NoJob
      /\ pc[0] \in {"flag", "seam"} => job[0] # NoJob
      /\ pc[0] \in {"top", "recv"} \/ (pc[0] = "round" /\ job[0] = NoJob) => todo[0] = <<>>
      /\ Fits(scoped, lanes[0], todo[0], job[0])
  BY <1>3, <1>4 DEF Fine
<1> QED
  BY <1>1, <1>2, <1>5 DEF RankTypes

\* A step that leaves the head's requests alone.
LEMMA HeadStill ==
    ASSUME HeadInv, UNCHANGED <<handed, gone, finish, rx, waiting>>,
           todo'[0] = todo[0], lanes'[0] = lanes[0], job'[0] = job[0],
           0 \in Stopped => 0 \in Stopped'
    PROVE  HeadMoves
<1>1. /\ Queued' = Queued /\ Admitting' = Admitting /\ Prefilling' = Prefilling /\ InLanes' = InLanes
  BY DEF Queued, Admitting, Prefilling, InLanes
<1>2. InHand' = InHand
  BY <1>1 DEF InHand
<1>3. Apart' /\ CancelsOk' /\ JobFits'
  BY <1>1 DEF HeadInv, Apart, CancelsOk, JobFits
<1>4. Handles
  BY <1>1, <1>2 DEF Handles
<1> QED
  BY <1>3, <1>4 DEF HeadMoves

LEMMA HeadStays ==
    ASSUME IInv, HeadInv,
           \/ Ship \/ Shutdown \/ Go \/ ApplyDone(0)
           \/ \E n \in Nodes : NodeStep(n)
           \/ \E k \in Ranks : Crash(k)
           \/ \E k \in Ranks : k # 0 /\ Fails(k)
           \/ UNCHANGED vars
    PROVE  HeadMoves
<1>0. 0 \in Ranks /\ RankTypes /\ \A n \in Nodes : n \in Ranks /\ n # 0
  BY RankSets DEF IInv, RankInv
<1>1. CASE Ship \/ Shutdown \/ Go \/ ApplyDone(0) \/ UNCHANGED vars
  <2>1. /\ UNCHANGED <<handed, gone, finish, rx, waiting, todo, lanes, job>>
    BY <1>1 DEF Ship, Shutdown, Go, ApplyDone, vars, clientVars, tableVars, syncVars
  <2>2. 0 \in Stopped => 0 \in Stopped'
    <3>1. CASE UNCHANGED vars
      BY <3>1 DEF Stopped, vars
    <3>2. CASE Ship \/ Shutdown \/ ApplyDone(0)
      BY <3>2, <1>0, StoppedIs DEF Ship, Shutdown, ApplyDone
    <3>3. CASE Go
      <4>1. Point(0) = "go"
        BY <3>3 DEF Go, MeetAt
      <4>2. pc[0] = "go"
        BY <4>1 DEF Point
      <4> QED
        BY <1>0, <4>2, StoppedIs
    <3> QED
      BY <1>1, <3>1, <3>2, <3>3
  <2> QED
    BY <2>1, <2>2, HeadStill
<1>2. ASSUME NEW n \in Nodes, NodeStep(n) PROVE HeadMoves
  <2>1. n \in Ranks /\ n # 0
    BY <1>0
  <2>2. UNCHANGED <<handed, gone, rx>> /\ UNCHANGED <<waiting, finish>>
    BY <1>2, <2>1 DEF NodeStep, Recv, StreamClosed, NodeFlag, Apply, ApplyDone, ApplyCancel,
                      ApplyAdmit, clientVars
  <2>3. lanes'[0] = lanes[0] /\ todo'[0] = todo[0] /\ pc'[0] = pc[0] /\ job'[0] = job[0]
    <3>1. CASE Recv(n)
      BY <1>0, <2>1, <3>1 DEF Recv, RankTypes, tableVars
    <3>2. CASE StreamClosed(n)
      BY <1>0, <2>1, <3>2 DEF StreamClosed, RankTypes, tableVars, syncVars
    <3>3. CASE NodeFlag(n)
      <4>1. \/ pc' = [pc EXCEPT ![n] = "bailed"] /\ UNCHANGED job
            \/ \E isGone : AtBoundary(n, isGone)
        BY <3>3 DEF NodeFlag
      <4>2. pc'[0] = pc[0] /\ job'[0] = job[0]
        BY <1>0, <2>1, <4>1 DEF AtBoundary, Prefill, RankTypes
      <4> QED
        BY <3>3, <4>2 DEF NodeFlag, syncVars
    <3>4. CASE ApplyDone(n)
      BY <1>0, <2>1, <3>4 DEF ApplyDone, RankTypes, tableVars, syncVars
    <3>5. CASE ApplyCancel(n)
      BY <1>0, <2>1, <3>5 DEF ApplyCancel, RankTypes
    <3>6. CASE ApplyAdmit(n)
      <4>1. UNCHANGED <<pc, job>> \/ \E j : Prefill(n, j)
        BY <3>6, Zenon DEF ApplyAdmit
      <4>2. pc'[0] = pc[0] /\ job'[0] = job[0]
        BY <1>0, <2>1, <4>1 DEF Prefill, RankTypes
      <4>3. todo' = [todo EXCEPT ![n] = Tail(@)] /\ lanes' = lanes
        BY <3>6, Zenon DEF ApplyAdmit
      <4> QED
        BY <1>0, <2>1, <4>2, <4>3 DEF RankTypes
    <3> QED
      BY <1>2, <3>1, <3>2, <3>3, <3>4, <3>5, <3>6 DEF NodeStep, Apply
  <2>4. 0 \in Stopped => 0 \in Stopped'
    BY <1>0, <2>3 DEF Stopped
  <2> QED
    BY <2>2, <2>3, <2>4, HeadStill
<1>3. ASSUME NEW k \in Ranks, Crash(k) PROVE HeadMoves
  <2>1. UNCHANGED <<handed, gone, finish, rx, waiting, todo, lanes, job>>
    BY <1>3 DEF Crash, clientVars, tableVars, syncVars
  <2>2. 0 \in Stopped => 0 \in Stopped'
    <3>1. pc' = [pc EXCEPT ![k] = "dead"] /\ pc \in [Ranks -> Places]
      BY <1>0, <1>3 DEF Crash, RankTypes
    <3>2. pc'[0] \in {pc[0], "dead"}
      BY <1>0, <3>1
    <3> QED
      BY <1>0, <3>2 DEF Stopped
  <2> QED
    BY <2>1, <2>2, HeadStill
<1>4. ASSUME NEW k \in Ranks, k # 0, Fails(k) PROVE HeadMoves
  <2>1. UNCHANGED <<handed, gone, finish, rx, waiting, todo, lanes, job>>
    BY <1>4 DEF Fails, clientVars, syncVars
  <2>2. pc'[0] = pc[0]
    BY <1>0, <1>4 DEF Fails, RankTypes
  <2>3. 0 \in Stopped => 0 \in Stopped'
    BY <2>2 DEF Stopped
  <2> QED
    BY <2>1, <2>3, HeadStill
<1> QED
  BY <1>1, <1>2, <1>3, <1>4

\* A step of the plan is applied: a cancel frees a lane whose client left.
LEMMA CancelServes ==
    ASSUME IInv, HeadInv, ApplyCancel(0)
    PROVE  HeadMoves
<1> DEFINE es == todo[0]
           lane == Head(es).lane
           table == [lanes[0] EXCEPT ![lane] = FreeLane]
<1>0. pc[0] = "apply" /\ es # <<>> /\ Head(es).type = "cancel"
  BY DEF ApplyCancel
<1>1. /\ lanes[0] \in Tables /\ es \in Seq(StepEvents) /\ job[0] = NoJob /\ 0 \in Ranks
      /\ lanes \in [Ranks -> Tables] /\ todo \in [Ranks -> Seq(StepEvents)] /\ 0 \notin Stopped
  BY <1>0, HeadKnows
<1>2. /\ lanes'[0] = table /\ todo'[0] = Tail(es)
      /\ UNCHANGED <<handed, gone, finish, rx, waiting, job, pc>>
  BY <1>1 DEF ApplyCancel, clientVars
<1>3. /\ SingleAdmits(es) => SingleAdmits(Tail(es))
      /\ AdmitReqs(es) = AdmitReqs(Tail(es))
      /\ \A i \in DOMAIN Tail(es) : \E j \in DOMAIN es : Tail(es)[i] = es[j]
  BY <1>0, <1>1, TailAdmits
<1>4. 1 \in DOMAIN es /\ Head(es) = es[1]
  BY <1>0, <1>1, EmptySeq, LenProperties, HeadTailProperties
<1>5. table[lane] = FreeLane \/ lane \notin Slots
  BY <1>1 DEF Tables
<1>6. lanes[0][lane] = FreeLane \/ lanes[0][lane].req \in gone
  BY <1>0, <1>4 DEF HeadInv, CancelsOk
<1>7. \A s \in Slots : table[s] = IF s = lane THEN FreeLane ELSE lanes[0][s]
  BY <1>1 DEF Tables
<1>8. \A s \in Slots : table[s] = FreeLane \/ (s \in BusyOf(lanes[0]) /\ table[s].req = lanes[0][s].req)
  BY <1>7 DEF BusyOf
<1> HIDE DEF table
<1>9. /\ TableReqs(table) \subseteq TableReqs(lanes[0])
      /\ SingleLanes(lanes[0]) => SingleLanes(table)
      /\ BusyOf(table) \subseteq BusyOf(lanes[0])
  BY <1>8, LanesLeave
<1>10. \A r \in TableReqs(lanes[0]) \ TableReqs(table) : r \in gone
  <2> SUFFICES ASSUME NEW s \in BusyOf(lanes[0]), lanes[0][s].req \notin TableReqs(table)
               PROVE  lanes[0][s].req \in gone
    BY DEF TableReqs
  <2>1. CASE s = lane
    BY <1>6, <2>1 DEF BusyOf
  <2>2. CASE s # lane
    <3>1. table[s] = lanes[0][s] /\ s \in BusyOf(table)
      BY <1>7, <2>2 DEF BusyOf
    <3> QED
      BY <3>1 DEF TableReqs
  <2> QED
    BY <2>1, <2>2
<1>11. /\ Queued' = Queued /\ Admitting' = Admitting /\ Prefilling' = Prefilling
       /\ InLanes' \subseteq InLanes /\ \A r \in InLanes \ InLanes' : r \in gone
  BY <1>2, <1>3, <1>9, <1>10 DEF Queued, Admitting, Prefilling, InLanes
<1>12. Apart'
  <2>1. Singles(waiting' \o rx') /\ SingleAdmits(todo'[0]) /\ SingleLanes(lanes'[0])
    BY <1>2, <1>3, <1>9 DEF HeadInv, Apart
  <2> HIDE DEF Queued, Admitting, Prefilling, InLanes
  <2> QED
    BY <1>11, <2>1 DEF HeadInv, Apart
<1>13. CancelsOk'
  <2> SUFFICES ASSUME NEW i \in DOMAIN Tail(es), Tail(es)[i].type = "cancel"
               PROVE  /\ job'[0] = NoJob
                      /\ table[Tail(es)[i].lane] = FreeLane \/ table[Tail(es)[i].lane].req \in gone
    BY <1>2 DEF CancelsOk
  <2>1. PICK j \in DOMAIN es : Tail(es)[i] = es[j]
    BY <1>3
  <2>2. lanes[0][es[j].lane] = FreeLane \/ lanes[0][es[j].lane].req \in gone
    BY <2>1 DEF HeadInv, CancelsOk
  <2>3. es[j] \in StepEvents
    BY <1>1, <2>1, ElementOfSeq, LenProperties
  <2>4. es[j].lane \in Slots
    BY <2>1, <2>3 DEF StepEvents
  <2> QED
    BY <1>1, <1>2, <1>7, <2>1, <2>2, <2>4
<1>14. JobFits'
  BY <1>1, <1>2 DEF JobFits
<1>15. Handles
  <2> HIDE DEF Queued, Admitting, Prefilling, InLanes
  <2>1. InHand' \subseteq InHand /\ \A r \in InHand \ InHand' : r \in gone
    BY <1>11 DEF InHand
  <2>2. \A r \in InHand' : r \in Prefilling \cup InLanes => r \in Prefilling' \cup InLanes'
    BY <1>11 DEF InHand, HeadInv, Apart
  <2>3. Stopped' = Stopped
    BY <1>2 DEF Stopped
  <2> QED
    BY <1>2, <2>1, <2>2, <2>3 DEF Handles
<1> QED
  BY <1>12, <1>13, <1>14, <1>15 DEF HeadMoves
\* Fits: after an admit there are only admits.
LEMMA AdmitsToTheEnd ==
    ASSUME NEW sc, NEW table, NEW j, NEW es \in Seq(StepEvents), es # <<>>,
           Fits(sc, table, es, j), Head(es).type = "admit"
    PROVE  \A i \in DOMAIN es : es[i].type = "admit"
<1>1. PICK c \in 0..Len(es) :
        /\ \A i \in 1..c : es[i].type = "cancel"
        /\ \A i \in (c + 1)..Len(es) : es[i].type = "admit"
  BY DEF Fits
<1>2. Len(es) \in Nat \ {0} /\ DOMAIN es = 1..Len(es) /\ Head(es) = es[1]
  BY EmptySeq, LenProperties, HeadTailProperties
<1>3. c = 0
  <2>1. 1 \notin 1..c
    BY <1>1, <1>2
  <2> QED
    BY <1>1, <1>2, <2>1
<1> QED
  BY <1>1, <1>2, <1>3

\* An admit takes a lane: the request is prefilled there.
LEMMA AdmitServes ==
    ASSUME IInv, HeadInv, ApplyAdmit(0)
    PROVE  HeadMoves
<1> DEFINE es == todo[0]
           r == Head(es).req
           free == Idle(0) \cap Allowed(0, Head(es))
<1>0. pc[0] = "apply" /\ es # <<>> /\ Head(es).type = "admit"
  BY Zenon DEF ApplyAdmit
<1>1. /\ lanes[0] \in Tables /\ es \in Seq(StepEvents) /\ job[0] = NoJob /\ 0 \in Ranks
      /\ lanes \in [Ranks -> Tables] /\ todo \in [Ranks -> Seq(StepEvents)] /\ 0 \notin Stopped
      /\ Fits(scoped, lanes[0], es, NoJob) /\ job \in [Ranks -> Jobs] /\ pc \in [Ranks -> Places]
  BY <1>0, HeadKnows
<1>2. 1 \in DOMAIN es /\ Head(es) = es[1] /\ es[1] \in StepEvents
  BY <1>0, <1>1, EmptySeq, LenProperties, HeadTailProperties, ElementOfSeq
<1>3. r \in Reqs /\ r # NoReq
  BY <1>0, <1>2, TpAssumption DEF StepEvents
<1>4. free # {} /\ free \subseteq IdleOf(lanes[0])
  <2>1. IdleOf(lanes[0]) \cap Head(es).allowed # {}
    BY <1>0, <1>1, FitsAdmit
  <2> QED
    BY <2>1, BusyIs DEF Allowed, Idle, IdleOf
<1>5. UNCHANGED <<handed, gone, rx, lanes>> /\ todo' = [todo EXCEPT ![0] = Tail(@)]
  BY Zenon DEF ApplyAdmit, clientVars
<1>6. /\ UNCHANGED <<finish, waiting>>
      /\ \E s \in free : \E reuse, left :
            Prefill(0, [NoJob EXCEPT !.req = r, !.slot = s, !.reuse = reuse, !.left = left])
  <2> HIDE DEF free
  <2>1. IF free = {} THEN TRUE
        ELSE /\ \E s \in free :
                    LET reuse == IF s \in Hits(0, r, free) THEN cache[0][s].len ELSE 0
                    IN  Prefill(0, [NoJob EXCEPT !.req = r, !.slot = s, !.reuse = reuse,
                                    !.left = IF reuse > 0 THEN Resumed[r] ELSE Boundaries[r]])
             /\ UNCHANGED <<finish, waiting>>
    BY Zenon DEF ApplyAdmit, free
  <2> QED
    BY <1>4, <2>1, Zenon
<1>6a. PICK s \in free : \E reuse, left :
        Prefill(0, [NoJob EXCEPT !.req = r, !.slot = s, !.reuse = reuse, !.left = left])
  BY <1>6
<1>7. PICK reuse, left :
        Prefill(0, [NoJob EXCEPT !.req = r, !.slot = s, !.reuse = reuse, !.left = left])
  BY <1>6a
<1>8. job'[0].req = r /\ job'[0].slot = s
  BY <1>1, <1>7 DEF Prefill, NoJob
<1>9. 0 \notin Stopped'
  <2>1. pc'[0] \in {"seam", "round", "flag"}
    BY <1>1, <1>7 DEF Prefill
  <2> QED
    BY <2>1 DEF Stopped
<1>10. todo'[0] = Tail(es)
  BY <1>1, <1>5
<1>11. /\ SingleAdmits(es) => SingleAdmits(Tail(es)) /\ r \notin AdmitReqs(Tail(es))
       /\ AdmitReqs(es) = AdmitReqs(Tail(es)) \cup {r}
       /\ \A i \in DOMAIN Tail(es) : \E j \in DOMAIN es : Tail(es)[i] = es[j]
  BY <1>0, <1>1, TailAdmits
<1>12. \A i \in DOMAIN es : es[i].type = "admit"
  BY <1>0, <1>1, AdmitsToTheEnd
<1> HIDE DEF es, r, free
<1>13. /\ Queued' = Queued /\ Admitting = Admitting' \cup {r} /\ Prefilling' = {r} /\ InLanes' = InLanes
       /\ Prefilling = {}
  BY <1>1, <1>3, <1>5, <1>6, <1>8, <1>10, <1>11 DEF Queued, Admitting, Prefilling, InLanes, NoJob, es
<1>14. Apart'
  <2>1. Singles(waiting' \o rx') /\ SingleLanes(lanes'[0])
    BY <1>5, <1>6 DEF HeadInv, Apart
  <2>2. SingleAdmits(todo'[0]) /\ r \notin Admitting'
    BY <1>10, <1>11 DEF HeadInv, Apart, Admitting, es
  <2> HIDE DEF Queued, Admitting, Prefilling, InLanes
  <2> QED
    BY <1>13, <2>1, <2>2 DEF HeadInv, Apart
<1>15. CancelsOk'
  <2>1. \A i \in DOMAIN todo'[0] : todo'[0][i].type = "admit"
    BY <1>10, <1>11, <1>12
  <2> QED
    BY <2>1 DEF CancelsOk
<1>16. JobFits'
  BY <1>3, <1>4, <1>5, <1>8 DEF JobFits
<1>17. Handles
  <2> HIDE DEF Queued, Admitting, Prefilling, InLanes
  <2>1. InHand' = InHand
    BY <1>13 DEF InHand
  <2> QED
    BY <1>1, <1>5, <1>6, <1>9, <1>13, <2>1 DEF Handles
<1> QED
  BY <1>14, <1>15, <1>16, <1>17 DEF HeadMoves

\* A chunk boundary: the prefill goes on, or ends because its client left.
LEMMA FlagServes ==
    ASSUME IInv, HeadInv, HeadFlag
    PROVE  HeadMoves
<1>0. pc[0] = "flag"
  BY DEF HeadFlag
<1>1. /\ job[0] # NoJob /\ job[0].req \in Reqs /\ job[0].slot \in IdleOf(lanes[0]) /\ 0 \in Ranks
      /\ job \in [Ranks -> Jobs] /\ pc \in [Ranks -> Places] /\ 0 \notin Stopped
  BY <1>0, HeadKnows
<1>2. UNCHANGED <<handed, gone, finish, rx, waiting, lanes, todo>> /\ AtBoundary(0, job[0].req \in gone)
  BY DEF HeadFlag, clientVars, syncVars
<1>3. \/ job'[0] = NoJob /\ job[0].req \in gone
      \/ job'[0] # NoJob /\ job'[0].req = job[0].req /\ job'[0].slot = job[0].slot
  <2>1. CASE job[0].req \in gone
    <3>1. job' = [job EXCEPT ![0] = NoJob]
      BY <1>2, <2>1 DEF AtBoundary
    <3> QED
      BY <1>1, <2>1, <3>1
  <2>2. CASE job[0].req \notin gone
    <3>1. Prefill(0, [job[0] EXCEPT !.left = @ - 1])
      BY <1>2, <2>2 DEF AtBoundary
    <3>2. job'[0] = [[job[0] EXCEPT !.left = @ - 1] EXCEPT !.quota = NestedSteps]
      BY <1>1, <3>1 DEF Prefill
    <3>3. job'[0].req = job[0].req /\ job'[0].slot = job[0].slot
      BY <1>1, <3>2 DEF Jobs
    <3> QED
      BY <1>1, <3>3, TpAssumption DEF NoJob
  <2> QED
    BY <2>1, <2>2
<1>4. 0 \notin Stopped'
  <2>1. pc'[0] \in {"apply", "seam", "round", "flag"}
    BY <1>1, <1>2 DEF AtBoundary, Prefill
  <2> QED
    BY <2>1 DEF Stopped
<1>5. /\ Queued' = Queued /\ Admitting' = Admitting /\ InLanes' = InLanes
      /\ Prefilling = {job[0].req}
      /\ Prefilling' = Prefilling \/ (Prefilling' = {} /\ job[0].req \in gone)
  BY <1>1, <1>2, <1>3, TpAssumption DEF Queued, Admitting, Prefilling, InLanes, NoJob
<1>6. Apart'
  <2>1. Singles(waiting' \o rx') /\ SingleAdmits(todo'[0]) /\ SingleLanes(lanes'[0])
    BY <1>2 DEF HeadInv, Apart
  <2> HIDE DEF Queued, Admitting, Prefilling, InLanes
  <2> QED
    BY <1>5, <2>1 DEF HeadInv, Apart
<1>7. CancelsOk'
  BY <1>1, <1>2 DEF HeadInv, CancelsOk
<1>8. JobFits'
  BY <1>1, <1>2, <1>3 DEF JobFits
<1>9. Handles
  <2>1. job[0].req \notin Queued \cup Admitting \cup InLanes
    <3> HIDE DEF Queued, Admitting, Prefilling, InLanes
    <3> QED
      BY <1>5 DEF HeadInv, Apart
  <2> HIDE DEF Queued, Admitting, Prefilling, InLanes
  <2> QED
    BY <1>1, <1>2, <1>4, <1>5, <2>1 DEF Handles, InHand
<1> QED
  BY <1>6, <1>7, <1>8, <1>9 DEF HeadMoves
\* No cancel waits where a rank meets the others.
LEMMA NoCancels ==
    ASSUME IInv, HeadInv, pc[0] \in {"seam", "round"}
    PROVE  \A i \in DOMAIN todo[0] : todo[0][i].type # "cancel"
<1>1. job[0] = NoJob => todo[0] = <<>>
  BY HeadKnows
<1>2. todo[0] = <<>> => DOMAIN todo[0] = {}
  OBVIOUS
<1> QED
  BY <1>1, <1>2 DEF HeadInv, CancelsOk

\* The seam: the first token ends the request or makes it a lane.
LEMMA SeamServes ==
    ASSUME IInv, HeadInv, Seam
    PROVE  HeadMoves
<1> DEFINE r == job[0].req
           slot == job[0].slot
<1>0. pc[0] = "seam"
  <2>1. Point(0) = "seam"
    BY DEF Seam, MeetAt
  <2> QED
    BY <2>1 DEF Point
<1>1. /\ job[0] # NoJob /\ r \in Reqs /\ slot \in IdleOf(lanes[0]) /\ 0 \in Ranks
      /\ lanes[0] \in Tables /\ 0 \notin Stopped
  BY <1>0, HeadKnows
<1>2. finish \in [Reqs -> {"none", "done", "error"}]
  BY DEF IInv, ClientTypes
<1>3. PICK ends \in BOOLEAN :
        /\ lanes' = [k \in Ranks |->
                IF ends THEN lanes[k]
                ELSE [lanes[k] EXCEPT ![job[k].slot] =
                        [req |-> job[k].req, left |-> MaxNew[job[k].req] - 1]]]
        /\ finish' = IF ends THEN [finish EXCEPT ![r] = "done"] ELSE finish
  BY DEF Seam
<1>4. /\ UNCHANGED <<handed, gone, rx, waiting, todo>>
      /\ job' = [k \in Ranks |-> NoJob] /\ pc' = [k \in Ranks |-> "apply"]
  BY DEF Seam, clientVars
<1>5. job'[0] = NoJob /\ 0 \notin Stopped'
  BY <1>1, <1>4 DEF Stopped
<1> DEFINE lane == [req |-> r, left |-> MaxNew[r] - 1]
<1>6. lanes'[0] = IF ends THEN lanes[0] ELSE [lanes[0] EXCEPT ![slot] = lane]
  BY <1>1, <1>3
<1>7. r # NoReq /\ slot \in Slots /\ slot \notin BusyOf(lanes[0]) /\ lane.req = r
  BY <1>1, TpAssumption DEF IdleOf
<1>8. lane # FreeLane
  BY <1>7 DEF FreeLane
<1> HIDE DEF lane
<1>9. ~ends => /\ BusyOf(lanes'[0]) = BusyOf(lanes[0]) \cup {slot}
               /\ \A s \in Slots : lanes'[0][s] = IF s = slot THEN lane ELSE lanes[0][s]
  <2> SUFFICES ASSUME ~ends PROVE /\ BusyOf(lanes'[0]) = BusyOf(lanes[0]) \cup {slot}
                                  /\ \A s \in Slots : lanes'[0][s] = IF s = slot THEN lane ELSE lanes[0][s]
    OBVIOUS
  <2>1. \A s \in Slots : lanes'[0][s] = IF s = slot THEN lane ELSE lanes[0][s]
    BY <1>1, <1>6 DEF Tables
  <2> QED
    BY <1>7, <1>8, <2>1 DEF BusyOf
<1>10. /\ Queued' = Queued /\ Admitting' = Admitting /\ Prefilling = {r} /\ Prefilling' = {}
       /\ InLanes' = IF ends THEN InLanes ELSE InLanes \cup {r}
  <2>1. Queued' = Queued /\ Admitting' = Admitting /\ Prefilling = {r} /\ Prefilling' = {}
    BY <1>4, <1>5, <1>7 DEF Queued, Admitting, Prefilling, NoJob
  <2>2. ends => InLanes' = InLanes
    BY <1>6 DEF InLanes
  <2>3. ~ends => InLanes' = InLanes \cup {r}
    BY <1>7, <1>9 DEF InLanes, TableReqs, BusyOf
  <2> QED
    BY <2>1, <2>2, <2>3
<1>11. r \notin Queued \cup Admitting \cup InLanes /\ r \in InHand
  <2> HIDE DEF Queued, Admitting, Prefilling, InLanes
  <2> QED
    BY <1>10 DEF HeadInv, Apart, InHand
<1>12. finish[r] = "none"
  BY <1>1, <1>11 DEF HeadInv, Owed
<1>13. SingleLanes(lanes'[0])
  <2>1. SingleLanes(lanes[0])
    BY DEF HeadInv, Apart
  <2>2. CASE ends
    BY <1>6, <2>1, <2>2
  <2>3. CASE ~ends
    <3>1. \A s \in BusyOf(lanes[0]) : s \in Slots /\ s # slot /\ lanes[0][s].req # r
      BY <1>7, <1>11 DEF InLanes, TableReqs, BusyOf
    <3>2. \A s \in BusyOf(lanes'[0]) : \/ s = slot /\ lanes'[0][s].req = r
                                       \/ s \in BusyOf(lanes[0]) /\ lanes'[0][s] = lanes[0][s] /\ lanes[0][s].req # r
      BY <1>7, <1>9, <2>3, <3>1
    <3> QED
      BY <2>1, <3>2 DEF SingleLanes
  <2> QED
    BY <2>2, <2>3
<1> HIDE DEF r, slot
<1>14. Apart'
  <2>1. Singles(waiting' \o rx') /\ SingleAdmits(todo'[0])
    BY <1>4 DEF HeadInv, Apart
  <2> HIDE DEF Queued, Admitting, Prefilling, InLanes
  <2> QED
    BY <1>10, <1>11, <1>13, <2>1 DEF HeadInv, Apart
<1>15. CancelsOk' /\ JobFits'
  BY <1>0, <1>4, <1>5, NoCancels DEF CancelsOk, JobFits
<1>16. Handles
  <2> HIDE DEF Queued, Admitting, Prefilling, InLanes
  <2>1. CASE ends
    <3>1. finish' = [finish EXCEPT ![r] = "done"]
      BY <1>3, <2>1
    <3>2. InHand' = InHand \ {r}
      BY <1>10, <1>11, <2>1 DEF InHand
    <3> QED
      BY <1>1, <1>2, <1>4, <1>10, <1>11, <1>12, <2>1, <3>1, <3>2 DEF Handles
  <2>2. CASE ~ends
    <3>1. finish' = finish
      BY <1>3, <2>2
    <3>2. InHand' = InHand
      BY <1>10, <2>2 DEF InHand
    <3> QED
      BY <1>1, <1>4, <1>10, <2>2, <3>1, <3>2 DEF Handles
  <2> QED
    BY <2>1, <2>2
<1> QED
  BY <1>14, <1>15, <1>16 DEF HeadMoves

\* A round: the lanes that got their last token end, and their requests are done.
LEMMA RoundServes ==
    ASSUME IInv, HeadInv, Round
    PROVE  HeadMoves
<1>0. pc[0] = "round"
  <2>1. Point(0) = "round"
    BY DEF Round, MeetAt
  <2> QED
    BY <2>1 DEF Point
<1>1. /\ \A s \in Slots : lanes[0][s] = FreeLane \/ (lanes[0][s].req \in Reqs /\ lanes[0][s].left > 0)
      /\ job[0] = NoJob \/ (job[0].req \in Reqs /\ job[0].slot \in IdleOf(lanes[0]))
      /\ lanes[0] \in Tables /\ job[0] \in Jobs /\ 0 \in Ranks /\ 0 \notin Stopped
  BY <1>0, HeadKnows
<1>2. finish \in [Reqs -> {"none", "done", "error"}]
  BY DEF IInv, ClientTypes
<1>3. PICK stepped \in SUBSET ToSet(Running(0)), more \in BOOLEAN :
       \E over \in SUBSET stepped :
        /\ \A s \in Busy(0) : lanes[0][s].left = 1 /\ lanes[0][s].req \in stepped
                                => lanes[0][s].req \in over
        /\ LET out == [k \in Ranks |-> {s \in Busy(k) : Freed(k, s, over)}]
           IN  /\ lanes' = [k \in Ranks |-> RoundTable(lanes[k], out[k], stepped)]
               /\ rel' = [k \in Ranks |-> RoundRel(rel[k], released[k], out[k])]
               /\ released' = [k \in Ranks |-> released[k] + Cardinality(out[k])]
               /\ pc' = [k \in Ranks |-> RoundPlace(job[k], more, Busy(k) \ out[k])]
               /\ job' = [k \in Ranks |-> RoundJob(job[k], more, Busy(k) \ out[k])]
        /\ finish' = [r \in Reqs |-> IF r \in over THEN "done" ELSE finish[r]]
  BY RoundIs
<1>4. PICK over \in SUBSET stepped :
        /\ \A s \in Busy(0) : lanes[0][s].left = 1 /\ lanes[0][s].req \in stepped
                                => lanes[0][s].req \in over
        /\ LET out == [k \in Ranks |-> {s \in Busy(k) : Freed(k, s, over)}]
           IN  /\ lanes' = [k \in Ranks |-> RoundTable(lanes[k], out[k], stepped)]
               /\ rel' = [k \in Ranks |-> RoundRel(rel[k], released[k], out[k])]
               /\ released' = [k \in Ranks |-> released[k] + Cardinality(out[k])]
               /\ pc' = [k \in Ranks |-> RoundPlace(job[k], more, Busy(k) \ out[k])]
               /\ job' = [k \in Ranks |-> RoundJob(job[k], more, Busy(k) \ out[k])]
        /\ finish' = [r \in Reqs |-> IF r \in over THEN "done" ELSE finish[r]]
  BY <1>3
<1>5. UNCHANGED <<handed, gone, rx, waiting, todo>>
  BY DEF Round, clientVars
<1> DEFINE out == {s \in BusyOf(lanes[0]) : lanes[0][s].req \in over}
           rest == BusyOf(lanes[0]) \ out
           next == RoundTable(lanes[0], out, stepped)
<1>6. /\ lanes'[0] = next /\ pc'[0] = RoundPlace(job[0], more, rest)
      /\ job'[0] = RoundJob(job[0], more, rest)
  <2> DEFINE outs == [k \in Ranks |-> {s \in Busy(k) : Freed(k, s, over)}]
  <2>1. /\ lanes' = [k \in Ranks |-> RoundTable(lanes[k], outs[k], stepped)]
        /\ pc' = [k \in Ranks |-> RoundPlace(job[k], more, Busy(k) \ outs[k])]
        /\ job' = [k \in Ranks |-> RoundJob(job[k], more, Busy(k) \ outs[k])]
    BY <1>4
  <2>2. outs[0] = out /\ Busy(0) = BusyOf(lanes[0])
    BY <1>1, BusyIs DEF Freed
  <2> HIDE DEF outs, out
  <2> QED
    BY <1>1, <2>1, <2>2
<1>7. ToSet(Running(0)) \subseteq InLanes /\ InLanes \subseteq Reqs
  <2> DEFINE order == InOrder(Busy(0))
  <2>1. Busy(0) \in SUBSET Slots
    BY DEF Busy
  <2>2. \A i \in DOMAIN order : order[i] \in Busy(0)
    BY <2>1, InOrderLists
  <2>3. Running(0) = [i \in DOMAIN order |-> lanes[0][order[i]].req]
    BY DEF Running
  <2> HIDE DEF order
  <2>4. ToSet(Running(0)) \subseteq InLanes
    BY <2>2, <2>3, BusyIs DEF ToSet, InLanes, TableReqs
  <2>5. InLanes \subseteq Reqs
    BY <1>1 DEF InLanes, TableReqs, BusyOf
  <2> QED
    BY <2>4, <2>5
<1>8. \A s \in Slots : /\ next[s] = FreeLane \/ (s \in BusyOf(lanes[0]) /\ next[s].req = lanes[0][s].req)
                       /\ s \in BusyOf(lanes[0]) => IF lanes[0][s].req \in over THEN next[s] = FreeLane
                                                    ELSE next[s] # FreeLane
  <2> SUFFICES ASSUME NEW s \in Slots
               PROVE  /\ next[s] = FreeLane \/ (s \in BusyOf(lanes[0]) /\ next[s].req = lanes[0][s].req)
                      /\ s \in BusyOf(lanes[0]) => IF lanes[0][s].req \in over THEN next[s] = FreeLane
                                                   ELSE next[s] # FreeLane
    OBVIOUS
  <2> DEFINE less == [lanes[0][s] EXCEPT !.left = @ - 1]
  <2>1. next[s] = IF s \in out THEN FreeLane ELSE IF lanes[0][s].req \in stepped THEN less ELSE lanes[0][s]
    BY DEF RoundTable
  <2>2. FreeLane.req = NoReq /\ NoReq \notin Reqs /\ stepped \subseteq Reqs
    BY <1>7, TpAssumption DEF FreeLane
  <2>3. less.req = lanes[0][s].req
    BY <1>1 DEF Tables
  <2> HIDE DEF less
  <2>4. s \notin BusyOf(lanes[0]) => lanes[0][s] = FreeLane
    BY DEF BusyOf
  <2>5. s \in BusyOf(lanes[0]) => lanes[0][s].req \in Reqs
    BY <1>1 DEF BusyOf
  <2> QED
    BY <2>1, <2>2, <2>3, <2>4, <2>5
<1> HIDE DEF next
<1>9. /\ TableReqs(next) \subseteq TableReqs(lanes[0])
      /\ SingleLanes(lanes[0]) => SingleLanes(next)
      /\ BusyOf(next) \subseteq BusyOf(lanes[0])
  BY <1>8, LanesLeave
<1>10. TableReqs(next) = TableReqs(lanes[0]) \ over
  <2>1. ASSUME NEW s \in BusyOf(next) PROVE next[s].req \notin over
    BY <1>8, <1>9, <2>1 DEF BusyOf
  <2>2. ASSUME NEW s \in BusyOf(lanes[0]), lanes[0][s].req \notin over PROVE lanes[0][s].req \in TableReqs(next)
    BY <1>8, <2>2 DEF BusyOf, TableReqs
  <2> QED
    BY <1>9, <2>1, <2>2 DEF TableReqs
<1>11. /\ job[0] = NoJob <=> job'[0] = NoJob
       /\ job[0] # NoJob => job'[0].req = job[0].req /\ job'[0].slot = job[0].slot
  BY <1>1, <1>6, RoundJobKeeps
<1>12. /\ Queued' = Queued /\ Admitting' = Admitting /\ Prefilling' = Prefilling
       /\ InLanes' = InLanes \ over /\ over \subseteq InLanes /\ over \subseteq Reqs
  <2>1. Prefilling' = Prefilling
    BY <1>11 DEF Prefilling
  <2> QED
    BY <1>5, <1>6, <1>7, <1>10, <2>1 DEF Queued, Admitting, InLanes
<1>13. 0 \notin Stopped'
  BY <1>6 DEF RoundPlace, Stopped
<1>14. Apart'
  <2>1. Singles(waiting' \o rx') /\ SingleAdmits(todo'[0]) /\ SingleLanes(lanes'[0])
    BY <1>5, <1>6, <1>9 DEF HeadInv, Apart
  <2> HIDE DEF Queued, Admitting, Prefilling, InLanes
  <2> QED
    BY <1>12, <2>1 DEF HeadInv, Apart
<1>15. CancelsOk'
  BY <1>0, <1>5, NoCancels DEF CancelsOk
<1>16. JobFits'
  <2>1. IdleOf(lanes[0]) \subseteq IdleOf(next)
    BY <1>9 DEF IdleOf
  <2> QED
    BY <1>1, <1>6, <1>11, <2>1 DEF JobFits
<1>17. Handles
  <2> HIDE DEF Queued, Admitting, Prefilling, InLanes
  <2>1. \A r \in Reqs : finish'[r] = IF r \in over THEN "done" ELSE finish[r]
    BY <1>4
  <2>2. \A r \in over : r \in InHand /\ r \in Reqs /\ finish[r] = "none" /\ r \in InLanes /\ r \notin InHand'
    BY <1>1, <1>12 DEF InHand, HeadInv, Owed, Apart
  <2>3. InHand' = InHand \ over
    BY <1>12, <2>2 DEF InHand
  <2>4. InHand' \subseteq Reqs
    <3>1. handed \subseteq Reqs
      BY DEF IInv, ClientTypes
    <3> QED
      BY <2>3, <3>1 DEF HeadInv, Owed
  <2> QED
    BY <1>1, <1>5, <1>12, <1>13, <2>1, <2>2, <2>3, <2>4 DEF Handles
<1> QED
  BY <1>14, <1>15, <1>16, <1>17 DEF HeadMoves
\* tp_fail tells all the head holds but the admits of the step it has not applied.
LEMMA FailServes ==
    ASSUME IInv, HeadInv, 0 \notin Stopped, Fails(0)
    PROVE  HeadMoves
<1>0. /\ 0 \in Ranks /\ RankTypes /\ finish \in [Reqs -> {"none", "done", "error"}]
  BY RankSets DEF IInv, RankInv, ClientTypes
<1>1. /\ finish' = [r \in Reqs |-> IF r \in HeadHolds /\ finish[r] = "none" THEN "error" ELSE finish[r]]
      /\ lanes' = [lanes EXCEPT ![0] = [s \in Slots |-> FreeLane]]
      /\ rx' = <<>> /\ waiting' = <<>>
      /\ job' = [job EXCEPT ![0] = NoJob]
      /\ pc' = [pc EXCEPT ![0] = "stopped"]
      /\ UNCHANGED <<handed, gone, todo>>
  BY DEF Fails, HeadFails, clientVars, syncVars
<1>2. lanes'[0] = [s \in Slots |-> FreeLane] /\ job'[0] = NoJob /\ pc'[0] = "stopped" /\ 0 \in Stopped'
  BY <1>0, <1>1 DEF RankTypes, Stopped
<1>3. BusyOf(lanes'[0]) = {}
  BY <1>2 DEF BusyOf
<1>4. Queued' = {} /\ Admitting' = Admitting /\ Prefilling' = {} /\ InLanes' = {}
  BY <1>1, <1>2, <1>3 DEF Queued, Admitting, Prefilling, InLanes, TableReqs, ToSet, NoJob
<1>5. /\ Queued \cup Prefilling \cup InLanes \subseteq HeadHolds
      /\ \A r \in Reqs : r \in HeadHolds => r \in Queued \cup Prefilling \cup InLanes
  BY BusyIs, TpAssumption DEF HeadHolds, Queued, Prefilling, InLanes, TableReqs
<1>6. Apart'
  <2>1. Singles(waiting' \o rx')
    <3>1. waiting' \o rx' = <<>>
      BY <1>1
    <3> QED
      BY <3>1 DEF Singles
  <2>2. SingleAdmits(todo'[0]) /\ SingleLanes(lanes'[0])
    BY <1>1, <1>3 DEF HeadInv, Apart, SingleLanes
  <2> HIDE DEF Queued, Admitting, Prefilling, InLanes
  <2> QED
    BY <1>4, <2>1, <2>2 DEF Apart
<1>7. CancelsOk'
  <2> SUFFICES ASSUME NEW i \in DOMAIN todo[0], todo[0][i].type = "cancel"
               PROVE  lanes'[0][todo[0][i].lane] = FreeLane
    BY <1>1, <1>2 DEF CancelsOk
  <2>1. todo[0] \in Seq(StepEvents)
    BY <1>0 DEF RankTypes
  <2>2. todo[0][i] \in StepEvents
    BY <2>1, ElementOfSeq, LenProperties
  <2>3. todo[0][i].lane \in Slots
    BY <2>2 DEF StepEvents
  <2> QED
    BY <1>2, <2>3
<1>8. JobFits'
  BY <1>2 DEF JobFits
<1>9. Handles
  <2> HIDE DEF Queued, Admitting, Prefilling, InLanes
  <2>1. InHand' = Admitting
    BY <1>4 DEF InHand
  <2>2. InHand \subseteq Reqs
    <3>1. handed \subseteq Reqs
      BY DEF IInv, ClientTypes
    <3> QED
      BY <3>1 DEF HeadInv, Owed
  <2>3. \A r \in InHand : r \in Admitting => r \notin Queued \cup Prefilling \cup InLanes
    BY DEF HeadInv, Apart
  <2>4. \A r \in Reqs : finish'[r] = IF r \in HeadHolds /\ finish[r] = "none" THEN "error" ELSE finish[r]
    BY <1>1
  <2>5. \A r \in InHand \ InHand' : finish'[r] # "none"
    BY <1>5, <2>1, <2>2, <2>4 DEF InHand
  <2> QED
    BY <1>1, <1>2, <1>5, <2>1, <2>2, <2>3, <2>4, <2>5 DEF Handles, InHand
<1> QED
  BY <1>6, <1>7, <1>8, <1>9 DEF HeadMoves

\* The step's unapplied admits are told by the drop of their senders.
LEMMA DropServes ==
    ASSUME IInv, HeadInv, NEW r \in Reqs, SenderDropped(r)
    PROVE  HeadMoves
<1>1. /\ r \in Admitting /\ finish[r] = "none" /\ 0 \in Stopped /\ 0 \in Stopped'
      /\ finish' = [finish EXCEPT ![r] = "error"] /\ finish \in [Reqs -> {"none", "done", "error"}]
      /\ UNCHANGED <<handed, gone, rx, waiting, lanes, todo, job>>
  BY RankSets DEF SenderDropped, Admitting, AdmitReqs, AdmitsOf, Unapplied, Stopped, clientVars, tableVars,
                  syncVars, IInv, ClientTypes
<1>2. /\ Queued' = Queued /\ Admitting' = Admitting /\ Prefilling' = Prefilling /\ InLanes' = InLanes
  BY <1>1 DEF Queued, Admitting, Prefilling, InLanes
<1>3. InHand' = InHand /\ r \in InHand
  BY <1>1, <1>2 DEF InHand
<1>4. Apart' /\ CancelsOk' /\ JobFits'
  BY <1>1, <1>2 DEF HeadInv, Apart, CancelsOk, JobFits
<1>5. Handles
  BY <1>1, <1>2, <1>3 DEF Handles
<1> QED
  BY <1>4, <1>5 DEF HeadMoves

\* A step is planned: the requests of the queue are admitted, stay queued, are answered
\* or have lost their client.
LEMMA PlanServes ==
    ASSUME IInv, HeadInv, pc[0] = "top",
           NEW q \in Seq(Reqs), NEW rest \in Seq(Reqs), NEW ad \in Seq(StepEvents),
           Len(ad) = Len(q), \A i \in 1..Len(ad) : ad[i].type = "admit" /\ ad[i].req = q[i],
           Singles(q), Singles(rest), ToSet(q) \cap ToSet(rest) = {},
           ToSet(q) \cup ToSet(rest) \subseteq Queued,
           waiting' = rest, rx' = <<>>, UNCHANGED <<handed, gone, lanes, job>>, Begin(Cancels \o ad),
           \A r \in Queued \ (ToSet(q) \cup ToSet(rest)) : finish'[r] # "none" \/ r \in gone,
           \A r \in Reqs : \/ finish'[r] = finish[r]
                           \/ r \in Queued \ (ToSet(q) \cup ToSet(rest)) /\ finish'[r] = "error"
    PROVE  HeadMoves
<1>1. /\ lanes[0] \in Tables /\ job[0] = NoJob /\ todo[0] = <<>> /\ 0 \in Ranks
      /\ todo \in [Ranks -> Seq(StepEvents)] /\ pc \in [Ranks -> Places] /\ 0 \notin Stopped
  BY HeadKnows
<1> DEFINE es == Cancels \o ad
<1>2. todo'[0] = es /\ pc'[0] \in {"top", "go", "ship"}
  <2>1. CASE es = <<>> /\ ~Live(0)
    BY <1>1, <2>1 DEF Begin
  <2>2. CASE ~(es = <<>> /\ ~Live(0))
    <3>1. /\ todo' = [todo EXCEPT ![0] = es]
          /\ pc' = [pc EXCEPT ![0] = IF FastCtl /\ Live(0) THEN "go" ELSE "ship"]
      BY <2>2, Zenon DEF Begin
    <3> HIDE DEF es
    <3> QED
      BY <1>1, <3>1
  <2> QED
    BY <2>1, <2>2
<1>3. 0 \notin Stopped'
  BY <1>2 DEF Stopped
<1>4. /\ AdmitReqs(es) = ToSet(q) /\ SingleAdmits(es)
      /\ \A i \in DOMAIN es : es[i].type = "cancel" => i \in DOMAIN Cancels /\ es[i] = Cancels[i]
  BY CancelsCut, JoinAdmits
<1> HIDE DEF es
<1>5. Singles(waiting' \o rx')
  <2>1. waiting' \o rx' = rest
    BY ConcatEmptySeq
  <2> QED
    BY <2>1
<1>6. Queued' = ToSet(rest)
  <2>1. ToSet(<<>>) = {}
    BY DEF ToSet
  <2> QED
    BY <2>1 DEF Queued
<1>7. /\ Admitting = {} /\ Admitting' = ToSet(q) /\ Prefilling' = Prefilling /\ InLanes' = InLanes
      /\ Prefilling = {}
  BY <1>1, <1>2, <1>4 DEF Admitting, AdmitReqs, AdmitsOf, Prefilling, InLanes, NoJob
<1>8. Apart'
  <2>1. SingleAdmits(todo'[0]) /\ SingleLanes(lanes'[0])
    BY <1>2, <1>4 DEF HeadInv, Apart
  <2> HIDE DEF Queued, Admitting, Prefilling, InLanes
  <2> QED
    BY <1>5, <1>6, <1>7, <2>1 DEF HeadInv, Apart
<1>9. CancelsOk'
  <2> SUFFICES ASSUME NEW i \in DOMAIN es, es[i].type = "cancel"
               PROVE  lanes[0][es[i].lane].req \in gone
    BY <1>1, <1>2 DEF CancelsOk
  <2>1. i \in DOMAIN Cancels /\ es[i] = Cancels[i]
    BY <1>4
  <2>2. Cancels[i].lane \in CutBy(Cancels, Len(Cancels))
    BY <2>1, CancelsCut, LenProperties DEF CutBy
  <2> QED
    BY <2>1, <2>2, CancelsCut DEF GoneLanes
<1>10. JobFits'
  BY <1>1 DEF JobFits
<1>11. Handles
  <2> HIDE DEF Queued, Admitting, Prefilling, InLanes
  <2>1. InHand = Queued \cup InLanes /\ InHand' = ToSet(rest) \cup ToSet(q) \cup InLanes
    BY <1>6, <1>7 DEF InHand
  <2>2. \A r \in InHand : r \in Reqs /\ finish[r] = "none"
    <3>1. handed \subseteq Reqs
      BY DEF IInv, ClientTypes
    <3> QED
      BY <1>1, <3>1 DEF HeadInv, Owed
  <2>3. Queued \cap InLanes = {}
    BY DEF HeadInv, Apart
  <2>4. \A r \in InHand' : r \in Reqs /\ finish'[r] = finish[r]
    BY <2>1, <2>2, <2>3
  <2> QED
    BY <1>1, <1>3, <1>7, <2>1, <2>2, <2>3, <2>4 DEF Handles
<1> QED
  BY <1>8, <1>9, <1>10, <1>11 DEF HeadMoves

\* The whole queue, and what Only leaves of it.
LEMMA QueueSplits ==
    ASSUME IInv, HeadInv
    PROVE  /\ waiting \o rx \in Seq(Reqs) /\ ToSet(waiting \o rx) = Queued /\ Singles(waiting \o rx)
           /\ handed \subseteq Reqs /\ finish \in [Reqs -> {"none", "done", "error"}]
<1>1. waiting \in Seq(Reqs) /\ rx \in Seq(Reqs) /\ handed \subseteq Reqs
      /\ finish \in [Reqs -> {"none", "done", "error"}]
  BY DEF IInv, ClientTypes
<1>2. waiting \o rx \in Seq(Reqs)
  BY <1>1, ConcatProperties
<1>3. ToSet(waiting \o rx) = Queued
  BY <1>1, ConcatElements DEF Queued
<1> QED
  BY <1>1, <1>2, <1>3 DEF HeadInv, Apart

LEMMA PlansServe ==
    ASSUME IInv, HeadInv, Plan
    PROVE  HeadMoves
<1> DEFINE queue == waiting \o rx
<1>0. pc[0] = "top" /\ UNCHANGED <<handed, gone, lanes, job>>
  BY DEF Plan, PlanFifo, PlanHold, PlanScoped, clientVars, tableVars
<1>1. /\ queue \in Seq(Reqs) /\ ToSet(queue) = Queued /\ Singles(queue)
      /\ handed \subseteq Reqs /\ finish \in [Reqs -> {"none", "done", "error"}]
  BY QueueSplits
<1> HIDE DEF queue
<1>2. <<>> \in Seq(StepEvents) /\ <<>> \in Seq(Reqs) /\ Len(<<>>) = 0 /\ ToSet(<<>>) = {} /\ Singles(<<>>)
      /\ Cancels \o <<>> = Cancels
  BY CancelsCut, ConcatEmptySeq DEF ToSet, Singles
<1>3. \A i \in 1..Len(<<>>) : <<>>[i].type = "admit" /\ <<>>[i].req = <<>>[i]
  BY <1>2
<1>4. CASE PlanHold
  <2>1. Begin(Cancels) /\ waiting' = Only(queue, Present) /\ rx' = <<>> /\ finish' = finish
    BY <1>4 DEF PlanHold, queue
  <2> DEFINE rest == Only(queue, Present)
  <2>2. rest \in Seq(Reqs) /\ ToSet(rest) = Queued \cap Present /\ Singles(rest)
    BY <1>1, OnlyType, OnlyElements
  <2> HIDE DEF rest
  <2>3. \A r \in Queued \ (ToSet(<<>>) \cup ToSet(rest)) : r \in gone
    <3>1. Queued \subseteq Reqs
      BY <1>1 DEF HeadInv, Owed, InHand
    <3> QED
      BY <2>2, <3>1 DEF Present
  <2>4. Begin(Cancels \o <<>>) /\ waiting' = rest
    BY <1>2, <2>1 DEF rest
  <2> QED
    BY <1>0, <1>2, <1>3, <2>1, <2>2, <2>3, <2>4, PlanServes
<1>5. CASE PlanScoped
  <2> DEFINE present == Only(queue, Present)
  <2>1. present \in Seq(Reqs) /\ ToSet(present) = Queued \cap Present /\ Singles(present)
    BY <1>1, OnlyType, OnlyElements
  <2>2. PICK i \in DOMAIN present, allowed \in SUBSET Idle(0) :
            /\ waiting' = RemoveAt(present, i)
            /\ IF present[i] \in Refused
               THEN finish' = [finish EXCEPT ![present[i]] = "error"] /\ Begin(Cancels)
               ELSE finish' = finish /\ Begin(Events(Cancels, <<AdmitEvent(present[i], allowed)>>))
    BY <1>5 DEF PlanScoped, queue
  <2> HIDE DEF present
  <2>3. rx' = <<>>
    BY <1>5 DEF PlanScoped
  <2> DEFINE r0 == present[i]
             rest == RemoveAt(present, i)
  <2>4. r0 \in Reqs /\ i \in 1..Len(present) /\ r0 \in ToSet(present)
    BY <2>1, <2>2, ElementOfSeq, LenProperties DEF ToSet
  <2>5. rest \in Seq(Reqs) /\ Singles(rest) /\ ToSet(rest) = ToSet(present) \ {r0}
    BY <2>1, <2>4, RemoveAtElements
  <2>6. Queued \subseteq Reqs
    BY <1>1 DEF HeadInv, Owed, InHand
  <2>7. r0 \in Queued /\ r0 \notin ToSet(rest) /\ ToSet(rest) \subseteq Queued
        /\ \A r \in Queued \ ({r0} \cup ToSet(rest)) : r \in gone
    BY <2>1, <2>4, <2>5, <2>6 DEF Present
  <2>8. waiting' = rest
    BY <2>2
  <2> HIDE DEF rest
  <2>9. CASE r0 \in Refused
    <3>1. finish' = [finish EXCEPT ![r0] = "error"] /\ Begin(Cancels \o <<>>)
      BY <1>2, <2>2, <2>9
    <3> HIDE DEF r0
    <3>2. \A r \in Reqs : finish'[r] = IF r = r0 THEN "error" ELSE finish[r]
      BY <1>1, <3>1
    <3>3. \A r \in Queued \ (ToSet(<<>>) \cup ToSet(rest)) : finish'[r] # "none" \/ r \in gone
      BY <1>2, <2>4, <2>7, <3>2
    <3>4. \A r \in Reqs : \/ finish'[r] = finish[r]
                          \/ r \in Queued \ (ToSet(<<>>) \cup ToSet(rest)) /\ finish'[r] = "error"
      BY <1>2, <2>7, <3>2
    <3>5. ToSet(<<>>) \cap ToSet(rest) = {} /\ ToSet(<<>>) \cup ToSet(rest) \subseteq Queued
      BY <1>2, <2>7
    <3> QED
      BY <1>0, <1>2, <1>3, <2>3, <2>5, <2>8, <3>1, <3>3, <3>4, <3>5, PlanServes
  <2>10. CASE r0 \notin Refused
    <3> DEFINE e == AdmitEvent(r0, allowed)
               ad == <<e>>
               q == <<r0>>
    <3>1. e \in StepEvents /\ e.type = "admit" /\ e.req = r0
      BY <2>2, <2>4 DEF AdmitEvent, StepEvents, Idle
    <3>2. finish' = finish /\ Begin(Cancels \o ad)
      BY <2>2, <2>10 DEF Events
    <3> HIDE DEF e, r0
    <3>3. /\ ad \in Seq(StepEvents) /\ Len(ad) = 1 /\ ad[1] = e
          /\ q \in Seq(Reqs) /\ Len(q) = 1 /\ q[1] = r0 /\ DOMAIN q = {1}
      BY <2>4, <3>1
    <3> HIDE DEF ad, q
    <3>4. ToSet(q) = {r0} /\ Singles(q)
      BY <3>3 DEF ToSet, Singles
    <3>5. \A l \in 1..Len(ad) : ad[l].type = "admit" /\ ad[l].req = q[l]
      <4>1. \A l \in 1..Len(ad) : l = 1
        BY <3>3
      <4> QED
        BY <3>1, <3>3, <4>1
    <3>6. /\ ToSet(q) \cap ToSet(rest) = {} /\ ToSet(q) \cup ToSet(rest) \subseteq Queued
          /\ \A r \in Queued \ (ToSet(q) \cup ToSet(rest)) : r \in gone
      BY <2>7, <3>4
    <3> QED
      BY <1>0, <2>3, <2>5, <2>8, <3>2, <3>3, <3>4, <3>5, <3>6, PlanServes
  <2> QED
    BY <2>9, <2>10
<1>6. CASE PlanFifo
  <2> DEFINE n == Popped(queue)
             popped == SubSeq(queue, 1, n)
             q == Only(popped, Good)
             ad == [i \in DOMAIN q |-> AdmitEvent(q[i], Slots)]
             back == SubSeq(queue, n + 1, Len(queue))
             rest == Only(back, Present)
  <2>1. /\ waiting' = rest /\ rx' = <<>>
        /\ finish' = [r \in Reqs |-> IF r \in (ToSet(popped) \cap Refused) \ gone
                                     THEN "error" ELSE finish[r]]
        /\ Begin(Cancels \o ad)
    BY <1>6 DEF PlanFifo, Events, queue
  <2>2. n \in 0..Len(queue)
    BY <1>1, CancelsCut, PoppedFits
  <2> HIDE DEF n
  <2>3. /\ popped \in Seq(Reqs) /\ back \in Seq(Reqs)
        /\ ToSet(popped) \cup ToSet(back) = Queued
        /\ Singles(popped) /\ Singles(back) /\ ToSet(popped) \cap ToSet(back) = {}
    BY <1>1, <2>2, CutElements
  <2> HIDE DEF popped, back
  <2>4. q \in Seq(Reqs) /\ ToSet(q) = ToSet(popped) \cap Good /\ Singles(q)
    BY <2>3, OnlyType, OnlyElements
  <2>5. rest \in Seq(Reqs) /\ ToSet(rest) = ToSet(back) \cap Present /\ Singles(rest)
    BY <2>3, OnlyType, OnlyElements
  <2> HIDE DEF q, rest
  <2>6. /\ ad \in Seq(StepEvents) /\ Len(ad) = Len(q)
        /\ \A i \in 1..Len(ad) : ad[i].type = "admit" /\ ad[i].req = q[i]
    <3>1. DOMAIN q = 1..Len(q) /\ Len(q) \in Nat
      BY <2>4
    <3>2. \A i \in 1..Len(q) : /\ AdmitEvent(q[i], Slots) \in StepEvents
                               /\ AdmitEvent(q[i], Slots).type = "admit"
                               /\ AdmitEvent(q[i], Slots).req = q[i]
      <4> TAKE i \in 1..Len(q)
      <4>1. q[i] \in Reqs
        BY <2>4
      <4> QED
        BY <4>1 DEF AdmitEvent, StepEvents
    <3>3. ad \in [1..Len(q) -> StepEvents]
      BY <3>1, <3>2
    <3>4. ad \in Seq(StepEvents) /\ Len(ad) = Len(q)
      BY <3>1, <3>3
    <3>5. \A i \in 1..Len(q) : ad[i] = AdmitEvent(q[i], Slots)
      BY <3>1
    <3> HIDE DEF ad
    <3> QED
      BY <3>2, <3>4, <3>5
  <2> HIDE DEF ad
  <2>7. Queued \subseteq Reqs
    BY <1>1 DEF HeadInv, Owed, InHand
  <2>8. ToSet(q) \cap ToSet(rest) = {} /\ ToSet(q) \cup ToSet(rest) \subseteq Queued
    BY <2>3, <2>4, <2>5
  <2>9. \A r \in Reqs : finish'[r] = IF r \in (ToSet(popped) \cap Refused) \ gone THEN "error" ELSE finish[r]
    BY <2>1
  <2>10. \A r \in Queued \ (ToSet(q) \cup ToSet(rest)) : finish'[r] # "none" \/ r \in gone
    <3> SUFFICES ASSUME NEW r \in Queued, r \notin ToSet(q), r \notin ToSet(rest), r \notin gone
                 PROVE  finish'[r] = "error"
      OBVIOUS
    <3>1. r \in Reqs /\ r \in Present
      BY <2>7 DEF Present
    <3>2. r \in ToSet(popped)
      BY <2>3, <2>5, <3>1
    <3>3. r \in Refused
      BY <2>4, <3>1, <3>2 DEF Good
    <3> QED
      BY <2>9, <3>1, <3>2, <3>3
  <2>11. \A r \in Reqs : \/ finish'[r] = finish[r]
                         \/ r \in Queued \ (ToSet(q) \cup ToSet(rest)) /\ finish'[r] = "error"
    <3> SUFFICES ASSUME NEW r \in Reqs, r \in (ToSet(popped) \cap Refused) \ gone
                 PROVE  r \in Queued \ (ToSet(q) \cup ToSet(rest))
      BY <2>9
    <3> QED
      BY <2>3, <2>4, <2>5 DEF Good
  <2> QED
    BY <1>0, <2>1, <2>4, <2>5, <2>6, <2>8, <2>10, <2>11, PlanServes
<1> QED
  BY <1>4, <1>5, <1>6 DEF Plan
\* Everything but a client's own step.
LEMMA StepsServe ==
    ASSUME IInv, HeadInv, [Next]_vars, ~Client
    PROVE  HeadMoves
<1>1. CASE Plan
  BY <1>1, PlansServe
<1>2. CASE HeadFlag
  BY <1>2, FlagServes
<1>3. CASE ApplyCancel(0) \/ ApplyAdmit(0)
  BY <1>3, CancelServes, AdmitServes
<1>4. CASE Seam \/ Round
  BY <1>4, SeamServes, RoundServes
<1>5. ASSUME NEW k \in Ranks, DeviceFault(k) \/ LinkFails(k) PROVE HeadMoves
  <2>1. Fails(k)
    BY <1>5 DEF DeviceFault, LinkFails
  <2>2. CASE k # 0
    BY <2>1, <2>2, HeadStays
  <2>3. CASE k = 0
    <3>1. pc[0] \in {"go", "ship", "flag", "seam", "round"}
      BY <1>5, <2>3 DEF DeviceFault, LinkFails, Broken, Point
    <3>2. 0 \notin Stopped
      BY <3>1, StoppedIs, RankSets
    <3> QED
      BY <2>1, <2>3, <3>2, FailServes
  <2> QED
    BY <2>2, <2>3
<1>6. ASSUME NEW r \in Reqs, SenderDropped(r) PROVE HeadMoves
  BY <1>6, DropServes
<1>7. CASE Ship \/ Shutdown \/ Go \/ ApplyDone(0) \/ UNCHANGED vars
  BY <1>7, HeadStays
<1>8. CASE (\E n \in Nodes : NodeStep(n)) \/ (\E k \in Ranks : Crash(k))
  BY <1>8, HeadStays
<1> QED
  BY <1>1, <1>2, <1>3, <1>4, <1>5, <1>6, <1>7, <1>8 DEF Next, HeadStep, Apply, Meeting

\* A client hands over a request, which is nowhere yet.
LEMMA SubmitServes ==
    ASSUME IInv, HeadInv, NEW r \in Reqs, Submit(r)
    PROVE  /\ HeadInv'
           /\ StateOf(r) = "new" /\ StateOf(r)' = "queued"
           /\ \A p \in Reqs \ {r} : StateOf(p)' = StateOf(p)
<1>1. /\ waiting \in Seq(Reqs) /\ rx \in Seq(Reqs) /\ handed \subseteq Reqs /\ gone \subseteq handed
      /\ waiting \o rx \in Seq(Reqs)
  BY ConcatProperties DEF IInv, ClientTypes
<1>2. /\ r \notin handed /\ 0 \notin Stopped /\ handed' = handed \cup {r} /\ rx' = Append(rx, r)
      /\ UNCHANGED <<gone, finish, waiting, lanes, todo, job, pc>>
  BY DEF Submit, tableVars, syncVars
<1>3. Stopped' = Stopped
  BY <1>2 DEF Stopped
<1>4. ToSet(waiting \o rx) = Queued
  BY <1>1, ConcatElements DEF Queued
<1>5. /\ Queued' = Queued \cup {r} /\ Admitting' = Admitting /\ Prefilling' = Prefilling
      /\ InLanes' = InLanes
  BY <1>1, <1>2, AppendElements DEF Queued, Admitting, Prefilling, InLanes
<1>6. InHand' = InHand \cup {r}
  BY <1>5 DEF InHand
<1>7. r \notin InHand /\ finish[r] = "none"
  BY <1>2 DEF HeadInv, Owed
<1>8. Singles(waiting' \o rx')
  <2>1. waiting' \o rx' = Append(waiting \o rx, r)
    <3> DEFINE q == waiting \o rx
    <3>1. Append(rx, r) = rx \o <<r>> /\ <<r>> \in Seq(Reqs)
      BY <1>1, AppendIsConcat
    <3>2. waiting \o (rx \o <<r>>) = q \o <<r>>
      BY <1>1, <3>1, ConcatAssociative
    <3>3. q \o <<r>> = Append(q, r)
      <4> HIDE DEF q
      <4> QED
        BY <1>1, AppendIsConcat DEF q
    <3> QED
      BY <1>2, <3>1, <3>2, <3>3
  <2>2. Singles(waiting \o rx)
    BY DEF HeadInv, Apart
  <2>3. r \notin ToSet(waiting \o rx)
    BY <1>4, <1>7 DEF InHand
  <2> DEFINE q == waiting \o rx
  <2>4. q \in Seq(Reqs) /\ Singles(q) /\ r \notin ToSet(q)
    BY <1>1, <2>2, <2>3
  <2> HIDE DEF q
  <2>5. Singles(Append(q, r))
    BY <2>4, AppendElements
  <2> QED
    BY <2>1, <2>5 DEF q
<1>9. Apart'
  <2>1. SingleAdmits(todo'[0]) /\ SingleLanes(lanes'[0])
    BY <1>2 DEF HeadInv, Apart
  <2> HIDE DEF Queued, Admitting, Prefilling, InLanes
  <2> QED
    BY <1>5, <1>7, <1>8, <2>1 DEF HeadInv, Apart, InHand
<1>10. Owed'
  BY <1>2, <1>3, <1>6, <1>7 DEF HeadInv, Owed
<1>11. CancelsOk' /\ JobFits'
  BY <1>2 DEF HeadInv, CancelsOk, JobFits
<1>12. ASSUME NEW p \in Reqs
       PROVE  /\ Sees(p, StateOf(p), finish, handed, Prefilling \cup InLanes, InHand)
              /\ Sees(p, StateOf(p)', finish, handed \cup {r}, Prefilling \cup InLanes, InHand \cup {r})
  <2>1. Sees(p, StateOf(p)', finish', handed', Prefilling' \cup InLanes', InHand')
    BY StateSeenNext
  <2> QED
    BY <1>2, <1>5, <1>6, <2>1, StateSeen
<1>13. r \notin Prefilling \cup InLanes
  BY <1>7 DEF InHand
<1> HIDE DEF Queued, Admitting, Prefilling, InLanes, InHand
<1>14. StateOf(r) = "new" /\ StateOf(r)' = "queued"
  BY <1>2, <1>7, <1>12, <1>13 DEF Sees
<1>15. \A p \in Reqs \ {r} : StateOf(p)' = StateOf(p)
  BY <1>12 DEF Sees
<1> QED
  BY <1>9, <1>10, <1>11, <1>14, <1>15 DEF HeadInv

\* A client leaves a request the head holds.
LEMMA LeaveServes ==
    ASSUME IInv, HeadInv, NEW r \in Reqs, Leave(r)
    PROVE  /\ HeadInv'
           /\ StateOf(r) \in {"queued", "running"}
           /\ \A p \in Reqs : StateOf(p)' = StateOf(p)
<1>1. /\ r \in handed /\ r \notin gone /\ finish[r] = "none" /\ gone' = gone \cup {r}
      /\ UNCHANGED <<handed, finish, rx, waiting, lanes, todo, job, pc>>
  BY DEF Leave, tableVars, syncVars
<1>2. /\ Queued' = Queued /\ Admitting' = Admitting /\ Prefilling' = Prefilling /\ InLanes' = InLanes
      /\ Stopped' = Stopped
  BY <1>1 DEF Queued, Admitting, Prefilling, InLanes, Stopped
<1>3. InHand' = InHand
  BY <1>2 DEF InHand
<1>4. HeadInv'
  <2>1. Apart' /\ JobFits'
    BY <1>1, <1>2 DEF HeadInv, Apart, JobFits
  <2>2. Owed'
    BY <1>1, <1>2, <1>3 DEF HeadInv, Owed
  <2>3. CancelsOk'
    BY <1>1 DEF HeadInv, CancelsOk
  <2> QED
    BY <2>1, <2>2, <2>3 DEF HeadInv
<1>5. r \in InHand
  BY <1>1 DEF HeadInv, Owed
<1>6. StateOf(r) \in {"queued", "running"}
  BY <1>1, <1>5, StateSeen DEF Sees
<1>7. ASSUME NEW p \in Reqs PROVE StateOf(p)' = StateOf(p)
  <2>1. Sees(p, StateOf(p)', finish', handed', Prefilling' \cup InLanes', InHand')
    BY StateSeenNext
  <2>2. Sees(p, StateOf(p), finish, handed, Prefilling \cup InLanes, InHand)
    BY StateSeen
  <2> QED
    BY <1>1, <1>2, <1>3, <2>1, <2>2 DEF Sees
<1> QED
  BY <1>4, <1>6, <1>7

LEMMA HeadInvStep ==
    ASSUME IInv, IInv', HeadInv, [Next]_vars
    PROVE  HeadInv'
<1>1. CASE Client
  BY <1>1, SubmitServes, LeaveServes DEF Client
<1>2. CASE ~Client
  <2>1. HeadMoves
    BY <1>2, StepsServe
  <2>2. Owed'
    BY <2>1, Served DEF HeadMoves, HeadInv, IInv, ClientTypes
  <2> QED
    BY <2>1, <2>2 DEF HeadMoves, HeadInv
<1> QED
  BY <1>1, <1>2

LEMMA HeadInvInit ==
    ASSUME Init
    PROVE  HeadInv /\ \A r \in Reqs : StateOf(r) = "new"
<1>1. /\ handed = {} /\ gone = {} /\ finish = [r \in Reqs |-> "none"] /\ rx = <<>> /\ waiting = <<>>
      /\ lanes[0] = [s \in Slots |-> FreeLane] /\ todo[0] = <<>> /\ job[0] = NoJob
  BY RankSets DEF Init
<1>2. BusyOf(lanes[0]) = {} /\ waiting \o rx = <<>>
  BY <1>1 DEF BusyOf
<1>3. Queued = {} /\ Admitting = {} /\ Prefilling = {} /\ InLanes = {}
  BY <1>1, <1>2 DEF Queued, Admitting, Prefilling, InLanes, AdmitReqs, AdmitsOf, TableReqs, ToSet, NoJob
<1>4. Singles(waiting \o rx) /\ SingleAdmits(todo[0]) /\ SingleLanes(lanes[0])
  BY <1>1, <1>2 DEF Singles, SingleAdmits, AdmitsOf, SingleLanes
<1>5. InHand = {}
  BY <1>3 DEF InHand
<1>6. HeadInv
  BY <1>1, <1>3, <1>4, <1>5 DEF HeadInv, Apart, Owed, CancelsOk, JobFits
<1>7. \A r \in Reqs : StateOf(r) = "new"
  BY <1>1 DEF StateOf
<1> QED
  BY <1>6, <1>7

LEMMA HeadHoldsOnce == Spec => [](IInv /\ HeadInv)
<1>1. Init => HeadInv
  BY HeadInvInit
<1>2. IInv /\ IInv' /\ HeadInv /\ [Next]_vars => HeadInv'
  BY HeadInvStep
<1> QED
  BY <1>1, <1>2, Inductive, PTL DEF Spec
-----------------------------------------------------------------------------
(* The refinement *)

LanesEnough == Cardinality({r \in Reqs : StateOf(r) = "running"}) <= Cardinality(Slots)

\* Two running requests are in two slots.
LEMMA OneLaneEach ==
    ASSUME IInv, HeadInv
    PROVE  LanesEnough
<1> DEFINE Runners == {r \in Reqs : StateOf(r) = "running"}
           Has(r, s) == (s \in BusyOf(lanes[0]) /\ lanes[0][s].req = r) \/ (job[0].req = r /\ job[0].slot = s)
           f == [r \in Runners |-> CHOOSE s \in Slots : Has(r, s)]
<1>0. /\ NoReq \notin Reqs /\ IsFiniteSet(Slots) /\ BusyOf(lanes[0]) \subseteq Slots
      /\ job[0] = NoJob \/ (job[0].req \in Reqs /\ job[0].slot \in IdleOf(lanes[0]))
      /\ SingleLanes(lanes[0]) /\ Prefilling \cap InLanes = {}
  BY TpAssumption, SlotSets DEF HeadInv, Apart, JobFits, BusyOf
<1>1. ASSUME NEW r \in Runners PROVE r \in Reqs /\ \E s \in Slots : Has(r, s)
  <2>1. r \in Reqs /\ r \in Prefilling \cup InLanes
    <3>1. Sees(r, StateOf(r), finish, handed, Prefilling \cup InLanes, InHand)
      BY StateSeen
    <3> QED
      BY <3>1 DEF Sees
  <2>2. CASE r \in Prefilling
    <3>1. job[0].req = r /\ job[0].slot \in Slots
      BY <1>0, <2>1, <2>2 DEF Prefilling, NoJob, IdleOf
    <3> QED
      BY <2>1, <3>1
  <2>3. CASE r \in InLanes
    BY <1>0, <2>1, <2>3 DEF InLanes, TableReqs
  <2> QED
    BY <2>1, <2>2, <2>3
<1>2. \A r \in Runners : f[r] \in Slots /\ Has(r, f[r])
  <2> HIDE DEF Runners, Has
  <2> QED
    BY <1>1
<1>3. ASSUME NEW r \in Runners, NEW p \in Runners, f[r] = f[p] PROVE r = p
  <2> DEFINE s == f[r]
  <2>1. s \in Slots /\ Has(r, s) /\ Has(p, s) /\ r \in Reqs /\ p \in Reqs
    BY <1>1, <1>2, <1>3
  <2> HIDE DEF s
  <2>2. s \in BusyOf(lanes[0]) => ~(job[0].req \in Reqs /\ job[0].slot = s)
    BY <1>0 DEF NoJob, IdleOf
  <2> QED
    BY <2>1, <2>2
<1>4. f \in Injection(Runners, Slots)
  <2>1. f \in [Runners -> Slots]
    BY <1>2
  <2>2. IsInjective(f)
    BY <1>3 DEF IsInjective
  <2> QED
    BY <2>1, <2>2 DEF Injection
<1> HIDE DEF f
<1>5. Cardinality(Runners) <= Cardinality(Slots)
  BY <1>0, <1>4, FS_Injection
<1> QED
  BY <1>5 DEF LanesEnough

\* Every step is one of the service's, or none of its business.
LEMMA StepImplements ==
    IInv /\ HeadInv /\ LanesEnough' /\ [Next]_vars => [Service!Next]_(Service!vars)
<1> SUFFICES ASSUME IInv, HeadInv, LanesEnough', [Next]_vars
             PROVE  [Service!Next]_(Service!vars)
  OBVIOUS
<1>4. ASSUME HeadMoves PROVE \A r \in Reqs : Service!Moves(r, StateOf(r), StateOf(r)')
  <2>1. IInv'
    BY StepInv
  <2>2. /\ finish \in [Reqs -> {"none", "done", "error"}] /\ handed \subseteq Reqs
        /\ finish' \in [Reqs -> {"none", "done", "error"}]
    BY <2>1 DEF IInv, ClientTypes
  <2>3. Owed /\ Handles
    BY <1>4 DEF HeadMoves, HeadInv
  <2> QED
    BY <2>2, <2>3, Served
<1> DEFINE state == [r \in Reqs |-> StateOf(r)]
<1>1. ASSUME NEW r \in Reqs, Submit(r) PROVE Service!Submit(r)
  <2>1. /\ StateOf(r) = "new" /\ StateOf(r)' = "queued"
        /\ \A p \in Reqs \ {r} : StateOf(p)' = StateOf(p)
    BY <1>1, SubmitServes
  <2>2. state' = [state EXCEPT ![r] = "queued"] /\ state[r] = "new"
    BY <2>1
  <2>3. UNCHANGED <<gone, 0 \in Stopped>>
    BY <1>1 DEF Submit, Stopped
  <2> QED
    BY <2>2, <2>3 DEF Service!Submit
<1>2. ASSUME NEW r \in Reqs, Leave(r) PROVE Service!Leave(r)
  <2>1. StateOf(r) \in {"queued", "running"} /\ \A p \in Reqs : StateOf(p)' = StateOf(p)
    BY <1>2, LeaveServes
  <2>2. state' = state /\ state[r] \in {"queued", "running"}
    BY <2>1
  <2>3. gone' = gone \cup {r} /\ UNCHANGED (0 \in Stopped)
    BY <1>2 DEF Leave, Stopped
  <2> QED
    BY <2>2, <2>3 DEF Service!Leave, Service!Held
<1>3. CASE ~Client
  <2>1. HeadMoves
    BY <1>3, StepsServe
  <2>2. \A r \in Reqs : Service!Moves(r, StateOf(r), StateOf(r)')
    BY <1>4, <2>1
  <2>3. gone' = gone /\ (0 \in Stopped)' \in {0 \in Stopped, TRUE}
    <3>1. gone' = gone /\ (0 \in Stopped => 0 \in Stopped')
      BY <2>1, Zenon DEF HeadMoves, Handles
    <3>2. CASE 0 \in Stopped'
      <4>1. (0 \in Stopped)' = TRUE
        BY <3>2
      <4> QED
        BY <3>1, <4>1, Zenon
    <3>3. CASE 0 \notin Stopped'
      <4>1. (0 \in Stopped)' = (0 \in Stopped)
        BY <3>1, <3>3
      <4> QED
        BY <3>1, <4>1, Zenon
    <3> QED
      BY <3>2, <3>3, Zenon
  <2>4. state' \in [Reqs -> Service!States]
    BY DEF StateOf, Service!States, Service!Held
  <2>5. \A r \in Reqs : Service!Moves(r, state[r], state'[r])
    <3> TAKE r \in Reqs
    <3>1. Service!Moves(r, StateOf(r), StateOf(r)')
      BY <2>2
    <3> QED
      BY <3>1
  <2>6. Cardinality({r \in Reqs : state'[r] = "running"}) <= Cardinality(Slots)
    <3>1. {r \in Reqs : state'[r] = "running"} = {r \in Reqs : StateOf(r)' = "running"}
      OBVIOUS
    <3> QED
      BY <3>1 DEF LanesEnough
  <2>7. Service!Cardinality({r \in Reqs : state'[r] = "running"})
        = Cardinality({r \in Reqs : state'[r] = "running"})
    BY Zenon DEF Service!Cardinality, Cardinality
  <2>8. Service!Cardinality({r \in Reqs : state'[r] = "running"}) <= Cardinality(Slots)
    BY <2>6, <2>7, Zenon
  <2>9. Service!Serve
    BY <2>3, <2>4, <2>5, <2>8, Zenon DEF Service!Serve
  <2> QED
    BY <2>9 DEF Service!Next
<1> QED
  BY <1>1, <1>2, <1>3 DEF Client, Service!Next

\* The tensor-parallel head is a service as LaneService describes it: each request runs in
\* one of its lanes, is answered once or dropped because its client left, and nothing
\* completes once the head stopped, although what a step admits and cancels was decided
\* before it is applied, and a failure in between leaves admits that nobody applies.
THEOREM ServiceImplemented == Spec => ImplementsService
<1>1. Init => Service!Init
  <2> SUFFICES ASSUME Init PROVE Service!Init
    OBVIOUS
  <2>1. \A r \in Reqs : StateOf(r) = "new"
    BY HeadInvInit
  <2>2. gone = {} /\ 0 \notin Stopped
    BY StoppedIs, RankSets DEF Init
  <2> QED
    BY <2>1, <2>2 DEF Service!Init
<1>2. IInv /\ HeadInv => LanesEnough
  BY OneLaneEach
<1> QED
  BY <1>1, <1>2, HeadHoldsOnce, StepImplements, PTL DEF Spec, ImplementsService, Service!Spec
=============================================================================
