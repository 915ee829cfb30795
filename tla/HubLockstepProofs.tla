------------------------- MODULE HubLockstepProofs -------------------------
(***************************************************************************)
(* The exchanges of a lockstep point, for any number of ranks, any frame   *)
(* sizes and whatever fails: no frame lands on one that is still to be     *)
(* read, and a rank leaves a point only with the words that all ranks      *)
(* brought to it.                                                          *)
(*                                                                         *)
(* The exchanges of a rank with a peer are numbered from 1.  A rank reads  *)
(* frame g only after it posted its own frame g, so of a pair neither can  *)
(* be far ahead; the one exception is the head, which goes on after an     *)
(* exchange it gave up, but only to the end of the point.  So at most      *)
(* three frames lie between the two ends of a link, and a ring of three    *)
(* slots (TP_CTRL_RING is 4) keeps them apart.                             *)
(***************************************************************************)
EXTENDS HubLockstep, SequenceTheorems, FiniteSetTheorems, TLAPS

-----------------------------------------------------------------------------
(* The numbers of the exchanges *)

\* Exchanges of k with p: passed at this point, passed in all, and posted.
Passed(k, p) ==
    IF ~In(k) THEN 0
    ELSE IF k # 0 THEN leg[k]
    ELSE IF leg[0] >= World - 1 + p THEN 2 ELSE IF leg[0] >= p THEN 1 ELSE 0
Done(k, p) == 2 * Len(met[k]) + Passed(k, p)
Pending(k) == posted[k] \/ (k # 0 /\ lost[k])
Out(k, p) == Done(k, p) + (IF Pending(k) /\ Peer(k) = p THEN 1 ELSE 0)

\* Frames that k has certainly read: all but those the head gave up on at this point.
Base(k, p) == IF k = 0 /\ lost[0] THEN 2 * Len(met[0]) ELSE Done(k, p)

\* The words of a point, as far as they are known.
Vectors == [Ranks -> Words \cup {Zero}]
Whole(body, n) ==
    /\ body \in Vectors
    /\ \A r \in Ranks : body[r] = Zero \/ (Len(said[r]) >= n /\ body[r] = said[r][n])

\* What frame g from p says: a node's first frame of a point its words, the head's second
\* all words.
Says(p, g, body) ==
    \A m \in Nat :
        /\ p # 0 /\ g = 2 * m + 1 => Len(said[p]) > m /\ body = said[p][m + 1]
        /\ p = 0 /\ g = 2 * m + 2 => Whole(body, m + 1)

\* A slot that holds frame g.
Holding(g, size, body) ==
    [tails |-> [o \in Sizes |-> IF o = size THEN g ELSE IF o < size THEN g + Ring ELSE 0],
     body |-> body]

-----------------------------------------------------------------------------
(* The inductive invariant *)

Bodies == Words \cup {Zero} \cup Vectors
Types ==
    /\ said \in [Ranks -> Seq(Words)] /\ met \in [Ranks -> Seq(Vectors)]
    /\ at \in [Ranks -> 1..(Len(Program) + 1)]
    /\ leg \in [Ranks -> Nat] /\ posted \in [Ranks -> BOOLEAN]
    /\ heard \in [Ranks -> Vectors] /\ lost \in [Ranks -> BOOLEAN]
    /\ ring \in [Links -> [0..(Ring - 1) -> [tails : [Sizes -> Nat], body : Bodies]]]
    /\ aborted \in [Ranks -> BOOLEAN]
    /\ mode \in [Ranks -> {"up", "hung", "failed", "dead"}]

\* A rank is between two points, or at an exchange of one.
Course ==
    \A k \in Ranks :
        /\ Len(said[k]) = Len(met[k]) \/ Len(said[k]) = Len(met[k]) + 1
        /\ Len(said[k]) < at[k]
        /\ leg[k] <= Legs(k)
        /\ Pending(k) => In(k) /\ leg[k] < Legs(k)
        /\ k # 0 /\ lost[k] => mode[k] \in {"failed", "dead"}

\* Neither end of a link has read what the other has not posted.
Pace == \A k, p \in Ranks : <<k, p>> \in Links => Base(k, p) <= Out(p, k)

\* A slot is all zero or holds a frame that was posted and not read.
Held(k, p, i) ==
    \E g \in (Base(k, p) + 1)..Out(p, k), size \in Sizes, body \in Bodies :
        /\ SlotOf(g) = i /\ ring[<<k, p>>][i] = Holding(g, size, body)
        /\ Says(p, g, body)
SlotsFine ==
    \A k, p \in Ranks : <<k, p>> \in Links =>
        \A i \in 0..(Ring - 1) : ring[<<k, p>>][i] = Empty \/ Held(k, p, i)

HeardFine == \A k \in Ranks : In(k) => Whole(heard[k], Len(said[k]))

HubInv == Types /\ Course /\ Pace /\ SlotsFine /\ HeardFine
-----------------------------------------------------------------------------
(* Whose turn it is *)

LEMMA RankFacts ==
    /\ 0 \in Ranks /\ World \in Nat /\ World > 2
    /\ \A k \in Ranks : k \in Nat /\ (k # 0 <=> k \in Nodes)
    /\ \A n \in Nodes : n \in Ranks /\ n # 0 /\ n \in 1..(World - 1)
    /\ \A k, p \in Ranks : <<k, p>> \in Links <=> (k = 0 /\ p # 0) \/ (k # 0 /\ p = 0)
<1>1. /\ 0 \in Ranks /\ World \in Nat /\ World > 2
      /\ \A k \in Ranks : k \in Nat /\ (k # 0 <=> k \in Nodes)
      /\ \A n \in Nodes : n \in Ranks /\ n # 0 /\ n \in 1..(World - 1)
  BY HubAssumption DEF Ranks, Nodes
<1> QED
  BY <1>1 DEF Links

\* The head's exchange number l of a point: all nodes in turn, then all nodes again.
LEMMA HeadTurn ==
    ASSUME NEW l \in Nat, l < 2 * (World - 1)
    PROVE  /\ (l % (World - 1)) + 1 \in Nodes
           /\ \/ l \div (World - 1) = 0 /\ l % (World - 1) = l
              \/ l \div (World - 1) = 1 /\ l % (World - 1) = l - (World - 1)
<1> DEFINE d == World - 1
           q == l \div d
           r == l % d
<1>1. d \in Nat /\ d > 1 /\ l < d + d
  BY RankFacts
<1> HIDE DEF d
<1>2. q \in Int /\ r \in 0..(d - 1) /\ l = d * q + r
  BY <1>1
<1> HIDE DEF q, r
<1>3. q = 0 \/ q = 1
  <2>1. CASE q < 0
    <3>1. d * q <= -d
      BY <1>1, <1>2, <2>1
    <3> QED
      BY <1>1, <1>2, <3>1
  <2>2. CASE q > 1
    <3>1. d * q >= d + d
      BY <1>1, <1>2, <2>2
    <3> QED
      BY <1>1, <1>2, <3>1
  <2> QED
    BY <1>2, <2>1, <2>2
<1>4. (q = 0 /\ r = l) \/ (q = 1 /\ r = l - d)
  BY <1>1, <1>2, <1>3
<1>5. r + 1 \in Nodes
  BY <1>1, <1>2 DEF Nodes, d
<1> QED
  BY <1>4, <1>5 DEF q, r, d

\* Numbers less than a ring apart do not share a slot.
LEMMA SlotsApart ==
    ASSUME NEW a \in Nat, NEW b \in Nat, a < b, b < a + Ring
    PROVE  SlotOf(a) # SlotOf(b) /\ SlotOf(a) \in 0..(Ring - 1)
<1>1. Ring \in Nat /\ Ring > 2
  BY HubAssumption
<1> DEFINE qa == a \div Ring
           qb == b \div Ring
           ra == a % Ring
           rb == b % Ring
<1>2. /\ qa \in Int /\ ra \in 0..(Ring - 1) /\ a = Ring * qa + ra
      /\ qb \in Int /\ rb \in 0..(Ring - 1) /\ b = Ring * qb + rb
  BY <1>1
<1> HIDE DEF qa, qb, ra, rb
<1>3. ra # rb
  <2> SUFFICES ASSUME ra = rb PROVE FALSE
    OBVIOUS
  <2> DEFINE d == qb - qa
  <2>1. d \in Int /\ b - a = Ring * d
    BY <1>1, <1>2
  <2> HIDE DEF d
  <2>2. CASE d <= 0
    <3>1. Ring * d <= 0
      BY <1>1, <2>1, <2>2
    <3> QED
      BY <2>1, <3>1
  <2>3. CASE d >= 1
    <3>1. Ring * d >= Ring
      BY <1>1, <2>1, <2>3
    <3> QED
      BY <1>1, <2>1, <3>1
  <2> QED
    BY <2>1, <2>2, <2>3
<1> QED
  BY <1>2, <1>3 DEF SlotOf, ra, rb
-----------------------------------------------------------------------------
(* Counting *)

LEMMA PassedIs ==
    ASSUME Types, Course, NEW k \in Ranks, NEW p \in Ranks, <<k, p>> \in Links
    PROVE  /\ Len(met[k]) \in Nat /\ Len(said[k]) \in Nat /\ leg[k] \in Nat
           /\ Passed(k, p) \in 0..2
           /\ ~In(k) => Passed(k, p) = 0
           /\ In(k) /\ leg[k] = 0 => Passed(k, p) = 0
           /\ In(k) /\ leg[k] = Legs(k) => Passed(k, p) = 2
           /\ In(k) => Len(said[k]) = Len(met[k]) + 1
<1>1. Len(met[k]) \in Nat /\ Len(said[k]) \in Nat /\ leg[k] \in Nat
  BY DEF Types
<1>2. In(k) => Len(said[k]) = Len(met[k]) + 1
  BY <1>1 DEF In, Course
<1>3. k = 0 => p \in 1..(World - 1) /\ World - 1 \in Nat
  BY RankFacts
<1>4. leg[k] <= Legs(k)
  BY DEF Course
<1>5. CASE k = 0
  BY <1>1, <1>2, <1>3, <1>4, <1>5 DEF Passed, Legs
<1>6. CASE k # 0
  BY <1>1, <1>2, <1>4, <1>6 DEF Passed, Legs
<1> QED
  BY <1>5, <1>6

\* A rank with an exchange to do.
LEMMA Turn ==
    ASSUME Types, Course, NEW k \in Ranks, In(k), leg[k] < Legs(k)
    PROVE  /\ Peer(k) \in Ranks /\ <<k, Peer(k)>> \in Links /\ <<Peer(k), k>> \in Links
           /\ Round(k) \in 1..2 /\ Passed(k, Peer(k)) = Round(k) - 1
           /\ Gen(k) = Done(k, Peer(k)) + 1 /\ Gen(k) \in Nat /\ Gen(k) > 0
           /\ Gen(k) <= 2 * Len(met[k]) + 2 /\ Gen(k) > 2 * Len(met[k])
           /\ k = 0 => (Round(0) = 1 /\ leg[0] = Peer(0) - 1)
                    \/ (Round(0) = 2 /\ leg[0] = World - 1 + Peer(0) - 1)
<1>1. leg[k] \in Nat /\ Len(met[k]) \in Nat /\ Len(said[k]) \in Nat
  BY DEF Types
<1>2. World - 1 \in Nat /\ 0 \in Ranks
  BY RankFacts
<1>3. CASE k = 0
  <2> DEFINE w == World - 1
             l == leg[0]
  <2>1. l \in Nat /\ l < 2 * w
    BY <1>1, <1>3 DEF Legs
  <2>2. /\ (l % w) + 1 \in Nodes
        /\ (l \div w = 0 /\ l % w = l) \/ (l \div w = 1 /\ l % w = l - w)
    BY <2>1, HeadTurn
  <2>3. Peer(0) = (l % w) + 1 /\ Round(0) = (l \div w) + 1
    BY DEF Peer, Round
  <2> HIDE DEF w, l
  <2>4. Peer(0) \in Nodes /\ ((Round(0) = 1 /\ l = Peer(0) - 1) \/ (Round(0) = 2 /\ l = w + Peer(0) - 1))
    <3>1. w \in Nat /\ l \in Nat
      BY <1>2, <2>1 DEF w
    <3> QED
      BY <2>2, <2>3, <3>1
  <2>5. Peer(0) \in Ranks /\ Peer(0) # 0 /\ Peer(0) \in 1..(World - 1)
    BY <2>4, RankFacts
  <2>6. <<0, Peer(0)>> \in Links /\ <<Peer(0), 0>> \in Links
    BY <1>2, <2>5, RankFacts
  <2>7. Passed(0, Peer(0)) = Round(0) - 1
    <3>1. Peer(0) \in Nat /\ w \in Nat /\ Peer(0) <= w /\ Peer(0) >= 1
      BY <1>2, <2>5 DEF w
    <3> QED
      BY <1>3, <2>4, <3>1 DEF Passed, w, l
  <2> QED
    <3>1. Len(said[0]) = Len(met[0]) + 1
      BY <1>2, <1>3, <2>5, <2>6, PassedIs
    <3>2. Round(0) \in 1..2 /\ Round(0) \in Nat
      BY <2>4
    <3>3. Gen(0) = 2 * Len(met[0]) + Round(0) /\ Done(0, Peer(0)) = 2 * Len(met[0]) + Round(0) - 1
      BY <1>1, <1>3, <2>7, <3>1, <3>2 DEF Gen, Done
    <3> HIDE DEF w, l
    <3>4. Gen(0) \in Nat /\ Gen(0) > 0 /\ Gen(0) <= 2 * Len(met[0]) + 2 /\ Gen(0) > 2 * Len(met[0])
          /\ Gen(0) = Done(0, Peer(0)) + 1
      BY <1>1, <1>3, <3>2, <3>3
    <3> QED
      BY <1>3, <2>4, <2>5, <2>6, <2>7, <3>2, <3>4 DEF w, l
<1>4. CASE k # 0
  <2>1. Peer(k) = 0 /\ Round(k) = leg[k] + 1 /\ leg[k] < 2
    BY <1>4 DEF Peer, Round, Legs
  <2>2. <<k, 0>> \in Links /\ <<0, k>> \in Links
    BY <1>2, <1>4, RankFacts
  <2>3. Passed(k, 0) = leg[k]
    BY <1>4 DEF Passed
  <2>4. Len(said[k]) = Len(met[k]) + 1
    BY <1>2, <2>2, PassedIs
  <2>5. Gen(k) = 2 * Len(met[k]) + Round(k) /\ Done(k, 0) = 2 * Len(met[k]) + leg[k]
    <3>1. Gen(k) = 2 * (Len(said[k]) - 1) + Round(k) /\ Done(k, 0) = 2 * Len(met[k]) + Passed(k, 0)
      BY DEF Gen, Done
    <3> QED
      BY <1>1, <2>3, <2>4, <3>1
  <2>6. Round(k) \in 1..2 /\ Passed(k, 0) = Round(k) - 1
    BY <1>1, <2>1, <2>3
  <2>7. /\ Gen(k) = Done(k, 0) + 1 /\ Gen(k) \in Nat /\ Gen(k) > 0
        /\ Gen(k) <= 2 * Len(met[k]) + 2 /\ Gen(k) > 2 * Len(met[k])
    <3> DEFINE n == 2 * Len(met[k])
               l == leg[k]
               g == Gen(k)
               d == Done(k, 0)
    <3>1. n \in Nat /\ l \in Nat /\ l < 2
      BY <1>1, <2>1
    <3>2. g = n + (l + 1) /\ d = n + l
      BY <2>1, <2>5
    <3> HIDE DEF n, l, g, d
    <3>3. g = d + 1 /\ g \in Nat /\ g > 0 /\ g <= n + 2 /\ g > n
      BY <3>1, <3>2
    <3> QED
      BY <3>3 DEF n, g, d
  <2>8. Peer(k) \in Ranks /\ <<k, Peer(k)>> \in Links /\ <<Peer(k), k>> \in Links
    BY <1>2, <2>1, <2>2
  <2>9. Passed(k, Peer(k)) = Round(k) - 1 /\ Gen(k) = Done(k, Peer(k)) + 1
    BY <2>1, <2>6, <2>7
  <2> QED
    BY <1>4, <2>6, <2>7, <2>8, <2>9
<1> QED
  BY <1>3, <1>4

LEMMA Counting ==
    ASSUME Types, Course, NEW k \in Ranks, NEW p \in Ranks, <<k, p>> \in Links
    PROVE  /\ Done(k, p) \in Nat /\ Out(k, p) \in Nat /\ Base(k, p) \in Nat
           /\ Done(k, p) <= Out(k, p) /\ Out(k, p) <= Done(k, p) + 1
           /\ Base(k, p) <= Done(k, p)
           /\ Done(k, p) <= 2 * Len(met[k]) + 2 /\ Out(k, p) <= 2 * Len(met[k]) + 2
           /\ Base(k, p) = Done(k, p) \/ (k = 0 /\ lost[0] /\ Base(k, p) = 2 * Len(met[k]))
<1>1. Len(met[k]) \in Nat /\ Passed(k, p) \in 0..2
  BY PassedIs
<1>2. /\ Done(k, p) = 2 * Len(met[k]) + Passed(k, p)
      /\ Out(k, p) = Done(k, p) + (IF Pending(k) /\ Peer(k) = p THEN 1 ELSE 0)
      /\ Base(k, p) = IF k = 0 /\ lost[0] THEN 2 * Len(met[k]) ELSE Done(k, p)
  BY DEF Done, Out, Base
<1>3. Pending(k) /\ Peer(k) = p => Done(k, p) + 1 <= 2 * Len(met[k]) + 2
  BY Turn DEF Course
<1>4. /\ Done(k, p) \in Nat /\ 2 * Len(met[k]) <= Done(k, p) /\ Done(k, p) <= 2 * Len(met[k]) + 2
      /\ 2 * Len(met[k]) \in Nat
  BY <1>1, <1>2
<1>5. CASE Pending(k) /\ Peer(k) = p
  <2>1. Out(k, p) = Done(k, p) + 1
    BY <1>2, <1>5
  <2> QED
    BY <1>2, <1>3, <1>4, <1>5, <2>1
<1>6. CASE ~(Pending(k) /\ Peer(k) = p)
  <2>1. Out(k, p) = Done(k, p)
    BY <1>2, <1>4, <1>6
  <2> QED
    BY <1>2, <1>4, <2>1
<1> QED
  BY <1>5, <1>6

\* No end of a link is more than three frames ahead of what the other has read.
LEMMA Near ==
    ASSUME Types, Course, Pace, NEW k \in Ranks, NEW p \in Ranks, <<k, p>> \in Links
    PROVE  /\ Out(p, k) <= Base(k, p) + 3
           /\ Done(p, k) + 1 <= 2 * Len(met[p]) + 2 => Done(p, k) + 1 <= Base(k, p) + 3
<1>1. <<p, k>> \in Links
  BY RankFacts
<1> DEFINE a == Base(k, p)
           b == Base(p, k)
<1>2. /\ Done(k, p) \in Nat /\ Out(k, p) \in Nat /\ a \in Nat
      /\ Out(k, p) <= Done(k, p) + 1 /\ a <= Done(k, p)
      /\ a = Done(k, p) \/ (k = 0 /\ lost[0] /\ a = 2 * Len(met[k]))
      /\ Done(k, p) <= 2 * Len(met[k]) + 2
  BY Counting
<1>3. /\ Done(p, k) \in Nat /\ Out(p, k) \in Nat /\ b \in Nat
      /\ Out(p, k) <= Done(p, k) + 1 /\ b <= Done(p, k)
      /\ b = Done(p, k) \/ (p = 0 /\ lost[0] /\ b = 2 * Len(met[p]))
      /\ Done(p, k) <= 2 * Len(met[p]) + 2
  BY <1>1, Counting
<1>4. Base(p, k) <= Out(k, p) /\ Base(k, p) <= Out(p, k)
  BY <1>1 DEF Pace
<1>5. Len(met[k]) \in Nat /\ Len(met[p]) \in Nat /\ (k = 0 <=> p # 0)
  BY RankFacts DEF Types
<1>6. Out(k, p) <= 2 * Len(met[k]) + 2 /\ Out(p, k) <= 2 * Len(met[p]) + 2
  BY <1>1, Counting
<1> DEFINE dk == Done(k, p)
           ok == Out(k, p)
           dp == Done(p, k)
           op == Out(p, k)
           mk == Len(met[k])
           mp == Len(met[p])
<1>7. /\ dk \in Nat /\ ok \in Nat /\ dp \in Nat /\ op \in Nat /\ a \in Nat /\ b \in Nat
      /\ mk \in Nat /\ mp \in Nat
  BY <1>2, <1>3, <1>5
<1>8. /\ ok <= dk + 1 /\ a <= dk /\ dk <= 2 * mk + 2 /\ ok <= 2 * mk + 2 /\ (a = dk \/ a = 2 * mk)
      /\ op <= dp + 1 /\ b <= dp /\ dp <= 2 * mp + 2 /\ op <= 2 * mp + 2 /\ (b = dp \/ b = 2 * mp)
      /\ (a = dk \/ b = dp) /\ b <= ok /\ a <= op
  BY <1>2, <1>3, <1>4, <1>5, <1>6
<1> HIDE DEF a, b, dk, ok, dp, op, mk, mp
<1>9. op <= a + 3 /\ (dp + 1 <= 2 * mp + 2 => dp + 1 <= a + 3)
  BY <1>7, <1>8
<1> QED
  BY <1>9 DEF a, dp, op, mp
-----------------------------------------------------------------------------
(* What lies in the slots *)

LEMMA SlotIndex ==
    ASSUME NEW g \in Nat
    PROVE  SlotOf(g) \in 0..(Ring - 1)
<1>1. g < g + 1 /\ g + 1 \in Nat /\ g + 1 < g + Ring /\ Ring \in Nat
  BY HubAssumption
<1> QED
  BY <1>1, SlotsApart

\* A rank about to post finds its slot empty.
LEMMA SlotFree ==
    ASSUME HubInv, NEW k \in Ranks, Exchanging(k), ~posted[k]
    PROVE  /\ Gen(k) = Out(k, Peer(k)) + 1 /\ Gen(k) <= Base(Peer(k), k) + 3
           /\ ring[<<Peer(k), k>>][SlotOf(Gen(k))] = Empty
<1> DEFINE p == Peer(k)
           g == Gen(k)
<1>1. /\ p \in Ranks /\ <<k, p>> \in Links /\ <<p, k>> \in Links /\ g \in Nat
      /\ g = Done(k, p) + 1 /\ g <= 2 * Len(met[k]) + 2
  BY Turn DEF HubInv, Exchanging
<1>2. ~Pending(k)
  BY DEF Pending, HubInv, Course, Exchanging
<1>3. g = Out(k, p) + 1
  BY <1>1, <1>2, Counting DEF Out, HubInv
<1>4. g <= Base(p, k) + 3 /\ Base(p, k) \in Nat
  BY <1>1, Near, Counting DEF HubInv
<1> HIDE DEF p, g
<1>5. ASSUME Held(p, k, SlotOf(g)) PROVE FALSE
  <2>1. PICK h \in (Base(p, k) + 1)..Out(k, p) : SlotOf(h) = SlotOf(g)
    BY <1>5 DEF Held
  <2>2. Ring > 2 /\ Ring \in Nat /\ Out(k, p) \in Nat
    BY <1>1, HubAssumption, Counting DEF HubInv
  <2>3. h \in Nat /\ h < g /\ g < h + Ring
    BY <1>1, <1>3, <1>4, <2>2
  <2> QED
    BY <1>1, <2>1, <2>3, SlotsApart
<1>6. SlotOf(g) \in 0..(Ring - 1)
  BY <1>1, SlotIndex
<1>7. ring[<<p, k>>][SlotOf(g)] = Empty
  BY <1>1, <1>5, <1>6 DEF HubInv, SlotsFine
<1> QED
  BY <1>3, <1>4, <1>7 DEF p, g

LEMMA SizeType ==
    ASSUME Types, NEW k \in Ranks, In(k), Course
    PROVE  Said(k) \in Words /\ Size(k) \in Sizes
<1>1. Len(said[k]) \in 1..Len(said[k]) /\ said[k] \in Seq(Words)
  <2>1. said[k] \in Seq(Words) /\ Len(met[k]) \in Nat
    BY DEF Types
  <2> QED
    BY <2>1 DEF In
<1>2. Said(k) \in Words
  BY <1>1 DEF Said
<1>3. Said(k).kind \in {"go", "spill"}
  BY <1>2 DEF Words
<1>4. Wire[Said(k).kind] \in Nat
  BY <1>3, HubAssumption
<1>5. 1 * Wire[Said(k).kind] = Wire[Said(k).kind]
  BY <1>4
<1>6. Size(k) = Wire[Said(k).kind] \/ Size(k) = World * Wire[Said(k).kind]
  BY <1>5 DEF Size
<1> QED
  BY <1>2, <1>3, <1>6 DEF Sizes

LEMMA SizesNat == Sizes \subseteq Nat /\ World * 1 \in Nat
<1>1. \A c \in {"go", "spill"} : Wire[c] \in Nat /\ World * Wire[c] \in Nat
  BY HubAssumption
<1> QED
  BY <1>1, HubAssumption DEF Sizes

\* A rank takes the frame it waits for, and leaves the slot empty.
LEMMA TakesFrame ==
    ASSUME HubInv, NEW k \in Ranks, Exchanging(k), posted[k],
           ring[<<k, Peer(k)>>][SlotOf(Gen(k))].tails[Size(k)] = Gen(k)
    PROVE  LET frame == ring[<<k, Peer(k)>>][SlotOf(Gen(k))]
           IN  /\ Gen(k) \in (Base(k, Peer(k)) + 1)..Out(Peer(k), k)
               /\ Says(Peer(k), Gen(k), frame.body) /\ frame.body \in Bodies
               /\ Retired(frame, Size(k)) = Empty
<1> DEFINE p == Peer(k)
           g == Gen(k)
           size == Size(k)
           frame == ring[<<k, p>>][SlotOf(g)]
<1>1. /\ p \in Ranks /\ <<k, p>> \in Links /\ <<p, k>> \in Links /\ g \in Nat /\ g > 0
      /\ g = Done(k, p) + 1 /\ g <= 2 * Len(met[k]) + 2
  BY Turn DEF HubInv, Exchanging
<1>2. size \in Sizes /\ Sizes \subseteq Nat
  BY SizeType, SizesNat DEF HubInv, Exchanging
<1>3. frame.tails[size] = g
  OBVIOUS
<1> HIDE DEF p, g, size
<1>4. frame # Empty
  <2>1. Empty.tails[size] = 0
    BY <1>2 DEF Empty
  <2> QED
    BY <1>1, <1>3, <2>1
<1>5. SlotOf(g) \in 0..(Ring - 1)
  BY <1>1, SlotIndex
<1>6. Held(k, p, SlotOf(g))
  BY <1>1, <1>4, <1>5 DEF HubInv, SlotsFine
<1>7. PICK h \in (Base(k, p) + 1)..Out(p, k), width \in Sizes, body \in Bodies :
        frame = Holding(h, width, body) /\ Says(p, h, body)
  BY <1>6 DEF Held
<1>8. frame.body = body /\ frame.tails = [o \in Sizes |-> IF o = width THEN h
                                                         ELSE IF o < width THEN h + Ring ELSE 0]
  BY <1>7 DEF Holding
<1>9. g = IF size = width THEN h ELSE IF size < width THEN h + Ring ELSE 0
  BY <1>2, <1>3, <1>8
<1>10. g = h /\ size = width
  <2>1. /\ Base(k, p) \in Nat /\ Ring \in Nat /\ Ring > 2 /\ Len(met[k]) \in Nat
        /\ Base(k, p) = g - 1 \/ Base(k, p) = 2 * Len(met[k])
    <3>1. Len(met[k]) \in Nat /\ Types /\ Course
      BY DEF HubInv, Types
    <3>2. /\ Base(k, p) \in Nat /\ Done(k, p) \in Nat
          /\ Base(k, p) = Done(k, p) \/ Base(k, p) = 2 * Len(met[k])
      BY <1>1, <3>1, Counting
    <3>3. Done(k, p) = g - 1
      BY <1>1, <3>2
    <3>4. Ring \in Nat /\ Ring > 2
      BY HubAssumption
    <3> QED
      BY <3>1, <3>2, <3>3, <3>4
  <2>2. h > Base(k, p) /\ h \in Nat /\ Base(k, p) + Ring >= g
    BY <1>1, <2>1
  <2> QED
    BY <1>1, <1>9, <2>1, <2>2
<1>11. Retired(frame, size) = Empty
  <2>1. [o \in Sizes |-> IF o <= size THEN 0 ELSE frame.tails[o]] = [o \in Sizes |-> 0]
    <3>1. \A o \in Sizes : (IF o <= size THEN 0 ELSE frame.tails[o]) = 0
      BY <1>2, <1>8, <1>10
    <3> QED
      BY <3>1
  <2> QED
    BY <2>1 DEF Retired, Empty
<1> QED
  BY <1>7, <1>8, <1>10, <1>11 DEF p, g, size
-----------------------------------------------------------------------------
(* What stays *)

SaidGrows ==
    \A r \in Ranks : /\ Len(said[r]) <= Len(said'[r])
                     /\ \A i \in 1..Len(said[r]) : said'[r][i] = said[r][i]

LEMMA WholeStays ==
    ASSUME Types, Types', SaidGrows, NEW body, NEW n \in Nat, n > 0, Whole(body, n)
    PROVE  Whole(body, n)'
<1> SUFFICES ASSUME NEW r \in Ranks, body[r] # Zero
             PROVE  Len(said'[r]) >= n /\ body[r] = said'[r][n]
  BY DEF Whole
<1>1. Len(said[r]) >= n /\ body[r] = said[r][n]
  BY DEF Whole
<1>2. Len(said[r]) \in Nat /\ Len(said'[r]) \in Nat
  BY DEF Types
<1>3. n \in 1..Len(said[r])
  BY <1>1, <1>2
<1> QED
  BY <1>1, <1>2, <1>3 DEF SaidGrows

LEMMA SaysStays ==
    ASSUME Types, Types', SaidGrows, NEW p \in Ranks, NEW g \in Nat, NEW body, Says(p, g, body)
    PROVE  Says(p, g, body)'
<1> SUFFICES ASSUME NEW m \in Nat
             PROVE  /\ p # 0 /\ g = 2 * m + 1 => Len(said'[p]) > m /\ body = said'[p][m + 1]
                    /\ p = 0 /\ g = 2 * m + 2 => Whole(body, m + 1)'
  BY DEF Says
<1>1. ASSUME p # 0, g = 2 * m + 1 PROVE Len(said'[p]) > m /\ body = said'[p][m + 1]
  <2>1. Len(said[p]) > m /\ body = said[p][m + 1]
    BY <1>1 DEF Says
  <2>2. Len(said[p]) \in Nat /\ Len(said'[p]) \in Nat
    BY DEF Types
  <2>3. m + 1 \in 1..Len(said[p])
    BY <2>1, <2>2
  <2> QED
    BY <2>1, <2>2, <2>3 DEF SaidGrows
<1>2. ASSUME p = 0, g = 2 * m + 2 PROVE Whole(body, m + 1)'
  <2>1. Whole(body, m + 1) /\ m + 1 \in Nat /\ m + 1 > 0
    BY <1>2 DEF Says
  <2> QED
    BY <2>1, WholeStays
<1> QED
  BY <1>1, <1>2

LEMMA CountingNext ==
    ASSUME Types', Course', NEW k \in Ranks, NEW p \in Ranks, <<k, p>> \in Links
    PROVE  Done(k, p)' \in Nat /\ Out(k, p)' \in Nat /\ Base(k, p)' \in Nat
<1>1. Len(met'[k]) \in Nat /\ leg'[k] \in Nat /\ Len(met'[0]) \in Nat
  BY RankFacts DEF Types
<1>2. Passed(k, p)' \in Nat
  BY <1>1 DEF Passed
<1> QED
  BY <1>1, <1>2 DEF Base, Out, Done

\* A slot as it was, with no less posted and no more read.
LEMMA HeldStays ==
    ASSUME Types, Types', Course, Course', SaidGrows, NEW k \in Ranks, NEW p \in Ranks,
           <<k, p>> \in Links, NEW i \in 0..(Ring - 1), Held(k, p, i),
           ring'[<<k, p>>][i] = ring[<<k, p>>][i], Base(k, p)' <= Base(k, p), Out(p, k) <= Out(p, k)'
    PROVE  Held(k, p, i)'
<1>1. PICK g \in (Base(k, p) + 1)..Out(p, k), size \in Sizes, body \in Bodies :
        /\ SlotOf(g) = i /\ ring[<<k, p>>][i] = Holding(g, size, body)
        /\ Says(p, g, body)
  BY DEF Held
<1>2. <<p, k>> \in Links
  BY RankFacts
<1>3. Base(k, p) \in Nat /\ Out(p, k) \in Nat
  BY <1>2, Counting
<1>4. Base(k, p)' \in Nat /\ Out(p, k)' \in Nat
  BY <1>2, CountingNext
<1>5. g \in Nat /\ g \in (Base(k, p)' + 1)..Out(p, k)'
  BY <1>3, <1>4
<1>6. Says(p, g, body)'
  BY <1>1, <1>5, SaysStays
<1>7. ring'[<<k, p>>][i] = Holding(g, size, body)
  BY <1>1
<1> QED
  BY <1>1, <1>5, <1>6, <1>7 DEF Held

LEMMA Quiet ==
    ASSUME HubInv, Types', Course', SaidGrows, ring' = ring,
           \A k, p \in Ranks : <<k, p>> \in Links => Base(k, p)' <= Base(k, p) /\ Out(k, p) <= Out(k, p)'
    PROVE  Pace' /\ SlotsFine'
<1> SUFFICES ASSUME NEW k \in Ranks, NEW p \in Ranks, <<k, p>> \in Links
             PROVE  /\ Base(k, p)' <= Out(p, k)'
                    /\ \A i \in 0..(Ring - 1) : ring'[<<k, p>>][i] = Empty \/ Held(k, p, i)'
  BY DEF Pace, SlotsFine
<1>1. <<p, k>> \in Links
  BY RankFacts
<1>2. Base(k, p)' <= Base(k, p) /\ Out(p, k) <= Out(p, k)' /\ Base(k, p) <= Out(p, k)
  BY <1>1 DEF HubInv, Pace
<1>3. /\ Base(k, p) \in Nat /\ Out(p, k) \in Nat
  BY <1>1, Counting DEF HubInv
<1>4. Base(k, p)' \in Nat /\ Out(p, k)' \in Nat
  BY <1>1, CountingNext
<1>5. Base(k, p)' <= Out(p, k)'
  BY <1>2, <1>3, <1>4
<1>6. ASSUME NEW i \in 0..(Ring - 1) PROVE ring'[<<k, p>>][i] = Empty \/ Held(k, p, i)'
  <2>1. ring[<<k, p>>][i] = Empty \/ Held(k, p, i)
    BY DEF HubInv, SlotsFine
  <2> QED
    BY <1>2, <2>1, HeldStays DEF HubInv
<1> QED
  BY <1>5, <1>6

\* A rank that does nothing keeps its counts.
LEMMA CountsSame ==
    ASSUME NEW j \in Ranks, said'[j] = said[j], met'[j] = met[j], leg'[j] = leg[j],
           posted'[j] = posted[j], lost'[j] = lost[j]
    PROVE  /\ In(j)' = In(j) /\ Peer(j)' = Peer(j) /\ Pending(j)' = Pending(j)
           /\ \A p : /\ Done(j, p)' = Done(j, p) /\ Out(j, p)' = Out(j, p) /\ Base(j, p)' = Base(j, p)
<1>1. In(j)' = In(j) /\ Peer(j)' = Peer(j) /\ Pending(j)' = Pending(j)
  BY DEF In, Peer, Pending
<1>2. \A p : Done(j, p)' = Done(j, p)
  BY <1>1 DEF Done, Passed
<1> QED
  BY <1>1, <1>2 DEF Out, Base
-----------------------------------------------------------------------------
(* The actions *)

LEMMA BodiesTyped ==
    /\ Zero \notin Words /\ Zero \in Bodies /\ Vectors \subseteq Bodies /\ Words \subseteq Bodies
    /\ Nothing \in Vectors
<1>1. Zero \notin Words
  BY DEF Zero, Words
<1> QED
  BY <1>1 DEF Bodies, Vectors, Nothing

\* Words of a point keep, whoever heard them.
LEMMA HeardStays ==
    ASSUME HubInv, Types', SaidGrows, NEW k \in Ranks, In(k), said'[k] = said[k], heard'[k] = heard[k]
    PROVE  Whole(heard[k], Len(said[k]))'
<1>1. Whole(heard[k], Len(said[k])) /\ Len(said[k]) \in Nat /\ Len(met[k]) \in Nat
  BY DEF HubInv, HeardFine, Types
<1>2. Len(said[k]) > 0
  BY <1>1 DEF In
<1> DEFINE body == heard[k]
           n == Len(said[k])
<1>4. Whole(body, n) /\ n \in Nat /\ n > 0
  BY <1>1, <1>2
<1> HIDE DEF body, n
<1>3. \A r \in Ranks : body[r] = Zero \/ (Len(said'[r]) >= n /\ body[r] = said'[r][n])
  <2> TAKE r \in Ranks
  <2>1. Len(said[r]) \in Nat /\ Len(said'[r]) \in Nat
    BY DEF HubInv, Types
  <2>2. CASE body[r] # Zero
    <3>1. Len(said[r]) >= n /\ body[r] = said[r][n]
      BY <1>4, <2>2 DEF Whole
    <3>2. n \in 1..Len(said[r])
      BY <1>4, <2>1, <3>1
    <3> QED
      BY <1>4, <2>1, <3>1, <3>2 DEF SaidGrows
  <2> QED
    BY <2>2
<1> QED
  BY <1>3, <1>4 DEF Whole, body, n

LEMMA SaidSame == ASSUME Types, said' = said PROVE SaidGrows
BY DEF Types, SaidGrows

\* Faults, a rejected point and news of an abort change nothing of this.
LEMMA OthersKeep ==
    ASSUME HubInv, UNCHANGED <<said, met, frameVars>>, at' \in [Ranks -> 1..(Len(Program) + 1)],
           \A k \in Ranks : at'[k] >= at[k], aborted' \in [Ranks -> BOOLEAN],
           mode' \in [Ranks -> {"up", "hung", "failed", "dead"}],
           \A k \in Ranks : mode[k] \in {"failed", "dead"} => mode'[k] \in {"failed", "dead"}
    PROVE  HubInv'
<1>1. UNCHANGED <<said, met, leg, posted, heard, lost, ring>>
  BY DEF frameVars
<1>2. Types'
  BY <1>1 DEF HubInv, Types
<1>3. Course'
  <2> SUFFICES ASSUME NEW k \in Ranks
               PROVE  /\ Len(said[k]) = Len(met[k]) \/ Len(said[k]) = Len(met[k]) + 1
                      /\ Len(said[k]) < at'[k]
                      /\ leg[k] <= Legs(k)
                      /\ Pending(k)' => In(k)' /\ leg[k] < Legs(k)
                      /\ k # 0 /\ lost[k] => mode'[k] \in {"failed", "dead"}
    BY <1>1 DEF Course
  <2>1. Pending(k)' = Pending(k) /\ In(k)' = In(k)
    BY <1>1 DEF Pending, In
  <2>2. Len(said[k]) < at[k] /\ Len(said[k]) \in Nat /\ at[k] \in Nat /\ at'[k] \in Nat
    BY DEF HubInv, Course, Types
  <2>3. Len(said[k]) < at'[k]
    BY <2>2
  <2> QED
    BY <2>1, <2>3 DEF HubInv, Course
<1>4. SaidGrows
  BY <1>1, SaidSame DEF HubInv
<1>5. Pace' /\ SlotsFine'
  <2>1. \A k, p \in Ranks : <<k, p>> \in Links => Base(k, p)' <= Base(k, p) /\ Out(k, p) <= Out(k, p)'
    <3> TAKE k, p \in Ranks
    <3> HAVE <<k, p>> \in Links
    <3>1. Base(k, p)' = Base(k, p) /\ Out(k, p)' = Out(k, p)
      BY <1>1, CountsSame
    <3>2. Base(k, p) \in Nat /\ Out(k, p) \in Nat
      BY Counting DEF HubInv
    <3> QED
      BY <3>1, <3>2
  <2> QED
    BY <1>1, <1>2, <1>3, <1>4, <2>1, Quiet
<1>6. HeardFine'
  BY <1>1, <1>2, <1>4, HeardStays DEF HeardFine, In
<1> QED
  BY <1>2, <1>3, <1>5, <1>6 DEF HubInv

LEMMA FaultsKeep ==
    ASSUME HubInv, NEW k \in Ranks, NEW p \in Ranks,
           Failing(k) \/ Reject(k) \/ FanOut(k, p) \/ UNCHANGED vars
    PROVE  HubInv'
<1>1. UNCHANGED <<said, met, frameVars>>
  BY DEF Failing, Hang, Resume, Crash, Skip, LinkError, Reject, FanOut, vars
<1>2. /\ aborted' \in [Ranks -> BOOLEAN] /\ mode' \in [Ranks -> {"up", "hung", "failed", "dead"}]
      /\ \A j \in Ranks : mode[j] \in {"failed", "dead"} => mode'[j] \in {"failed", "dead"}
  BY DEF Failing, Hang, Resume, Crash, Skip, LinkError, Reject, Through, FanOut, vars, HubInv, Types
<1>3. at' \in [Ranks -> 1..(Len(Program) + 1)] /\ \A j \in Ranks : at'[j] >= at[j]
  <2>1. at \in [Ranks -> 1..(Len(Program) + 1)] /\ Len(Program) \in Nat
    BY HubAssumption DEF HubInv, Types
  <2>2. CASE at' = at
    BY <2>1, <2>2
  <2>3. CASE Skip(k)
    BY <2>1, <2>3 DEF Skip
  <2> QED
    BY <2>2, <2>3 DEF Failing, Hang, Resume, Crash, LinkError, Reject, FanOut, vars
<1> QED
  BY <1>1, <1>2, <1>3, OthersKeep
LEMMA FrameType ==
    ASSUME Types, Course, NEW k \in Ranks, at[k] <= Len(Program)
    PROVE  Frame(k) \in Words /\ Frame(k).rest = at[k] /\ Frame(k).kind = Program[at[k]]
<1>1. at[k] \in DOMAIN Program /\ Program[at[k]] \in {"go", "spill"} /\ Len(Program) \in Nat
  <2>1. at[k] \in 1..(Len(Program) + 1) /\ Program \in Seq({"go", "spill"})
    BY HubAssumption DEF Types
  <2>2. at[k] \in 1..Len(Program)
    BY <2>1
  <2> QED
    BY <2>1, <2>2
<1>2. Counted(k) \in 0..Len(Program)
  <2> DEFINE n == Len(said[k])
             S == {i \in DOMAIN said[k] : said[k][i].kind = "go"}
  <2>1. n \in Nat /\ n < at[k] /\ DOMAIN said[k] = 1..n /\ at[k] \in Nat
    BY DEF Types, Course
  <2>2. S \subseteq 1..n
    BY <2>1
  <2> HIDE DEF S, n
  <2>3. IsFiniteSet(1..n) /\ Cardinality(1..n) = n
    <3>1. 1 \in Int /\ n \in Int
      BY <2>1
    <3>2. Cardinality(1..n) = IF 1 > n THEN 0 ELSE n - 1 + 1
      BY <3>1, FS_Interval
    <3> QED
      BY <2>1, <3>1, <3>2, FS_Interval
  <2>4. Cardinality(S) \in Nat /\ Cardinality(S) <= n
    BY <2>2, <2>3, FS_Subset, FS_CardinalityType
  <2>5. Cardinality(S) \in 0..Len(Program)
    BY <1>1, <2>1, <2>4
  <2> QED
    BY <2>5 DEF Counted, S
<1> QED
  BY <1>1, <1>2 DEF Frame, Words

LEMMA ComeKeeps ==
    ASSUME HubInv, NEW k \in Ranks, Come(k)
    PROVE  HubInv'
<1> DEFINE w == Frame(k)
<1>1. /\ ~In(k) /\ at[k] <= Len(Program)
      /\ said' = [said EXCEPT ![k] = Append(@, w)]
      /\ heard' = [heard EXCEPT ![k] = [Nothing EXCEPT ![k] = w]]
      /\ at' = [at EXCEPT ![k] = @ + 1] /\ leg' = [leg EXCEPT ![k] = 0]
      /\ mode[k] = "up"
      /\ UNCHANGED <<met, posted, lost, ring, aborted, mode, faults>>
  BY DEF Come, Heard
<1>2. Types /\ Course
  BY DEF HubInv
<1>3. w \in Words
  BY <1>1, <1>2, FrameType
<1> HIDE DEF w
<1>4. /\ said[k] \in Seq(Words) /\ Len(said[k]) = Len(met[k]) /\ Len(met[k]) \in Nat
      /\ said'[k] = Append(said[k], w) /\ Len(said'[k]) = Len(said[k]) + 1
      /\ said'[k][Len(said'[k])] = w /\ Len(said[k]) < at[k] /\ at[k] \in Nat
  <2>1. said[k] \in Seq(Words) /\ Len(met[k]) \in Nat /\ at[k] \in Nat /\ said'[k] = Append(said[k], w)
    BY <1>1, <1>2 DEF Types
  <2>2. Len(said[k]) = Len(met[k]) /\ Len(said[k]) < at[k]
    BY <1>1, <1>2, <2>1 DEF Course, In
  <2>3. Len(said'[k]) = Len(said[k]) + 1 /\ said'[k][Len(said'[k])] = w
    BY <1>3, <2>1, AppendProperties
  <2> QED
    BY <2>1, <2>2, <2>3
<1>5. Types'
  <2>1. said'[k] \in Seq(Words) /\ said' \in [Ranks -> Seq(Words)]
    BY <1>1, <1>2, <1>3, AppendProperties DEF Types
  <2>2. heard' \in [Ranks -> Vectors]
    BY <1>1, <1>2, <1>3, BodiesTyped DEF Types, Vectors
  <2>3. at' \in [Ranks -> 1..(Len(Program) + 1)] /\ leg' \in [Ranks -> Nat]
    <3>1. Len(Program) \in Nat /\ at[k] + 1 \in 1..(Len(Program) + 1)
      BY <1>1, <1>2, <1>4, HubAssumption DEF Types
    <3> QED
      BY <1>1, <1>2, <3>1 DEF Types
  <2> QED
    BY <1>1, <1>2, <2>1, <2>2, <2>3 DEF Types
<1>6. ~Pending(k) /\ ~Pending(k)' /\ In(k)'
  <2>1. ~Pending(k)
    BY <1>1, <1>2 DEF Course
  <2> QED
    BY <1>1, <1>4, <2>1 DEF Pending, In
<1>7. \A j \in Ranks : j # k => /\ said'[j] = said[j] /\ met'[j] = met[j] /\ leg'[j] = leg[j]
                                /\ posted'[j] = posted[j] /\ lost'[j] = lost[j] /\ at'[j] = at[j]
                                /\ mode'[j] = mode[j] /\ heard'[j] = heard[j]
  BY <1>1, <1>2 DEF Types
<1>8. Course'
  <2> SUFFICES ASSUME NEW j \in Ranks
               PROVE  /\ Len(said'[j]) = Len(met'[j]) \/ Len(said'[j]) = Len(met'[j]) + 1
                      /\ Len(said'[j]) < at'[j]
                      /\ leg'[j] <= Legs(j)
                      /\ Pending(j)' => In(j)' /\ leg'[j] < Legs(j)
                      /\ j # 0 /\ lost'[j] => mode'[j] \in {"failed", "dead"}
    BY DEF Course
  <2>1. CASE j # k
    <3>1. Pending(j)' = Pending(j) /\ In(j)' = In(j)
      BY <1>7, <2>1, CountsSame
    <3> QED
      BY <1>2, <1>7, <2>1, <3>1 DEF Course
  <2>2. CASE j = k
    <3>1. Legs(k) \in Nat
      BY RankFacts DEF Legs
    <3>2. leg'[k] = 0 /\ at'[k] = at[k] + 1 /\ met'[k] = met[k]
      BY <1>1, <1>2 DEF Types
    <3>3. Len(said'[k]) < at'[k]
      BY <1>4, <3>2
    <3>4. leg'[k] <= Legs(k)
      BY <3>1, <3>2
    <3> QED
      BY <1>4, <1>6, <2>2, <3>2, <3>3, <3>4 DEF Pending
  <2> QED
    BY <2>1, <2>2
<1>9. SaidGrows
  <2> SUFFICES ASSUME NEW r \in Ranks
               PROVE  /\ Len(said[r]) <= Len(said'[r])
                      /\ \A i \in 1..Len(said[r]) : said'[r][i] = said[r][i]
    BY DEF SaidGrows
  <2>1. CASE r # k
    BY <1>2, <1>7, <2>1 DEF Types
  <2>2. CASE r = k
    <3>1. \A i \in 1..Len(said[k]) : said'[k][i] = said[k][i]
      BY <1>3, <1>4, AppendProperties
    <3> QED
      BY <1>4, <2>2, <3>1
  <2> QED
    BY <2>1, <2>2
<1>10. Pace' /\ SlotsFine'
  <2>1. ASSUME NEW j \in Ranks, NEW p \in Ranks, <<j, p>> \in Links
        PROVE  Base(j, p)' <= Base(j, p) /\ Out(j, p) <= Out(j, p)'
    <3>1. CASE j # k
      <4>1. Base(j, p)' = Base(j, p) /\ Out(j, p)' = Out(j, p)
        BY <1>7, <3>1, CountsSame
      <4> QED
        BY <1>2, <2>1, <4>1, Counting
    <3>2. CASE j = k
      <4>1. Passed(k, p) = 0
        BY <1>1 DEF Passed
      <4>2. Passed(k, p)' = 0
        <5>1. leg'[k] = 0
          BY <1>1, <1>2 DEF Types
        <5>2. p \in Nat /\ (k = 0 => p # 0) /\ World \in Nat /\ World > 2
          BY <2>1, <3>2, RankFacts
        <5>3. k = 0 => ~(leg'[0] >= World - 1 + p) /\ ~(leg'[0] >= p)
          BY <5>1, <5>2
        <5> QED
          BY <5>1, <5>3 DEF Passed
      <4>3. Done(k, p)' = Done(k, p)
        BY <1>1, <4>1, <4>2 DEF Done
      <4>4. Out(k, p)' = Out(k, p)
        BY <1>6, <4>3 DEF Out
      <4>5. Base(k, p)' = Base(k, p)
        BY <1>1, <4>3 DEF Base
      <4> QED
        BY <1>2, <2>1, <3>2, <4>4, <4>5, Counting
    <3> QED
      BY <3>1, <3>2
  <2> QED
    BY <1>1, <1>5, <1>8, <1>9, <2>1, Quiet
<1>11. HeardFine'
  <2> SUFFICES ASSUME NEW j \in Ranks, In(j)' PROVE Whole(heard[j], Len(said[j]))'
    BY DEF HeardFine
  <2>1. CASE j # k
    BY <1>5, <1>7, <1>9, <2>1, CountsSame, HeardStays
  <2>2. CASE j = k
    <3>1. heard'[k] = [Nothing EXCEPT ![k] = w] /\ heard'[k] \in Vectors
      BY <1>1, <1>2, <1>5 DEF Types
    <3>2. \A r \in Ranks : heard'[k][r] = IF r = k THEN w ELSE Zero
      BY <3>1 DEF Nothing
    <3> QED
      BY <1>4, <2>2, <3>1, <3>2 DEF Whole
  <2> QED
    BY <2>1, <2>2
<1> QED
  BY <1>5, <1>8, <1>10, <1>11 DEF HubInv
LEMMA AdoptKeeps ==
    ASSUME HubInv, NEW k \in Ranks, Adopt(k)
    PROVE  HubInv'
<1>1. /\ In(k) /\ leg[k] = Legs(k) /\ mode[k] = "up" /\ ~lost[k]
      /\ met' = [met EXCEPT ![k] = Append(@, heard[k])]
      /\ UNCHANGED <<said, at, leg, posted, heard, lost, ring, aborted, mode, faults>>
  BY DEF Adopt, Through, Good, frameVars
<1>2. Types /\ Course
  BY DEF HubInv
<1>3. /\ met[k] \in Seq(Vectors) /\ heard[k] \in Vectors
      /\ met'[k] = Append(met[k], heard[k]) /\ Len(met'[k]) = Len(met[k]) + 1 /\ Len(met[k]) \in Nat
      /\ Len(said[k]) = Len(met[k]) + 1
  <2>1. met[k] \in Seq(Vectors) /\ heard[k] \in Vectors /\ met'[k] = Append(met[k], heard[k])
        /\ Len(said[k]) \in Nat
    BY <1>1, <1>2 DEF Types
  <2>2. Len(said[k]) = Len(met[k]) + 1
    BY <1>1, <1>2, <2>1 DEF Course, In
  <2> QED
    BY <2>1, <2>2, AppendProperties
<1>4. Types'
  <2>1. met' \in [Ranks -> Seq(Vectors)]
    BY <1>1, <1>2, <1>3, AppendProperties DEF Types
  <2> QED
    BY <1>1, <1>2, <2>1 DEF Types
<1>5. ~Pending(k) /\ ~Pending(k)' /\ ~In(k)'
  <2>1. leg[k] \in Nat
    BY <1>2 DEF Types
  <2>2. ~Pending(k)
    BY <1>1, <1>2, <2>1 DEF Course
  <2> QED
    BY <1>1, <1>3, <2>2 DEF Pending, In
<1>6. \A j \in Ranks : j # k => met'[j] = met[j]
  BY <1>1, <1>2 DEF Types
<1>7. \A j \in Ranks : j # k => /\ Pending(j)' = Pending(j) /\ In(j)' = In(j)
                                /\ \A p : Base(j, p)' = Base(j, p) /\ Out(j, p)' = Out(j, p)
  BY <1>1, <1>6, CountsSame
<1>8. Course'
  <2> SUFFICES ASSUME NEW j \in Ranks
               PROVE  /\ Len(said[j]) = Len(met'[j]) \/ Len(said[j]) = Len(met'[j]) + 1
                      /\ Pending(j)' => In(j)' /\ leg[j] < Legs(j)
    BY <1>1, <1>2 DEF Course
  <2>1. CASE j # k
    BY <1>2, <1>6, <1>7, <2>1 DEF Course
  <2>2. CASE j = k
    BY <1>3, <1>5, <2>2
  <2> QED
    BY <2>1, <2>2
<1>9. SaidGrows
  BY <1>1, <1>2, SaidSame
<1>10. Pace' /\ SlotsFine'
  <2>1. ASSUME NEW j \in Ranks, NEW p \in Ranks, <<j, p>> \in Links
        PROVE  Base(j, p)' <= Base(j, p) /\ Out(j, p) <= Out(j, p)'
    <3>1. CASE j # k
      BY <1>2, <1>7, <2>1, <3>1, Counting
    <3>2. CASE j = k
      <4>1. Passed(k, p) = 2
        BY <1>1, <1>2, <2>1, <3>2, PassedIs
      <4>2. Passed(k, p)' = 0
        BY <1>5 DEF Passed
      <4>3. Done(k, p)' = Done(k, p)
        BY <1>3, <4>1, <4>2 DEF Done
      <4>4. Out(k, p)' = Out(k, p)
        BY <1>5, <4>3 DEF Out
      <4>5. Base(k, p)' = Base(k, p)
        BY <1>1, <4>3 DEF Base
      <4> QED
        BY <1>2, <2>1, <3>2, <4>4, <4>5, Counting
    <3> QED
      BY <3>1, <3>2
  <2> QED
    BY <1>1, <1>4, <1>8, <1>9, <2>1, Quiet
<1>11. HeardFine'
  <2> SUFFICES ASSUME NEW j \in Ranks, In(j)' PROVE Whole(heard[j], Len(said[j]))'
    BY DEF HeardFine
  <2>1. j # k /\ In(j)
    BY <1>5, <1>7
  <2> QED
    BY <1>1, <1>4, <1>9, <2>1, HeardStays
<1> QED
  BY <1>4, <1>8, <1>10, <1>11 DEF HubInv

\* What changes when a rank's exchange ends, read or given up.
LEMMA LegOn ==
    ASSUME Types, Course, NEW k \in Ranks, In(k), leg[k] < Legs(k), NEW q, q = Peer(k),
           leg' = [leg EXCEPT ![k] = @ + 1], UNCHANGED <<said, met>>
    PROVE  /\ Done(k, q)' = Done(k, q) + 1
           /\ \A p \in Ranks : <<k, p>> \in Links /\ p # q => Done(k, p)' = Done(k, p)
           /\ leg'[k] \in Nat /\ leg'[k] <= Legs(k)
<1>1. leg[k] \in Nat /\ leg'[k] = leg[k] + 1 /\ World - 1 \in Nat
  BY RankFacts DEF Types
<1>2. /\ q \in Ranks /\ <<k, q>> \in Links /\ Passed(k, q) = Round(k) - 1 /\ Round(k) \in 1..2
      /\ k = 0 => (Round(0) = 1 /\ leg[0] = q - 1) \/ (Round(0) = 2 /\ leg[0] = World - 1 + q - 1)
  BY Turn
<1>3. In(k) /\ In(k)' /\ Len(met'[k]) = Len(met[k]) /\ Len(met[k]) \in Nat
  BY DEF In, Types
<1>4. leg'[k] \in Nat /\ leg'[k] <= Legs(k)
  <2>1. Legs(k) \in Nat
    BY RankFacts DEF Legs
  <2> QED
    BY <1>1, <2>1
<1>5. ASSUME NEW p \in Ranks, <<k, p>> \in Links
      PROVE  Passed(k, p)' = IF p = q THEN Passed(k, p) + 1 ELSE Passed(k, p)
  <2>1. CASE k # 0
    <3>1. p = 0 /\ q = 0
      BY <1>2, <1>5, <2>1, RankFacts
    <3>2. Passed(k, p) = leg[k] /\ Passed(k, p)' = leg'[k]
      BY <1>3, <2>1 DEF Passed
    <3> QED
      BY <1>1, <3>1, <3>2
  <2>2. CASE k = 0
    <3> DEFINE w == World - 1
               l == leg[0]
               m == leg'[0]
    <3>1. p \in 1..w /\ q \in 1..w /\ w \in Nat /\ l \in Nat /\ m = l + 1
      BY <1>1, <1>2, <1>5, <2>2, RankFacts
    <3>2. l = q - 1 \/ l = w + q - 1
      BY <1>2, <2>2
    <3>3. /\ Passed(0, p) = IF l >= w + p THEN 2 ELSE IF l >= p THEN 1 ELSE 0
          /\ Passed(0, p)' = IF m >= w + p THEN 2 ELSE IF m >= p THEN 1 ELSE 0
      BY <1>3, <2>2 DEF Passed
    <3> HIDE DEF w, l, m
    <3>4. Passed(0, p)' = IF p = q THEN Passed(0, p) + 1 ELSE Passed(0, p)
      BY <3>1, <3>2, <3>3
    <3> QED
      BY <2>2, <3>4
  <2> QED
    BY <2>1, <2>2
<1>6. Passed(k, q) \in Nat
  BY <1>2
<1>7. Done(k, q)' = Done(k, q) + 1
  <2>1. Passed(k, q)' = Passed(k, q) + 1
    BY <1>2, <1>5
  <2> QED
    BY <1>3, <1>6, <2>1 DEF Done
<1>8. \A p \in Ranks : <<k, p>> \in Links /\ p # q => Done(k, p)' = Done(k, p)
  BY <1>3, <1>5 DEF Done
<1> QED
  BY <1>4, <1>7, <1>8
\* What a rank posts is what the frame of that number says.
LEMMA PostsSays ==
    ASSUME HubInv, NEW k \in Ranks, Exchanging(k)
    PROVE  Says(k, Gen(k), Body(k)) /\ Body(k) \in Bodies
<1>1. Types /\ Course /\ In(k)
  BY DEF HubInv, Exchanging
<1>2. Len(said[k]) \in Nat /\ Len(said[k]) > 0 /\ Round(k) \in 1..2
  <2>1. Len(said[k]) \in Nat /\ Len(met[k]) \in Nat
    BY <1>1 DEF Types
  <2>2. Round(k) \in 1..2
    BY <1>1, Turn DEF Exchanging
  <2> QED
    BY <1>1, <2>1, <2>2 DEF In
<1>3. Said(k) \in Words /\ heard[k] \in Vectors /\ heard[0] \in Vectors
  BY <1>1, SizeType, RankFacts DEF Types
<1>4. Body(k) \in Bodies
  BY <1>3, BodiesTyped DEF Body, Bodies
<1>5. ASSUME NEW m \in Nat, k # 0, Gen(k) = 2 * m + 1
      PROVE  Len(said[k]) > m /\ Body(k) = said[k][m + 1]
  <2>1. 2 * (Len(said[k]) - 1) + Round(k) = 2 * m + 1
    BY <1>5 DEF Gen
  <2>2. Round(k) = 1 /\ Len(said[k]) = m + 1
    BY <1>2, <2>1
  <2> QED
    BY <1>2, <2>2 DEF Body, Said
<1>6. ASSUME NEW m \in Nat, k = 0, Gen(k) = 2 * m + 2
      PROVE  Whole(Body(k), m + 1)
  <2>1. 2 * (Len(said[k]) - 1) + Round(k) = 2 * m + 2
    BY <1>6 DEF Gen
  <2>2. Round(k) = 2 /\ Len(said[k]) = m + 1
    BY <1>2, <2>1
  <2>3. Body(k) = heard[k]
    BY <1>6, <2>2 DEF Body
  <2>4. Whole(heard[k], Len(said[k]))
    BY <1>1 DEF HubInv, HeardFine
  <2> QED
    BY <2>2, <2>3, <2>4
<1> QED
  BY <1>4, <1>5, <1>6 DEF Says

LEMMA PostKeeps ==
    ASSUME HubInv, NEW k \in Ranks, Post(k)
    PROVE  HubInv'
<1>1. PICK p, g, size, body : p = Peer(k) /\ g = Gen(k) /\ size = Size(k) /\ body = Body(k)
  OBVIOUS
<1> DEFINE i == SlotOf(g)
<1>2. /\ Exchanging(k) /\ ~posted[k] /\ posted' = [posted EXCEPT ![k] = TRUE]
      /\ ring' = [ring EXCEPT ![<<p, k>>][i] =
                    [tails |-> [o \in Sizes |-> IF o = size THEN g ELSE IF o < size THEN g + Ring
                                                ELSE @.tails[o]], body |-> body]]
      /\ UNCHANGED <<said, met, at, leg, heard, lost, aborted, mode, faults>>
  BY <1>1 DEF Post
<1>3. Types /\ Course /\ In(k) /\ leg[k] < Legs(k) /\ mode[k] = "up"
  BY <1>2 DEF HubInv, Exchanging
<1>4. /\ p \in Ranks /\ <<k, p>> \in Links /\ <<p, k>> \in Links /\ g \in Nat /\ g > 0
  BY <1>1, <1>3, Turn
<1>5. g = Out(k, p) + 1 /\ ring[<<p, k>>][i] = Empty
  BY <1>1, <1>2, SlotFree
<1>6. i \in 0..(Ring - 1)
  BY <1>4, SlotIndex
<1>7. size \in Sizes /\ body \in Bodies /\ Says(k, g, body)
  BY <1>1, <1>2, <1>3, SizeType, PostsSays
<1>8. Empty.tails = [o \in Sizes |-> 0]
  BY DEF Empty
<1> HIDE DEF i
<1>9. ring' = [ring EXCEPT ![<<p, k>>][i] = Holding(g, size, body)]
  <2>1. [o \in Sizes |-> IF o = size THEN g ELSE IF o < size THEN g + Ring
                         ELSE ring[<<p, k>>][i].tails[o]]
        = [o \in Sizes |-> IF o = size THEN g ELSE IF o < size THEN g + Ring ELSE 0]
    BY <1>5, <1>8
  <2> QED
    BY <1>2, <2>1 DEF Holding
<1>10. Holding(g, size, body) \in [tails : [Sizes -> Nat], body : Bodies]
  <2>1. Ring \in Nat /\ g + Ring \in Nat
    BY <1>4, HubAssumption
  <2> QED
    BY <1>4, <1>7, <2>1 DEF Holding
<1>11. /\ ring'[<<p, k>>][i] = Holding(g, size, body)
       /\ \A j, q \in Ranks : \A n \in 0..(Ring - 1) :
            <<j, q>> \in Links /\ ~(j = p /\ q = k /\ n = i) =>
                ring'[<<j, q>>][n] = ring[<<j, q>>][n]
  <2>1. ring \in [Links -> [0..(Ring - 1) -> [tails : [Sizes -> Nat], body : Bodies]]]
    BY <1>3 DEF Types
  <2> HIDE DEF Links
  <2> QED
    BY <1>4, <1>6, <1>9, <2>1
<1>12. Types'
  <2>1. ring' \in [Links -> [0..(Ring - 1) -> [tails : [Sizes -> Nat], body : Bodies]]]
    <3>1. ring \in [Links -> [0..(Ring - 1) -> [tails : [Sizes -> Nat], body : Bodies]]]
      BY <1>3 DEF Types
    <3> DEFINE Slot == [tails : [Sizes -> Nat], body : Bodies]
    <3> HIDE DEF Slot
    <3> QED
      BY <1>4, <1>6, <1>9, <1>10, <3>1 DEF Slot
  <2>2. posted' \in [Ranks -> BOOLEAN]
    BY <1>2, <1>3 DEF Types
  <2> QED
    BY <1>2, <1>3, <2>1, <2>2 DEF Types
<1>13. /\ posted'[k] = TRUE
       /\ \A j \in Ranks : j # k => posted'[j] = posted[j]
  BY <1>2, <1>3 DEF Types
<1>14. \A j \in Ranks : j # k => /\ Pending(j)' = Pending(j) /\ In(j)' = In(j)
                                 /\ \A q : Base(j, q)' = Base(j, q) /\ Out(j, q)' = Out(j, q)
  BY <1>2, <1>13, CountsSame
<1>15. /\ Pending(k)' /\ In(k)' /\ Peer(k)' = p
       /\ \A q : Done(k, q)' = Done(k, q) /\ Base(k, q)' = Base(k, q)
  <2>1. Pending(k)' /\ In(k)' /\ Peer(k)' = p
    BY <1>1, <1>2, <1>3, <1>13 DEF Pending, In, Peer
  <2>2. \A q : Done(k, q)' = Done(k, q)
    BY <1>2 DEF Done, Passed, In
  <2> QED
    BY <1>2, <2>1, <2>2 DEF Base
<1>16. ~Pending(k)
  BY <1>2, <1>3 DEF Pending, Course
<1>17. Out(k, p)' = g /\ \A q : q # p => Out(k, q)' = Out(k, q)
  <2>1. Out(k, p) = Done(k, p) /\ Out(k, p)' = Done(k, p) + 1
    <3>1. Done(k, p) \in Nat
      BY <1>3, <1>4, Counting
    <3> QED
      BY <1>15, <1>16, <3>1 DEF Out
  <2>2. \A q : q # p => Out(k, q)' = Out(k, q)
    BY <1>1, <1>15, <1>16 DEF Out
  <2> QED
    BY <1>5, <2>1, <2>2
<1>18. Course'
  <2> SUFFICES ASSUME NEW j \in Ranks
               PROVE  Pending(j)' => In(j)' /\ leg[j] < Legs(j)
    BY <1>2, <1>3 DEF Course
  <2>1. CASE j # k
    BY <1>3, <1>14, <2>1 DEF Course
  <2>2. CASE j = k
    BY <1>3, <1>15, <2>2
  <2> QED
    BY <2>1, <2>2
<1>19. SaidGrows
  BY <1>2, <1>3, SaidSame
<1>20. \A j, q \in Ranks : <<j, q>> \in Links =>
        Base(j, q)' = Base(j, q) /\ Out(j, q) <= Out(j, q)'
  <2> TAKE j, q \in Ranks
  <2> HAVE <<j, q>> \in Links
  <2>1. Out(j, q) \in Nat
    BY <1>3, Counting
  <2>2. CASE j # k
    BY <1>14, <2>1, <2>2
  <2>3. CASE j = k
    BY <1>5, <1>15, <1>17, <2>1, <2>3
  <2> QED
    BY <2>2, <2>3
<1>21. Pace'
  <2> SUFFICES ASSUME NEW j \in Ranks, NEW q \in Ranks, <<j, q>> \in Links
               PROVE  Base(j, q)' <= Out(q, j)'
    BY DEF Pace
  <2>1. <<q, j>> \in Links
    BY RankFacts
  <2>2. Base(j, q) \in Nat /\ Out(q, j) \in Nat /\ Out(q, j)' \in Nat
    BY <1>3, <1>12, <1>18, <2>1, Counting, CountingNext
  <2>3. Base(j, q) <= Out(q, j)
    BY DEF HubInv, Pace
  <2>4. Base(j, q)' = Base(j, q) /\ Out(q, j) <= Out(q, j)'
    BY <1>20, <2>1
  <2> QED
    BY <2>2, <2>3, <2>4
<1>22. SlotsFine'
  <2> SUFFICES ASSUME NEW j \in Ranks, NEW q \in Ranks, <<j, q>> \in Links, NEW n \in 0..(Ring - 1)
               PROVE  ring'[<<j, q>>][n] = Empty \/ Held(j, q, n)'
    BY DEF SlotsFine
  <2>1. CASE j = p /\ q = k /\ n = i
    <3>1. Base(p, k) \in Nat /\ Base(p, k) <= Out(k, p) /\ Base(p, k)' = Base(p, k) /\ Out(k, p) \in Nat
      BY <1>3, <1>4, <1>20, Counting DEF HubInv, Pace
    <3>2. g \in (Base(p, k)' + 1)..Out(k, p)'
      BY <1>4, <1>5, <1>17, <3>1
    <3>3. Says(k, g, body)'
      BY <1>3, <1>4, <1>7, <1>12, <1>19, SaysStays
    <3>4. SlotOf(g) = i
      BY DEF i
    <3> QED
      BY <1>7, <1>11, <2>1, <3>2, <3>3, <3>4 DEF Held
  <2>2. CASE ~(j = p /\ q = k /\ n = i)
    <3>1. ring'[<<j, q>>][n] = ring[<<j, q>>][n]
      BY <1>11, <2>2
    <3>2. ring[<<j, q>>][n] = Empty \/ Held(j, q, n)
      BY DEF HubInv, SlotsFine
    <3>3. <<q, j>> \in Links
      BY RankFacts
    <3>4. Base(j, q)' <= Base(j, q) /\ Out(q, j) <= Out(q, j)'
      <4>1. Base(j, q) \in Nat
        BY <1>3, Counting
      <4> QED
        BY <1>20, <3>3, <4>1
    <3> QED
      BY <1>3, <1>12, <1>18, <1>19, <3>1, <3>2, <3>4, HeldStays
  <2> QED
    BY <2>1, <2>2
<1>23. HeardFine'
  <2> SUFFICES ASSUME NEW j \in Ranks, In(j)' PROVE Whole(heard[j], Len(said[j]))'
    BY DEF HeardFine
  <2>1. In(j)
    BY <1>2 DEF In
  <2> QED
    BY <1>2, <1>12, <1>19, <2>1, HeardStays
<1> QED
  BY <1>12, <1>18, <1>21, <1>22, <1>23 DEF HubInv
\* What a rank reads of the words of its point.
LEMMA TakesWords ==
    ASSUME HubInv, NEW k \in Ranks, Exchanging(k), NEW p, p = Peer(k), NEW body,
           Says(p, Gen(k), body)
    PROVE  /\ Round(k) = 1 /\ k = 0 => Whole([heard[0] EXCEPT ![p] = body], Len(said[0]))
           /\ Round(k) = 2 /\ k # 0 => Whole(body, Len(said[k]))
<1>1. Types /\ Course /\ In(k) /\ leg[k] < Legs(k)
  BY DEF HubInv, Exchanging
<1>2. p \in Ranks /\ <<k, p>> \in Links /\ Round(k) \in 1..2
  BY <1>1, Turn
<1>3. Len(said[k]) \in Nat /\ Len(met[k]) \in Nat /\ Len(said[k]) > Len(met[k])
  BY <1>1 DEF Types, In
<1> DEFINE m == Len(said[k]) - 1
<1>4. m \in Nat /\ Len(said[k]) = m + 1 /\ Gen(k) = 2 * m + Round(k)
  BY <1>3 DEF Gen
<1> HIDE DEF m
<1>5. ASSUME Round(k) = 1, k = 0
      PROVE  Whole([heard[0] EXCEPT ![p] = body], Len(said[0]))
  <2>1. p # 0
    BY <1>2, <1>5, RankFacts
  <2>2. Len(said[p]) > m /\ body = said[p][m + 1]
    BY <1>4, <1>5, <2>1 DEF Says
  <2>3. Len(said[p]) \in Nat /\ said[p] \in Seq(Words)
    BY <1>1, <1>2 DEF Types
  <2>4. m + 1 \in 1..Len(said[p]) /\ Len(said[p]) >= m + 1
    BY <1>4, <2>2, <2>3
  <2>5. body \in Words
    BY <2>2, <2>3, <2>4
  <2>6. Whole(heard[0], m + 1)
    BY <1>1, <1>4, <1>5 DEF HubInv, HeardFine
  <2> DEFINE f == [heard[0] EXCEPT ![p] = body]
  <2>7. f \in Vectors /\ \A r \in Ranks : f[r] = IF r = p THEN body ELSE heard[0][r]
    BY <1>2, <2>5, <2>6 DEF Whole, Vectors
  <2> HIDE DEF f
  <2>8. Whole(f, m + 1)
    BY <2>2, <2>4, <2>6, <2>7 DEF Whole
  <2> QED
    BY <1>4, <1>5, <2>8 DEF f
<1>6. ASSUME Round(k) = 2, k # 0
      PROVE  Whole(body, Len(said[k]))
  <2>1. p = 0
    BY <1>6 DEF Peer
  <2> QED
    BY <1>4, <1>6, <2>1 DEF Says
<1> QED
  BY <1>5, <1>6

LEMMA TakeKeeps ==
    ASSUME HubInv, NEW k \in Ranks, Take(k)
    PROVE  HubInv'
<1>1. PICK p, g, body, i : p = Peer(k) /\ g = Gen(k) /\ i = SlotOf(g)
                        /\ body = ring[<<k, p>>][i].body
  OBVIOUS
<1>2. /\ Exchanging(k) /\ posted[k] /\ ring[<<k, p>>][i].tails[Size(k)] = g
      /\ ring' = [ring EXCEPT ![<<k, p>>][i] = Retired(ring[<<k, p>>][i], Size(k))]
      /\ heard' = IF Round(k) = 1 /\ k = 0 THEN [heard EXCEPT ![0][p] = body]
                  ELSE IF Round(k) = 2 /\ k # 0 THEN [heard EXCEPT ![k] = body]
                  ELSE heard
      /\ leg' = [leg EXCEPT ![k] = @ + 1] /\ posted' = [posted EXCEPT ![k] = FALSE]
      /\ UNCHANGED <<said, met, at, lost, aborted, mode, faults>>
  BY <1>1 DEF Take
<1>3. Types /\ Course /\ In(k) /\ leg[k] < Legs(k) /\ mode[k] = "up"
  BY <1>2 DEF HubInv, Exchanging
<1>4. /\ p \in Ranks /\ <<k, p>> \in Links /\ <<p, k>> \in Links /\ g \in Nat /\ g > 0
      /\ g = Done(k, p) + 1
  BY <1>1, <1>3, Turn
<1>5. i \in 0..(Ring - 1)
  BY <1>1, <1>4, SlotIndex
<1>6. /\ g \in (Base(k, p) + 1)..Out(p, k) /\ Says(p, g, body)
      /\ Retired(ring[<<k, p>>][i], Size(k)) = Empty
  BY <1>1, <1>2, TakesFrame
<1>7. /\ ring'[<<k, p>>][i] = Empty
      /\ \A j, q \in Ranks : \A n \in 0..(Ring - 1) :
            <<j, q>> \in Links /\ ~(j = k /\ q = p /\ n = i) =>
                ring'[<<j, q>>][n] = ring[<<j, q>>][n]
  <2>1. ring \in [Links -> [0..(Ring - 1) -> [tails : [Sizes -> Nat], body : Bodies]]]
    BY <1>3 DEF Types
  <2>2. ring' = [ring EXCEPT ![<<k, p>>][i] = Empty]
    BY <1>2, <1>6
  <2> HIDE DEF Links
  <2> QED
    BY <1>4, <1>5, <2>1, <2>2
<1>8. heard' \in [Ranks -> Vectors] /\ (heard'[k] = heard[k] \/ Whole(heard'[k], Len(said[k])))
      /\ \A j \in Ranks : j # k => heard'[j] = heard[j]
  <2>1. heard \in [Ranks -> Vectors]
    BY <1>3 DEF Types
  <2>2. CASE Round(k) = 1 /\ k = 0
    <3>1. heard' = [heard EXCEPT ![0] = [heard[0] EXCEPT ![p] = body]]
      BY <1>2, <2>1, <2>2
    <3>2. Whole([heard[0] EXCEPT ![p] = body], Len(said[0]))
      BY <1>1, <1>2, <1>6, <2>2, TakesWords
    <3> QED
      BY <2>1, <2>2, <3>1, <3>2 DEF Whole
  <2>3. CASE Round(k) = 2 /\ k # 0
    <3>1. heard' = [heard EXCEPT ![k] = body]
      BY <1>2, <2>3
    <3>2. Whole(body, Len(said[k]))
      BY <1>1, <1>2, <1>6, <2>3, TakesWords
    <3> QED
      BY <2>1, <3>1, <3>2 DEF Whole
  <2>4. CASE ~(Round(k) = 1 /\ k = 0) /\ ~(Round(k) = 2 /\ k # 0)
    <3>1. heard' = heard
      BY <1>2, <2>4
    <3> QED
      BY <2>1, <3>1
  <2> QED
    BY <2>2, <2>3, <2>4
<1>9. /\ Done(k, p)' = g /\ \A q \in Ranks : <<k, q>> \in Links /\ q # p => Done(k, q)' = Done(k, q)
      /\ leg'[k] \in Nat /\ leg'[k] <= Legs(k)
  BY <1>1, <1>2, <1>3, <1>4, LegOn
<1>10. Types'
  <2>1. ring' \in [Links -> [0..(Ring - 1) -> [tails : [Sizes -> Nat], body : Bodies]]]
    <3>1. ring \in [Links -> [0..(Ring - 1) -> [tails : [Sizes -> Nat], body : Bodies]]]
      BY <1>3 DEF Types
    <3> DEFINE Slot == [tails : [Sizes -> Nat], body : Bodies]
    <3>2. Empty \in Slot /\ ring' = [ring EXCEPT ![<<k, p>>][i] = Empty]
      BY <1>2, <1>6, BodiesTyped DEF Empty
    <3> HIDE DEF Slot
    <3> QED
      BY <1>4, <1>5, <3>1, <3>2 DEF Slot
  <2>2. posted' \in [Ranks -> BOOLEAN] /\ leg' \in [Ranks -> Nat]
    BY <1>2, <1>3 DEF Types
  <2> QED
    BY <1>2, <1>3, <1>8, <2>1, <2>2 DEF Types
<1>11. /\ posted'[k] = FALSE
       /\ \A j \in Ranks : j # k => posted'[j] = posted[j] /\ leg'[j] = leg[j]
  BY <1>2, <1>3 DEF Types
<1>12. \A j \in Ranks : j # k => /\ Pending(j)' = Pending(j) /\ In(j)' = In(j)
                                 /\ \A q : Base(j, q)' = Base(j, q) /\ Out(j, q)' = Out(j, q)
  BY <1>2, <1>11, CountsSame
<1>13. Pending(k) /\ ~Pending(k)'
  <2>1. ~(k # 0 /\ lost[k])
    BY <1>3 DEF Course
  <2> QED
    BY <1>2, <1>11, <2>1 DEF Pending
<1>14. Course'
  <2> SUFFICES ASSUME NEW j \in Ranks
               PROVE  leg'[j] <= Legs(j) /\ (Pending(j)' => In(j)' /\ leg'[j] < Legs(j))
    BY <1>2, <1>3 DEF Course
  <2>1. CASE j # k
    BY <1>3, <1>11, <1>12, <2>1 DEF Course
  <2>2. CASE j = k
    BY <1>9, <1>13, <2>2
  <2> QED
    BY <2>1, <2>2
<1>15. SaidGrows
  BY <1>2, <1>3, SaidSame
<1>16. \A q \in Ranks : <<k, q>> \in Links => Out(k, q)' = Out(k, q)
  <2> TAKE q \in Ranks
  <2> HAVE <<k, q>> \in Links
  <2>1. Done(k, q) \in Nat /\ Done(k, q)' \in Nat
    BY <1>3, <1>10, <1>14, Counting, CountingNext
  <2>2. CASE q = p
    BY <1>1, <1>4, <1>9, <1>13, <2>1, <2>2 DEF Out
  <2>3. CASE q # p
    BY <1>1, <1>9, <1>13, <2>1, <2>3 DEF Out
  <2> QED
    BY <2>2, <2>3
<1>17. /\ \A q \in Ranks : <<k, q>> \in Links /\ q # p => Base(k, q)' = Base(k, q)
       /\ Base(k, p)' = Base(k, p) \/ (Base(k, p)' = g /\ Base(k, p) = g - 1)
  <2>1. CASE k = 0 /\ lost[0]
    BY <1>2, <2>1 DEF Base
  <2>2. CASE ~(k = 0 /\ lost[0])
    <3>1. \A q : Base(k, q)' = Done(k, q)' /\ Base(k, q) = Done(k, q)
      BY <1>2, <2>2 DEF Base
    <3>2. Done(k, p) \in Nat
      BY <1>3, <1>4, Counting
    <3> QED
      BY <1>4, <1>9, <3>1, <3>2
  <2> QED
    BY <2>1, <2>2
<1>18. Pace'
  <2> SUFFICES ASSUME NEW j \in Ranks, NEW q \in Ranks, <<j, q>> \in Links
               PROVE  Base(j, q)' <= Out(q, j)'
    BY DEF Pace
  <2>1. <<q, j>> \in Links
    BY RankFacts
  <2>2. Out(q, j)' = Out(q, j) /\ Base(j, q) <= Out(q, j)
    BY <1>12, <1>16, <2>1 DEF HubInv, Pace
  <2>3. CASE Base(j, q)' = Base(j, q)
    BY <2>2, <2>3
  <2>4. CASE Base(j, q)' # Base(j, q)
    <3>1. j = k /\ q = p /\ Base(k, p)' = g
      BY <1>12, <1>17, <2>4
    <3>2. g <= Out(p, k)
      BY <1>3, <1>4, <1>6, Counting
    <3> QED
      BY <2>2, <3>1, <3>2
  <2> QED
    BY <2>3, <2>4
<1>19. SlotsFine'
  <2> SUFFICES ASSUME NEW j \in Ranks, NEW q \in Ranks, <<j, q>> \in Links, NEW n \in 0..(Ring - 1),
                      ring'[<<j, q>>][n] # Empty
               PROVE  Held(j, q, n)'
    BY DEF SlotsFine
  <2>1. ~(j = k /\ q = p /\ n = i) /\ ring'[<<j, q>>][n] = ring[<<j, q>>][n]
    BY <1>7
  <2>2. Held(j, q, n)
    BY <2>1 DEF HubInv, SlotsFine
  <2>3. <<q, j>> \in Links
    BY RankFacts
  <2>4. Out(q, j)' = Out(q, j) /\ Out(q, j) \in Nat /\ Base(j, q) \in Nat
    BY <1>3, <1>12, <1>16, <2>3, Counting
  <2>5. CASE Base(j, q)' = Base(j, q)
    BY <1>3, <1>10, <1>14, <1>15, <2>1, <2>2, <2>4, <2>5, HeldStays
  <2>6. CASE Base(j, q)' # Base(j, q)
    <3>1. j = k /\ q = p /\ Base(k, p)' = g /\ Base(k, p) = g - 1
      BY <1>12, <1>17, <2>6
    <3>2. PICK h \in (Base(k, p) + 1)..Out(p, k), size \in Sizes, b \in Bodies :
            /\ SlotOf(h) = n /\ ring[<<k, p>>][n] = Holding(h, size, b) /\ Says(p, h, b)
      BY <2>2, <3>1 DEF Held
    <3>3. h # g /\ h \in Nat
      BY <1>1, <2>1, <2>4, <3>1, <3>2
    <3>4. h \in (Base(k, p)' + 1)..Out(p, k)'
      BY <1>4, <2>4, <3>1, <3>2, <3>3
    <3>5. Says(p, h, b)'
      BY <1>3, <1>4, <1>10, <1>15, <3>2, <3>3, SaysStays
    <3> QED
      BY <2>1, <3>1, <3>2, <3>4, <3>5 DEF Held
  <2> QED
    BY <2>5, <2>6
<1>20. HeardFine'
  <2> SUFFICES ASSUME NEW j \in Ranks, In(j)' PROVE Whole(heard[j], Len(said[j]))'
    BY DEF HeardFine
  <2>1. In(j)
    BY <1>2 DEF In
  <2>2. CASE heard'[j] = heard[j]
    BY <1>2, <1>10, <1>15, <2>1, <2>2, HeardStays
  <2>3. CASE heard'[j] # heard[j]
    <3>1. j = k /\ Whole(heard'[k], Len(said[k]))
      BY <1>8, <2>3
    <3> QED
      BY <1>2, <3>1 DEF Whole
  <2> QED
    BY <2>2, <2>3
<1> QED
  BY <1>10, <1>14, <1>18, <1>19, <1>20 DEF HubInv

\* A node that gives up an exchange keeps its count; the head's grows without a read.
LEMMA GiveUpKeeps ==
    ASSUME HubInv, NEW k \in Ranks, GiveUp(k)
    PROVE  HubInv'
<1>1. PICK p : p = Peer(k)
  OBVIOUS
<1>2. /\ Exchanging(k) /\ posted[k]
      /\ aborted' = [aborted EXCEPT ![k] = TRUE] /\ posted' = [posted EXCEPT ![k] = FALSE]
      /\ lost' = [lost EXCEPT ![k] = TRUE]
      /\ IF k = 0 THEN leg' = [leg EXCEPT ![k] = @ + 1] /\ UNCHANGED mode
         ELSE mode' = [mode EXCEPT ![k] = "failed"] /\ UNCHANGED leg
      /\ UNCHANGED <<said, met, at, heard, ring, faults>>
  BY DEF GiveUp
<1>3. Types /\ Course /\ In(k) /\ leg[k] < Legs(k)
  BY <1>2 DEF HubInv, Exchanging
<1>4. p \in Ranks /\ <<k, p>> \in Links /\ In(k)' /\ Pending(k)
  BY <1>1, <1>2, <1>3, Turn DEF In, Pending
<1>5. Types'
  <2>1. /\ leg \in [Ranks -> Nat] /\ posted \in [Ranks -> BOOLEAN] /\ lost \in [Ranks -> BOOLEAN]
        /\ aborted \in [Ranks -> BOOLEAN] /\ mode \in [Ranks -> {"up", "hung", "failed", "dead"}]
    BY <1>3 DEF Types
  <2>2. leg' \in [Ranks -> Nat] /\ mode' \in [Ranks -> {"up", "hung", "failed", "dead"}]
    <3>1. CASE k = 0
      BY <1>2, <2>1, <3>1
    <3>2. CASE k # 0
      BY <1>2, <2>1, <3>2
    <3> QED
      BY <3>1, <3>2
  <2>3. posted' \in [Ranks -> BOOLEAN] /\ lost' \in [Ranks -> BOOLEAN] /\ aborted' \in [Ranks -> BOOLEAN]
    BY <1>2, <2>1
  <2>4. UNCHANGED <<said, met, at, heard, ring>>
    BY <1>2
  <2> QED
    BY <1>3, <2>2, <2>3, <2>4 DEF Types
<1>6. /\ posted'[k] = FALSE /\ lost'[k] = TRUE
      /\ \A j \in Ranks : j # k => /\ posted'[j] = posted[j] /\ leg'[j] = leg[j]
                                   /\ lost'[j] = lost[j] /\ mode'[j] = mode[j]
  BY <1>2, <1>3 DEF Types
<1>7. \A j \in Ranks : j # k => /\ Pending(j)' = Pending(j) /\ In(j)' = In(j)
                                /\ \A q : Base(j, q)' = Base(j, q) /\ Out(j, q)' = Out(j, q)
  BY <1>2, <1>6, CountsSame
<1>8. k = 0 => /\ Done(0, p)' = Done(0, p) + 1
               /\ \A q \in Ranks : <<0, q>> \in Links /\ q # p => Done(0, q)' = Done(0, q)
               /\ leg'[0] <= Legs(0)
  BY <1>1, <1>2, <1>3, LegOn
<1>9. k # 0 => /\ leg' = leg /\ Pending(k)' /\ Peer(k)' = Peer(k) /\ mode'[k] = "failed"
               /\ \A q : Done(k, q)' = Done(k, q)
  <2> HAVE k # 0
  <2>1. leg' = leg /\ mode'[k] = "failed"
    BY <1>2, <1>3 DEF Types
  <2> QED
    BY <1>2, <1>6, <2>1 DEF Pending, Peer, Done, Passed, In
<1>10. Course'
  <2> SUFFICES ASSUME NEW j \in Ranks
               PROVE  /\ leg'[j] <= Legs(j) /\ (Pending(j)' => In(j)' /\ leg'[j] < Legs(j))
                      /\ j # 0 /\ lost'[j] => mode'[j] \in {"failed", "dead"}
    BY <1>2, <1>3 DEF Course
  <2>1. CASE j # k
    BY <1>3, <1>6, <1>7, <2>1 DEF Course
  <2>2. CASE j = k /\ k = 0
    BY <1>6, <1>8, <2>2 DEF Pending
  <2>3. CASE j = k /\ k # 0
    BY <1>3, <1>4, <1>9, <2>3 DEF Course
  <2> QED
    BY <2>1, <2>2, <2>3
<1>11. SaidGrows
  BY <1>2, <1>3, SaidSame
<1>12. \A j, q \in Ranks : <<j, q>> \in Links =>
        Base(j, q)' <= Base(j, q) /\ Out(j, q) <= Out(j, q)'
  <2> TAKE j, q \in Ranks
  <2> HAVE <<j, q>> \in Links
  <2>1. /\ Base(j, q) \in Nat /\ Out(j, q) \in Nat /\ Done(j, q) \in Nat /\ Done(j, q)' \in Nat
        /\ Base(j, q) = Done(j, q) \/ (j = 0 /\ Base(j, q) = 2 * Len(met[j]))
    BY <1>3, <1>5, <1>10, Counting, CountingNext
  <2>2. CASE j # k
    BY <1>7, <2>1, <2>2
  <2>3. CASE j = k /\ k = 0
    <3>1. Base(0, q)' = 2 * Len(met[0])
      BY <1>2, <1>6, <2>3 DEF Base
    <3>2. Done(0, q) >= 2 * Len(met[0])
      <4>1. Passed(0, q) \in 0..2 /\ Len(met[0]) \in Nat
        BY <1>3, <2>3, PassedIs
      <4> QED
        BY <4>1 DEF Done
    <3>3. Base(0, q)' <= Base(0, q)
      BY <2>1, <2>3, <3>1, <3>2
    <3>4. Out(0, q) = Done(0, q) + (IF p = q THEN 1 ELSE 0) /\ Out(0, q)' = Done(0, q)' + 0
      BY <1>1, <1>4, <1>6, <2>3 DEF Out, Pending
    <3>5. Out(0, q) <= Out(0, q)'
      BY <1>8, <2>1, <2>3, <3>4
    <3> QED
      BY <2>3, <3>3, <3>5
  <2>4. CASE j = k /\ k # 0
    <3>1. Out(k, q)' = Out(k, q)
      BY <1>4, <1>9, <2>4 DEF Out
    <3>2. Base(k, q)' = Base(k, q)
      BY <1>9, <2>4 DEF Base
    <3> QED
      BY <2>1, <2>4, <3>1, <3>2
  <2> QED
    BY <2>2, <2>3, <2>4
<1>13. Pace' /\ SlotsFine'
  BY <1>2, <1>5, <1>10, <1>11, <1>12, Quiet
<1>14. HeardFine'
  <2> SUFFICES ASSUME NEW j \in Ranks, In(j)' PROVE Whole(heard[j], Len(said[j]))'
    BY DEF HeardFine
  <2>1. In(j)
    BY <1>2 DEF In
  <2> QED
    BY <1>2, <1>5, <1>11, <2>1, HeardStays
<1> QED
  BY <1>5, <1>10, <1>13, <1>14 DEF HubInv
-----------------------------------------------------------------------------
(* The theorems *)

LEMMA InitHub == ASSUME Init PROVE HubInv
<1>1. /\ said = [k \in Ranks |-> <<>>] /\ met = [k \in Ranks |-> <<>>]
      /\ at = [k \in Ranks |-> 1]
      /\ leg = [k \in Ranks |-> 0] /\ posted = [k \in Ranks |-> FALSE]
      /\ heard = [k \in Ranks |-> Nothing] /\ lost = [k \in Ranks |-> FALSE]
      /\ ring = [l \in Links |-> [i \in 0..(Ring - 1) |-> Empty]]
      /\ aborted = [k \in Ranks |-> FALSE] /\ mode = [k \in Ranks |-> "up"]
  BY DEF Init
<1>2. Types
  <2>1. 1 \in 1..(Len(Program) + 1)
    BY HubAssumption
  <2>2. Empty \in [tails : [Sizes -> Nat], body : Bodies] /\ Nothing \in Vectors
    BY BodiesTyped DEF Empty
  <2>3. ring \in [Links -> [0..(Ring - 1) -> [tails : [Sizes -> Nat], body : Bodies]]]
    BY <1>1, <2>2
  <2>4. at \in [Ranks -> 1..(Len(Program) + 1)]
    BY <1>1, <2>1
  <2>5. said \in [Ranks -> Seq(Words)] /\ met \in [Ranks -> Seq(Vectors)]
    BY <1>1
  <2> QED
    BY <1>1, <2>2, <2>3, <2>4, <2>5 DEF Types
<1>3. \A k \in Ranks : /\ Len(said[k]) = 0 /\ Len(met[k]) = 0 /\ at[k] = 1 /\ leg[k] = 0
                       /\ ~posted[k] /\ ~lost[k] /\ ~In(k) /\ ~Pending(k)
  <2>1. \A k \in Ranks : /\ Len(said[k]) = 0 /\ Len(met[k]) = 0 /\ at[k] = 1 /\ leg[k] = 0
                         /\ ~posted[k] /\ ~lost[k]
    BY <1>1
  <2> QED
    BY <2>1 DEF In, Pending
<1>4. Course
  <2>1. \A k \in Ranks : Legs(k) \in Nat
    BY RankFacts DEF Legs
  <2> QED
    BY <1>3, <2>1 DEF Course
<1>5. Pace
  <2>1. ASSUME NEW k \in Ranks, NEW p \in Ranks PROVE Base(k, p) = 0 /\ Out(p, k) = 0
    <3>1. Done(k, p) = 0 /\ Done(p, k) = 0
      <4>1. Passed(k, p) = 0 /\ Passed(p, k) = 0
        BY <1>3 DEF Passed
      <4>2. Len(met[k]) = 0 /\ Len(met[p]) = 0
        BY <1>3
      <4> QED
        BY <4>1, <4>2 DEF Done
    <3>2. ~lost[0] /\ ~Pending(p)
      BY <1>3, RankFacts
    <3> QED
      BY <3>1, <3>2 DEF Base, Out
  <2> QED
    BY <2>1 DEF Pace
<1>6. SlotsFine
  BY <1>1 DEF SlotsFine
<1>7. HeardFine
  BY <1>3 DEF HeardFine
<1> QED
  BY <1>2, <1>4, <1>5, <1>6, <1>7 DEF HubInv

LEMMA StepHub == ASSUME HubInv, [Next]_vars PROVE HubInv'
<1>1. ASSUME NEW k \in Ranks, Come(k) \/ HubAll(k) PROVE HubInv'
  <2>1. CASE Come(k)
    BY <2>1, ComeKeeps
  <2>2. CASE Post(k)
    BY <2>2, PostKeeps
  <2>3. CASE Take(k)
    BY <2>3, TakeKeeps
  <2>4. CASE GiveUp(k)
    BY <2>4, GiveUpKeeps
  <2>5. CASE Adopt(k)
    BY <2>5, AdoptKeeps
  <2>6. CASE Reject(k)
    BY <2>6, FaultsKeep
  <2> QED
    BY <1>1, <2>1, <2>2, <2>3, <2>4, <2>5, <2>6 DEF HubAll
<1>2. ASSUME NEW k \in Ranks, Failing(k) PROVE HubInv'
  BY <1>2, FaultsKeep
<1>3. ASSUME NEW k \in Ranks, NEW p \in Ranks, FanOut(k, p) PROVE HubInv'
  BY <1>3, FaultsKeep
<1>4. ASSUME UNCHANGED vars PROVE HubInv'
  BY <1>4, RankFacts, FaultsKeep
<1> QED
  BY <1>1, <1>2, <1>3, <1>4 DEF Next

LEMMA HubInductive == Spec => []HubInv
<1>1. Init => HubInv
  BY InitHub
<1>2. HubInv /\ [Next]_vars => HubInv'
  BY StepHub
<1> QED
  BY <1>1, <1>2, PTL DEF Spec

\* With any number of ranks, any frame sizes and a ring of three slots or more, a control
\* frame (ctrl_send_slot, src/src/native/net_shim.c) lands only in a slot that is all zero,
\* also after the head gave up exchanges that its nodes complete later.
THEOREM NoClobberHolds == Spec => []NoClobber
<1>1. HubInv => NoClobber
  BY SlotFree DEF NoClobber
<1> QED
  BY <1>1, HubInductive, PTL

LEMMA StepMeets == ASSUME HubInv, [Next]_vars PROVE [Lockstep!Next]_(Lockstep!vars)
<1>1. ASSUME NEW k \in Ranks, Come(k) PROVE Lockstep!Come(k)
  <2>1. /\ ~In(k) /\ at[k] <= Len(Program) /\ met' = met
        /\ said' = [said EXCEPT ![k] = Append(@, Frame(k))]
    BY <1>1 DEF Come
  <2>2. Frame(k) \in Words
    BY <2>1, FrameType DEF HubInv
  <2>3. Len(said[k]) = Len(met[k])
    <3>1. Len(said[k]) \in Nat /\ Len(met[k]) \in Nat
      BY DEF HubInv, Types
    <3> QED
      BY <2>1, <3>1 DEF HubInv, Course, In
  <2> QED
    BY <2>1, <2>2, <2>3 DEF Lockstep!Come
<1>2. ASSUME NEW k \in Ranks, Adopt(k) PROVE Lockstep!Go(k)
  <2> DEFINE n == Len(met[k]) + 1
             words == [j \in Ranks |-> said[j][n]]
  <2>1. /\ In(k) /\ Accepts(heard[k]) /\ said' = said
        /\ met' = [met EXCEPT ![k] = Append(@, heard[k])]
    BY <1>2 DEF Adopt, Through, Good
  <2>2. Len(said[k]) = n
    <3>1. Len(said[k]) \in Nat /\ Len(met[k]) \in Nat
      BY DEF HubInv, Types
    <3> QED
      BY <2>1, <3>1 DEF HubInv, Course, In
  <2>3. Whole(heard[k], n)
    BY <2>1, <2>2 DEF HubInv, HeardFine
  <2>4. ASSUME NEW r \in Ranks PROVE Len(said[r]) >= n /\ heard[k][r] = said[r][n]
    BY <2>1, <2>3 DEF Whole, Accepts
  <2>5. heard[k] = words
    BY <2>3, <2>4 DEF Whole, Vectors
  <2> QED
    BY <2>1, <2>4, <2>5 DEF Lockstep!Go
<1>3. ASSUME NEW k \in Ranks, Post(k) \/ Take(k) \/ GiveUp(k) \/ Reject(k) \/ Failing(k)
      PROVE  UNCHANGED <<said, met>>
  BY <1>3, Zenon DEF Post, Take, GiveUp, Reject, Failing, Hang, Resume, Crash, Skip, LinkError
<1>4. ASSUME NEW k \in Ranks, NEW p \in Ranks, FanOut(k, p) PROVE UNCHANGED <<said, met>>
  BY <1>4 DEF FanOut
<1>5. ASSUME UNCHANGED vars PROVE UNCHANGED <<said, met>>
  BY <1>5 DEF vars
<1>6. ASSUME NEW k \in Ranks, Lockstep!Come(k) \/ Lockstep!Go(k) PROVE Lockstep!Next
  BY <1>6 DEF Lockstep!Next
<1> QED
  BY <1>1, <1>2, <1>3, <1>4, <1>5, <1>6 DEF Next, HubAll, Lockstep!vars

\* The hub's exchanges implement the meeting that the comment above TpSync::step_go_hub
\* (src/src/exl3_serve.rs) promises, for any number of ranks and whatever fails.
THEOREM MeetingImplemented == Spec => ImplementsMeeting
<1>1. Init => Lockstep!Init
  BY DEF Init, Lockstep!Init
<1>2. HubInv /\ [Next]_vars => [Lockstep!Next]_(Lockstep!vars)
  BY StepMeets
<1> QED
  BY <1>1, <1>2, HubInductive, PTL DEF Spec, ImplementsMeeting, Lockstep!Spec
=============================================================================
