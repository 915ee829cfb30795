-------------------------- MODULE ChatStreamProofs --------------------------
(***************************************************************************)
(* The text side of a streamed reply, for every text, every way to cut it  *)
(* into tokens, every stop string and every length.                        *)
(*                                                                         *)
(* A marker that has begun at an offset and is not yet complete there is   *)
(* Begun.  That no marker that matters has begun in what was sent          *)
(* (Unbegun, Quiet) is what holding back is for: it lets the next token be *)
(* judged from the cursor on.  Flow says what of a text was sent, however  *)
(* the model writes; from it follows that nothing is sent twice or skipped.*)
(* Modes says as what it was sent, of a reply that may still become an     *)
(* ordinary one, and Ended what its end makes of that; from them follows   *)
(* that the stream and the JSON reply say the same.                        *)
(***************************************************************************)
EXTENDS ChatStream, SequenceTheorems, WellFoundedInduction, TLAPS

-----------------------------------------------------------------------------
(* Numbers *)

\* A set of numbers has a least one.
LEMMA LeastNumber ==
    ASSUME NEW T \in SUBSET Nat, T # {}
    PROVE  \E n \in T : \A m \in T : n <= m
<1>1. PICK n \in T : \A m \in T : ~(<<m, n>> \in OpToRel(<, Nat))
  BY NatLessThanWellFounded, WFMin
<1>2. ASSUME NEW m \in T PROVE n <= m
  <2>1. m \in Nat /\ n \in Nat
    OBVIOUS
  <2>2. ~(m < n)
    BY <1>1, <2>1 DEF OpToRel
  <2> QED
    BY <2>1, <2>2
<1> QED
  BY <1>2

LEMMA MinIs ==
    ASSUME NEW T \in SUBSET Nat, T # {}
    PROVE  Min(T) \in T /\ Min(T) \in Nat /\ \A m \in T : Min(T) <= m
BY LeastNumber DEF Min

LEMMA MaxIs ==
    ASSUME NEW n \in Nat, NEW T \in SUBSET (0..n), T # {}
    PROVE  Max(T) \in T /\ Max(T) \in 0..n /\ \A m \in T : m <= Max(T)
<1> DEFINE D == {d \in Nat : \E m \in T : d = n - m}
<1>1. D \in SUBSET Nat /\ D # {}
  <2>1. PICK m \in T : m \in 0..n
    OBVIOUS
  <2>2. n - m \in D
    BY <2>1
  <2> QED
    BY <2>2
<1>2. PICK d \in D : \A e \in D : d <= e
  <2> HIDE DEF D
  <2> QED
    BY <1>1, LeastNumber
<1>3. PICK x \in T : d = n - x
  OBVIOUS
<1>4. ASSUME NEW m \in T PROVE x >= m
  <2>0. x \in 0..n /\ m \in 0..n
    OBVIOUS
  <2>1. n - m \in D
    BY <2>0
  <2>2. d <= n - m
    <3> HIDE DEF D
    <3> QED
      BY <1>2, <2>1
  <2> QED
    BY <1>3, <2>0, <2>2
<1>5. \E y \in T : \A m \in T : y >= m
  BY <1>4
<1>6. Max(T) \in T /\ \A m \in T : Max(T) >= m
  BY <1>5, Zenon DEF Max
<1> QED
  BY <1>6

LEMMA MaxOfTwo ==
    ASSUME NEW a \in Nat, NEW b \in Nat
    PROVE  Max({a, b}) = IF a <= b THEN b ELSE a
<1> DEFINE n == a + b
<1>1. {a, b} \in SUBSET (0..n) /\ n \in Nat
  OBVIOUS
<1> HIDE DEF n
<1>2. Max({a, b}) \in {a, b} /\ \A m \in {a, b} : m <= Max({a, b})
  BY <1>1, MaxIs
<1> QED
  BY <1>2

LEMMA MinOfTwo ==
    ASSUME NEW a \in Nat, NEW b \in Nat
    PROVE  Min({a, b}) = IF a <= b THEN a ELSE b
<1>1. Min({a, b}) \in {a, b} /\ \A m \in {a, b} : Min({a, b}) <= m
  BY MinIs
<1> QED
  BY <1>1

-----------------------------------------------------------------------------
(* Texts *)

Alphabet == Letters \cup {"<"} \cup Names

\* m has begun at offset j of the first n symbols of s; it may be complete there, or go on.
Begun(s, n, m, j) == \A k \in 1 .. Len(m) : j + k <= n => s[j + k] = m[k]

LEMMA NowhereIs == Nowhere \in Nat /\ MaxText \in Nat /\ MaxText < Nowhere
BY ChatStreamAssumption DEF Nowhere

\* A tag is "<" and a name.
LEMMA TagIs ==
    /\ \A m \in Tags : Len(m) = 2 /\ DOMAIN m = 1..2 /\ m[1] = "<" /\ m[2] \in Names /\ m[2] # "<"
    /\ ThinkOpen \in Tags /\ ThinkClose \in Tags /\ ToolOpen \in Tags
    /\ Len(ThinkOpen) = 2 /\ Len(ThinkClose) = 2 /\ Len(ToolOpen) = 2
    /\ ThinkOpen[2] = "think" /\ ThinkClose[2] = "/think" /\ ToolOpen[2] = "tool_call"
    /\ \A m \in Tags : m \in Seq(Alphabet)
BY DEF Tags, ThinkOpen, ThinkClose, ToolOpen, Names, Alphabet

\* A part of a text, symbol by symbol.
LEMMA PartIs ==
    ASSUME NEW S, NEW s \in Seq(S), NEW a \in 0..Len(s), NEW b \in a..Len(s)
    PROVE  /\ Part(s, a, b) \in Seq(S) /\ Len(Part(s, a, b)) = b - a
           /\ \A i \in 1..(b - a) : Part(s, a, b)[i] = s[a + i]
<1>1. Len(s) \in Nat /\ a \in Nat /\ b \in Nat /\ a <= b /\ b <= Len(s)
  BY LenProperties
<1>2. \A i \in (a + 1)..b : s[i] \in S
  BY <1>1, ElementOfSeq
<1>3. a + 1 \in Int /\ b \in Int /\ b - (a + 1) + 1 = b - a
  BY <1>1
<1>4. /\ SubSeq(s, a + 1, b) \in Seq(S)
      /\ Len(SubSeq(s, a + 1, b)) = IF a + 1 <= b THEN b - (a + 1) + 1 ELSE 0
      /\ \A i \in 1..(b - (a + 1) + 1) : SubSeq(s, a + 1, b)[i] = s[a + 1 + i - 1]
  BY <1>2, <1>3, SubSeqProperties
<1>5. Len(SubSeq(s, a + 1, b)) = b - a
  BY <1>1, <1>4
<1>6. \A i \in 1..(b - a) : a + 1 + i - 1 = a + i
  BY <1>1
<1> QED
  BY <1>3, <1>4, <1>5, <1>6 DEF Part

\* The same text symbol by symbol is the same text.
LEMMA SameText ==
    ASSUME NEW S, NEW s \in Seq(S), NEW t \in Seq(S), Len(s) = Len(t),
           \A i \in 1..Len(s) : s[i] = t[i]
    PROVE  s = t
BY SeqEqual

LEMMA AtTag ==
    ASSUME NEW s \in Seq(Alphabet), NEW m \in Tags, NEW i \in Nat
    PROVE  /\ IsAt(s, m, i) <=> i + 2 <= Len(s) /\ s[i + 1] = "<" /\ s[i + 2] = m[2]
           /\ IsAt(s, m, i) => i + 1 \in 1..Len(s) /\ i + 2 \in 1..Len(s)
           /\ ~Begun(s, Len(s), m, i) => ~IsAt(s, m, i)
<1>1. Len(s) \in Nat /\ Len(m) = 2 /\ DOMAIN m = {1, 2} /\ m[1] = "<"
  BY TagIs
<1>2. IsAt(s, m, i) <=> i + 2 <= Len(s) /\ s[i + 1] = "<" /\ s[i + 2] = m[2]
  BY <1>1 DEF IsAt
<1>3. IsAt(s, m, i) => Begun(s, Len(s), m, i)
  BY <1>1, <1>2 DEF Begun
<1> QED
  BY <1>1, <1>2, <1>3

\* Tags do not overlap, and one offset holds one tag.
LEMMA Apart ==
    ASSUME NEW s \in Seq(Alphabet), NEW m \in Tags, NEW w \in Tags, NEW i \in Nat, NEW j \in Nat,
           IsAt(s, m, i), IsAt(s, w, j)
    PROVE  i # j + 1 /\ j # i + 1 /\ (i = j => m = w)
<1>1. s[i + 1] = "<" /\ s[i + 2] = m[2] /\ s[j + 1] = "<" /\ s[j + 2] = w[2]
  BY AtTag
<1>2. m[2] # "<" /\ w[2] # "<"
  BY TagIs
<1>3. i # j + 1
  <2>1. ASSUME i = j + 1 PROVE FALSE
    <3>1. i + 1 = j + 2
      BY <2>1
    <3> QED
      BY <1>1, <1>2, <3>1
  <2> QED
    BY <2>1
<1>4. j # i + 1
  <2>1. ASSUME j = i + 1 PROVE FALSE
    <3>1. j + 1 = i + 2
      BY <2>1
    <3> QED
      BY <1>1, <1>2, <3>1
  <2> QED
    BY <2>1
<1>5. i = j => m = w
  BY <1>1 DEF Tags, ThinkOpen, ThinkClose, ToolOpen
<1> QED
  BY <1>3, <1>4, <1>5
\* The first place at or behind `from` where m stands, if there is one.
LEMMA FindIs ==
    ASSUME NEW s \in Seq(Alphabet), NEW m, NEW from \in Nat, Len(s) <= MaxText
    PROVE  /\ Find(s, m, from) \in Nat
           /\ Find(s, m, from) # Nowhere =>
                /\ Find(s, m, from) \in from..Len(s) /\ IsAt(s, m, Find(s, m, from))
           /\ \A i \in from..Len(s) : IsAt(s, m, i) => Find(s, m, from) # Nowhere /\ Find(s, m, from) <= i
           /\ Find(s, m, from) = Nowhere => Len(s) < Find(s, m, from)
<1>1. Len(s) \in Nat /\ Nowhere \in Nat /\ Len(s) < Nowhere
  BY LenProperties, NowhereIs
<1> DEFINE F == Found(s, m, from)
<1>2. F \in SUBSET Nat /\ F \subseteq from..Len(s) /\ \A i \in F : IsAt(s, m, i)
  BY <1>1 DEF Found
<1>3. CASE F = {}
  <2>1. Find(s, m, from) = Nowhere
    BY <1>3 DEF Find, LeastOf
  <2>2. \A i \in from..Len(s) : ~IsAt(s, m, i)
    BY <1>3 DEF Found
  <2> QED
    BY <1>1, <2>1, <2>2
<1>4. CASE F # {}
  <2>1. Find(s, m, from) = Min(F)
    BY <1>4 DEF Find, LeastOf
  <2>4. \A i \in from..Len(s) : IsAt(s, m, i) => i \in F
    BY DEF Found
  <2> HIDE DEF F
  <2>2. Min(F) \in F /\ \A i \in F : Min(F) <= i
    BY <1>2, <1>4, MinIs
  <2>3a. Min(F) \in from..Len(s)
    BY <1>2, <2>2
  <2>3. Min(F) \in from..Len(s) /\ Min(F) # Nowhere
    BY <1>1, <2>3a
  <2>5. \A i \in from..Len(s) : IsAt(s, m, i) => Min(F) <= i
    BY <2>2, <2>4
  <2>6. Min(F) \in Nat /\ IsAt(s, m, Min(F))
    BY <1>2, <2>2
  <2> QED
    BY <2>1, <2>3, <2>5, <2>6
<1> QED
  BY <1>3, <1>4

\* Behind the white space.
LEMMA BlanksIs ==
    ASSUME NEW s \in Seq(Alphabet), NEW i \in 0..Len(s)
    PROVE  /\ PastBlanks(s, i) \in i..Len(s)
           /\ \A k \in (i + 1)..PastBlanks(s, i) : s[k] = Blank
           /\ PastBlanks(s, i) = Len(s) \/ s[PastBlanks(s, i) + 1] # Blank
<1> DEFINE T == {j \in i..Len(s) : j = Len(s) \/ s[j + 1] # Blank}
           p == PastBlanks(s, i)
<1>1. Len(s) \in Nat /\ i \in Nat /\ i <= Len(s)
  BY LenProperties
<1>2. T \in SUBSET Nat /\ Len(s) \in T
  BY <1>1
<1>3. p \in T /\ \A j \in T : p <= j
  <2>1. p = Min(T)
    BY DEF PastBlanks
  <2> HIDE DEF T, p
  <2> QED
    BY <1>2, <2>1, MinIs
<1>4. p \in i..Len(s) /\ (p = Len(s) \/ s[p + 1] # Blank)
  BY <1>3
<1>5. ASSUME NEW k \in (i + 1)..p PROVE s[k] = Blank
  <2> HIDE DEF p
  <2>1. k - 1 \in i..Len(s) /\ ~(p <= k - 1) /\ (k - 1) + 1 = k
    BY <1>1, <1>4
  <2>2. k - 1 \notin T
    <3> HIDE DEF T
    <3> QED
      BY <1>3, <2>1
  <2> QED
    BY <2>1, <2>2
<1> QED
  BY <1>4, <1>5

\* The first n places of s and t hold the same.
Alike(s, t, n) == \A i \in 1..n : s[i] = t[i]

\* A text cut before its first stop string.
LEMMA CutIs ==
    ASSUME NEW s \in Seq(Alphabet), Len(s) <= MaxText
    PROVE  /\ Cut(s) \in Seq(Alphabet) /\ Len(Cut(s)) \in 0..Len(s) /\ Alike(Cut(s), s, Len(Cut(s)))
           /\ Len(Cut(s)) < Len(s) => req.stop # <<>> /\ IsAt(s, req.stop, Len(Cut(s)))
           /\ Len(Cut(s)) = Len(s) => Cut(s) = s
           /\ req.stop # <<>> => \A i \in 0..Len(s) : IsAt(s, req.stop, i) => Len(Cut(s)) <= i
<1>1. Len(s) \in Nat
  BY LenProperties
<1>2. CASE req.stop = <<>>
  BY <1>1, <1>2 DEF Cut, Alike
<1>3. CASE req.stop # <<>>
  <2> DEFINE f == Find(s, req.stop, 0)
             n == Min({f, Len(s)})
  <2>1. Cut(s) = Part(s, 0, n)
    BY <1>3 DEF Cut
  <2>2. /\ f \in Nat /\ Nowhere \in Nat /\ Len(s) < Nowhere
        /\ f # Nowhere => f \in 0..Len(s) /\ IsAt(s, req.stop, f)
        /\ \A i \in 0..Len(s) : IsAt(s, req.stop, i) => f # Nowhere /\ f <= i
        /\ f = Nowhere => Len(s) < f
    BY <1>1, FindIs, NowhereIs
  <2> HIDE DEF f
  <2>3. n = IF f <= Len(s) THEN f ELSE Len(s)
    BY <1>1, <2>2, MinOfTwo
  <2>4. n \in 0..Len(s)
    BY <1>1, <2>2, <2>3
  <2> HIDE DEF n
  <2>5. /\ Cut(s) \in Seq(Alphabet) /\ Len(Cut(s)) = n - 0
        /\ \A i \in 1..(n - 0) : Cut(s)[i] = s[0 + i]
    <3>1. 0 \in 0..Len(s) /\ n \in 0..Len(s)
      BY <1>1, <2>4
    <3> QED
      BY <2>1, <3>1, PartIs
  <2>6. Len(Cut(s)) = n /\ \A i \in 1..n : Cut(s)[i] = s[i]
    BY <1>1, <2>4, <2>5
  <2>7. n = Len(s) => Cut(s) = s
    BY <2>5, <2>6, SameText
  <2>8. n < Len(s) => IsAt(s, req.stop, n)
    BY <1>1, <2>2, <2>3
  <2>9. \A i \in 0..Len(s) : IsAt(s, req.stop, i) => n <= i
    BY <1>1, <2>2, <2>3
  <2> QED
    BY <1>3, <2>4, <2>5, <2>6, <2>7, <2>8, <2>9 DEF Alike
<1> QED
  BY <1>2, <1>3
\* How much of m the end of s may be.
LEMMA OverlapIs ==
    ASSUME NEW S, NEW s \in Seq(S), NEW m, Len(m) \in Nat
    PROVE  /\ Overlap(s, m) \in 0..Len(s)
           /\ \A k \in 1..(Len(m) - 1) :
                k <= Len(s) /\ (\A j \in 1..k : s[Len(s) - k + j] = m[j]) => k <= Overlap(s, m)
           /\ Overlap(s, m) # 0 => /\ Overlap(s, m) < Len(m)
                                   /\ \A j \in 1..Overlap(s, m) : s[Len(s) - Overlap(s, m) + j] = m[j]
<1> DEFINE n == Len(s)
           fits(k) == k <= Len(s) /\ \A j \in 1..k : s[Len(s) - k + j] = m[j]
           T == {0} \cup {k \in 1..(Len(m) - 1) : fits(k)}
           o == Overlap(s, m)
<1>1. n \in Nat
  BY LenProperties
<1>2. o = Max(T)
  BY DEF Overlap
<1>3. T \in SUBSET (0..n) /\ T # {}
  BY <1>1
<1>4. o \in T /\ o \in 0..n /\ \A k \in T : k <= o
  <2> HIDE DEF T, o, n
  <2> QED
    BY <1>1, <1>2, <1>3, MaxIs
<1>5. \A k \in 1..(Len(m) - 1) : fits(k) => k \in T
  OBVIOUS
<1>6. o # 0 => o < Len(m) /\ fits(o)
  <2> HIDE DEF fits, o
  <2> QED
    BY <1>4
<1> QED
  BY <1>4, <1>5, <1>6

\* What holding back does: up to the tool marker if there is one, else no marker that has
\* begun and is not yet complete is sent.
LEMMA HoldIs ==
    ASSUME NEW s \in Seq(Alphabet), NEW from \in 0..Len(s), NEW limit \in from..Len(s), NEW hit,
           NEW marks, \A m \in marks : Len(m) \in Nat
    PROVE  LET h == HoldBackEnd(hit, limit, Part(s, from, limit), marks) IN
           /\ req.tools /\ hit # Nowhere => h = hit
           /\ ~(req.tools /\ hit # Nowhere) =>
                /\ h \in from..limit
                /\ \A m \in marks \cup (IF req.tools THEN {ToolOpen} ELSE {}) :
                     \A j \in from..(h - 1) : limit < j + Len(m) => ~Begun(s, limit, m, j)
<1> DEFINE r == Part(s, from, limit)
           M == marks \cup (IF req.tools THEN {ToolOpen} ELSE {})
           T == {0} \cup {Overlap(r, m) : m \in M}
           h == HoldBackEnd(hit, limit, r, marks)
<1>1. Len(s) \in Nat /\ from \in Nat /\ limit \in Nat /\ from <= limit /\ limit <= Len(s)
  BY LenProperties
<1>2. /\ r \in Seq(Alphabet) /\ Len(r) = limit - from
      /\ \A i \in 1..(limit - from) : r[i] = s[from + i]
  BY PartIs
<1>3. \A m \in M : Len(m) \in Nat
  BY TagIs
<1> SUFFICES ASSUME ~(req.tools /\ hit # Nowhere)
             PROVE  /\ h \in from..limit
                    /\ \A m \in M : \A j \in from..(h - 1) : limit < j + Len(m) => ~Begun(s, limit, m, j)
  BY DEF HoldBackEnd
<1>4. h = limit - Max(T)
  BY DEF HoldBackEnd
<1> HIDE DEF h, r, M
<1>5. T \in SUBSET (0..(limit - from)) /\ T # {} /\ limit - from \in Nat
  BY <1>1, <1>2, <1>3, OverlapIs
<1>6. Max(T) \in 0..(limit - from) /\ \A k \in T : k <= Max(T)
  <2> HIDE DEF T
  <2> QED
    BY <1>5, MaxIs
<1>7. \A m \in M : Overlap(r, m) <= Max(T)
  BY <1>6
<1> DEFINE top == Max(T)
<1> HIDE DEF T, top
<1>8. h \in from..limit /\ h = limit - top /\ top \in 0..(limit - from)
  BY <1>1, <1>4, <1>6 DEF top
<1>9. ASSUME NEW m \in M, NEW j \in from..(h - 1), limit < j + Len(m), Begun(s, limit, m, j)
      PROVE  FALSE
  <2> DEFINE k == limit - j
  <2>1. Len(m) \in Nat /\ j \in Nat /\ k \in 1..(Len(m) - 1) /\ k <= Len(r) /\ top < k
    BY <1>1, <1>2, <1>3, <1>8, <1>9
  <2>2. ASSUME NEW i \in 1..k PROVE r[Len(r) - k + i] = m[i]
    <3>1. Len(r) - k + i = (j - from) + i /\ (j - from) + i \in 1..(limit - from) /\ from + ((j - from) + i) = j + i
      BY <1>1, <1>2, <1>8
    <3>2. i \in 1..Len(m) /\ j + i <= limit
      BY <1>1, <2>1
    <3>3. s[j + i] = m[i]
      BY <1>9, <3>2 DEF Begun
    <3> QED
      BY <1>2, <3>1, <3>3
  <2> HIDE DEF k
  <2>3. k <= Overlap(r, m)
    BY <1>2, <2>1, <2>2, OverlapIs
  <2>4. Overlap(r, m) \in Nat
    <3>1. Overlap(r, m) \in 0..Len(r)
      BY <1>2, <2>1, OverlapIs
    <3> QED
      BY <3>1
  <2> QED
    BY <1>7, <1>8, <2>1, <2>3, <2>4 DEF top
<1> QED
  BY <1>8, <1>9

Kinds == {"held", "reasoning", "content", "again"}

\* What is sent of what was held leaves as its kind; nothing else changes.
LEMMA SentIs ==
    ASSUME NEW was \in Seq(Kinds), NEW kind \in Kinds, NEW from \in Nat, NEW to \in Nat,
           \A i \in 1..Len(was) : from < i => was[i] = "held"
    PROVE  LET now == Sent(was, kind, from, to) IN
           /\ now \in Seq(Kinds) /\ Len(now) = Len(was)
           /\ \A i \in 1..Len(was) : now[i] = IF from < i /\ i <= to THEN kind ELSE was[i]
<1> DEFINE now == Sent(was, kind, from, to)
<1>1. Len(was) \in Nat /\ \A i \in 1..Len(was) : was[i] \in Kinds
  BY LenProperties, ElementOfSeq
<1>2. \A i \in 1..Len(was) : i \in from + 1 .. to <=> from < i /\ i <= to
  BY <1>1
<1>3. now = [i \in 1..Len(was) |-> IF i \notin from + 1 .. to THEN was[i]
                                  ELSE IF was[i] = "held" THEN kind ELSE "again"]
  BY DEF Sent
<1> HIDE DEF now
<1>4. \A i \in 1..Len(was) : now[i] = IF from < i /\ i <= to THEN kind ELSE was[i]
  BY <1>2, <1>3
<1>5. \A i \in 1..Len(was) : now[i] \in Kinds
  BY <1>1, <1>4
<1>6. now \in Seq(Kinds) /\ Len(now) = Len(was)
  BY <1>1, <1>3, <1>5
<1> QED
  BY <1>4, <1>6 DEF now
-----------------------------------------------------------------------------
(* What one token does *)

\* t goes on where s ends.
Extends(t, s) == Len(s) <= Len(t) /\ Alike(s, t, Len(s))

LEMMA ExtendsAt ==
    ASSUME NEW s \in Seq(Alphabet), NEW t \in Seq(Alphabet), Extends(t, s),
           NEW m, Len(m) \in Nat, DOMAIN m = 1..Len(m), NEW i \in Nat
    PROVE  /\ IsAt(s, m, i) => IsAt(t, m, i)
           /\ i + Len(m) <= Len(s) /\ IsAt(t, m, i) => IsAt(s, m, i)
           /\ Begun(t, Len(t), m, i) => Begun(s, Len(s), m, i)
           /\ IsAt(t, m, i) => Begun(s, Len(s), m, i) /\ Begun(t, Len(t), m, i)
           /\ i + Len(m) <= Len(t) /\ Begun(t, Len(t), m, i) => IsAt(t, m, i)
<1>1. Len(s) \in Nat /\ Len(t) \in Nat /\ Len(s) <= Len(t) /\ \A k \in 1..Len(s) : s[k] = t[k]
  BY LenProperties DEF Extends, Alike
<1>2. \A k \in 1..Len(m) : i + k <= Len(s) => i + k \in 1..Len(s)
  BY <1>1
<1>3. \A k \in 1..Len(m) : i + k <= i + Len(m)
  OBVIOUS
<1>4. IsAt(s, m, i) => i + Len(m) <= Len(t) /\ \A k \in 1..Len(m) : i + k <= Len(s)
  BY <1>1, <1>3 DEF IsAt
<1>5. i + Len(m) <= Len(s) => \A k \in 1..Len(m) : i + k <= Len(s)
  BY <1>1, <1>3
<1>6. \A k \in 1..Len(m) : i + k <= Len(s) => i + k <= Len(t)
  BY <1>1
<1>7. i + Len(m) <= Len(t) => \A k \in 1..Len(m) : i + k <= Len(t)
  BY <1>1, <1>3
<1>8. IsAt(s, m, i) => IsAt(t, m, i)
  BY <1>1, <1>2, <1>4 DEF IsAt
<1>9. i + Len(m) <= Len(s) /\ IsAt(t, m, i) => IsAt(s, m, i)
  BY <1>1, <1>2, <1>5 DEF IsAt
<1>10. Begun(t, Len(t), m, i) => Begun(s, Len(s), m, i)
  BY <1>1, <1>2, <1>6 DEF Begun
<1>11. IsAt(t, m, i) => Begun(t, Len(t), m, i)
  BY DEF IsAt, Begun
<1>12. i + Len(m) <= Len(t) /\ Begun(t, Len(t), m, i) => IsAt(t, m, i)
  BY <1>7 DEF IsAt, Begun
<1> QED
  BY <1>8, <1>9, <1>10, <1>11, <1>12

LEMMA ExtendsTag ==
    ASSUME NEW s \in Seq(Alphabet), NEW t \in Seq(Alphabet), Extends(t, s), NEW m \in Tags, NEW i \in Nat
    PROVE  /\ IsAt(s, m, i) => IsAt(t, m, i)
           /\ i + 2 <= Len(s) /\ IsAt(t, m, i) => IsAt(s, m, i)
           /\ Begun(t, Len(t), m, i) => Begun(s, Len(s), m, i)
           /\ IsAt(t, m, i) => Begun(s, Len(s), m, i) /\ Begun(t, Len(t), m, i)
           /\ i + 2 <= Len(t) /\ Begun(t, Len(t), m, i) => IsAt(t, m, i)
<1>1. Len(m) = 2 /\ DOMAIN m = 1..2 /\ Len(m) \in Nat
  BY TagIs
<1> QED
  BY <1>1, ExtendsAt

LEMMA ExtendsSelf ==
    ASSUME NEW s \in Seq(Alphabet)
    PROVE  Extends(s, s)
BY LenProperties DEF Extends, Alike

\* No m has begun in b from `from` to `to`.
Unbegun(b, m, from, to) == \A j \in from..(to - 1) : ~Begun(b, Len(b), m, j)

\* The stop string has not begun there, unless a tool marker stands at it or behind it.
StopUnbegun(b, from, to) ==
  \A m \in StopMark : \A j \in from..(to - 1) :
    Begun(b, Len(b), m, j) => req.tools /\ \E i \in j..Len(b) : IsAt(b, ToolOpen, i)

\* b[from .. end) is what holding back lets go, of a text that is looked at from `from` on.
LetGo(b, from, end, marks) ==
  LET hit == Find(b, ToolOpen, from) IN
  /\ end \in from..Len(b)
  /\ req.tools /\ hit # Nowhere => end = hit
  /\ ~(req.tools /\ hit # Nowhere) =>
       \A m \in marks \cup (IF req.tools THEN {ToolOpen} ELSE {}) :
         \A j \in from..(end - 1) : Len(b) < j + Len(m) => ~Begun(b, Len(b), m, j)

LEMMA LetIs ==
    ASSUME NEW b \in Seq(Alphabet), Len(b) <= MaxText, NEW from \in 0..Len(b), NEW marks,
           \A m \in marks : Len(m) \in Nat
    PROVE  LetGo(b, from, HoldBackEnd(Find(b, ToolOpen, from), Len(b), From(b, from), marks), marks)
<1> DEFINE hit == Find(b, ToolOpen, from)
           h == HoldBackEnd(hit, Len(b), From(b, from), marks)
<1>1. Len(b) \in from..Len(b) /\ from \in Nat
  BY LenProperties
<1>2. hit # Nowhere => hit \in from..Len(b)
  BY <1>1, FindIs
<1>3. From(b, from) = Part(b, from, Len(b))
  BY DEF From
<1> HIDE DEF hit
<1>4. /\ req.tools /\ hit # Nowhere => h = hit
      /\ ~(req.tools /\ hit # Nowhere) =>
           /\ h \in from..Len(b)
           /\ \A m \in marks \cup (IF req.tools THEN {ToolOpen} ELSE {}) :
                \A j \in from..(h - 1) : Len(b) < j + Len(m) => ~Begun(b, Len(b), m, j)
  BY <1>1, <1>3, HoldIs
<1> HIDE DEF h
<1>5. h \in from..Len(b)
  BY <1>2, <1>4
<1> QED
  BY <1>4, <1>5 DEF LetGo, hit, h

\* What was let go holds no tool marker, and no stop string but before one.
LEMMA LetClean ==
    ASSUME NEW b \in Seq(Alphabet), Len(b) <= MaxText, NEW from \in 0..Len(b), NEW end, NEW marks,
           LetGo(b, from, end, marks), StopMark \subseteq marks,
           \A m \in StopMark : Len(m) \in Nat /\ DOMAIN m = 1..Len(m)
    PROVE  /\ end \in from..Len(b)
           /\ req.tools => Unbegun(b, ToolOpen, from, end)
           /\ ThinkOpen \in marks =>
                \/ Unbegun(b, ThinkOpen, from, end)
                \/ \E i \in from..(end - 1) : IsAt(b, ThinkOpen, i)
           /\ (\A m \in StopMark : \A i \in from..(end - 1) : ~IsAt(b, m, i)) => StopUnbegun(b, from, end)
<1> DEFINE hit == Find(b, ToolOpen, from)
<1>1. Len(b) \in Nat /\ from \in Nat /\ end \in from..Len(b) /\ end \in Nat /\ end <= Len(b) /\ Extends(b, b)
  BY LenProperties, ExtendsSelf DEF LetGo
<1>2. /\ hit # Nowhere => hit \in from..Len(b) /\ IsAt(b, ToolOpen, hit)
      /\ \A i \in from..Len(b) : IsAt(b, ToolOpen, i) => hit # Nowhere /\ hit <= i
      /\ hit \in Nat
  BY <1>1, FindIs
<1>3. /\ req.tools /\ hit # Nowhere => end = hit
      /\ ~(req.tools /\ hit # Nowhere) =>
           \A m \in marks \cup (IF req.tools THEN {ToolOpen} ELSE {}) :
             \A j \in from..(end - 1) : Len(b) < j + Len(m) => ~Begun(b, Len(b), m, j)
  BY DEF LetGo
<1> HIDE DEF hit
<1>4. \A j \in from..(end - 1) : j \in Nat /\ j \in from..Len(b) /\ j < end
  BY <1>1
<1>5. hit # Nowhere => hit + 2 <= Len(b)
  BY <1>2, AtTag, TagIs
<1>6. ASSUME NEW m \in {ThinkOpen, ToolOpen}, NEW j \in from..(end - 1), Begun(b, Len(b), m, j), req.tools, hit # Nowhere
      PROVE  IsAt(b, m, j)
  <2>1. j + 2 <= Len(b)
    BY <1>1, <1>2, <1>3, <1>4, <1>5, <1>6
  <2> QED
    BY <1>1, <1>4, <1>6, <2>1, ExtendsTag, TagIs
<1>7. ASSUME NEW m \in {ThinkOpen, ToolOpen}, m \in marks \/ (req.tools /\ m = ToolOpen),
             NEW j \in from..(end - 1), Begun(b, Len(b), m, j), ~(req.tools /\ hit # Nowhere)
      PROVE  IsAt(b, m, j)
  <2>1. m \in marks \cup (IF req.tools THEN {ToolOpen} ELSE {}) /\ Len(m) = 2 /\ m \in Tags
    BY <1>7, TagIs
  <2>2. ~(Len(b) < j + 2)
    BY <1>3, <1>7, <2>1
  <2>3. j + 2 <= Len(b)
    BY <1>1, <1>4, <2>2
  <2> QED
    BY <1>1, <1>4, <1>7, <2>1, <2>3, ExtendsTag
<1>8. req.tools => Unbegun(b, ToolOpen, from, end)
  <2> SUFFICES ASSUME req.tools, NEW j \in from..(end - 1), Begun(b, Len(b), ToolOpen, j) PROVE FALSE
    BY DEF Unbegun
  <2>1. IsAt(b, ToolOpen, j)
    BY <1>6, <1>7
  <2>2. hit # Nowhere /\ hit <= j
    BY <1>2, <1>4, <2>1
  <2> QED
    BY <1>1, <1>2, <1>3, <1>4, <2>2
<1>9. ThinkOpen \in marks =>
        \/ Unbegun(b, ThinkOpen, from, end)
        \/ \E i \in from..(end - 1) : IsAt(b, ThinkOpen, i)
  <2> SUFFICES ASSUME ThinkOpen \in marks, NEW j \in from..(end - 1), Begun(b, Len(b), ThinkOpen, j)
               PROVE  IsAt(b, ThinkOpen, j)
    BY DEF Unbegun
  <2>1. CASE req.tools /\ hit # Nowhere
    BY <1>6, <2>1
  <2>2. CASE ~(req.tools /\ hit # Nowhere)
    <3>1. ThinkOpen \in {ThinkOpen, ToolOpen} /\ (ThinkOpen \in marks \/ (req.tools /\ ThinkOpen = ToolOpen))
      OBVIOUS
    <3> QED
      BY <1>7, <2>2, <3>1
  <2> QED
    BY <2>1, <2>2
<1>10. ASSUME \A m \in StopMark : \A i \in from..(end - 1) : ~IsAt(b, m, i)
       PROVE  StopUnbegun(b, from, end)
  <2> SUFFICES ASSUME NEW m \in StopMark, NEW j \in from..(end - 1), Begun(b, Len(b), m, j)
               PROVE  req.tools /\ \E i \in j..Len(b) : IsAt(b, ToolOpen, i)
    BY DEF StopUnbegun
  <2>1. CASE req.tools /\ hit # Nowhere
    <3>1. hit \in j..Len(b)
      BY <1>1, <1>2, <1>3, <1>4, <2>1
    <3> QED
      BY <1>2, <2>1, <3>1
  <2>2. CASE ~(req.tools /\ hit # Nowhere)
    <3>1. ~(Len(b) < j + Len(m))
      BY <1>3, <2>2
    <3>2. Len(m) \in Nat /\ DOMAIN m = 1..Len(m)
      OBVIOUS
    <3>3. j + Len(m) <= Len(b)
      BY <1>1, <1>4, <3>1, <3>2
    <3>4. IsAt(b, m, j)
      BY <1>1, <1>4, <3>2, <3>3, ExtendsAt
    <3> QED
      BY <1>10, <3>4
  <2> QED
    BY <2>1, <2>2
<1> QED
  BY <1>1, <1>8, <1>9, <1>10
\* In reasoning what may begin a close tag is held back too, and the rest is as in content.
LEMMA LetThinking ==
    ASSUME NEW b \in Seq(Alphabet), Len(b) <= MaxText, NEW from \in 0..Len(b),
           Find(b, ThinkClose, from) = Nowhere, \A m \in StopMark : Len(m) \in Nat
    PROVE  LET safe == Max({Len(b) - Overlap(b, ThinkClose), from})
               end == HoldBackEnd(Find(Part(b, 0, safe), ToolOpen, from), safe, Part(b, from, safe), StopMark)
           IN LetGo(b, from, end, StopMark) /\ Unbegun(b, ThinkClose, from, end)
<1> DEFINE o == Overlap(b, ThinkClose)
           safe == Max({Len(b) - o, from})
           p == Part(b, 0, safe)
           f == Find(p, ToolOpen, from)
           hit == Find(b, ToolOpen, from)
           end == HoldBackEnd(f, safe, Part(b, from, safe), StopMark)
<1>1. Len(b) \in Nat /\ from \in Nat /\ from <= Len(b) /\ Extends(b, b)
  BY LenProperties, ExtendsSelf
<1>2. o \in Nat /\ o <= Len(b) /\ o <= 1 /\ (o = 1 => b[Len(b)] = "<") /\ (b # <<>> /\ b[Len(b)] = "<" => o = 1)
  <2>1. /\ Overlap(b, ThinkClose) \in 0..Len(b)
        /\ \A k \in 1..(Len(ThinkClose) - 1) :
             k <= Len(b) /\ (\A j \in 1..k : b[Len(b) - k + j] = ThinkClose[j]) => k <= Overlap(b, ThinkClose)
        /\ Overlap(b, ThinkClose) # 0 =>
             /\ Overlap(b, ThinkClose) < Len(ThinkClose)
             /\ \A j \in 1..Overlap(b, ThinkClose) : b[Len(b) - Overlap(b, ThinkClose) + j] = ThinkClose[j]
    <3>1. Len(ThinkClose) \in Nat
      BY TagIs
    <3> QED
      BY <3>1, OverlapIs
  <2> HIDE DEF o
  <2>2. o \in 0..Len(b) /\ Len(ThinkClose) = 2 /\ ThinkClose[1] = "<" /\ (o # 0 => o < 2)
    BY <2>1, TagIs DEF o
  <2>3. o = 1 => b[Len(b)] = "<"
    <3> SUFFICES ASSUME o = 1 PROVE b[Len(b)] = "<"
      OBVIOUS
    <3>1. b[Len(b) - 1 + 1] = ThinkClose[1]
      BY <2>1 DEF o
    <3>2. Len(b) - 1 + 1 = Len(b)
      BY <1>1
    <3> QED
      BY <2>2, <3>1, <3>2
  <2>4. b # <<>> /\ b[Len(b)] = "<" => o = 1
    <3> SUFFICES ASSUME b # <<>>, b[Len(b)] = "<" PROVE o = 1
      OBVIOUS
    <3>1. Len(b) # 0 /\ 1 <= Len(b) /\ Len(b) - 1 + 1 = Len(b)
      <4>1. Len(b) # 0
        BY EmptySeq
      <4> QED
        BY <1>1, <4>1
    <3>2. \A j \in 1..1 : b[Len(b) - 1 + j] = ThinkClose[j]
      <4>1. \A j \in 1..1 : j = 1
        OBVIOUS
      <4> QED
        BY <2>2, <3>1, <4>1
    <3>3. 1 <= o
      <4>1. 1 \in 1..(Len(ThinkClose) - 1)
        BY <2>2
      <4> QED
        BY <2>1, <3>1, <3>2, <4>1 DEF o
    <3> QED
      BY <1>1, <2>2, <3>3
  <2> QED
    BY <1>1, <2>2, <2>3, <2>4
<1> HIDE DEF o
<1>3. safe \in from..Len(b) /\ Len(b) - o <= safe /\ safe = IF Len(b) - o <= from THEN from ELSE Len(b) - o
  <2>1. Len(b) - o \in Nat
    BY <1>1, <1>2
  <2>2. safe = IF Len(b) - o <= from THEN from ELSE Len(b) - o
    BY <1>1, <2>1, MaxOfTwo
  <2> QED
    BY <1>1, <1>2, <2>2
<1> HIDE DEF safe
<1>4. safe \in Nat /\ safe \in 0..Len(b) /\ safe <= Len(b) /\ from <= safe
  BY <1>1, <1>3
<1>5. p \in Seq(Alphabet) /\ Len(p) = safe /\ \A i \in 1..safe : p[i] = b[i]
  <2>1. /\ p \in Seq(Alphabet) /\ Len(p) = safe - 0
        /\ \A i \in 1..(safe - 0) : p[i] = b[0 + i]
    <3>1. 0 \in 0..Len(b)
      BY <1>1
    <3> QED
      BY <1>4, <3>1, PartIs
  <2> QED
    BY <1>4, <2>1
<1> HIDE DEF p
<1>6. Extends(b, p) /\ Len(p) <= MaxText
  BY <1>1, <1>4, <1>5, ChatStreamAssumption DEF Extends, Alike
<1>7. \A i \in from..Len(b) : IsAt(b, ToolOpen, i) => i \in from..Len(p) /\ IsAt(p, ToolOpen, i)
  <2> SUFFICES ASSUME NEW i \in from..Len(b), IsAt(b, ToolOpen, i)
               PROVE  i \in from..Len(p) /\ IsAt(p, ToolOpen, i)
    OBVIOUS
  <2>1. i \in Nat /\ from <= i
    BY <1>1
  <2>2. i + 2 <= Len(b) /\ b[i + 2] # "<"
    <3>1. i + 2 <= Len(b) /\ b[i + 2] = ToolOpen[2]
      BY <2>1, AtTag, TagIs
    <3> QED
      BY <3>1, TagIs
  <2>3. i + 2 <= safe
    <3>1. o = 1 => i + 2 # Len(b)
      BY <1>2, <2>2
    <3> QED
      BY <1>1, <1>2, <1>3, <2>1, <2>2, <3>1
  <2>4. IsAt(p, ToolOpen, i)
    BY <1>5, <1>6, <2>1, <2>3, ExtendsTag, TagIs
  <2> QED
    BY <1>1, <1>4, <1>5, <2>1, <2>3, <2>4
<1>8. f = hit
  <2>1. /\ f \in Nat
        /\ f # Nowhere => f \in from..Len(p) /\ IsAt(p, ToolOpen, f)
        /\ \A i \in from..Len(p) : IsAt(p, ToolOpen, i) => f # Nowhere /\ f <= i
    BY <1>1, <1>5, <1>6, FindIs
  <2>2. /\ hit \in Nat
        /\ hit # Nowhere => hit \in from..Len(b) /\ IsAt(b, ToolOpen, hit)
        /\ \A i \in from..Len(b) : IsAt(b, ToolOpen, i) => hit # Nowhere /\ hit <= i
    BY <1>1, FindIs
  <2> HIDE DEF f, hit
  <2>3. hit # Nowhere => f # Nowhere /\ f <= hit
    BY <1>7, <2>1, <2>2
  <2>4. f # Nowhere => hit # Nowhere /\ hit <= f
    <3> SUFFICES ASSUME f # Nowhere PROVE hit # Nowhere /\ hit <= f
      OBVIOUS
    <3>1. f \in from..Len(b)
      BY <1>1, <1>4, <1>5, <2>1
    <3>2. IsAt(b, ToolOpen, f)
      BY <1>5, <1>6, <2>1, ExtendsTag, TagIs
    <3> QED
      BY <2>2, <3>1, <3>2
  <2> QED
    BY <2>1, <2>2, <2>3, <2>4
<1> DEFINE M == StopMark \cup (IF req.tools THEN {ToolOpen} ELSE {})
<1>9. hit # Nowhere => hit \in from..Len(b) /\ hit \in from..safe
  <2> SUFFICES ASSUME hit # Nowhere PROVE hit \in from..Len(b) /\ hit \in from..safe
    OBVIOUS
  <2>1. hit \in from..Len(b) /\ IsAt(b, ToolOpen, hit)
    BY <1>1, FindIs
  <2>2. hit \in from..Len(p)
    BY <1>7, <2>1
  <2> QED
    BY <1>5, <2>1, <2>2
<1>10. /\ req.tools /\ hit # Nowhere => end = hit
       /\ ~(req.tools /\ hit # Nowhere) =>
            /\ end \in from..safe
            /\ \A m \in M : \A j \in from..(end - 1) : safe < j + Len(m) => ~Begun(b, safe, m, j)
  BY <1>3, <1>8, HoldIs
<1> HIDE DEF hit, end
<1>11. end \in from..safe
  BY <1>9, <1>10
<1>12. ASSUME ~(req.tools /\ hit # Nowhere), NEW m \in M, NEW j \in from..(end - 1), Len(b) < j + Len(m)
       PROVE  ~Begun(b, Len(b), m, j)
  <2>1. j \in Nat /\ Len(m) \in Nat
    BY <1>1, TagIs
  <2>2. safe < j + Len(m)
    BY <1>1, <1>4, <1>12, <2>1
  <2>3. ~Begun(b, safe, m, j)
    BY <1>10, <1>12, <2>2
  <2>4. \A k \in 1..Len(m) : j + k <= safe => j + k <= Len(b)
    BY <1>1, <1>4, <2>1
  <2> QED
    BY <2>3, <2>4 DEF Begun
<1>13. end \in from..Len(b)
  BY <1>1, <1>4, <1>11
<1>14. LetGo(b, from, end, StopMark)
  BY <1>10, <1>12, <1>13 DEF LetGo, hit
<1>15. Unbegun(b, ThinkClose, from, end)
  <2> SUFFICES ASSUME NEW j \in from..(end - 1), Begun(b, Len(b), ThinkClose, j) PROVE FALSE
    BY DEF Unbegun
  <2>1. j \in Nat /\ from <= j /\ end \in Nat /\ j < end /\ end <= safe /\ j \in from..Len(b)
    BY <1>1, <1>4, <1>11
  <2>2. ~IsAt(b, ThinkClose, j)
    BY <1>1, <2>1, FindIs
  <2>3. ~(j + 2 <= Len(b))
    BY <1>1, <2>1, <2>2, ExtendsTag, TagIs
  <2>4. j + 1 = Len(b)
    BY <1>1, <1>4, <2>1, <2>3
  <2>5. b[Len(b)] = "<"
    <3>1. 1 \in 1..Len(ThinkClose) /\ ThinkClose[1] = "<" /\ j + 1 <= Len(b)
      BY <1>1, <2>4, TagIs
    <3> QED
      BY <2>4, <3>1 DEF Begun
  <2>6. b # <<>>
    BY <2>1, <2>4, EmptySeq
  <2>7. o = 1
    BY <1>2, <2>5, <2>6
  <2> QED
    BY <1>1, <1>3, <2>1, <2>4, <2>7
<1> QED
  BY <1>14, <1>15 DEF end, f, p, safe, o
\* Types of the stream's state.
Types ==
  /\ req \in Requests
  /\ text \in Seq(Alphabet) /\ Len(text) <= MaxText
  /\ said \in Seq(Kinds) /\ Len(said) = Len(text)
  /\ start \in (0..MaxText) \cup {Nowhere}
  /\ reasonEmitted \in 0..MaxText /\ contentEmitted \in 0..MaxText
  /\ calls \subseteq 0..MaxText
  /\ pc \in {"stream", "cut", "done", "failed"}

\* The text before the first m.
CutAt(s, m) == IF m = <<>> THEN s ELSE Part(s, 0, Min({Find(s, m, 0), Len(s)}))

LEMMA CutAtIs == \A s : Cut(s) = CutAt(s, req.stop)
BY DEF Cut, CutAt

\* The buffer is the text before its first stop string, and all of it while the stream runs.
Buffered == acc = CutAt(text, req.stop) /\ (pc = "stream" => acc = text)

LEMMA StopIs ==
    ASSUME req \in Requests
    PROVE  /\ \A m \in StopMark : m = req.stop /\ m # <<>> /\ Len(m) \in Nat /\ 1 <= Len(m) /\ DOMAIN m = 1..Len(m)
           /\ StopMark \subseteq ContentMarks /\ ThinkOpen \in ContentMarks
           /\ \A m \in ContentMarks : Len(m) \in Nat
           /\ req.stop # <<>> => req.stop \in StopMark
           /\ req.thinks \in BOOLEAN /\ req.opened \in BOOLEAN /\ req.tools \in BOOLEAN
           /\ req.opened => req.thinks
<1>1. /\ req.stop \in Seq(Letters \cup {"<"} \cup Names)
      /\ req.thinks \in BOOLEAN /\ req.opened \in BOOLEAN /\ req.tools \in BOOLEAN
      /\ req.opened => req.thinks
  BY ChatStreamAssumption
<1>2. Len(req.stop) \in Nat /\ DOMAIN req.stop = 1..Len(req.stop) /\ (req.stop # <<>> => Len(req.stop) # 0)
  BY <1>1, LenProperties, EmptySeq
<1> QED
  BY <1>1, <1>2, TagIs DEF StopMark, ContentMarks

LEMMA FoundIs ==
    ASSUME NEW b \in Seq(Alphabet), Len(b) <= MaxText, NEW m \in Tags, NEW from \in Nat
    PROVE  /\ Find(b, m, from) \in Nat
           /\ Find(b, m, from) # Nowhere =>
                /\ Find(b, m, from) \in from..Len(b) /\ IsAt(b, m, Find(b, m, from))
                /\ Find(b, m, from) + 2 <= Len(b)
           /\ \A i \in Nat : from <= i /\ IsAt(b, m, i) => Find(b, m, from) # Nowhere /\ Find(b, m, from) <= i
           /\ \A i \in Nat : IsAt(b, m, i) => i + 2 <= Len(b)
<1>1. Len(b) \in Nat
  BY LenProperties
<1>2. \A i \in Nat : IsAt(b, m, i) => i + 2 <= Len(b)
  BY AtTag
<1>3. \A i \in Nat : from <= i /\ IsAt(b, m, i) => i \in from..Len(b)
  BY <1>1, <1>2
<1>4. /\ Find(b, m, from) \in Nat
      /\ Find(b, m, from) # Nowhere =>
           /\ Find(b, m, from) \in from..Len(b) /\ IsAt(b, m, Find(b, m, from))
      /\ \A i \in from..Len(b) : IsAt(b, m, i) => Find(b, m, from) # Nowhere /\ Find(b, m, from) <= i
  BY FindIs
<1> QED
  BY <1>2, <1>3, <1>4

LEMMA EndsEffect ==
    ASSUME Types, NEW b \in Seq(Alphabet), Len(b) <= MaxText, NEW w, EndsThinking(b, w), reasonEmitted \in 0..Len(b)
    PROVE  \E idx \in reasonEmitted..Len(b), lead \in 0..Len(b), end \in 0..Len(b) :
             /\ start = Nowhere /\ start' = lead /\ contentEmitted' = end /\ reasonEmitted' = reasonEmitted
             /\ said' = Sent(Sent(w, "reasoning", reasonEmitted, idx), "content", lead, end)
             /\ idx = Find(b, ThinkClose, reasonEmitted) /\ IsAt(b, ThinkClose, idx)
             /\ idx + 2 <= lead /\ lead <= end /\ lead = PastBlanks(b, idx + 2)
             /\ LetGo(b, lead, end, ContentMarks)
<1> DEFINE idx == Find(b, ThinkClose, reasonEmitted)
           lead == PastBlanks(b, idx + 2)
           end == HoldBackEnd(Find(b, ToolOpen, lead), Len(b), From(b, lead), ContentMarks)
<1>1. /\ start = Nowhere /\ idx # Nowhere
      /\ said' = Sent(Sent(w, "reasoning", reasonEmitted, idx), "content", lead, end)
      /\ start' = lead /\ contentEmitted' = end /\ reasonEmitted' = reasonEmitted
  BY TagIs DEF EndsThinking
<1>2. Len(b) \in Nat /\ reasonEmitted \in Nat
  BY LenProperties DEF Types
<1>3. idx \in reasonEmitted..Len(b) /\ IsAt(b, ThinkClose, idx) /\ idx + 2 <= Len(b)
  BY <1>1, <1>2, FoundIs, TagIs
<1> HIDE DEF idx
<1>4. idx + 2 \in 0..Len(b)
  BY <1>2, <1>3
<1>5. lead \in (idx + 2)..Len(b)
  BY <1>4, BlanksIs
<1> HIDE DEF lead
<1>6. lead \in 0..Len(b) /\ idx + 2 <= lead
  BY <1>2, <1>3, <1>5
<1>7. LetGo(b, lead, end, ContentMarks)
  BY <1>6, LetIs, StopIs DEF Types
<1> HIDE DEF end
<1>8. end \in lead..Len(b)
  BY <1>7 DEF LetGo
<1>9. end \in 0..Len(b) /\ lead <= end
  BY <1>2, <1>6, <1>8
<1> QED
  BY <1>1, <1>3, <1>6, <1>7, <1>9 DEF idx, lead

LEMMA ThinksEffect ==
    ASSUME Types, NEW b \in Seq(Alphabet), Len(b) <= MaxText, NEW w, Thinks(b, w), reasonEmitted \in 0..Len(b)
    PROVE  \E end \in reasonEmitted..Len(b) :
             /\ start = Nowhere /\ start' = start /\ contentEmitted' = contentEmitted /\ reasonEmitted' = end
             /\ said' = Sent(w, "reasoning", reasonEmitted, end)
             /\ Find(b, ThinkClose, reasonEmitted) = Nowhere
             /\ LetGo(b, reasonEmitted, end, StopMark) /\ Unbegun(b, ThinkClose, reasonEmitted, end)
<1> DEFINE safe == Max({Len(b) - Overlap(b, ThinkClose), reasonEmitted})
           end == HoldBackEnd(Find(Part(b, 0, safe), ToolOpen, reasonEmitted), safe,
                              Part(b, reasonEmitted, safe), StopMark)
<1>1. /\ start = Nowhere /\ start' = start /\ contentEmitted' = contentEmitted
      /\ reasonEmitted' = Max({reasonEmitted, end})
      /\ said' = Sent(w, "reasoning", reasonEmitted, end)
      /\ Find(b, ThinkClose, reasonEmitted) = Nowhere
  BY DEF Thinks
<1>2. LetGo(b, reasonEmitted, end, StopMark) /\ Unbegun(b, ThinkClose, reasonEmitted, end)
  BY <1>1, LetThinking, StopIs DEF Types
<1> HIDE DEF safe, end
<1>3. end \in reasonEmitted..Len(b) /\ Len(b) \in Nat /\ reasonEmitted \in Nat
  BY <1>2, LenProperties DEF LetGo, Types
<1>4. Max({reasonEmitted, end}) = end
  <2>1. end \in Nat /\ reasonEmitted <= end
    BY <1>3
  <2> QED
    BY <1>3, <2>1, MaxOfTwo
<1> QED
  BY <1>1, <1>2, <1>3, <1>4

LEMMA StartsEffect ==
    ASSUME Types, NEW b \in Seq(Alphabet), Len(b) <= MaxText, NEW w, StartsThinking(b, w)
    PROVE  \E open \in 0..Len(b) :
             /\ start # Nowhere /\ start \in Nat /\ start <= open
             /\ start' = Nowhere /\ reasonEmitted' = open + 2 /\ contentEmitted' = contentEmitted
             /\ said' = Sent(w, "content", contentEmitted, open)
             /\ IsAt(b, ThinkOpen, open) /\ open + 2 <= Len(b) /\ open = Find(b, ThinkOpen, start)
<1> DEFINE open == Find(b, ThinkOpen, start)
<1>1. start \in Nat
  BY NowhereIs DEF Types, StartsThinking
<1>2. start # Nowhere /\ OpenTag(b) # Nowhere
  BY DEF StartsThinking
<1>3. OpenTag(b) = open
  BY <1>2 DEF OpenTag
<1>4. /\ start' = Nowhere /\ reasonEmitted' = open + 2 /\ contentEmitted' = contentEmitted
      /\ said' = Sent(w, "content", contentEmitted, open)
  BY <1>3, TagIs DEF StartsThinking
<1>5. open \in start..Len(b) /\ IsAt(b, ThinkOpen, open) /\ open + 2 <= Len(b)
  BY <1>1, <1>2, <1>3, FoundIs, TagIs
<1> HIDE DEF open
<1>6. open \in 0..Len(b) /\ start <= open
  BY <1>1, <1>5
<1> QED
  BY <1>1, <1>2, <1>4, <1>5, <1>6 DEF open

LEMMA AnswersEffect ==
    ASSUME Types, NEW b \in Seq(Alphabet), Len(b) <= MaxText, NEW w, Answers(b, w), start \in 0..Len(b)
    PROVE  \E end \in start..Len(b) :
             /\ start # Nowhere /\ start' = start /\ reasonEmitted' = reasonEmitted
             /\ contentEmitted' = IF contentEmitted <= end THEN end ELSE contentEmitted
             /\ said' = Sent(w, "content", contentEmitted, end)
             /\ LetGo(b, start, end, ContentMarks)
             /\ \A i \in start..(end - 1) : ~IsAt(b, ThinkOpen, i)
<1> DEFINE end == HoldBackEnd(Find(b, ToolOpen, start), Len(b), From(b, start), ContentMarks)
<1>1. /\ start # Nowhere /\ start' = start /\ reasonEmitted' = reasonEmitted
      /\ contentEmitted' = Max({contentEmitted, end})
      /\ said' = Sent(w, "content", contentEmitted, end)
      /\ OpenTag(b) = Nowhere
  BY DEF Answers
<1>2. LetGo(b, start, end, ContentMarks)
  BY LetIs, StopIs DEF Types
<1> HIDE DEF end
<1>3. end \in start..Len(b) /\ Len(b) \in Nat /\ start \in Nat /\ contentEmitted \in Nat
  BY <1>2, LenProperties DEF LetGo, Types
<1>4. end \in Nat
  BY <1>3
<1>5. Max({contentEmitted, end}) = IF contentEmitted <= end THEN end ELSE contentEmitted
  BY <1>3, <1>4, MaxOfTwo
<1>6. ASSUME NEW i \in start..(end - 1), IsAt(b, ThinkOpen, i) PROVE FALSE
  <2>1. i \in Nat /\ start <= i /\ i < end
    BY <1>3, <1>4
  <2>2. Find(b, ThinkOpen, start) # Nowhere /\ Find(b, ThinkOpen, start) <= i /\ Find(b, ThinkOpen, start) \in Nat
    BY <1>3, <1>6, <2>1, FoundIs, TagIs
  <2>3. req.tools /\ Find(b, ToolOpen, start) < Find(b, ThinkOpen, start)
    BY <1>1, <2>2 DEF OpenTag
  <2>4. Find(b, ToolOpen, start) # Nowhere /\ Find(b, ToolOpen, start) \in Nat
    <3>1. Find(b, ThinkOpen, start) <= Len(b)
      BY <1>3, <2>2, FoundIs, TagIs
    <3>2. Find(b, ToolOpen, start) \in Nat /\ Nowhere \in Nat /\ Len(b) < Nowhere
      BY <1>3, FoundIs, TagIs, NowhereIs
    <3> QED
      BY <1>3, <2>2, <2>3, <3>1, <3>2
  <2>5. end = Find(b, ToolOpen, start)
    BY <1>2, <2>3, <2>4 DEF LetGo
  <2> QED
    BY <1>4, <2>1, <2>2, <2>3, <2>5
<1> QED
  BY <1>1, <1>2, <1>3, <1>5, <1>6
LEMMA ExtendsTwo ==
    ASSUME NEW a, NEW b, NEW t, Extends(t, a), Extends(t, b), Len(a) <= Len(b), Len(a) \in Nat, Len(b) \in Nat
    PROVE  Extends(b, a)
BY DEF Extends, Alike

Buffer(piece) == Cut(acc \o piece)
Before(piece) == said \o [i \in 1 .. Len(piece) |-> "held"]

\* The text with a token's piece, and the buffer before anything is sent.
LEMMA TokenIs ==
    ASSUME Types, Buffered, NEW n \in 1..(MaxText - Len(text)), NEW piece \in Pieces[n], Token(piece)
    PROVE  LET b == Buffer(piece)
               w == Before(piece)
           IN /\ pc = "stream" /\ req' = req /\ calls' = calls /\ acc = text
              /\ text' = text \o piece /\ text' \in Seq(Alphabet) /\ Len(text') = Len(text) + n
              /\ Len(text') <= MaxText /\ Extends(text', text)
              /\ acc' = b /\ b = CutAt(text', req.stop) /\ b \in Seq(Alphabet)
              /\ Len(b) \in 0..Len(text') /\ Len(b) <= MaxText /\ Extends(text', b)
              /\ Len(b) < Len(text') => req.stop \in StopMark /\ IsAt(text', req.stop, Len(b))
              /\ Len(b) = Len(text') => b = text'
              /\ \A m \in StopMark : \A i \in Nat : ~IsAt(b, m, i)
              /\ pc' = IF Len(b) < Len(text') THEN "cut" ELSE "stream"
              /\ w \in Seq(Kinds) /\ Len(w) = Len(text')
              /\ \A i \in 1..Len(text') : w[i] = IF i <= Len(text) THEN said[i] ELSE "held"
              /\ \/ SaysNothing(b, w)
                 \/ ~CutBelow(b) /\ EndsThinking(b, w)
                 \/ ~CutBelow(b) /\ Thinks(b, w)
                 \/ ~CutBelow(b) /\ StartsThinking(b, w)
                 \/ ~CutBelow(b) /\ Answers(b, w)
<1> DEFINE b == Buffer(piece)
           w == Before(piece)
           t == text \o piece
<1>1. /\ pc = "stream" /\ text' = t /\ acc' = b /\ req' = req /\ calls' = calls
      /\ pc' = IF Len(b) < Len(acc \o piece) THEN "cut" ELSE "stream"
      /\ \/ SaysNothing(b, w)
         \/ ~CutBelow(b) /\ EndsThinking(b, w)
         \/ ~CutBelow(b) /\ Thinks(b, w)
         \/ ~CutBelow(b) /\ StartsThinking(b, w)
         \/ ~CutBelow(b) /\ Answers(b, w)
  BY DEF Token, Buffer, Before
<1>2. acc = text /\ b = CutAt(t, req.stop) /\ b = Cut(t)
  BY <1>1, CutAtIs DEF Buffered, Buffer
<1>3. Len(text) \in Nat /\ MaxText \in Nat /\ n \in Nat /\ n \in 1..MaxText /\ Len(text) + n <= MaxText
  BY LenProperties, NowhereIs DEF Types
<1>4. piece \in [1..n -> Alphabet] /\ piece \in Seq(Alphabet) /\ Len(piece) = n
  <2>1. piece \in [1..n -> Alphabet]
    BY <1>3 DEF Pieces, Alphabet
  <2> QED
    BY <1>3, <2>1
<1>5. /\ t \in Seq(Alphabet) /\ Len(t) = Len(text) + n
      /\ \A i \in 1..(Len(text) + n) : t[i] = IF i <= Len(text) THEN text[i] ELSE piece[i - Len(text)]
  BY <1>4, ConcatProperties DEF Types
<1>6. Extends(t, text) /\ Len(t) <= MaxText
  BY <1>3, <1>5 DEF Extends, Alike
<1>7. /\ b \in Seq(Alphabet) /\ Len(b) \in 0..Len(t) /\ Alike(b, t, Len(b))
      /\ Len(b) < Len(t) => req.stop # <<>> /\ IsAt(t, req.stop, Len(b))
      /\ Len(b) = Len(t) => b = t
      /\ req.stop # <<>> => \A i \in 0..Len(t) : IsAt(t, req.stop, i) => Len(b) <= i
  BY <1>2, <1>5, <1>6, CutIs
<1> HIDE DEF b
<1>8. Extends(t, b) /\ Len(b) <= MaxText /\ Len(b) \in Nat
  BY <1>3, <1>5, <1>6, <1>7 DEF Extends
<1>9. ASSUME NEW m \in StopMark, NEW i \in Nat, IsAt(b, m, i) PROVE FALSE
  <2>1. m = req.stop /\ m # <<>> /\ Len(m) \in Nat /\ 1 <= Len(m) /\ DOMAIN m = 1..Len(m)
    BY StopIs DEF Types
  <2>2. IsAt(t, m, i)
    BY <1>5, <1>7, <1>8, <1>9, <2>1, ExtendsAt
  <2>3. i + Len(m) <= Len(b)
    BY <1>9 DEF IsAt
  <2>4. i \in 0..Len(t)
    BY <1>5, <1>7, <1>8, <2>1, <2>3
  <2>5. Len(b) <= i
    BY <1>7, <2>1, <2>2, <2>4
  <2> QED
    BY <1>8, <2>1, <2>3, <2>5
<1>10. /\ w \in Seq(Kinds) /\ Len(w) = Len(t)
       /\ \A i \in 1..Len(t) : w[i] = IF i <= Len(text) THEN said[i] ELSE "held"
  <2> DEFINE h == [i \in 1 .. Len(piece) |-> "held"]
  <2>1. h \in Seq(Kinds) /\ Len(h) = n /\ \A i \in 1..n : h[i] = "held"
    <3>1. h \in [1..n -> Kinds] /\ \A i \in 1..n : h[i] = "held"
      BY <1>4 DEF Kinds
    <3> HIDE DEF h
    <3> QED
      BY <1>3, <3>1
  <2> HIDE DEF h
  <2>2. w = said \o h
    BY DEF Before, h
  <2>3. /\ w \in Seq(Kinds) /\ Len(w) = Len(said) + n
        /\ \A i \in 1..(Len(said) + n) : w[i] = IF i <= Len(said) THEN said[i] ELSE h[i - Len(said)]
    <3>1. said \in Seq(Kinds)
      BY DEF Types
    <3>2. /\ said \o h \in Seq(Kinds) /\ Len(said \o h) = Len(said) + Len(h)
          /\ \A i \in 1..(Len(said) + Len(h)) : (said \o h)[i] = IF i <= Len(said) THEN said[i] ELSE h[i - Len(said)]
      BY <2>1, <3>1, ConcatProperties
    <3> QED
      BY <2>1, <2>2, <3>2
  <2>4. Len(said) = Len(text)
    BY DEF Types
  <2>5. \A i \in 1..Len(t) : ~(i <= Len(text)) => i - Len(text) \in 1..n
    BY <1>3, <1>5
  <2> QED
    BY <1>5, <2>1, <2>3, <2>4, <2>5
<1>11. req.stop # <<>> => req.stop \in StopMark
  BY StopIs DEF Types
<1> QED
  BY <1>1, <1>2, <1>3, <1>5, <1>6, <1>7, <1>8, <1>9, <1>10, <1>11 DEF b

\* Sending never changes how much there is.
LEMMA SentType ==
    ASSUME NEW was \in Seq(Kinds), NEW kind \in Kinds, NEW from, NEW to
    PROVE  Sent(was, kind, from, to) \in Seq(Kinds) /\ Len(Sent(was, kind, from, to)) = Len(was)
<1> DEFINE now == Sent(was, kind, from, to)
<1>1. Len(was) \in Nat /\ \A i \in 1..Len(was) : was[i] \in Kinds
  BY LenProperties, ElementOfSeq
<1>2. now = [i \in 1..Len(was) |-> IF i \notin from + 1 .. to THEN was[i]
                                  ELSE IF was[i] = "held" THEN kind ELSE "again"]
  BY DEF Sent
<1>3. \A i \in 1..Len(was) : (IF i \notin from + 1 .. to THEN was[i]
                              ELSE IF was[i] = "held" THEN kind ELSE "again") \in Kinds
  BY <1>1 DEF Kinds
<1> HIDE DEF now
<1>4. now \in [1..Len(was) -> Kinds]
  BY <1>2, <1>3
<1> QED
  BY <1>1, <1>4 DEF now
LEMMA NotCutBelow ==
    ASSUME Types, NEW b, Len(b) \in Nat, ~CutBelow(b)
    PROVE  reasonEmitted \in 0..Len(b) /\ contentEmitted \in 0..Len(b) /\ (start # Nowhere => start \in 0..Len(b))
<1>1. reasonEmitted \in Nat /\ contentEmitted \in Nat /\ (start # Nowhere => start \in Nat)
  BY NowhereIs DEF Types
<1>2. Max({reasonEmitted, contentEmitted}) = IF reasonEmitted <= contentEmitted THEN contentEmitted ELSE reasonEmitted
  BY <1>1, MaxOfTwo
<1>3. ~(Max({reasonEmitted, contentEmitted}) > Len(b)) /\ (start # Nowhere => ~(start > Len(b)))
  BY DEF CutBelow
<1> QED
  BY <1>1, <1>2, <1>3

\* The close tag that ends the reasoning, and where the content begins.
LEMMA BoundaryIs ==
    ASSUME NEW s \in Seq(Alphabet), Len(s) <= MaxText
    PROVE  /\ Boundary(s) \in Nat
           /\ Boundary(s) # Nowhere =>
                /\ IsAt(s, ThinkClose, Boundary(s)) /\ Boundary(s) + 2 \in 0..Len(s)
                /\ req.thinks \/ ~InsideCall(s, Boundary(s))
           /\ \A i \in Nat : IsAt(s, ThinkClose, i) /\ (req.thinks \/ ~InsideCall(s, i))
                               => Boundary(s) # Nowhere /\ Boundary(s) <= i
           /\ ContentFrom(s) \in 0..Len(s)
<1> DEFINE B == {i \in Found(s, ThinkClose, 0) : req.thinks \/ ~InsideCall(s, i)}
           e == Boundary(s)
<1>1. Len(s) \in Nat /\ Nowhere \in Nat /\ Len(s) < Nowhere
  BY LenProperties, NowhereIs
<1>2. B \in SUBSET Nat /\ B \subseteq 0..Len(s) /\ \A i \in B : IsAt(s, ThinkClose, i)
  BY <1>1 DEF Found
<1>3. \A i \in Nat : IsAt(s, ThinkClose, i) /\ (req.thinks \/ ~InsideCall(s, i)) => i \in B
  <2> SUFFICES ASSUME NEW i \in Nat, IsAt(s, ThinkClose, i) PROVE i \in Found(s, ThinkClose, 0)
    OBVIOUS
  <2>1. i + 2 <= Len(s)
    BY AtTag, TagIs
  <2>2. i \in 0..Len(s)
    BY <1>1, <2>1
  <2> QED
    BY <2>2 DEF Found
<1>4. \A i \in B : req.thinks \/ ~InsideCall(s, i)
  OBVIOUS
<1>5. e = IF B = {} THEN Nowhere ELSE Min(B)
  BY DEF Boundary, LeastOf
<1> HIDE DEF B
<1>6. e \in Nat /\ (e # Nowhere => e \in B) /\ \A i \in B : e # Nowhere /\ e <= i
  <2>1. CASE B = {}
    BY <1>1, <1>5, <2>1
  <2>2. CASE B # {}
    <3>1. e \in B /\ e \in Nat /\ \A i \in B : e <= i
      BY <1>2, <1>5, <2>2, MinIs
    <3>2. e \in 0..Len(s)
      BY <1>2, <3>1
    <3> QED
      BY <1>1, <3>1, <3>2
  <2> QED
    BY <2>1, <2>2
<1> HIDE DEF e
<1>7. e # Nowhere => IsAt(s, ThinkClose, e) /\ e + 2 \in 0..Len(s) /\ (req.thinks \/ ~InsideCall(s, e))
  <2> SUFFICES ASSUME e # Nowhere PROVE e + 2 \in 0..Len(s)
    BY <1>2, <1>4, <1>6
  <2>1. e + 2 <= Len(s)
    BY <1>2, <1>6, AtTag, TagIs
  <2> QED
    BY <1>1, <1>6, <2>1
<1>8. ContentFrom(s) \in 0..Len(s)
  <2>1. CASE e = Nowhere
    BY <1>1, <2>1 DEF ContentFrom, e
  <2>2. CASE e # Nowhere
    <3>1. ContentFrom(s) = PastBlanks(s, e + 2) /\ e + 2 \in 0..Len(s)
      BY <1>7, <2>2, TagIs DEF ContentFrom, e
    <3>2. PastBlanks(s, e + 2) \in (e + 2)..Len(s)
      BY <3>1, BlanksIs
    <3> QED
      BY <1>1, <1>6, <3>1, <3>2
  <2> QED
    BY <2>1, <2>2
<1>9. \A i \in Nat : IsAt(s, ThinkClose, i) /\ (req.thinks \/ ~InsideCall(s, i)) => e # Nowhere /\ e <= i
  BY <1>3, <1>6
<1> QED
  BY <1>6, <1>7, <1>8, <1>9 DEF e

LEMMA CallsType ==
    ASSUME NEW s \in Seq(Alphabet), Len(s) <= MaxText, NEW from \in Nat
    PROVE  Parsed(s, from) \subseteq 0..MaxText
<1>1. Len(s) \in Nat /\ MaxText \in Nat
  BY LenProperties, NowhereIs
<1>2. \A i \in Found(s, ToolOpen, from) : Len(s) - i \in 0..MaxText
  BY <1>1 DEF Found
<1>3. Calls(s, from) \subseteq 0..MaxText
  BY <1>2 DEF Calls
<1> QED
  BY <1>3 DEF Parsed

\* What is left is sent, or nothing is.
LEMMA HeldTailType ==
    ASSUME Types
    PROVE  HeldTail(said) \in Seq(Kinds) /\ Len(HeldTail(said)) = Len(said)
<1>1. "content" \in Kinds /\ "reasoning" \in Kinds /\ said \in Seq(Kinds)
  BY DEF Types, Kinds
<1> DEFINE S(kind, a, b) == Sent(said, kind, a, b)
<1>2. \A kind \in Kinds : \A a, b : S(kind, a, b) \in Seq(Kinds) /\ Len(S(kind, a, b)) = Len(said)
  BY <1>1, SentType
<1>3. \A kind \in Kinds : \A a, b, c, d : \A kin \in Kinds :
        /\ Sent(S(kind, a, b), kin, c, d) \in Seq(Kinds)
        /\ Len(Sent(S(kind, a, b), kin, c, d)) = Len(said)
  BY <1>2, SentType
<1> QED
  BY <1>1, <1>2, <1>3 DEF HeldTail

\* The buffer as a text of its own.
LEMMA BufferIs ==
    ASSUME Types, Buffered
    PROVE  /\ acc \in Seq(Alphabet) /\ Len(acc) \in Nat /\ Len(acc) <= Len(text) /\ Len(acc) <= MaxText
           /\ Len(text) \in Nat /\ Extends(text, acc) /\ acc = Cut(text)
           /\ Len(acc) < Len(text) => req.stop \in StopMark /\ IsAt(text, req.stop, Len(acc))
           /\ Len(acc) = Len(text) => acc = text
<1>1. acc = Cut(text) /\ text \in Seq(Alphabet) /\ Len(text) <= MaxText
  BY CutAtIs DEF Buffered, Types
<1>2. Len(text) \in Nat /\ MaxText \in Nat
  BY <1>1, LenProperties, NowhereIs
<1>3. /\ acc \in Seq(Alphabet) /\ Len(acc) \in 0..Len(text) /\ Alike(acc, text, Len(acc))
      /\ Len(acc) < Len(text) => req.stop # <<>> /\ IsAt(text, req.stop, Len(acc))
      /\ Len(acc) = Len(text) => acc = text
  BY <1>1, CutIs
<1> QED
  BY <1>1, <1>2, <1>3, StopIs DEF Extends, Types

LEMMA TypesInit ==
    ASSUME Init
    PROVE  Types /\ Buffered
<1>1. /\ req \in Requests /\ text = <<>> /\ acc = <<>> /\ said = <<>> /\ calls = {} /\ reasonEmitted = 0
      /\ contentEmitted = 0 /\ pc = "stream" /\ start = IF req.thinks THEN Nowhere ELSE 0
  BY DEF Init
<1>2. MaxText \in Nat /\ 0 \in 0..MaxText /\ Len(<<>>) = 0 /\ <<>> \in Seq(Alphabet) /\ <<>> \in Seq(Kinds)
  BY NowhereIs
<1>3. Types
  BY <1>1, <1>2 DEF Types
<1>4. Cut(text) = text
  <2>1. Len(text) = 0 /\ text \in Seq(Alphabet) /\ Len(text) <= MaxText
    BY <1>1, <1>2, <1>3 DEF Types
  <2>2. Len(Cut(text)) \in 0..0 /\ (Len(Cut(text)) = 0 => Cut(text) = text)
    BY <2>1, CutIs
  <2>3. Len(Cut(text)) = 0
    BY <2>2
  <2> QED
    BY <2>2, <2>3
<1>5. Cut(text) = <<>>
  BY <1>1, <1>4
<1> QED
  BY <1>1, <1>3, <1>5, CutAtIs DEF Buffered

LEMMA TypesToken ==
    ASSUME Types, Buffered, NEW n \in 1..(MaxText - Len(text)), NEW piece \in Pieces[n], Token(piece)
    PROVE  Types' /\ Buffered'
<1> DEFINE b == Buffer(piece)
           w == Before(piece)
<1>1. /\ pc = "stream" /\ req' = req /\ calls' = calls
      /\ text' \in Seq(Alphabet) /\ Len(text') <= MaxText
      /\ acc' = b /\ b = CutAt(text', req.stop) /\ b \in Seq(Alphabet)
      /\ Len(b) \in 0..Len(text') /\ Len(b) <= MaxText
      /\ Len(b) = Len(text') => b = text'
      /\ pc' = IF Len(b) < Len(text') THEN "cut" ELSE "stream"
      /\ w \in Seq(Kinds) /\ Len(w) = Len(text')
      /\ \/ SaysNothing(b, w)
         \/ ~CutBelow(b) /\ EndsThinking(b, w)
         \/ ~CutBelow(b) /\ Thinks(b, w)
         \/ ~CutBelow(b) /\ StartsThinking(b, w)
         \/ ~CutBelow(b) /\ Answers(b, w)
  BY TokenIs
<1> HIDE DEF b, w
<1>2. Len(b) \in Nat /\ Len(text') \in Nat /\ MaxText \in Nat /\ 0..Len(b) \subseteq 0..MaxText
  BY <1>1, LenProperties, NowhereIs
<1>3. Buffered'
  <2>1. acc' = CutAt(text', req'.stop)
    BY <1>1
  <2>2. pc' = "stream" => acc' = text'
    BY <1>1, <1>2
  <2> QED
    BY <2>1, <2>2 DEF Buffered
<1>4. "content" \in Kinds /\ "reasoning" \in Kinds
  BY DEF Kinds
<1>5. ~CutBelow(b) => reasonEmitted \in 0..Len(b) /\ contentEmitted \in 0..Len(b) /\ (start # Nowhere => start \in 0..Len(b))
  BY <1>2, NotCutBelow
<1>6. /\ said' \in Seq(Kinds) /\ Len(said') = Len(w)
      /\ start' \in (0..MaxText) \cup {Nowhere}
      /\ reasonEmitted' \in 0..MaxText /\ contentEmitted' \in 0..MaxText
  <2>1. CASE SaysNothing(b, w)
    BY <1>1, <2>1 DEF SaysNothing, Types
  <2>2. CASE ~CutBelow(b) /\ EndsThinking(b, w)
    <3>1. PICK idx \in reasonEmitted..Len(b), lead \in 0..Len(b), end \in 0..Len(b) :
            /\ start' = lead /\ contentEmitted' = end /\ reasonEmitted' = reasonEmitted
            /\ said' = Sent(Sent(w, "reasoning", reasonEmitted, idx), "content", lead, end)
      BY <1>1, <1>5, <2>2, EndsEffect
    <3>2. /\ Sent(w, "reasoning", reasonEmitted, idx) \in Seq(Kinds)
          /\ Len(Sent(w, "reasoning", reasonEmitted, idx)) = Len(w)
      BY <1>1, <1>4, SentType
    <3>3. said' \in Seq(Kinds) /\ Len(said') = Len(w)
      BY <1>4, <3>1, <3>2, SentType
    <3> QED
      BY <1>2, <3>1, <3>3 DEF Types
  <2>3. CASE ~CutBelow(b) /\ Thinks(b, w)
    <3>1. PICK end \in reasonEmitted..Len(b) :
            /\ start' = start /\ contentEmitted' = contentEmitted /\ reasonEmitted' = end
            /\ said' = Sent(w, "reasoning", reasonEmitted, end)
      BY <1>1, <1>5, <2>3, ThinksEffect
    <3>2. said' \in Seq(Kinds) /\ Len(said') = Len(w)
      BY <1>1, <1>4, <3>1, SentType
    <3>3. end \in 0..MaxText
      BY <1>1, <1>2, <1>5, <2>3
    <3> QED
      BY <3>1, <3>2, <3>3 DEF Types
  <2>4. CASE ~CutBelow(b) /\ StartsThinking(b, w)
    <3>1. PICK open \in 0..Len(b) :
            /\ start' = Nowhere /\ reasonEmitted' = open + 2 /\ contentEmitted' = contentEmitted
            /\ said' = Sent(w, "content", contentEmitted, open) /\ open + 2 <= Len(b)
      BY <1>1, <2>4, StartsEffect
    <3>2. said' \in Seq(Kinds) /\ Len(said') = Len(w)
      BY <1>1, <1>4, <3>1, SentType
    <3>3. open + 2 \in 0..MaxText
      BY <1>1, <1>2, <3>1
    <3> QED
      BY <3>1, <3>2, <3>3 DEF Types
  <2>5. CASE ~CutBelow(b) /\ Answers(b, w)
    <3>0. start # Nowhere
      BY <2>5 DEF Answers
    <3>1. PICK end \in start..Len(b) :
            /\ start' = start /\ reasonEmitted' = reasonEmitted
            /\ contentEmitted' = IF contentEmitted <= end THEN end ELSE contentEmitted
            /\ said' = Sent(w, "content", contentEmitted, end)
      BY <1>1, <1>5, <2>5, <3>0, AnswersEffect
    <3>2. said' \in Seq(Kinds) /\ Len(said') = Len(w)
      BY <1>1, <1>4, <3>1, SentType
    <3>3. end \in 0..MaxText
      BY <1>1, <1>2, <1>5, <2>5, <3>0
    <3> QED
      BY <3>1, <3>2, <3>3 DEF Types
  <2> QED
    BY <1>1, <2>1, <2>2, <2>3, <2>4, <2>5
<1>7. Types'
  BY <1>1, <1>6 DEF Types
<1> QED
  BY <1>3, <1>7

LEMMA TypesFinish ==
    ASSUME Types, Buffered, NEW failed \in BOOLEAN, Finish(failed)
    PROVE  Types' /\ Buffered'
<1>1. /\ calls' = Parsed(acc, ContentFrom(acc))
      /\ said' = IF calls' # {} \/ failed THEN said ELSE HeldTail(said)
      /\ pc' = IF failed THEN "failed" ELSE "done"
      /\ req' = req /\ text' = text /\ acc' = acc /\ start' = start
      /\ reasonEmitted' = reasonEmitted /\ contentEmitted' = contentEmitted
  BY DEF Finish
<1>2. acc \in Seq(Alphabet) /\ Len(acc) <= MaxText /\ Len(acc) \in Nat
  BY BufferIs
<1>3. calls' \subseteq 0..MaxText
  <2>1. ContentFrom(acc) \in Nat
    BY <1>2, BoundaryIs
  <2> QED
    BY <1>1, <1>2, <2>1, CallsType
<1>4. said' \in Seq(Kinds) /\ Len(said') = Len(said)
  BY <1>1, HeldTailType DEF Types
<1> QED
  BY <1>1, <1>3, <1>4 DEF Types, Buffered

LEMMA TypesStep ==
    ASSUME Types, Buffered, [Next]_vars
    PROVE  Types' /\ Buffered'
<1>1. ASSUME NEW n \in 1..(MaxText - Len(text)), NEW piece \in Pieces[n], Token(piece) PROVE Types' /\ Buffered'
  BY <1>1, TypesToken
<1>2. ASSUME NEW failed \in BOOLEAN, Finish(failed) PROVE Types' /\ Buffered'
  BY <1>2, TypesFinish
<1>3. CASE UNCHANGED vars
  BY <1>3 DEF vars, Types, Buffered
<1> QED
  BY <1>1, <1>2, <1>3 DEF Next

\* The stream's cursors stay within the reply, its pieces are told apart, and its buffer is
\* the text before the first stop string, whatever is generated and however it is cut.
THEOREM BufferedIsInvariant == Spec => [](Types /\ Buffered)
<1>1. Init => Types /\ Buffered
  BY TypesInit
<1>2. (Types /\ Buffered) /\ [Next]_vars => (Types /\ Buffered)'
  BY TypesStep
<1> QED
  BY <1>1, <1>2, PTL DEF Spec
-----------------------------------------------------------------------------
(* Nothing is sent twice, nothing is skipped but tags and white space *)

\* Symbol i of t is of a think tag, or of the white space behind a close tag.
Skipped(t, i) ==
  \/ \E m \in {ThinkOpen, ThinkClose} : \E j \in 0..Len(t) : IsAt(t, m, j) /\ j < i /\ i <= j + 2
  \/ \E j \in 0..Len(t) : /\ IsAt(t, ThinkClose, j) /\ j + 2 < i
                          /\ \A k \in (j + 3)..i : t[k] = Blank

\* The cursor of the part the stream is in.
Emitted == IF start = Nowhere THEN reasonEmitted ELSE contentEmitted

Sending == pc \in {"stream", "cut"}
Once == \A i \in 1..Len(text) : said[i] # "again"
InOrder ==
  Sending => /\ Emitted <= Len(text)
             /\ IF start = Nowhere THEN contentEmitted <= reasonEmitted
                ELSE reasonEmitted <= contentEmitted /\ start <= contentEmitted
HeldAhead == Sending => \A i \in 1..Len(text) : Emitted < i => said[i] = "held"
HeldBehind == Sending => \A i \in 1..Len(text) : i <= Emitted /\ said[i] = "held" => Skipped(text, i)
\* No tag has begun in the content that was sent.
Quiet ==
  pc = "stream" /\ start # Nowhere =>
    /\ Unbegun(text, ThinkOpen, start, contentEmitted)
    /\ req.tools => Unbegun(text, ToolOpen, start, contentEmitted)
\* A reply that ended without calls is sent to the end.
AllSent ==
  pc = "done" /\ calls = {} => \A i \in 1..Len(acc) : said[i] = "held" => Skipped(text, i)

Flow == Once /\ InOrder /\ HeldAhead /\ HeldBehind /\ Quiet /\ AllSent

LEMMA SkippedLater ==
    ASSUME NEW s \in Seq(Alphabet), NEW t \in Seq(Alphabet), Extends(t, s), NEW i \in 1..Len(s), Skipped(s, i)
    PROVE  Skipped(t, i)
<1>1. Len(s) \in Nat /\ Len(t) \in Nat /\ Len(s) <= Len(t) /\ (\A k \in 1..Len(s) : s[k] = t[k]) /\ i \in Nat
  BY LenProperties DEF Extends, Alike
<1>2. \A j \in 0..Len(s) : j \in Nat /\ j \in 0..Len(t)
  BY <1>1
<1>3. CASE \E m \in {ThinkOpen, ThinkClose} : \E j \in 0..Len(s) : IsAt(s, m, j) /\ j < i /\ i <= j + 2
  <2>1. PICK m \in {ThinkOpen, ThinkClose}, j \in 0..Len(s) : IsAt(s, m, j) /\ j < i /\ i <= j + 2
    BY <1>3
  <2>2. IsAt(t, m, j)
    BY <1>2, <2>1, ExtendsTag, TagIs
  <2> QED
    BY <1>2, <2>1, <2>2 DEF Skipped
<1>4. CASE \E j \in 0..Len(s) : IsAt(s, ThinkClose, j) /\ j + 2 < i /\ \A k \in (j + 3)..i : s[k] = Blank
  <2>1. PICK j \in 0..Len(s) : IsAt(s, ThinkClose, j) /\ j + 2 < i /\ \A k \in (j + 3)..i : s[k] = Blank
    BY <1>4
  <2>2. IsAt(t, ThinkClose, j)
    BY <1>2, <2>1, ExtendsTag, TagIs
  <2>3. \A k \in (j + 3)..i : k \in 1..Len(s)
    BY <1>1, <1>2
  <2> QED
    BY <1>1, <1>2, <2>1, <2>2, <2>3 DEF Skipped
<1> QED
  BY <1>3, <1>4 DEF Skipped

LEMMA UnbegunLater ==
    ASSUME NEW s \in Seq(Alphabet), NEW t \in Seq(Alphabet), Extends(t, s), NEW m \in Tags,
           NEW from \in Nat, NEW to \in Nat, Unbegun(s, m, from, to)
    PROVE  Unbegun(t, m, from, to)
<1>1. \A j \in from..(to - 1) : j \in Nat
  OBVIOUS
<1> QED
  BY <1>1, ExtendsTag DEF Unbegun

\* A text with a token's piece, before anything of it is sent.
LEMMA FlowBefore ==
    ASSUME Types, Buffered, Flow, NEW n \in 1..(MaxText - Len(text)), NEW piece \in Pieces[n], Token(piece)
    PROVE  LET w == Before(piece) IN
           /\ Emitted \in 0..Len(text)
           /\ \A i \in 1..Len(text') : w[i] # "again"
           /\ \A i \in 1..Len(text') : Emitted < i => w[i] = "held"
           /\ \A i \in 1..Len(text') : i <= Emitted /\ w[i] = "held" => Skipped(text', i)
<1> DEFINE w == Before(piece)
<1>1. /\ pc = "stream" /\ text \in Seq(Alphabet) /\ text' \in Seq(Alphabet) /\ Extends(text', text)
      /\ \A i \in 1..Len(text') : w[i] = IF i <= Len(text) THEN said[i] ELSE "held"
  BY TokenIs DEF Types
<1>2. /\ Emitted \in Nat /\ Emitted <= Len(text) /\ Len(text) \in Nat /\ Len(text') \in Nat
  BY <1>1, LenProperties DEF Flow, InOrder, Sending, Emitted, Types
<1>3. /\ \A i \in 1..Len(text) : said[i] # "again"
      /\ \A i \in 1..Len(text) : Emitted < i => said[i] = "held"
      /\ \A i \in 1..Len(text) : i <= Emitted /\ said[i] = "held" => Skipped(text, i)
  BY <1>1 DEF Flow, Once, HeldAhead, HeldBehind, Sending
<1> HIDE DEF w
<1>4. \A i \in 1..Len(text') : i <= Len(text) => i \in 1..Len(text)
  BY <1>2
<1>5. \A i \in 1..Len(text') : i <= Emitted => i <= Len(text)
  BY <1>2
<1>6. \A i \in 1..Len(text') : w[i] # "again"
  BY <1>1, <1>3, <1>4
<1>7. \A i \in 1..Len(text') : Emitted < i => w[i] = "held"
  BY <1>1, <1>3, <1>4
<1>8. ASSUME NEW i \in 1..Len(text'), i <= Emitted, w[i] = "held" PROVE Skipped(text', i)
  <2>1. i \in 1..Len(text) /\ said[i] = "held"
    BY <1>1, <1>4, <1>5, <1>8
  <2>2. Skipped(text, i)
    BY <1>3, <1>8, <2>1
  <2> QED
    BY <1>1, <2>1, <2>2, SkippedLater
<1> QED
  BY <1>2, <1>6, <1>7, <1>8 DEF w

LEMMA SkippedTag ==
    ASSUME NEW b \in Seq(Alphabet), NEW t \in Seq(Alphabet), Extends(t, b), NEW m \in {ThinkOpen, ThinkClose},
           NEW j \in Nat, IsAt(b, m, j), NEW i \in Nat, j < i, i <= j + 2
    PROVE  Skipped(t, i)
<1>1. IsAt(t, m, j) /\ j + 2 <= Len(t)
  BY ExtendsTag, AtTag, TagIs
<1>2. j \in 0..Len(t)
  BY <1>1, LenProperties
<1> QED
  BY <1>1, <1>2 DEF Skipped

LEMMA FlowEnds ==
    ASSUME Types, Buffered, Flow, NEW n \in 1..(MaxText - Len(text)), NEW piece \in Pieces[n], Token(piece),
           ~CutBelow(Buffer(piece)), EndsThinking(Buffer(piece), Before(piece)),
           \A i \in Nat, j \in Nat : /\ reasonEmitted <= i /\ IsAt(Buffer(piece), ThinkClose, i) /\ i <= j
                                     => ~IsAt(Buffer(piece), ThinkOpen, j)
    PROVE  Flow'
<1> DEFINE b == Buffer(piece)
           w == Before(piece)
           t == text'
<1>1. /\ req' = req /\ calls' = calls /\ b \in Seq(Alphabet) /\ Len(b) <= MaxText /\ Len(b) \in 0..Len(t)
      /\ t \in Seq(Alphabet) /\ Extends(t, b) /\ (Len(b) = Len(t) => b = t)
      /\ pc' = IF Len(b) < Len(t) THEN "cut" ELSE "stream"
      /\ w \in Seq(Kinds) /\ Len(w) = Len(t)
  BY TokenIs
<1>2. /\ Emitted \in 0..Len(text)
      /\ \A i \in 1..Len(t) : w[i] # "again"
      /\ \A i \in 1..Len(t) : Emitted < i => w[i] = "held"
      /\ \A i \in 1..Len(t) : i <= Emitted /\ w[i] = "held" => Skipped(t, i)
  BY FlowBefore
<1> HIDE DEF b, w
<1>3. Len(b) \in Nat /\ Len(t) \in Nat /\ Len(b) <= Len(t) /\ Nowhere \in Nat /\ Len(b) < Nowhere /\ MaxText \in Nat
  BY <1>1, LenProperties, NowhereIs
<1>4. reasonEmitted \in 0..Len(b)
  BY <1>3, NotCutBelow DEF b
<1>5. PICK idx \in reasonEmitted..Len(b), lead \in 0..Len(b), end \in 0..Len(b) :
        /\ start = Nowhere /\ start' = lead /\ contentEmitted' = end /\ reasonEmitted' = reasonEmitted
        /\ said' = Sent(Sent(w, "reasoning", reasonEmitted, idx), "content", lead, end)
        /\ IsAt(b, ThinkClose, idx)
        /\ idx + 2 <= lead /\ lead <= end /\ lead = PastBlanks(b, idx + 2)
        /\ LetGo(b, lead, end, ContentMarks)
  BY <1>1, <1>4, EndsEffect DEF b, w
<1>6. Emitted = reasonEmitted
  BY <1>5 DEF Emitted
<1>7. /\ reasonEmitted \in Nat /\ idx \in Nat /\ lead \in Nat /\ end \in Nat /\ reasonEmitted <= idx
      /\ idx <= Len(b) /\ lead <= Len(b) /\ end <= Len(b) /\ lead # Nowhere
  BY <1>3, <1>4
<1> DEFINE u == Sent(w, "reasoning", reasonEmitted, idx)
<1>8. /\ u \in Seq(Kinds) /\ Len(u) = Len(t)
      /\ \A i \in 1..Len(t) : u[i] = IF reasonEmitted < i /\ i <= idx THEN "reasoning" ELSE w[i]
  <2>1. (\A i \in 1..Len(w) : reasonEmitted < i => w[i] = "held") /\ "reasoning" \in Kinds
    BY <1>1, <1>2, <1>6 DEF Kinds
  <2>2. /\ u \in Seq(Kinds) /\ Len(u) = Len(w)
        /\ \A i \in 1..Len(w) : u[i] = IF reasonEmitted < i /\ i <= idx THEN "reasoning" ELSE w[i]
    BY <1>1, <1>7, <2>1, SentIs
  <2> QED
    BY <1>1, <2>2
<1> HIDE DEF u
<1>9. \A i \in 1..Len(t) : lead < i => u[i] = "held"
  <2>1. \A i \in 1..Len(t) : lead < i => reasonEmitted < i /\ ~(i <= idx)
    BY <1>3, <1>5, <1>7
  <2> QED
    BY <1>2, <1>6, <1>8, <2>1
<1>10. \A i \in 1..Len(t) : said'[i] = IF lead < i /\ i <= end THEN "content" ELSE u[i]
  <2>1. \A i \in 1..Len(u) : lead < i => u[i] = "held"
    BY <1>8, <1>9
  <2>2. "content" \in Kinds /\ said' = Sent(u, "content", lead, end)
    BY <1>5 DEF Kinds, u
  <2>3. \A i \in 1..Len(u) : Sent(u, "content", lead, end)[i] = IF lead < i /\ i <= end THEN "content" ELSE u[i]
    BY <1>7, <1>8, <2>1, <2>2, SentIs
  <2> QED
    BY <1>8, <2>2, <2>3
<1>11. Emitted' = end /\ start' # Nowhere
  BY <1>5, <1>7 DEF Emitted
<1>12. Once'
  BY <1>2, <1>8, <1>10 DEF Once
<1>13. InOrder'
  BY <1>3, <1>5, <1>7, <1>11 DEF InOrder
<1>14. HeldAhead'
  <2>1. \A i \in 1..Len(t) : end < i => lead < i /\ ~(i <= end)
    BY <1>3, <1>5, <1>7
  <2> QED
    BY <1>9, <1>10, <1>11, <2>1 DEF HeldAhead
<1>15. HeldBehind'
  <2> SUFFICES ASSUME NEW i \in 1..Len(t), i <= end, said'[i] = "held" PROVE Skipped(t, i)
    BY <1>11 DEF HeldBehind
  <2>1. i <= lead /\ u[i] = "held" /\ i \in Nat
    BY <1>3, <1>7, <1>10
  <2>2. ~(reasonEmitted < i /\ i <= idx) /\ w[i] = "held"
    BY <1>8, <2>1
  <2>3. CASE i <= reasonEmitted
    BY <1>2, <1>6, <2>2, <2>3
  <2>4. CASE idx < i /\ i <= idx + 2
    BY <1>1, <1>5, <1>7, <2>1, <2>4, SkippedTag
  <2>5. CASE idx + 2 < i
    <3>1. idx + 2 \in 0..Len(b)
      BY <1>3, <1>5, <1>7
    <3>2. \A k \in (idx + 2 + 1)..lead : b[k] = Blank
      BY <1>1, <1>5, <3>1, BlanksIs
    <3>3. \A k \in (idx + 3)..i : k \in (idx + 2 + 1)..lead /\ k \in 1..Len(b)
      BY <1>3, <1>7, <2>1
    <3>4. \A k \in (idx + 3)..i : t[k] = Blank
      BY <1>1, <3>2, <3>3 DEF Extends, Alike
    <3>5. IsAt(t, ThinkClose, idx) /\ idx \in 0..Len(t)
      BY <1>1, <1>3, <1>5, <1>7, ExtendsTag, TagIs
    <3> QED
      BY <2>5, <3>4, <3>5 DEF Skipped
  <2> QED
    BY <1>7, <2>1, <2>2, <2>3, <2>4, <2>5
<1>16. Quiet'
  <2> SUFFICES ASSUME pc' = "stream"
               PROVE  Unbegun(t, ThinkOpen, lead, end) /\ (req.tools => Unbegun(t, ToolOpen, lead, end))
    BY <1>1, <1>5 DEF Quiet
  <2>1. b = t
    BY <1>1, <1>3
  <2>2. /\ req.tools => Unbegun(b, ToolOpen, lead, end)
        /\ Unbegun(b, ThinkOpen, lead, end) \/ \E i \in lead..(end - 1) : IsAt(b, ThinkOpen, i)
    <3>1. /\ ThinkOpen \in ContentMarks /\ StopMark \subseteq ContentMarks
          /\ \A m \in StopMark : Len(m) \in Nat /\ DOMAIN m = 1..Len(m)
      BY StopIs DEF Types
    <3>2. lead \in 0..Len(b)
      OBVIOUS
    <3> QED
      BY <1>1, <1>5, <3>1, <3>2, LetClean
  <2>3. ASSUME NEW i \in lead..(end - 1) PROVE ~IsAt(b, ThinkOpen, i)
    <3>1. i \in Nat /\ idx <= i
      BY <1>5, <1>7
    <3> QED
      BY <1>5, <1>7, <3>1 DEF b
  <2> QED
    BY <2>1, <2>2, <2>3
<1>17. AllSent'
  BY <1>1 DEF AllSent
<1> QED
  BY <1>12, <1>13, <1>14, <1>15, <1>16, <1>17 DEF Flow
LEMMA FlowThinks ==
    ASSUME Types, Buffered, Flow, NEW n \in 1..(MaxText - Len(text)), NEW piece \in Pieces[n], Token(piece),
           ~CutBelow(Buffer(piece)), Thinks(Buffer(piece), Before(piece))
    PROVE  Flow'
<1> DEFINE b == Buffer(piece)
           w == Before(piece)
           t == text'
<1>1. /\ req' = req /\ calls' = calls /\ b \in Seq(Alphabet) /\ Len(b) <= MaxText /\ Len(b) \in 0..Len(t)
      /\ pc = "stream" /\ pc' = IF Len(b) < Len(t) THEN "cut" ELSE "stream"
      /\ w \in Seq(Kinds) /\ Len(w) = Len(t) /\ t \in Seq(Alphabet)
  BY TokenIs
<1>2. /\ Emitted \in 0..Len(text)
      /\ \A i \in 1..Len(t) : w[i] # "again"
      /\ \A i \in 1..Len(t) : Emitted < i => w[i] = "held"
      /\ \A i \in 1..Len(t) : i <= Emitted /\ w[i] = "held" => Skipped(t, i)
  BY FlowBefore
<1> HIDE DEF b, w
<1>3. Len(b) \in Nat /\ Len(t) \in Nat /\ Len(b) <= Len(t)
  BY <1>1, LenProperties
<1>4. reasonEmitted \in 0..Len(b)
  BY <1>3, NotCutBelow DEF b
<1>5. PICK end \in reasonEmitted..Len(b) :
        /\ start = Nowhere /\ start' = start /\ contentEmitted' = contentEmitted /\ reasonEmitted' = end
        /\ said' = Sent(w, "reasoning", reasonEmitted, end)
  BY <1>1, <1>4, ThinksEffect DEF b, w
<1>6. Emitted = reasonEmitted /\ contentEmitted <= reasonEmitted /\ contentEmitted \in Nat
  BY <1>1, <1>5 DEF Emitted, Flow, InOrder, Sending, Types
<1>7. reasonEmitted \in Nat /\ end \in Nat /\ reasonEmitted <= end /\ end <= Len(b)
  BY <1>3, <1>4
<1>8. \A i \in 1..Len(t) : said'[i] = IF reasonEmitted < i /\ i <= end THEN "reasoning" ELSE w[i]
  <2>1. (\A i \in 1..Len(w) : reasonEmitted < i => w[i] = "held") /\ "reasoning" \in Kinds
    BY <1>1, <1>2, <1>6 DEF Kinds
  <2>2. \A i \in 1..Len(w) : Sent(w, "reasoning", reasonEmitted, end)[i]
                               = IF reasonEmitted < i /\ i <= end THEN "reasoning" ELSE w[i]
    BY <1>1, <1>7, <2>1, SentIs
  <2> QED
    BY <1>1, <1>5, <2>2
<1>9. Emitted' = end /\ start' = Nowhere
  BY <1>5 DEF Emitted
<1>10. Once'
  BY <1>2, <1>8 DEF Once
<1>11. InOrder'
  <2>1. end <= Len(t) /\ contentEmitted <= end
    BY <1>3, <1>6, <1>7
  <2> QED
    BY <1>5, <1>9, <2>1 DEF InOrder
<1>12. HeldAhead'
  <2>1. \A i \in 1..Len(t) : end < i => reasonEmitted < i /\ ~(i <= end)
    BY <1>3, <1>7
  <2> QED
    BY <1>2, <1>6, <1>8, <1>9, <2>1 DEF HeldAhead
<1>13. HeldBehind'
  <2> SUFFICES ASSUME NEW i \in 1..Len(t), i <= end, said'[i] = "held" PROVE Skipped(t, i)
    BY <1>9 DEF HeldBehind
  <2>1. i <= reasonEmitted /\ w[i] = "held"
    BY <1>3, <1>7, <1>8
  <2> QED
    BY <1>2, <1>6, <2>1
<1>14. Quiet'
  BY <1>9 DEF Quiet
<1>15. AllSent'
  BY <1>1 DEF AllSent
<1> QED
  BY <1>10, <1>11, <1>12, <1>13, <1>14, <1>15 DEF Flow

LEMMA FlowStarts ==
    ASSUME Types, Buffered, Flow, NEW n \in 1..(MaxText - Len(text)), NEW piece \in Pieces[n], Token(piece),
           StartsThinking(Buffer(piece), Before(piece))
    PROVE  Flow'
<1> DEFINE b == Buffer(piece)
           w == Before(piece)
           t == text'
<1>1. /\ req' = req /\ calls' = calls /\ b \in Seq(Alphabet) /\ Len(b) <= MaxText /\ Len(b) \in 0..Len(t)
      /\ t \in Seq(Alphabet) /\ Extends(t, b) /\ Extends(t, text)
      /\ pc = "stream" /\ pc' = IF Len(b) < Len(t) THEN "cut" ELSE "stream"
      /\ w \in Seq(Kinds) /\ Len(w) = Len(t)
  BY TokenIs
<1>2. /\ Emitted \in 0..Len(text)
      /\ \A i \in 1..Len(t) : w[i] # "again"
      /\ \A i \in 1..Len(t) : Emitted < i => w[i] = "held"
      /\ \A i \in 1..Len(t) : i <= Emitted /\ w[i] = "held" => Skipped(t, i)
  BY FlowBefore
<1> HIDE DEF b, w
<1>3. Len(b) \in Nat /\ Len(t) \in Nat /\ Len(b) <= Len(t)
  BY <1>1, LenProperties
<1>4. PICK open \in 0..Len(b) :
        /\ start # Nowhere /\ start \in Nat /\ start <= open
        /\ start' = Nowhere /\ reasonEmitted' = open + 2 /\ contentEmitted' = contentEmitted
        /\ said' = Sent(w, "content", contentEmitted, open)
        /\ IsAt(b, ThinkOpen, open) /\ open + 2 <= Len(b)
  BY <1>1, StartsEffect DEF b, w
<1>5. Emitted = contentEmitted /\ contentEmitted \in Nat /\ open \in Nat /\ open <= Len(b)
  BY <1>3, <1>4 DEF Emitted, Types
<1>6. contentEmitted <= open
  <2> SUFFICES ASSUME ~(contentEmitted <= open) PROVE FALSE
    OBVIOUS
  <2>1. Unbegun(text, ThinkOpen, start, contentEmitted)
    BY <1>1, <1>4 DEF Flow, Quiet
  <2>2. open \in start..(contentEmitted - 1)
    BY <1>4, <1>5
  <2>3. IsAt(t, ThinkOpen, open)
    BY <1>1, <1>4, <1>5, ExtendsTag, TagIs
  <2>4. Begun(text, Len(text), ThinkOpen, open)
    BY <1>1, <1>5, <2>3, ExtendsTag, TagIs DEF Types
  <2> QED
    BY <2>1, <2>2, <2>4 DEF Unbegun
<1>7. \A i \in 1..Len(t) : said'[i] = IF contentEmitted < i /\ i <= open THEN "content" ELSE w[i]
  <2>1. (\A i \in 1..Len(w) : contentEmitted < i => w[i] = "held") /\ "content" \in Kinds
    BY <1>1, <1>2, <1>5 DEF Kinds
  <2>2. \A i \in 1..Len(w) : Sent(w, "content", contentEmitted, open)[i]
                               = IF contentEmitted < i /\ i <= open THEN "content" ELSE w[i]
    BY <1>1, <1>5, <2>1, SentIs
  <2> QED
    BY <1>1, <1>4, <2>2
<1>8. Emitted' = open + 2 /\ start' = Nowhere
  BY <1>4 DEF Emitted
<1>9. Once'
  BY <1>2, <1>7 DEF Once
<1>10. InOrder'
  <2>1. open + 2 <= Len(t) /\ contentEmitted <= open + 2
    BY <1>3, <1>4, <1>5, <1>6
  <2> QED
    BY <1>4, <1>8, <2>1 DEF InOrder
<1>11. HeldAhead'
  <2>1. \A i \in 1..Len(t) : open + 2 < i => contentEmitted < i /\ ~(i <= open)
    BY <1>3, <1>5, <1>6
  <2> QED
    BY <1>2, <1>5, <1>7, <1>8, <2>1 DEF HeldAhead
<1>12. HeldBehind'
  <2> SUFFICES ASSUME NEW i \in 1..Len(t), i <= open + 2, said'[i] = "held" PROVE Skipped(t, i)
    BY <1>8 DEF HeldBehind
  <2>1. ~(contentEmitted < i /\ i <= open) /\ w[i] = "held" /\ i \in Nat
    BY <1>3, <1>7
  <2>2. CASE i <= contentEmitted
    BY <1>2, <1>5, <2>1, <2>2
  <2>3. CASE open < i
    BY <1>1, <1>4, <1>5, <2>1, <2>3, SkippedTag
  <2> QED
    BY <1>5, <2>1, <2>2, <2>3
<1>13. Quiet'
  BY <1>8 DEF Quiet
<1>14. AllSent'
  BY <1>1 DEF AllSent
<1> QED
  BY <1>9, <1>10, <1>11, <1>12, <1>13, <1>14 DEF Flow

LEMMA FlowAnswers ==
    ASSUME Types, Buffered, Flow, NEW n \in 1..(MaxText - Len(text)), NEW piece \in Pieces[n], Token(piece),
           ~CutBelow(Buffer(piece)), Answers(Buffer(piece), Before(piece))
    PROVE  Flow'
<1> DEFINE b == Buffer(piece)
           w == Before(piece)
           t == text'
           c == contentEmitted
<1>1. /\ req' = req /\ calls' = calls /\ b \in Seq(Alphabet) /\ Len(b) <= MaxText /\ Len(b) \in 0..Len(t)
      /\ t \in Seq(Alphabet) /\ Extends(t, b) /\ Extends(t, text) /\ (Len(b) = Len(t) => b = t)
      /\ pc = "stream" /\ pc' = IF Len(b) < Len(t) THEN "cut" ELSE "stream"
      /\ w \in Seq(Kinds) /\ Len(w) = Len(t)
  BY TokenIs
<1>2. /\ Emitted \in 0..Len(text)
      /\ \A i \in 1..Len(t) : w[i] # "again"
      /\ \A i \in 1..Len(t) : Emitted < i => w[i] = "held"
      /\ \A i \in 1..Len(t) : i <= Emitted /\ w[i] = "held" => Skipped(t, i)
  BY FlowBefore
<1> HIDE DEF b, w
<1>3. Len(b) \in Nat /\ Len(t) \in Nat /\ Len(b) <= Len(t)
  BY <1>1, LenProperties
<1>4. start # Nowhere /\ start \in 0..Len(b) /\ c \in 0..Len(b)
  BY <1>3, NotCutBelow DEF b, Answers
<1>5. PICK end \in start..Len(b) :
        /\ start' = start /\ reasonEmitted' = reasonEmitted
        /\ contentEmitted' = IF c <= end THEN end ELSE c
        /\ said' = Sent(w, "content", c, end)
        /\ LetGo(b, start, end, ContentMarks)
        /\ \A i \in start..(end - 1) : ~IsAt(b, ThinkOpen, i)
  BY <1>1, <1>4, AnswersEffect DEF b, w
<1>6. Emitted = c /\ reasonEmitted <= c /\ start <= c /\ reasonEmitted \in Nat
  BY <1>1, <1>4 DEF Emitted, Flow, InOrder, Sending, Types
<1>7. start \in Nat /\ c \in Nat /\ end \in Nat /\ end <= Len(b) /\ c <= Len(b)
  BY <1>3, <1>4
<1> DEFINE c1 == contentEmitted'
<1>8. c1 \in Nat /\ c <= c1 /\ end <= c1 /\ c1 <= Len(b) /\ (c1 = c \/ c1 = end)
  BY <1>5, <1>7
<1>9. \A i \in 1..Len(t) : said'[i] = IF c < i /\ i <= end THEN "content" ELSE w[i]
  <2>1. (\A i \in 1..Len(w) : c < i => w[i] = "held") /\ "content" \in Kinds
    BY <1>1, <1>2, <1>6 DEF Kinds
  <2>2. \A i \in 1..Len(w) : Sent(w, "content", c, end)[i] = IF c < i /\ i <= end THEN "content" ELSE w[i]
    BY <1>1, <1>7, <2>1, SentIs
  <2> QED
    BY <1>1, <1>5, <2>2
<1>10. Emitted' = c1 /\ start' # Nowhere
  BY <1>4, <1>5 DEF Emitted
<1> HIDE DEF c1
<1>11. Once'
  BY <1>2, <1>9 DEF Once
<1>12. InOrder'
  <2>1. c1 <= Len(t) /\ reasonEmitted <= c1 /\ start <= c1
    BY <1>3, <1>6, <1>7, <1>8
  <2> QED
    BY <1>5, <1>10, <2>1 DEF InOrder, c1
<1>13. HeldAhead'
  <2>1. \A i \in 1..Len(t) : c1 < i => c < i /\ ~(i <= end)
    BY <1>3, <1>7, <1>8
  <2> QED
    BY <1>2, <1>6, <1>9, <1>10, <2>1 DEF HeldAhead
<1>14. HeldBehind'
  <2> SUFFICES ASSUME NEW i \in 1..Len(t), i <= c1, said'[i] = "held" PROVE Skipped(t, i)
    BY <1>10 DEF HeldBehind
  <2>1. ~(c < i /\ i <= end) /\ w[i] = "held" /\ i \in Nat
    BY <1>3, <1>9
  <2>2. i <= c
    BY <1>7, <1>8, <2>1
  <2> QED
    BY <1>2, <1>6, <2>1, <2>2
<1>15. Quiet'
  <2> SUFFICES ASSUME pc' = "stream"
               PROVE  Unbegun(t, ThinkOpen, start, c1) /\ (req.tools => Unbegun(t, ToolOpen, start, c1))
    BY <1>1, <1>5 DEF Quiet, c1
  <2>1. b = t
    BY <1>1, <1>3
  <2>2. CASE c1 = c
    <3>1. /\ Unbegun(text, ThinkOpen, start, c)
          /\ req.tools => Unbegun(text, ToolOpen, start, c)
      BY <1>1, <1>4 DEF Flow, Quiet
    <3> QED
      BY <1>1, <1>7, <2>2, <3>1, UnbegunLater, TagIs DEF Types
  <2>3. CASE c1 = end
    <3>1. /\ ThinkOpen \in ContentMarks /\ StopMark \subseteq ContentMarks
          /\ \A m \in StopMark : Len(m) \in Nat /\ DOMAIN m = 1..Len(m)
      BY StopIs DEF Types
    <3>2. /\ req.tools => Unbegun(b, ToolOpen, start, end)
          /\ Unbegun(b, ThinkOpen, start, end) \/ \E i \in start..(end - 1) : IsAt(b, ThinkOpen, i)
      BY <1>1, <1>4, <1>5, <3>1, LetClean
    <3> QED
      BY <1>5, <2>1, <2>3, <3>2
  <2> QED
    BY <1>8, <2>2, <2>3
<1>16. AllSent'
  BY <1>1 DEF AllSent
<1> QED
  BY <1>11, <1>12, <1>13, <1>14, <1>15, <1>16 DEF Flow
LEMMA FlowNothing ==
    ASSUME Types, Buffered, Flow, NEW n \in 1..(MaxText - Len(text)), NEW piece \in Pieces[n], Token(piece),
           SaysNothing(Buffer(piece), Before(piece))
    PROVE  Flow' /\ pc' = "cut"
<1> DEFINE b == Buffer(piece)
           w == Before(piece)
           t == text'
<1>1. /\ req' = req /\ calls' = calls /\ Len(b) \in 0..Len(t) /\ t \in Seq(Alphabet) /\ Len(t) = Len(text) + n
      /\ pc = "stream" /\ pc' = IF Len(b) < Len(t) THEN "cut" ELSE "stream"
      /\ w \in Seq(Kinds) /\ Len(w) = Len(t)
  BY TokenIs
<1>2. /\ Emitted \in 0..Len(text)
      /\ \A i \in 1..Len(t) : w[i] # "again"
      /\ \A i \in 1..Len(t) : Emitted < i => w[i] = "held"
      /\ \A i \in 1..Len(t) : i <= Emitted /\ w[i] = "held" => Skipped(t, i)
  BY FlowBefore
<1> HIDE DEF b, w
<1>3. /\ said' = w /\ start' = start /\ reasonEmitted' = reasonEmitted /\ contentEmitted' = contentEmitted
      /\ CutBelow(b)
  BY DEF SaysNothing, b, w
<1>4. Emitted' = Emitted
  BY <1>3 DEF Emitted
<1>5. /\ reasonEmitted \in Nat /\ contentEmitted \in Nat /\ (start # Nowhere => start \in Nat) /\ Len(text) \in Nat
      /\ IF start = Nowhere THEN contentEmitted <= reasonEmitted
         ELSE reasonEmitted <= contentEmitted /\ start <= contentEmitted
      /\ Emitted = IF start = Nowhere THEN reasonEmitted ELSE contentEmitted
      /\ Emitted \in Nat /\ Emitted <= Len(text) /\ Emitted <= Len(t) /\ Len(t) \in Nat /\ Len(b) \in Nat
  <2>1. /\ reasonEmitted \in Nat /\ contentEmitted \in Nat /\ (start # Nowhere => start \in Nat) /\ Len(text) \in Nat
        /\ Len(t) \in Nat
    BY <1>1, LenProperties, NowhereIs DEF Types
  <2>2. IF start = Nowhere THEN contentEmitted <= reasonEmitted
        ELSE reasonEmitted <= contentEmitted /\ start <= contentEmitted
    BY <1>1 DEF Flow, InOrder, Sending
  <2> QED
    BY <1>1, <1>2, <2>1, <2>2 DEF Emitted
<1>6. Len(b) < Len(t)
  <2>1. Max({reasonEmitted, contentEmitted}) = IF reasonEmitted <= contentEmitted THEN contentEmitted ELSE reasonEmitted
    BY <1>5, MaxOfTwo
  <2>2. Emitted > Len(b)
    BY <1>3, <1>5, <2>1 DEF CutBelow
  <2> QED
    BY <1>5, <2>2
<1>7. pc' = "cut"
  BY <1>1, <1>6
<1>8. Once' /\ HeldAhead' /\ HeldBehind'
  BY <1>2, <1>3, <1>4 DEF Once, HeldAhead, HeldBehind
<1>9. InOrder'
  BY <1>3, <1>4, <1>5 DEF InOrder
<1>10. Quiet' /\ AllSent'
  BY <1>7 DEF Quiet, AllSent
<1> QED
  BY <1>7, <1>8, <1>9, <1>10 DEF Flow

\* The text of a token does not open a think block behind a close tag in the buffer.
LEMMA NoReopen ==
    ASSUME Types, Buffered, NEW n \in 1..(MaxText - Len(text)), NEW piece \in Pieces[n], Token(piece),
           ~Reopens(piece), start = Nowhere, reasonEmitted <= Len(text)
    PROVE  \A i \in Nat, j \in Nat : /\ reasonEmitted <= i /\ IsAt(Buffer(piece), ThinkClose, i) /\ i <= j
                                     => ~IsAt(Buffer(piece), ThinkOpen, j)
<1> DEFINE b == Buffer(piece)
           t == text'
           r == reasonEmitted
           s == From(acc, r) \o piece
<1>1. /\ acc = text /\ t = text \o piece /\ t \in Seq(Alphabet) /\ Len(t) = Len(text) + n /\ Extends(t, b)
      /\ b \in Seq(Alphabet) /\ Len(b) <= Len(t)
  BY TokenIs
<1>2. text \in Seq(Alphabet) /\ Len(text) \in Nat /\ n \in Nat /\ r \in Nat /\ r <= Len(text) /\ n \in 1..MaxText
  BY LenProperties, NowhereIs DEF Types
<1>3. piece \in Seq(Alphabet) /\ Len(piece) = n
  <2>1. piece \in [1..n -> Alphabet]
    BY <1>2 DEF Pieces, Alphabet
  <2> QED
    BY <1>2, <2>1
<1>4. /\ From(acc, r) \in Seq(Alphabet) /\ Len(From(acc, r)) = Len(text) - r
      /\ \A i \in 1..(Len(text) - r) : From(acc, r)[i] = text[r + i]
  <2>1. r \in 0..Len(text) /\ Len(text) \in r..Len(text)
    BY <1>2
  <2> QED
    BY <1>1, <1>2, <2>1, PartIs DEF From
<1>5. /\ s \in Seq(Alphabet) /\ Len(s) = Len(t) - r
      /\ \A i \in 1..(Len(t) - r) : s[i] = t[r + i]
  <2> DEFINE f == From(acc, r)
  <2> HIDE DEF f
  <2>1. /\ f \o piece \in Seq(Alphabet) /\ Len(f \o piece) = Len(f) + n
        /\ \A i \in 1..(Len(f) + n) : (f \o piece)[i] = IF i <= Len(f) THEN f[i] ELSE piece[i - Len(f)]
    BY <1>3, <1>4, ConcatProperties DEF f
  <2>2. \A i \in 1..(Len(text) + n) : t[i] = IF i <= Len(text) THEN text[i] ELSE piece[i - Len(text)]
    BY <1>1, <1>2, <1>3, ConcatProperties
  <2>3. ASSUME NEW i \in 1..(Len(t) - r) PROVE (f \o piece)[i] = t[r + i]
    <3>1. /\ i \in 1..(Len(f) + n) /\ r + i \in 1..(Len(text) + n) /\ (i <= Len(f) <=> r + i <= Len(text))
          /\ i - Len(f) = (r + i) - Len(text) /\ (i <= Len(f) => i \in 1..(Len(text) - r))
      BY <1>1, <1>2, <1>4 DEF f
    <3>2. CASE i <= Len(f)
      <4>1. f[i] = text[r + i]
        BY <1>4, <3>1, <3>2 DEF f
      <4> QED
        BY <2>1, <2>2, <3>1, <3>2, <4>1
    <3>3. CASE ~(i <= Len(f))
      BY <2>1, <2>2, <3>1, <3>3
    <3> QED
      BY <3>2, <3>3
  <2>4. Len(f) + n = Len(t) - r
    BY <1>1, <1>2, <1>4 DEF f
  <2> QED
    BY <2>1, <2>3, <2>4 DEF f
<1> HIDE DEF s, b
<1>6. ASSUME NEW m \in Tags, NEW i \in Nat, r <= i, IsAt(b, m, i)
      PROVE  i - r \in 0..Len(s) /\ IsAt(s, m, i - r)
  <2>1. IsAt(t, m, i)
    BY <1>1, <1>6, ExtendsTag
  <2>2. i + 2 <= Len(t) /\ t[i + 1] = "<" /\ t[i + 2] = m[2]
    BY <1>1, <2>1, AtTag
  <2>3. /\ i - r \in Nat /\ (i - r) + 2 <= Len(s) /\ (i - r) + 1 \in 1..(Len(t) - r) /\ (i - r) + 2 \in 1..(Len(t) - r)
        /\ r + ((i - r) + 1) = i + 1 /\ r + ((i - r) + 2) = i + 2 /\ i - r \in 0..Len(s)
    BY <1>1, <1>2, <1>5, <1>6, <2>2
  <2>4. s[(i - r) + 1] = "<" /\ s[(i - r) + 2] = m[2]
    BY <1>5, <2>2, <2>3
  <2> QED
    BY <1>5, <2>3, <2>4, AtTag
<1>7. ASSUME NEW i \in Nat, NEW j \in Nat, r <= i, IsAt(b, ThinkClose, i), i <= j, IsAt(b, ThinkOpen, j)
      PROVE  FALSE
  <2>1. i - r \in Found(s, ThinkClose, 0)
    BY <1>6, <1>7, TagIs DEF Found
  <2>2. r <= j /\ j - r \in (i - r)..Len(s)
    <3>1. r <= j
      BY <1>2, <1>7
    <3>2. j - r \in 0..Len(s)
      BY <1>6, <1>7, <3>1, TagIs
    <3>3. Len(s) \in Nat
      BY <1>5, LenProperties
    <3> QED
      BY <1>2, <1>7, <3>1, <3>2, <3>3
  <2>3. IsAt(s, ThinkOpen, j - r)
    BY <1>6, <1>7, <2>2, TagIs
  <2>4. j - r \in Found(s, ThinkOpen, i - r)
    BY <2>2, <2>3 DEF Found
  <2>5. Reopens(piece)
    BY <2>1, <2>4 DEF Reopens, s
  <2> QED
    BY <2>5
<1> QED
  BY <1>7 DEF b

LEMMA FlowToken ==
    ASSUME Types, Buffered, Flow, NEW n \in 1..(MaxText - Len(text)), NEW piece \in Pieces[n], Token(piece),
           start = Nowhere => \A i \in Nat, j \in Nat :
             /\ reasonEmitted <= i /\ IsAt(Buffer(piece), ThinkClose, i) /\ i <= j => ~IsAt(Buffer(piece), ThinkOpen, j)
    PROVE  Flow'
<1>1. \/ SaysNothing(Buffer(piece), Before(piece))
      \/ ~CutBelow(Buffer(piece)) /\ EndsThinking(Buffer(piece), Before(piece))
      \/ ~CutBelow(Buffer(piece)) /\ Thinks(Buffer(piece), Before(piece))
      \/ ~CutBelow(Buffer(piece)) /\ StartsThinking(Buffer(piece), Before(piece))
      \/ ~CutBelow(Buffer(piece)) /\ Answers(Buffer(piece), Before(piece))
  BY TokenIs
<1>2. EndsThinking(Buffer(piece), Before(piece)) => start = Nowhere
  BY DEF EndsThinking
<1> QED
  BY <1>1, <1>2, FlowNothing, FlowEnds, FlowThinks, FlowStarts, FlowAnswers

\* What the end of the stream sends of what was held.
LEMMA HeldTailIs ==
    ASSUME Types, Buffered, InOrder, HeldAhead, Sending
    PROVE  LET end == Len(acc) IN
           /\ Emitted \in Nat
           /\ Emitted >= end => HeldTail(said) = said
           /\ Emitted < end /\ start # Nowhere =>
                \A i \in 1..Len(text) :
                  HeldTail(said)[i] = IF Emitted < i /\ i <= end THEN "content" ELSE said[i]
           /\ Emitted < end /\ start = Nowhere =>
                LET close == Find(acc, ThinkClose, Emitted)
                    hit == Find(acc, ToolOpen, Emitted)
                    marker == IF req.tools /\ hit # Nowhere THEN hit ELSE end
                IN /\ marker \in Emitted..end
                   /\ close < marker =>
                        \A i \in 1..Len(text) :
                          HeldTail(said)[i] = IF Emitted < i /\ i <= close THEN "reasoning"
                                              ELSE IF PastBlanks(acc, close + 2) < i /\ i <= end THEN "content"
                                              ELSE said[i]
                   /\ ~(close < marker) =>
                        \A i \in 1..Len(text) :
                          HeldTail(said)[i] = IF Emitted < i /\ i <= marker THEN "reasoning"
                                              ELSE IF marker < i /\ i <= end THEN "content"
                                              ELSE said[i]
<1> DEFINE end == Len(acc)
           from == Emitted
           close == Find(acc, ThinkClose, from)
           hit == Find(acc, ToolOpen, from)
           marker == IF req.tools /\ hit # Nowhere THEN hit ELSE end
<1>1. acc \in Seq(Alphabet) /\ end \in Nat /\ end <= Len(text) /\ end <= MaxText /\ Len(text) \in Nat
  BY BufferIs
<1>2. /\ reasonEmitted \in Nat /\ contentEmitted \in Nat
      /\ IF start = Nowhere THEN contentEmitted <= reasonEmitted ELSE reasonEmitted <= contentEmitted
      /\ from \in Nat /\ from = IF start = Nowhere THEN reasonEmitted ELSE contentEmitted
  BY DEF Types, InOrder, Emitted
<1>3. Max({reasonEmitted, contentEmitted}) = from
  <2>1. Max({reasonEmitted, contentEmitted}) = IF reasonEmitted <= contentEmitted THEN contentEmitted ELSE reasonEmitted
    BY <1>2, MaxOfTwo
  <2> QED
    BY <1>2, <2>1
<1>4. /\ said \in Seq(Kinds) /\ Len(said) = Len(text) /\ \A i \in 1..Len(said) : from < i => said[i] = "held"
      /\ "content" \in Kinds /\ "reasoning" \in Kinds
  BY DEF Types, HeldAhead, Kinds
<1>5. /\ hit \in Nat /\ (hit # Nowhere => hit \in from..Len(acc) /\ hit + 2 <= Len(acc))
      /\ close \in Nat /\ (close # Nowhere => close \in from..Len(acc) /\ close + 2 <= Len(acc))
      /\ Nowhere \in Nat /\ Len(acc) < Nowhere /\ MaxText \in Nat
  <2>1. Nowhere \in Nat /\ Len(acc) < Nowhere /\ MaxText \in Nat
    BY <1>1, NowhereIs
  <2> QED
    BY <1>1, <1>2, <2>1, FoundIs, TagIs
<1>6. (IF req.tools THEN Min({hit, Len(acc)}) ELSE Len(acc)) = marker
  <2>1. Min({hit, Len(acc)}) = IF hit <= Len(acc) THEN hit ELSE Len(acc)
    BY <1>1, <1>5, MinOfTwo
  <2> QED
    BY <1>1, <1>5, <2>1
<1> DEFINE T1 == Sent(said, "reasoning", from, close)
           T2 == Sent(said, "reasoning", from, marker)
<1>7. HeldTail(said) =
        IF from >= Len(acc) THEN said
        ELSE IF start # Nowhere THEN Sent(said, "content", from, Len(acc))
        ELSE IF close < marker THEN Sent(T1, "content", PastBlanks(acc, close + 2), Len(acc))
        ELSE Sent(T2, "content", marker, Len(acc))
  BY <1>3, <1>6, TagIs DEF HeldTail
<1> HIDE DEF from, hit, close
<1>8. from < end => marker \in from..end /\ marker \in Nat
  BY <1>1, <1>2, <1>5
<1> HIDE DEF marker
<1>9. CASE from >= end
  <2>1. HeldTail(said) = said /\ ~(from < end)
    BY <1>1, <1>2, <1>7, <1>9
  <2> QED
    BY <1>2, <2>1 DEF from
<1>10. CASE from < end /\ start # Nowhere
  <2>1. HeldTail(said) = Sent(said, "content", from, end) /\ ~(from >= end)
    BY <1>1, <1>2, <1>7, <1>10
  <2>2. \A i \in 1..Len(text) : Sent(said, "content", from, end)[i] = IF from < i /\ i <= end THEN "content" ELSE said[i]
    BY <1>1, <1>2, <1>4, SentIs
  <2> QED
    BY <1>2, <1>10, <2>1, <2>2 DEF from
<1>11. CASE from < end /\ start = Nowhere
  <2>1. ~(from >= end) /\ marker \in from..end /\ marker \in Nat /\ end < Nowhere
    BY <1>1, <1>2, <1>5, <1>8, <1>11
  <2>2. ASSUME close < marker
        PROVE  \A i \in 1..Len(text) :
                 HeldTail(said)[i] = IF from < i /\ i <= close THEN "reasoning"
                                     ELSE IF PastBlanks(acc, close + 2) < i /\ i <= end THEN "content"
                                     ELSE said[i]
    <3> DEFINE p == PastBlanks(acc, close + 2)
    <3>1. close # Nowhere /\ close \in from..end /\ close + 2 \in 0..end
      BY <1>1, <1>2, <1>5, <2>1, <2>2
    <3>2. p \in (close + 2)..end
      BY <1>1, <3>1, BlanksIs
    <3>3. HeldTail(said) = Sent(T1, "content", p, end)
      BY <1>7, <1>11, <2>1, <2>2
    <3> HIDE DEF p
    <3>4. p \in Nat /\ from <= close /\ close < p /\ close \in Nat
      BY <1>1, <1>2, <1>5, <3>1, <3>2
    <3>5. /\ T1 \in Seq(Kinds) /\ Len(T1) = Len(said)
          /\ \A i \in 1..Len(said) : T1[i] = IF from < i /\ i <= close THEN "reasoning" ELSE said[i]
      BY <1>2, <1>4, <3>4, SentIs
    <3> HIDE DEF T1
    <3>6. \A i \in 1..Len(T1) : p < i => T1[i] = "held"
      <4>1. \A i \in 1..Len(said) : p < i => from < i /\ ~(i <= close)
        BY <1>1, <1>2, <1>4, <3>4
      <4> QED
        BY <1>4, <3>5, <4>1
    <3>7. \A i \in 1..Len(T1) : Sent(T1, "content", p, end)[i] = IF p < i /\ i <= end THEN "content" ELSE T1[i]
      BY <1>1, <1>4, <3>4, <3>5, <3>6, SentIs
    <3>8. \A i \in 1..Len(said) : i <= close => ~(p < i)
      BY <1>1, <1>4, <3>4
    <3> QED
      BY <1>4, <3>3, <3>5, <3>7, <3>8 DEF p
  <2>3. ASSUME ~(close < marker)
        PROVE  \A i \in 1..Len(text) :
                 HeldTail(said)[i] = IF from < i /\ i <= marker THEN "reasoning"
                                     ELSE IF marker < i /\ i <= end THEN "content"
                                     ELSE said[i]
    <3>1. HeldTail(said) = Sent(T2, "content", marker, end) /\ from <= marker
      BY <1>2, <1>7, <1>11, <2>1, <2>3
    <3>2. /\ T2 \in Seq(Kinds) /\ Len(T2) = Len(said)
          /\ \A i \in 1..Len(said) : T2[i] = IF from < i /\ i <= marker THEN "reasoning" ELSE said[i]
      BY <1>2, <1>4, <2>1, SentIs
    <3> HIDE DEF T2
    <3>3. \A i \in 1..Len(said) : marker < i => from < i /\ ~(i <= marker)
      BY <1>1, <1>2, <1>4, <2>1, <3>1
    <3>4. \A i \in 1..Len(T2) : marker < i => T2[i] = "held"
      BY <1>4, <3>2, <3>3
    <3>5. \A i \in 1..Len(T2) : Sent(T2, "content", marker, end)[i]
                                  = IF marker < i /\ i <= end THEN "content" ELSE T2[i]
      BY <1>1, <1>4, <2>1, <3>2, <3>4, SentIs
    <3> QED
      BY <1>4, <3>1, <3>2, <3>3, <3>5
  <2> QED
    BY <1>2, <1>11, <2>1, <2>2, <2>3 DEF from, close, marker, hit
<1> QED
  <2>1. from >= end \/ from < end
    BY <1>1, <1>2
  <2> QED
    BY <1>9, <1>10, <1>11, <2>1
LEMMA FlowFinish ==
    ASSUME Types, Buffered, Flow, NEW failed \in BOOLEAN, Finish(failed)
    PROVE  Flow'
<1>1. /\ Sending
      /\ said' = IF calls' # {} \/ failed THEN said ELSE HeldTail(said)
      /\ pc' = IF failed THEN "failed" ELSE "done"
      /\ text' = text /\ acc' = acc
  BY DEF Finish, Sending
<1>2. ~Sending' /\ pc' # "stream"
  BY <1>1 DEF Sending
<1>3. InOrder' /\ HeldAhead' /\ HeldBehind' /\ Quiet'
  BY <1>2 DEF InOrder, HeldAhead, HeldBehind, Quiet
<1>4. /\ acc \in Seq(Alphabet) /\ Len(acc) \in Nat /\ Len(acc) <= Len(text) /\ Len(acc) <= MaxText
      /\ Len(text) \in Nat /\ Extends(text, acc) /\ text \in Seq(Alphabet) /\ Len(text) <= MaxText
  BY BufferIs DEF Types
<1>5. /\ \A i \in 1..Len(text) : said[i] # "again"
      /\ \A i \in 1..Len(text) : i <= Emitted /\ said[i] = "held" => Skipped(text, i)
  BY <1>1 DEF Flow, Once, HeldBehind
<1> DEFINE end == Len(acc)
           close == Find(acc, ThinkClose, Emitted)
           hit == Find(acc, ToolOpen, Emitted)
           marker == IF req.tools /\ hit # Nowhere THEN hit ELSE end
           h == HeldTail(said)
<1>6. /\ Emitted \in Nat
      /\ Emitted >= end => h = said
      /\ Emitted < end /\ start # Nowhere =>
           \A i \in 1..Len(text) : h[i] = IF Emitted < i /\ i <= end THEN "content" ELSE said[i]
      /\ Emitted < end /\ start = Nowhere =>
           /\ marker \in Emitted..end
           /\ close < marker =>
                \A i \in 1..Len(text) : h[i] = IF Emitted < i /\ i <= close THEN "reasoning"
                                               ELSE IF PastBlanks(acc, close + 2) < i /\ i <= end THEN "content"
                                               ELSE said[i]
           /\ ~(close < marker) =>
                \A i \in 1..Len(text) : h[i] = IF Emitted < i /\ i <= marker THEN "reasoning"
                                               ELSE IF marker < i /\ i <= end THEN "content"
                                               ELSE said[i]
  BY <1>1, HeldTailIs DEF Flow
<1>7. /\ close \in Nat
      /\ close # Nowhere => close \in Emitted..end /\ close + 2 <= end /\ IsAt(acc, ThinkClose, close)
  BY <1>4, <1>6, FoundIs, TagIs
<1> HIDE DEF h, close
<1>8. \A i \in 1..Len(text) : h[i] # "again"
  BY <1>5, <1>6
<1>9. ASSUME NEW i \in 1..end, h[i] = "held" PROVE Skipped(text, i)
  <2>1. i \in 1..Len(text) /\ i \in Nat /\ i <= end
    BY <1>4
  <2>2. CASE i <= Emitted
    <3>1. h[i] = said[i]
      <4>1. CASE Emitted >= end
        BY <1>6, <4>1
      <4>2. CASE Emitted < end /\ start # Nowhere
        BY <1>6, <1>9, <2>1, <4>2
      <4>3. CASE Emitted < end /\ start = Nowhere
        BY <1>6, <1>9, <2>1, <4>3
      <4> QED
        BY <1>4, <1>6, <4>1, <4>2, <4>3
    <3> QED
      BY <1>5, <1>9, <2>1, <2>2, <3>1
  <2>3. CASE ~(i <= Emitted)
    <3>1. Emitted < i /\ Emitted < end
      BY <1>4, <1>6, <2>1, <2>3
    <3>2. CASE start # Nowhere
      BY <1>6, <1>9, <2>1, <3>1, <3>2
    <3>3. CASE start = Nowhere /\ close < marker
      <4>1. close # Nowhere
        <5>1. Len(acc) < Nowhere /\ Nowhere \in Nat
          BY <1>4, NowhereIs
        <5>2. marker \in Nat /\ marker <= end
          BY <1>4, <1>6, <3>1, <3>3
        <5> HIDE DEF marker
        <5> QED
          BY <1>4, <1>7, <3>3, <5>1, <5>2
      <4>2. close < i /\ i <= PastBlanks(acc, close + 2)
        <5>1. close + 2 \in 0..end
          BY <1>4, <1>7, <4>1
        <5>2. PastBlanks(acc, close + 2) \in (close + 2)..end
          BY <1>4, <5>1, BlanksIs
        <5>3. PastBlanks(acc, close + 2) \in Nat
          BY <1>4, <5>1, <5>2
        <5>4. h[i] = IF Emitted < i /\ i <= close THEN "reasoning"
                     ELSE IF PastBlanks(acc, close + 2) < i /\ i <= end THEN "content"
                     ELSE said[i]
          BY <1>6, <2>1, <3>1, <3>3
        <5> QED
          BY <1>7, <1>9, <2>1, <3>1, <5>3, <5>4
      <4>3. CASE i <= close + 2
        BY <1>4, <1>7, <2>1, <4>1, <4>2, <4>3, SkippedTag
      <4>4. CASE close + 2 < i
        <5>1. close + 2 \in 0..end
          BY <1>4, <1>7, <4>1
        <5>2. PastBlanks(acc, close + 2) \in (close + 2)..end
          BY <1>4, <5>1, BlanksIs
        <5>3. \A k \in (close + 2 + 1)..PastBlanks(acc, close + 2) : acc[k] = Blank
          BY <1>4, <5>1, BlanksIs
        <5>4. \A k \in (close + 3)..i : k \in (close + 2 + 1)..PastBlanks(acc, close + 2) /\ k \in 1..Len(acc)
          BY <1>4, <1>7, <2>1, <4>2, <5>2
        <5>5. \A k \in (close + 3)..i : text[k] = Blank
          BY <1>4, <5>3, <5>4 DEF Extends, Alike
        <5>6. IsAt(text, ThinkClose, close) /\ close \in 0..Len(text)
          <6>1. IsAt(text, ThinkClose, close)
            BY <1>4, <1>7, <4>1, ExtendsTag, TagIs
          <6> QED
            BY <1>4, <1>7, <4>1, <6>1
        <5> QED
          BY <4>4, <5>5, <5>6 DEF Skipped
      <4> QED
        BY <1>7, <2>1, <4>3, <4>4
    <3>4. CASE start = Nowhere /\ ~(close < marker)
      <4>1. h[i] = IF Emitted < i /\ i <= marker THEN "reasoning"
                   ELSE IF marker < i /\ i <= end THEN "content"
                   ELSE said[i]
        BY <1>6, <2>1, <3>1, <3>4
      <4>2. marker \in Nat
        BY <1>4, <1>6, <3>1, <3>4
      <4> HIDE DEF marker
      <4> QED
        BY <1>9, <2>1, <3>1, <4>1, <4>2
    <3> QED
      BY <3>2, <3>3, <3>4
  <2> QED
    BY <2>2, <2>3
<1>10. Once'
  BY <1>1, <1>5, <1>8 DEF Once, h
<1>11. AllSent'
  <2> SUFFICES ASSUME pc' = "done", calls' = {}, NEW i \in 1..Len(acc), said'[i] = "held" PROVE Skipped(text, i)
    BY <1>1 DEF AllSent
  <2>1. said' = h
    BY <1>1 DEF h
  <2> QED
    BY <1>9, <2>1
<1> QED
  BY <1>3, <1>10, <1>11 DEF Flow

LEMMA FlowInit ==
    ASSUME Init
    PROVE  Flow
<1>1. /\ text = <<>> /\ acc = <<>> /\ said = <<>> /\ calls = {} /\ reasonEmitted = 0 /\ contentEmitted = 0
      /\ pc = "stream" /\ start \in {Nowhere, 0}
  BY DEF Init
<1>2. Len(text) = 0 /\ Emitted = 0
  BY <1>1 DEF Emitted
<1>3. Once /\ HeldAhead /\ HeldBehind /\ InOrder
  BY <1>1, <1>2 DEF Once, HeldAhead, HeldBehind, InOrder
<1>4. start # Nowhere => start = 0 /\ \A j \in start..(contentEmitted - 1) : FALSE
  BY <1>1
<1>5. Quiet
  BY <1>4 DEF Quiet, Unbegun
<1>6. AllSent
  BY <1>1 DEF AllSent
<1> QED
  BY <1>3, <1>5, <1>6 DEF Flow

LEMMA FlowStutters ==
    ASSUME Flow, UNCHANGED vars
    PROVE  Flow'
BY DEF vars, Flow, Once, HeldAhead, HeldBehind, InOrder, Quiet, AllSent, Emitted, Sending

\* A symbol of text that is skipped is one the stream may keep to itself.
LEMMA SkippedSilent ==
    ASSUME Types, Buffered, pc = "done", ~StopInTag, NEW i \in 1..Len(acc), Skipped(text, i)
    PROVE  Silent(i)
<1>1. /\ acc \in Seq(Alphabet) /\ Len(acc) \in Nat /\ Len(acc) <= Len(text) /\ Len(text) \in Nat
      /\ Extends(text, acc) /\ text \in Seq(Alphabet)
  BY BufferIs DEF Types
<1>2. i \in Nat /\ i <= Len(acc)
  BY <1>1
<1>3. ASSUME NEW m \in {ThinkOpen, ThinkClose}, NEW j \in 0..Len(text), IsAt(text, m, j), j < i
      PROVE  j \in 0..Len(acc) /\ j \in Nat /\ IsAt(acc, m, j) /\ j + 2 <= Len(acc)
  <2>1. j \in Nat /\ j + 2 <= Len(text) /\ m \in Tags
    BY <1>1, <1>3, AtTag, TagIs
  <2>2. j + 2 <= Len(acc)
    <3> SUFFICES ASSUME ~(j + 2 <= Len(acc)) PROVE FALSE
      OBVIOUS
    <3>1. j < Len(acc) /\ Len(acc) < j + 2 /\ Len(acc) < Len(text)
      BY <1>1, <1>2, <1>3, <2>1
    <3>2. j \in Found(text, m, 0) /\ Len(m) = 2
      BY <1>3, <2>1, TagIs DEF Found
    <3> QED
      BY <2>1, <3>1, <3>2 DEF StopInTag, Stopped
  <2> QED
    BY <1>1, <1>2, <1>3, <2>1, <2>2, ExtendsTag
<1>4. CASE \E m \in {ThinkOpen, ThinkClose} : \E j \in 0..Len(text) : IsAt(text, m, j) /\ j < i /\ i <= j + 2
  <2>1. PICK m \in {ThinkOpen, ThinkClose}, j \in 0..Len(text) : IsAt(text, m, j) /\ j < i /\ i <= j + 2
    BY <1>4
  <2>2. j \in Found(acc, m, 0)
    BY <1>3, <2>1 DEF Found
  <2>3. i \in j + 1 .. j + Len(m)
    <3>1. Len(m) = 2 /\ j \in Nat
      BY <1>3, <2>1, TagIs
    <3> QED
      BY <1>2, <2>1, <3>1
  <2> QED
    BY <2>2, <2>3 DEF Silent
<1>5. CASE \E j \in 0..Len(text) : IsAt(text, ThinkClose, j) /\ j + 2 < i /\ \A k \in (j + 3)..i : text[k] = Blank
  <2>1. PICK j \in 0..Len(text) : IsAt(text, ThinkClose, j) /\ j + 2 < i /\ \A k \in (j + 3)..i : text[k] = Blank
    BY <1>5
  <2>2. j \in 0..Len(acc) /\ j \in Nat /\ IsAt(acc, ThinkClose, j) /\ j + 2 <= Len(acc)
    <3>1. j < i
      BY <1>1, <1>2, <2>1
    <3> QED
      BY <1>3, <2>1, <3>1
  <2>3. j \in Found(acc, ThinkClose, 0)
    BY <2>2 DEF Found
  <2> DEFINE p == PastBlanks(acc, j + 2)
  <2>4. j + 2 \in 0..Len(acc)
    BY <1>1, <2>2
  <2>5. p \in (j + 2)..Len(acc) /\ (p = Len(acc) \/ acc[p + 1] # Blank)
    BY <1>1, <2>4, BlanksIs
  <2> HIDE DEF p
  <2>6. i <= p
    <3> SUFFICES ASSUME ~(i <= p) PROVE FALSE
      OBVIOUS
    <3>1. p \in Nat /\ p + 1 \in (j + 3)..i /\ p + 1 \in 1..Len(acc) /\ p # Len(acc)
      BY <1>1, <1>2, <2>2, <2>5
    <3>2. acc[p + 1] = Blank
      BY <1>1, <2>1, <3>1 DEF Extends, Alike
    <3> QED
      BY <2>5, <3>1, <3>2
  <2>7. i \in j + 1 .. PastBlanks(acc, j + Len(ThinkClose))
    <3>1. i \in j + 1 .. p
      BY <1>2, <2>1, <2>2, <2>5, <2>6
    <3> QED
      BY <3>1, TagIs DEF p
  <2> QED
    BY <2>3, <2>7 DEF Silent
<1> QED
  BY <1>4, <1>5 DEF Skipped

\* For every text, every way to cut it into tokens and every stop string: no symbol is sent
\* twice, and a reply that ends without calls is sent to its last symbol but for think tags
\* and the white space behind them.  A token that ends a think block and opens another is
\* the one case left out, as in the run (TwoTags).
THEOREM NothingLostIsInvariant ==
    ASSUME ~TwoTags
    PROVE  Spec => []NothingLost
<1> DEFINE Inv == Types /\ Buffered /\ Flow
<1>1. Init => Inv
  BY TypesInit, FlowInit
<1>2. Inv /\ [Next]_vars => Inv'
  <2> SUFFICES ASSUME Types, Buffered, Flow, [Next]_vars PROVE Flow'
    BY TypesStep
  <2>1. ASSUME NEW n \in 1..(MaxText - Len(text)), NEW piece \in Pieces[n], Reopens(piece) => TwoTags, Token(piece)
        PROVE  Flow'
    <3>1. ~Reopens(piece) /\ (start = Nowhere => reasonEmitted <= Len(text))
      <4>1. Sending
        BY <2>1, TokenIs DEF Sending
      <4> QED
        BY <2>1, <4>1 DEF Flow, InOrder, Emitted
    <3> QED
      BY <2>1, <3>1, NoReopen, FlowToken
  <2>2. ASSUME NEW failed \in BOOLEAN, Finish(failed) PROVE Flow'
    BY <2>2, FlowFinish
  <2>3. CASE UNCHANGED vars
    BY <2>3, FlowStutters
  <2> QED
    BY <2>1, <2>2, <2>3 DEF Next
<1>3. Inv => NothingLost
  <2> SUFFICES ASSUME Types, Buffered, Flow PROVE NothingLost
    OBVIOUS
  <2>1. \A i \in DOMAIN said : said[i] # "again"
    <3>1. DOMAIN said = 1..Len(text)
      BY LenProperties DEF Types
    <3> QED
      BY <3>1 DEF Flow, Once
  <2>2. ASSUME pc = "done", calls = {}, ~StopInTag, NEW i \in 1..Len(acc), said[i] = "held" PROVE Silent(i)
    <3>1. Skipped(text, i)
      BY <2>2 DEF Flow, AllSent
    <3> QED
      BY <2>2, <3>1, SkippedSilent
  <2> QED
    BY <2>1, <2>2 DEF NothingLost
<1> QED
  BY <1>1, <1>2, <1>3, PTL DEF Spec

-----------------------------------------------------------------------------
(* The stream and the JSON reply say the same *)

\* The part of Ordinary that every beginning of an ordinary reply has.
Usual(s, thinks) ==
  \A i \in Nat :
    /\ IsAt(s, ThinkOpen, i) => ~thinks /\ i = 0
    /\ ~thinks /\ IsAt(s, ThinkClose, i) => IsAt(s, ThinkOpen, 0)
    /\ ~thinks /\ IsAt(s, ThinkOpen, 0) /\ IsAt(s, ToolOpen, i) => \E j \in Nat : j < i /\ IsAt(s, ThinkClose, j)

\* A block opened by the reply itself is closed in it.
Closed(s, thinks) == ~thinks /\ IsAt(s, ThinkOpen, 0) => \E i \in Nat : IsAt(s, ThinkClose, i)

\* The stop string m, found at offset n of s, overlaps a tag or begins in the white space
\* behind the close tag.
Overlaps(s, n, m) ==
  /\ n < Len(s)
  /\ \/ \E w \in Tags : \E i \in Nat : IsAt(s, w, i) /\ n < i + 2 /\ (i < n \/ i + 2 < n + Len(m))
     \/ /\ Find(s, ThinkClose, 0) # Nowhere /\ Find(s, ThinkClose, 0) + 2 <= n
        /\ n < PastBlanks(s, Find(s, ThinkClose, 0) + 2)

\* w marks (a, b] as reasoning and (c, d] as content, and holds the rest.
Told(w, a, b, c, d) ==
  \A i \in 1..Len(w) : w[i] = IF a < i /\ i <= b THEN "reasoning" ELSE IF c < i /\ i <= d THEN "content" ELSE "held"

\* Where a stop string m has begun in what was sent of s, a tag stands in it or behind it,
\* or it begins before the content does.
HeldStop(s, m, to, from) ==
  m # <<>> => \A j \in 0..(to - 1) : Begun(s, Len(s), m, j) =>
                 \/ \E w \in Tags : \E i \in Nat : IsAt(s, w, i) /\ j < i + 2
                 \/ j < from

\* Where the reasoning begins.
Base == IF req.thinks THEN 0 ELSE 2
Behind == IF start = Nowhere THEN 0 ELSE start

\* No think block: the reply is content.
Mute ==
  /\ ~req.thinks /\ start = 0 /\ reasonEmitted = 0
  /\ contentEmitted <= Len(acc) /\ Told(said, 0, 0, 0, contentEmitted)
  /\ ~IsAt(acc, ThinkOpen, 0)
  /\ req.tools /\ Find(acc, ToolOpen, 0) # Nowhere => contentEmitted = Find(acc, ToolOpen, 0)

\* The think block is open; a close tag that is there already came with the open tag.
Reasons ==
  /\ start = Nowhere /\ contentEmitted = 0
  /\ Base <= reasonEmitted /\ reasonEmitted <= Len(acc) /\ Told(said, Base, reasonEmitted, 0, 0)
  /\ req.thinks \/ IsAt(acc, ThinkOpen, 0)
  /\ (\E i \in Nat : IsAt(acc, ThinkClose, i)) => reasonEmitted = Base /\ ~req.thinks
  /\ /\ req.thinks /\ req.tools /\ Find(acc, ToolOpen, 0) # Nowhere
     /\ \A i \in Nat : ~IsAt(acc, ThinkClose, i)
     => reasonEmitted = Find(acc, ToolOpen, 0)
  /\ pc = "stream" => /\ Unbegun(acc, ThinkClose, Base, reasonEmitted)
                      /\ req.tools => Unbegun(acc, ToolOpen, Base, reasonEmitted)

\* The think block is closed.
Answering ==
  LET c == Find(acc, ThinkClose, 0) IN
  /\ c # Nowhere /\ start # Nowhere /\ Base <= c
  /\ c + 2 <= start /\ start <= contentEmitted /\ contentEmitted <= Len(acc)
  /\ \A k \in (c + 3)..start : acc[k] = Blank
  /\ Told(said, Base, c, start, contentEmitted)
  /\ req.thinks \/ IsAt(acc, ThinkOpen, 0)
  /\ req.tools /\ Find(acc, ToolOpen, start) # Nowhere => contentEmitted = Find(acc, ToolOpen, start)

Modes ==
  Sending /\ Usual(acc, req.thinks) /\ (pc = "cut" => ~Overlaps(text, Len(acc), req.stop)) =>
    /\ Flow
    /\ Mute \/ Reasons \/ Answering
    /\ pc = "stream" => HeldStop(acc, req.stop, Emitted, Behind)

-----------------------------------------------------------------------------
\* A run of white space reaches no further than PastBlanks.
LEMMA BlanksReach ==
    ASSUME NEW s \in Seq(Alphabet), NEW i \in 0..Len(s), NEW n \in i..Len(s), \A k \in (i + 1)..n : s[k] = Blank
    PROVE  n <= PastBlanks(s, i)
<1> DEFINE p == PastBlanks(s, i)
<1>1. p \in i..Len(s) /\ (p = Len(s) \/ s[p + 1] # Blank) /\ Len(s) \in Nat /\ i \in Nat
  BY BlanksIs, LenProperties
<1> HIDE DEF p
<1>2. ASSUME ~(n <= p) PROVE FALSE
  <2>1. p + 1 \in (i + 1)..n /\ p # Len(s)
    BY <1>1, <1>2
  <2>2. s[p + 1] = Blank
    BY <2>1
  <2> QED
    BY <1>1, <2>1, <2>2
<1> QED
  BY <1>2 DEF p

\* A tag does not begin in white space.
LEMMA NotBlank ==
    ASSUME NEW s \in Seq(Alphabet), NEW m \in Tags, NEW i \in Nat, IsAt(s, m, i)
    PROVE  s[i + 1] # Blank /\ s[i + 2] # Blank
<1>1. s[i + 1] = "<" /\ s[i + 2] = m[2] /\ m[2] \in Names
  BY AtTag, TagIs
<1>2. Blank \in Letters /\ Letters \cap ({"<"} \cup Names) = {}
  BY ChatStreamAssumption
<1> QED
  BY <1>1, <1>2

\* The first tag behind white space is the first behind its end.
LEMMA FindBehindBlanks ==
    ASSUME NEW s \in Seq(Alphabet), Len(s) <= MaxText, NEW m \in Tags, NEW a \in Nat, NEW b \in Nat, a <= b,
           \A k \in (a + 1)..b : s[k] = Blank
    PROVE  /\ Find(s, m, a) = Find(s, m, b)
           /\ \A i \in Nat : a <= i /\ IsAt(s, m, i) => b <= i
<1>1. ASSUME NEW i \in Nat, a <= i, IsAt(s, m, i) PROVE b <= i
  <2> SUFFICES ASSUME ~(b <= i) PROVE FALSE
    OBVIOUS
  <2>1. i + 1 \in (a + 1)..b
    BY <1>1
  <2> QED
    BY <1>1, <2>1, NotBlank
<1> DEFINE f == Find(s, m, a)
           g == Find(s, m, b)
<1>2. /\ f \in Nat /\ (f # Nowhere => f \in a..Len(s) /\ IsAt(s, m, f))
      /\ \A i \in Nat : a <= i /\ IsAt(s, m, i) => f # Nowhere /\ f <= i
  BY FoundIs
<1>3. /\ g \in Nat /\ (g # Nowhere => g \in b..Len(s) /\ IsAt(s, m, g))
      /\ \A i \in Nat : b <= i /\ IsAt(s, m, i) => g # Nowhere /\ g <= i
  BY FoundIs
<1> HIDE DEF f, g
<1>4. f # Nowhere => g # Nowhere /\ g <= f
  BY <1>1, <1>2, <1>3
<1>5. g # Nowhere => f # Nowhere /\ f <= g
  BY <1>2, <1>3
<1> QED
  BY <1>1, <1>2, <1>3, <1>4, <1>5 DEF f, g

LEMMA FirstIs ==
    ASSUME NEW b \in Seq(Alphabet), Len(b) <= MaxText, NEW m \in Tags
    PROVE  /\ Find(b, m, 0) \in Nat
           /\ Find(b, m, 0) # Nowhere => IsAt(b, m, Find(b, m, 0)) /\ Find(b, m, 0) + 2 <= Len(b)
           /\ \A i \in Nat : IsAt(b, m, i) => Find(b, m, 0) # Nowhere /\ Find(b, m, 0) <= i
           /\ Find(b, m, 0) = Nowhere <=> Found(b, m, 0) = {}
<1>1. /\ Find(b, m, 0) \in Nat
      /\ Find(b, m, 0) # Nowhere =>
           /\ Find(b, m, 0) \in 0..Len(b) /\ IsAt(b, m, Find(b, m, 0)) /\ Find(b, m, 0) + 2 <= Len(b)
      /\ \A i \in Nat : 0 <= i /\ IsAt(b, m, i) => Find(b, m, 0) # Nowhere /\ Find(b, m, 0) <= i
  BY FoundIs
<1>2. Find(b, m, 0) = Nowhere => Found(b, m, 0) = {}
  <2>1. \A i \in Found(b, m, 0) : i \in Nat /\ 0 <= i /\ IsAt(b, m, i)
    BY LenProperties DEF Found
  <2> QED
    BY <1>1, <2>1
<1>3. Find(b, m, 0) # Nowhere => Find(b, m, 0) \in Found(b, m, 0)
  BY <1>1 DEF Found
<1>4. \A i \in Nat : 0 <= i
  OBVIOUS
<1> QED
  BY <1>1, <1>2, <1>3, <1>4

LEMMA ToldBefore ==
    ASSUME Types, NEW n \in 1..(MaxText - Len(text)), NEW w \in Seq(Kinds), Len(w) = Len(text) + n,
           \A i \in 1..Len(w) : w[i] = IF i <= Len(text) THEN said[i] ELSE "held",
           NEW a \in Nat, NEW b \in Nat, NEW c \in Nat, NEW d \in Nat, b <= Len(text), d <= Len(text),
           Told(said, a, b, c, d)
    PROVE  Told(w, a, b, c, d)
<1>1. Len(text) \in Nat /\ Len(said) = Len(text) /\ Len(w) \in Nat
  BY LenProperties DEF Types
<1>2. ASSUME NEW i \in 1..Len(w)
      PROVE  w[i] = IF a < i /\ i <= b THEN "reasoning" ELSE IF c < i /\ i <= d THEN "content" ELSE "held"
  <2>1. CASE i <= Len(text)
    <3>1. i \in 1..Len(said)
      BY <1>1, <2>1
    <3> QED
      BY <2>1, <3>1 DEF Told
  <2>2. CASE ~(i <= Len(text))
    <3>1. ~(i <= b) /\ ~(i <= d)
      BY <1>1, <2>2
    <3> QED
      BY <2>2, <3>1
  <2> QED
    BY <2>1, <2>2
<1> QED
  BY <1>2 DEF Told

LEMMA ToldContent ==
    ASSUME NEW w \in Seq(Kinds), NEW a \in Nat, NEW b \in Nat, NEW c \in Nat, NEW d \in Nat, NEW e \in Nat,
           Told(w, a, b, c, d), b <= c, c <= d
    PROVE  Told(Sent(w, "content", d, e), a, b, c, IF d <= e THEN e ELSE d)
<1> DEFINE u == Sent(w, "content", d, e)
<1>1. (\A i \in 1..Len(w) : d < i => w[i] = "held") /\ "content" \in Kinds
  <2>1. Len(w) \in Nat
    BY LenProperties
  <2>2. \A i \in 1..Len(w) : d < i => ~(i <= b) /\ ~(i <= d)
    BY <2>1
  <2> QED
    BY <2>2 DEF Told, Kinds
<1>2. /\ Len(u) = Len(w) /\ Len(w) \in Nat
      /\ \A i \in 1..Len(w) : u[i] = IF d < i /\ i <= e THEN "content" ELSE w[i]
  BY <1>1, SentIs, LenProperties
<1> HIDE DEF u
<1> DEFINE h == IF d <= e THEN e ELSE d
<1>3. ASSUME NEW i \in 1..Len(u)
      PROVE  u[i] = IF a < i /\ i <= b THEN "reasoning" ELSE IF c < i /\ i <= h THEN "content" ELSE "held"
  <2>1. w[i] = IF a < i /\ i <= b THEN "reasoning" ELSE IF c < i /\ i <= d THEN "content" ELSE "held"
    BY <1>2 DEF Told
  <2> QED
    BY <1>2, <2>1
<1> QED
  BY <1>3 DEF Told, u

LEMMA ToldReasoning ==
    ASSUME NEW w \in Seq(Kinds), NEW a \in Nat, NEW b \in Nat, NEW e \in Nat,
           Told(w, a, b, 0, 0), a <= b, b <= e
    PROVE  /\ Told(Sent(w, "reasoning", b, e), a, e, 0, 0)
           /\ Sent(w, "reasoning", b, e) \in Seq(Kinds) /\ Len(Sent(w, "reasoning", b, e)) = Len(w)
<1> DEFINE u == Sent(w, "reasoning", b, e)
<1>1. (\A i \in 1..Len(w) : b < i => w[i] = "held") /\ "reasoning" \in Kinds
  <2>1. Len(w) \in Nat
    BY LenProperties
  <2>2. \A i \in 1..Len(w) : b < i => ~(i <= b) /\ ~(i <= 0)
    BY <2>1
  <2> QED
    BY <2>2 DEF Told, Kinds
<1>2. /\ u \in Seq(Kinds) /\ Len(u) = Len(w) /\ Len(w) \in Nat
      /\ \A i \in 1..Len(w) : u[i] = IF b < i /\ i <= e THEN "reasoning" ELSE w[i]
  BY <1>1, SentIs, LenProperties
<1> HIDE DEF u
<1>3. ASSUME NEW i \in 1..Len(u)
      PROVE  u[i] = IF a < i /\ i <= e THEN "reasoning" ELSE IF 0 < i /\ i <= 0 THEN "content" ELSE "held"
  <2>1. w[i] = IF a < i /\ i <= b THEN "reasoning" ELSE IF 0 < i /\ i <= 0 THEN "content" ELSE "held"
    BY <1>2 DEF Told
  <2> QED
    BY <1>2, <2>1
<1> QED
  BY <1>2, <1>3 DEF Told, u
\* A tag of the old text is a tag of the buffer, or the stop string that cut it off
\* overlaps it.
LEMMA TagsKept ==
    ASSUME Types, Buffered, NEW n \in 1..(MaxText - Len(text)), NEW piece \in Pieces[n], Token(piece),
           Len(Buffer(piece)) < Len(text') => ~Overlaps(text', Len(Buffer(piece)), req.stop),
           NEW m \in Tags, NEW i \in Nat
    PROVE  /\ IsAt(text, m, i) => IsAt(Buffer(piece), m, i)
           /\ i + 2 <= Len(text) /\ IsAt(Buffer(piece), m, i) => IsAt(text, m, i)
<1> DEFINE b == Buffer(piece)
           t == text'
<1>1. /\ b \in Seq(Alphabet) /\ t \in Seq(Alphabet) /\ Extends(t, b) /\ Extends(t, text)
      /\ Len(b) <= Len(t) /\ Len(text) <= Len(t) /\ b = CutAt(t, req.stop)
      /\ Len(b) < Len(t) => req.stop \in StopMark /\ IsAt(t, req.stop, Len(b))
      /\ acc = text /\ pc = "stream" /\ text \in Seq(Alphabet)
  BY TokenIs DEF Types, Extends
<1>2. Len(b) \in Nat /\ Len(t) \in Nat /\ Len(text) \in Nat
  BY <1>1, LenProperties
<1> HIDE DEF b
<1>3. i + 2 <= Len(text) /\ IsAt(b, m, i) => IsAt(text, m, i)
  BY <1>1, ExtendsTag
<1>4. ASSUME IsAt(text, m, i) PROVE IsAt(b, m, i)
  <2>1. IsAt(t, m, i) /\ i + 2 <= Len(text)
    BY <1>1, <1>4, ExtendsTag, AtTag
  <2>2. CASE i + 2 <= Len(b)
    BY <1>1, <2>1, <2>2, ExtendsTag
  <2>3. CASE ~(i + 2 <= Len(b))
    <3>1. Len(b) < Len(t) /\ Len(b) < i + 2
      BY <1>1, <1>2, <2>1, <2>3
    <3>2. /\ req.stop \in StopMark /\ IsAt(t, req.stop, Len(b)) /\ req.stop # <<>> /\ Len(req.stop) \in Nat
          /\ DOMAIN req.stop = 1..Len(req.stop) /\ 1 <= Len(req.stop)
      BY <1>1, <3>1, StopIs DEF Types
    <3>3. Len(text) < Len(b) + Len(req.stop)
      <4> SUFFICES ASSUME Len(b) + Len(req.stop) <= Len(text) PROVE FALSE
        BY <1>2, <3>2
      <4>1. IsAt(text, req.stop, Len(b))
        BY <1>1, <1>2, <3>2, ExtendsAt
      <4>2. text = Cut(text) /\ Len(text) <= MaxText
        BY <1>1, CutAtIs DEF Buffered, Types
      <4>3. Len(b) \in 0..Len(text)
        BY <1>2, <3>2
      <4>4. Len(Cut(text)) <= Len(b)
        BY <1>1, <3>2, <4>1, <4>2, <4>3, CutIs
      <4> QED
        BY <1>2, <3>2, <4>2, <4>4
    <3>4. i < Len(b) \/ i + 2 < Len(b) + Len(req.stop)
      BY <1>2, <2>1, <3>2, <3>3
    <3>5. Overlaps(t, Len(b), req.stop)
      BY <2>1, <3>1, <3>4 DEF Overlaps
    <3> QED
      BY <3>1, <3>5 DEF b
  <2> QED
    BY <2>2, <2>3
<1> QED
  BY <1>3, <1>4 DEF b

\* What every beginning of an ordinary reply has, the beginning before the last token has.
LEMMA UsualBefore ==
    ASSUME Types, Buffered, NEW n \in 1..(MaxText - Len(text)), NEW piece \in Pieces[n], Token(piece),
           Len(Buffer(piece)) < Len(text') => ~Overlaps(text', Len(Buffer(piece)), req.stop),
           Usual(Buffer(piece), req.thinks)
    PROVE  Usual(text, req.thinks)
<1> DEFINE b == Buffer(piece)
<1>1. \A m \in Tags : \A i \in Nat : /\ IsAt(text, m, i) => IsAt(b, m, i)
                                     /\ i + 2 <= Len(text) /\ IsAt(b, m, i) => IsAt(text, m, i)
  BY TagsKept
<1>2. b \in Seq(Alphabet) /\ text \in Seq(Alphabet) /\ Len(text) \in Nat
  BY TokenIs, LenProperties DEF Types
<1> HIDE DEF b
<1>3. \A i \in Nat :
        /\ IsAt(b, ThinkOpen, i) => ~req.thinks /\ i = 0
        /\ ~req.thinks /\ IsAt(b, ThinkClose, i) => IsAt(b, ThinkOpen, 0)
        /\ ~req.thinks /\ IsAt(b, ThinkOpen, 0) /\ IsAt(b, ToolOpen, i) => \E j \in Nat : j < i /\ IsAt(b, ThinkClose, j)
  BY DEF Usual, b
<1>4. ASSUME NEW i \in Nat, IsAt(text, ThinkOpen, i) PROVE ~req.thinks /\ i = 0
  BY <1>1, <1>3, <1>4, TagIs
<1>5. ASSUME NEW i \in Nat, ~req.thinks, IsAt(text, ThinkClose, i) PROVE IsAt(text, ThinkOpen, 0)
  <2>1. IsAt(b, ThinkClose, i) /\ i + 2 <= Len(text)
    BY <1>1, <1>2, <1>5, AtTag, TagIs
  <2>2. IsAt(b, ThinkOpen, 0)
    BY <1>3, <1>5, <2>1
  <2>3. 0 + 2 <= Len(text)
    BY <1>2, <2>1
  <2> QED
    BY <1>1, <2>2, <2>3, TagIs
<1>6. ASSUME NEW i \in Nat, ~req.thinks, IsAt(text, ThinkOpen, 0), IsAt(text, ToolOpen, i)
      PROVE  \E j \in Nat : j < i /\ IsAt(text, ThinkClose, j)
  <2>1. IsAt(b, ThinkOpen, 0) /\ IsAt(b, ToolOpen, i) /\ i + 2 <= Len(text)
    BY <1>1, <1>2, <1>6, AtTag, TagIs
  <2>2. PICK j \in Nat : j < i /\ IsAt(b, ThinkClose, j)
    BY <1>3, <1>6, <2>1
  <2>3. j + 2 <= Len(text)
    BY <1>2, <2>1, <2>2
  <2>4. IsAt(text, ThinkClose, j)
    BY <1>1, <2>3, <2>2, TagIs
  <2> QED
    BY <2>2, <2>4
<1> QED
  <2>1. \A i \in Nat :
          /\ IsAt(text, ThinkOpen, i) => ~req.thinks /\ i = 0
          /\ ~req.thinks /\ IsAt(text, ThinkClose, i) => IsAt(text, ThinkOpen, 0)
          /\ ~req.thinks /\ IsAt(text, ThinkOpen, 0) /\ IsAt(text, ToolOpen, i)
               => \E j \in Nat : j < i /\ IsAt(text, ThinkClose, j)
    BY <1>4, <1>5, <1>6
  <2> QED
    BY <2>1 DEF Usual

\* The same of the close tag: what was the first one is the first one.
LEMMA CloseKept ==
    ASSUME NEW s \in Seq(Alphabet), NEW b \in Seq(Alphabet), Len(s) <= MaxText, Len(b) <= MaxText,
           \A m \in Tags : \A i \in Nat : /\ IsAt(s, m, i) => IsAt(b, m, i)
                                          /\ i + 2 <= Len(s) /\ IsAt(b, m, i) => IsAt(s, m, i),
           Find(s, ThinkClose, 0) # Nowhere
    PROVE  Find(b, ThinkClose, 0) = Find(s, ThinkClose, 0)
<1> DEFINE c == Find(s, ThinkClose, 0)
           d == Find(b, ThinkClose, 0)
<1>1. c \in Nat /\ IsAt(s, ThinkClose, c) /\ c + 2 <= Len(s) /\ (\A i \in Nat : IsAt(s, ThinkClose, i) => c <= i)
      /\ Len(s) \in Nat
  BY FirstIs, TagIs, LenProperties
<1>2. d \in Nat /\ (d # Nowhere => IsAt(b, ThinkClose, d)) /\ \A i \in Nat : IsAt(b, ThinkClose, i) => d # Nowhere /\ d <= i
  BY FirstIs, TagIs
<1> HIDE DEF c, d
<1>3. d # Nowhere /\ d <= c
  <2>1. IsAt(b, ThinkClose, c)
    BY <1>1, TagIs
  <2> QED
    BY <1>1, <1>2, <2>1
<1>4. d + 2 <= Len(s)
  BY <1>1, <1>2, <1>3
<1>5. IsAt(s, ThinkClose, d)
  BY <1>2, <1>3, <1>4, TagIs
<1> QED
  BY <1>1, <1>2, <1>3, <1>5 DEF c, d

\* A stop string never cuts off what was sent.
LEMMA NotBelow ==
    ASSUME Types, Buffered, Flow, Mute \/ Reasons \/ Answering, HeldStop(text, req.stop, Emitted, Behind),
           NEW n \in 1..(MaxText - Len(text)), NEW piece \in Pieces[n], Token(piece),
           Len(Buffer(piece)) < Len(text') => ~Overlaps(text', Len(Buffer(piece)), req.stop)
    PROVE  /\ ~CutBelow(Buffer(piece)) /\ ~SaysNothing(Buffer(piece), Before(piece))
           /\ Emitted <= Len(Buffer(piece))
<1> DEFINE b == Buffer(piece)
           t == text'
<1>1. /\ b \in Seq(Alphabet) /\ t \in Seq(Alphabet) /\ Extends(t, b) /\ Extends(t, text)
      /\ Len(b) <= Len(t) /\ Len(t) <= MaxText /\ Len(text) <= Len(t) /\ b = CutAt(t, req.stop)
      /\ Len(b) < Len(t) => req.stop \in StopMark /\ IsAt(t, req.stop, Len(b))
      /\ acc = text /\ pc = "stream" /\ text \in Seq(Alphabet) /\ Len(text) <= MaxText /\ Len(b) <= MaxText
  BY TokenIs DEF Types, Extends
<1>2. Len(b) \in Nat /\ Len(t) \in Nat /\ Len(text) \in Nat
  BY <1>1, LenProperties
<1>3. /\ reasonEmitted \in Nat /\ contentEmitted \in Nat /\ (start # Nowhere => start \in Nat)
      /\ Emitted \in Nat /\ Emitted <= Len(text)
      /\ Emitted = IF start = Nowhere THEN reasonEmitted ELSE contentEmitted
      /\ IF start = Nowhere THEN contentEmitted <= reasonEmitted
         ELSE reasonEmitted <= contentEmitted /\ start <= contentEmitted
  BY <1>1, NowhereIs DEF Types, Flow, InOrder, Sending, Emitted
<1>4. \A m \in Tags : \A i \in Nat : /\ IsAt(text, m, i) => IsAt(b, m, i)
                                     /\ i + 2 <= Len(text) /\ IsAt(b, m, i) => IsAt(text, m, i)
  BY TagsKept
<1>5. Len(b) < Len(t) => ~Overlaps(t, Len(b), req.stop)
  OBVIOUS
<1> HIDE DEF b
<1>6. ASSUME ~(Emitted <= Len(b)) PROVE FALSE
  <2> DEFINE j == Len(b)
  <2>1. j < Len(t) /\ j \in 0..(Emitted - 1) /\ j < Len(text)
    BY <1>1, <1>2, <1>3, <1>6
  <2>2. /\ req.stop \in StopMark /\ IsAt(t, req.stop, j) /\ req.stop # <<>> /\ Len(req.stop) \in Nat
        /\ DOMAIN req.stop = 1..Len(req.stop) /\ 1 <= Len(req.stop)
    BY <1>1, <2>1, StopIs DEF Types
  <2>3. Begun(text, Len(text), req.stop, j)
    BY <1>1, <1>2, <2>2, ExtendsAt
  <2>4. \/ \E w \in Tags : \E i \in Nat : IsAt(text, w, i) /\ j < i + 2
        \/ j < Behind
    BY <2>1, <2>2, <2>3 DEF HeldStop
  <2>5. CASE \E w \in Tags : \E i \in Nat : IsAt(text, w, i) /\ j < i + 2
    <3>1. PICK w \in Tags, i \in Nat : IsAt(text, w, i) /\ j < i + 2
      BY <2>5
    <3>2. IsAt(b, w, i)
      BY <1>4, <3>1
    <3>3. i + 2 <= Len(b)
      BY <1>1, <3>2, AtTag
    <3> QED
      BY <1>2, <3>1, <3>3
  <2>6. CASE j < Behind
    <3>1. start # Nowhere /\ j < start /\ start \in Nat /\ start # 0
      BY <1>2, <1>3, <2>6 DEF Behind
    <3>2. Answering
      BY <3>1 DEF Mute, Reasons
    <3> DEFINE c == Find(text, ThinkClose, 0)
    <3>3. c # Nowhere /\ (\A k \in (c + 3)..start : text[k] = Blank) /\ start <= contentEmitted
      BY <1>1, <3>2 DEF Answering
    <3>4. c \in Nat /\ IsAt(text, ThinkClose, c)
      BY <1>1, <3>3, FoundIs, TagIs
    <3>5. IsAt(b, ThinkClose, c) /\ IsAt(t, ThinkClose, c) /\ c + 2 <= Len(b)
      BY <1>1, <1>4, <3>4, TagIs, AtTag, ExtendsTag
    <3>6. Find(t, ThinkClose, 0) = c
      <4>1. \A m \in Tags : \A i \in Nat : /\ IsAt(text, m, i) => IsAt(t, m, i)
                                           /\ i + 2 <= Len(text) /\ IsAt(t, m, i) => IsAt(text, m, i)
        BY <1>1, ExtendsTag
      <4> QED
        BY <1>1, <3>3, <4>1, CloseKept
    <3> HIDE DEF c
    <3>7. start \in (c + 2)..Len(t) /\ c + 2 \in 0..Len(t)
      BY <1>1, <1>2, <1>3, <3>1, <3>3, <3>4, <3>5
    <3>8. \A k \in (c + 2 + 1)..start : t[k] = Blank
      <4>1. start <= Len(text)
        BY <1>2, <1>3, <3>1, <3>3
      <4>2. \A k \in (c + 2 + 1)..start : k \in (c + 3)..start /\ k \in 1..Len(text)
        BY <1>2, <3>1, <3>4, <4>1
      <4>3. \A k \in (c + 3)..start : text[k] = Blank
        BY <3>3 DEF c
      <4> QED
        BY <1>1, <4>2, <4>3 DEF Extends, Alike
    <3>9. start <= PastBlanks(t, c + 2) /\ PastBlanks(t, c + 2) \in Nat
      <4>1. PastBlanks(t, c + 2) \in (c + 2)..Len(t)
        BY <1>1, <3>7, BlanksIs
      <4> QED
        BY <1>1, <1>2, <3>4, <3>7, <3>8, <4>1, BlanksReach
    <3>10. Find(t, ThinkClose, 0) # Nowhere /\ Find(t, ThinkClose, 0) + 2 <= Len(b)
           /\ Len(b) < PastBlanks(t, Find(t, ThinkClose, 0) + 2)
      <4>1. Len(b) < PastBlanks(t, c + 2)
        BY <1>2, <3>1, <3>9
      <4>2. c # Nowhere
        BY <3>3 DEF c
      <4> QED
        BY <3>5, <3>6, <4>1, <4>2
    <3>11. Overlaps(t, Len(b), req.stop)
      BY <2>1, <3>10 DEF Overlaps
    <3> QED
      BY <1>5, <2>1, <3>11
  <2> QED
    BY <2>4, <2>5, <2>6
<1>7. ~CutBelow(b)
  <2>1. Max({reasonEmitted, contentEmitted}) = IF reasonEmitted <= contentEmitted THEN contentEmitted ELSE reasonEmitted
    BY <1>3, MaxOfTwo
  <2>2. Max({reasonEmitted, contentEmitted}) <= Len(b) /\ Max({reasonEmitted, contentEmitted}) \in Nat
        /\ (start # Nowhere => start <= Len(b))
    BY <1>2, <1>3, <1>6, <2>1
  <2> QED
    BY <1>2, <1>3, <2>2 DEF CutBelow
<1>8. ~SaysNothing(b, Before(piece))
  BY <1>7 DEF SaysNothing
<1> QED
  BY <1>6, <1>7, <1>8 DEF b

LEMMA HeldStopLater ==
    ASSUME NEW s \in Seq(Alphabet), NEW t \in Seq(Alphabet), Extends(t, s),
           NEW m, Len(m) \in Nat, DOMAIN m = 1..Len(m),
           NEW e \in Nat, NEW f \in Nat, NEW g \in Nat, NEW h \in Nat, HeldStop(s, m, e, f), f <= h,
           m # <<>> => \A j \in e..(g - 1) : Begun(t, Len(t), m, j) =>
                         (\E w \in Tags : \E i \in Nat : IsAt(t, w, i) /\ j < i + 2) \/ j < h
    PROVE  HeldStop(t, m, g, h)
<1> SUFFICES ASSUME m # <<>>, NEW j \in 0..(g - 1), Begun(t, Len(t), m, j)
             PROVE  (\E w \in Tags : \E i \in Nat : IsAt(t, w, i) /\ j < i + 2) \/ j < h
  BY DEF HeldStop
<1>1. j \in Nat
  OBVIOUS
<1>2. CASE j < e
  <2>1. Begun(s, Len(s), m, j)
    BY <1>1, ExtendsAt
  <2>2. j \in 0..(e - 1)
    BY <1>1, <1>2
  <2>3. (\E w \in Tags : \E i \in Nat : IsAt(s, w, i) /\ j < i + 2) \/ j < f
    BY <2>1, <2>2 DEF HeldStop
  <2>4. \A w \in Tags : \A i \in Nat : IsAt(s, w, i) => IsAt(t, w, i)
    BY ExtendsTag
  <2>5. j < f => j < h
    BY <1>1
  <2> QED
    BY <2>3, <2>4, <2>5
<1>3. CASE ~(j < e)
  <2>1. j \in e..(g - 1)
    BY <1>1, <1>3
  <2> QED
    BY <2>1
<1> QED
  BY <1>2, <1>3

LEMMA NewlySent ==
    ASSUME Types, NEW b \in Seq(Alphabet), Len(b) <= MaxText, NEW from \in 0..Len(b), NEW end, NEW marks,
           LetGo(b, from, end, marks), StopMark \subseteq marks, \A m \in StopMark : \A i \in Nat : ~IsAt(b, m, i)
    PROVE  req.stop # <<>> =>
             \A j \in from..(end - 1) : Begun(b, Len(b), req.stop, j) =>
               \E w \in Tags : \E i \in Nat : IsAt(b, w, i) /\ j < i + 2
<1> SUFFICES ASSUME req.stop # <<>>, NEW j \in from..(end - 1), Begun(b, Len(b), req.stop, j)
             PROVE  \E w \in Tags : \E i \in Nat : IsAt(b, w, i) /\ j < i + 2
  OBVIOUS
<1>1. /\ req.stop \in StopMark /\ \A m \in StopMark : Len(m) \in Nat /\ DOMAIN m = 1..Len(m)
  BY StopIs DEF Types
<1>2. from \in Nat /\ end \in Nat /\ j \in Nat /\ Len(b) \in Nat
  <2>1. Len(b) \in Nat /\ end \in from..Len(b)
    BY LenProperties DEF LetGo
  <2> QED
    BY <2>1
<1>3. \A m \in StopMark : \A i \in from..(end - 1) : ~IsAt(b, m, i)
  BY <1>2
<1>4. StopUnbegun(b, from, end)
  BY <1>1, <1>3, LetClean
<1>5. PICK i \in j..Len(b) : IsAt(b, ToolOpen, i)
  BY <1>1, <1>4 DEF StopUnbegun
<1>6. i \in Nat /\ j < i + 2
  BY <1>2
<1> QED
  BY <1>5, <1>6, TagIs

\* Where a token starts from.
Ready(n, piece) ==
  LET b == Buffer(piece) IN
  /\ n \in 1..(MaxText - Len(text)) /\ piece \in Pieces[n] /\ Token(piece)
  /\ Types /\ Buffered /\ Flow /\ HeldStop(text, req.stop, Emitted, Behind)
  /\ Usual(text, req.thinks) /\ Usual(b, req.thinks) /\ ~CutBelow(b) /\ Emitted <= Len(b)
  /\ \A m \in Tags : \A i \in Nat : /\ IsAt(text, m, i) => IsAt(b, m, i)
                                    /\ i + 2 <= Len(text) /\ IsAt(b, m, i) => IsAt(text, m, i)

\* What is known then of the token's text and of what was marked.
LEMMA ReadyIs ==
    ASSUME NEW n, NEW piece, Ready(n, piece)
    PROVE  LET b == Buffer(piece)
               w == Before(piece)
           IN /\ pc = "stream" /\ req' = req /\ acc = text /\ acc' = b /\ n \in Nat
              /\ text \in Seq(Alphabet) /\ Len(text) <= MaxText /\ Len(text) \in Nat
              /\ text' \in Seq(Alphabet) /\ Extends(text', text) /\ Len(text') \in Nat
              /\ b \in Seq(Alphabet) /\ Len(b) \in Nat /\ Len(b) <= MaxText /\ Len(b) < Nowhere /\ Extends(text', b)
              /\ pc' = "stream" => b = text' /\ Extends(b, text)
              /\ \A m \in StopMark : \A i \in Nat : ~IsAt(b, m, i)
              /\ w \in Seq(Kinds) /\ Len(w) = Len(text')
              /\ \A a, c \in Nat : \A d, e \in Nat :
                   d <= Emitted /\ e <= Emitted /\ Told(said, a, d, c, e) => Told(w, a, d, c, e)
              /\ Emitted \in Nat /\ reasonEmitted \in Nat /\ contentEmitted \in Nat
              /\ Emitted = IF start = Nowhere THEN reasonEmitted ELSE contentEmitted
              /\ reasonEmitted \in 0..Len(b) /\ contentEmitted \in 0..Len(b)
              /\ start # Nowhere => start \in 0..Len(b) /\ start \in Nat
              /\ Nowhere \in Nat /\ Nowhere # 0 /\ Behind \in Nat
              /\ Len(req.stop) \in Nat /\ DOMAIN req.stop = 1..Len(req.stop)
              /\ req.thinks \in BOOLEAN /\ req.tools \in BOOLEAN
<1> DEFINE b == Buffer(piece)
           w == Before(piece)
<1>1. /\ n \in 1..(MaxText - Len(text)) /\ piece \in Pieces[n] /\ Token(piece)
      /\ Types /\ Buffered /\ Flow /\ ~CutBelow(b) /\ Emitted <= Len(b)
  BY DEF Ready
<1>2. /\ pc = "stream" /\ req' = req /\ acc = text /\ acc' = b
      /\ text \in Seq(Alphabet) /\ Len(text) <= MaxText
      /\ text' \in Seq(Alphabet) /\ Extends(text', text) /\ Len(text') = Len(text) + n
      /\ b \in Seq(Alphabet) /\ Len(b) <= MaxText /\ Extends(text', b)
      /\ pc' = IF Len(b) < Len(text') THEN "cut" ELSE "stream"
      /\ Len(b) \in 0..Len(text') /\ (Len(b) = Len(text') => b = text')
      /\ \A m \in StopMark : \A i \in Nat : ~IsAt(b, m, i)
      /\ w \in Seq(Kinds) /\ Len(w) = Len(text')
      /\ \A i \in 1..Len(text') : w[i] = IF i <= Len(text) THEN said[i] ELSE "held"
  BY <1>1, TokenIs DEF Types
<1> HIDE DEF b, w
<1>3. /\ Len(text) \in Nat /\ Len(text') \in Nat /\ Len(b) \in Nat /\ Nowhere \in Nat /\ Len(b) < Nowhere /\ Nowhere # 0
      /\ n \in Nat
  BY <1>1, <1>2, LenProperties, NowhereIs
<1>4. pc' = "stream" => b = text' /\ Extends(b, text)
  BY <1>2, <1>3
<1>5. reasonEmitted \in 0..Len(b) /\ contentEmitted \in 0..Len(b) /\ (start # Nowhere => start \in 0..Len(b))
  BY <1>1, <1>3, NotCutBelow
<1>6. /\ Emitted = IF start = Nowhere THEN reasonEmitted ELSE contentEmitted
      /\ reasonEmitted \in Nat /\ contentEmitted \in Nat /\ Emitted \in Nat /\ (start # Nowhere => start \in Nat)
      /\ Emitted <= Len(text) /\ Behind \in Nat
  BY <1>1, <1>2, <1>3, <1>5 DEF Emitted, Flow, InOrder, Sending, Behind
<1>7. Len(req.stop) \in Nat /\ DOMAIN req.stop = 1..Len(req.stop) /\ req.thinks \in BOOLEAN /\ req.tools \in BOOLEAN
  <2>1. req.stop \in Seq(Letters \cup {"<"} \cup Names)
    BY <1>1, ChatStreamAssumption DEF Types
  <2> QED
    BY <1>1, <2>1, StopIs, LenProperties DEF Types
<1>8. ASSUME NEW a \in Nat, NEW c \in Nat, NEW d \in Nat, NEW e \in Nat,
             d <= Emitted, e <= Emitted, Told(said, a, d, c, e)
      PROVE  Told(w, a, d, c, e)
  <2>1. d <= Len(text) /\ e <= Len(text)
    BY <1>3, <1>6, <1>8
  <2> QED
    BY <1>1, <1>2, <1>8, <2>1, ToldBefore
<1> QED
  BY <1>2, <1>3, <1>4, <1>5, <1>6, <1>7, <1>8 DEF b, w

LEMMA MuteStarts ==
    ASSUME NEW n, NEW piece, Ready(n, piece), Mute, StartsThinking(Buffer(piece), Before(piece))
    PROVE  Reasons' /\ (pc' = "stream" => HeldStop(acc, req.stop, Emitted, Behind)')
<1> DEFINE b == Buffer(piece)
           w == Before(piece)
<1>1. /\ pc = "stream" /\ req' = req /\ acc = text /\ acc' = b
      /\ text \in Seq(Alphabet) /\ b \in Seq(Alphabet) /\ Len(b) \in Nat /\ Len(b) <= MaxText
      /\ Extends(text', text) /\ Extends(text', b) /\ text' \in Seq(Alphabet)
      /\ pc' = "stream" => b = text' /\ Extends(b, text)
      /\ w \in Seq(Kinds)
      /\ \A a, c \in Nat : \A d, e \in Nat :
           d <= Emitted /\ e <= Emitted /\ Told(said, a, d, c, e) => Told(w, a, d, c, e)
      /\ Emitted \in Nat /\ contentEmitted \in Nat /\ Emitted = IF start = Nowhere THEN reasonEmitted ELSE contentEmitted
      /\ Nowhere \in Nat /\ Nowhere # 0 /\ Behind \in Nat
      /\ Len(req.stop) \in Nat /\ DOMAIN req.stop = 1..Len(req.stop)
  BY ReadyIs
<1>2. Types /\ Flow /\ Usual(b, req.thinks) /\ HeldStop(text, req.stop, Emitted, Behind)
  BY DEF Ready
<1> HIDE DEF b, w
<1>3. PICK open \in 0..Len(b) :
        /\ start' = Nowhere /\ reasonEmitted' = open + 2 /\ contentEmitted' = contentEmitted
        /\ said' = Sent(w, "content", contentEmitted, open)
        /\ IsAt(b, ThinkOpen, open) /\ open + 2 <= Len(b)
  BY <1>1, <1>2, StartsEffect DEF b, w
<1>4. open \in Nat /\ open = 0
  <2>1. open \in Nat
    BY <1>1
  <2> QED
    BY <1>2, <1>3, <2>1 DEF Usual
<1>5. ~req.thinks /\ start = 0 /\ Emitted = contentEmitted /\ Told(said, 0, 0, 0, contentEmitted) /\ Behind = 0
  BY <1>1 DEF Mute, Behind
<1>6. contentEmitted = 0
  <2> SUFFICES ASSUME contentEmitted # 0 PROVE FALSE
    OBVIOUS
  <2>1. Unbegun(text, ThinkOpen, 0, contentEmitted)
    BY <1>1, <1>2, <1>5 DEF Flow, Quiet
  <2>2. 0 \in 0..(contentEmitted - 1)
    BY <1>1
  <2>3. IsAt(text', ThinkOpen, 0)
    BY <1>1, <1>3, <1>4, ExtendsTag, TagIs
  <2>4. Begun(text, Len(text), ThinkOpen, 0)
    BY <1>1, <2>3, ExtendsTag, TagIs
  <2> QED
    BY <2>1, <2>2, <2>4 DEF Unbegun
<1>7. Told(said', 2, 2, 0, 0)
  <2>0. Told(said, 0, 0, 0, 0) /\ 0 <= Emitted /\ 0 \in Nat
    BY <1>1, <1>5, <1>6
  <2>1. Told(w, 0, 0, 0, 0)
    BY <1>1, <2>0
  <2>2. Told(Sent(w, "content", 0, 0), 0, 0, 0, IF 0 <= 0 THEN 0 ELSE 0)
    BY <1>1, <2>1, ToldContent
  <2>3. Told(said', 0, 0, 0, 0)
    BY <1>3, <1>4, <1>6, <2>2
  <2>4. \A i \in 1..Len(said') : ~(0 < i /\ i <= 0) /\ ~(2 < i /\ i <= 2)
    OBVIOUS
  <2> QED
    BY <2>3, <2>4 DEF Told
<1>8. Base' = 2 /\ reasonEmitted' = 2 /\ start' = Nowhere /\ contentEmitted' = 0 /\ ~req'.thinks
  BY <1>1, <1>3, <1>4, <1>5, <1>6 DEF Base
<1>9. Reasons'
  <2>1. \A m \in Tags : Unbegun(b, m, 2, 2)
    BY DEF Unbegun
  <2>2. 2 <= Len(b) /\ IsAt(b, ThinkOpen, 0)
    BY <1>3, <1>4
  <2> QED
    BY <1>1, <1>7, <1>8, <2>1, <2>2, TagIs DEF Reasons
<1>10. ASSUME pc' = "stream" PROVE HeldStop(b, req.stop, 2, 0)
  <2>1. Extends(b, text)
    BY <1>1, <1>10
  <2>2. HeldStop(text, req.stop, 0, 0)
    BY <1>2, <1>5, <1>6
  <2>3. \A j \in 0..(2 - 1) : \E v \in Tags : \E i \in Nat : IsAt(b, v, i) /\ j < i + 2
    <3>1. IsAt(b, ThinkOpen, 0) /\ 0 \in Nat /\ ThinkOpen \in Tags
      BY <1>3, <1>4, TagIs
    <3>2. \A j \in 0..(2 - 1) : j < 0 + 2
      OBVIOUS
    <3> QED
      BY <3>1, <3>2
  <2>4. 0 \in Nat /\ 2 \in Nat /\ 0 <= 0
    OBVIOUS
  <2> QED
    BY <1>1, <2>1, <2>2, <2>3, <2>4, HeldStopLater
<1>11. Emitted' = 2 /\ Behind' = 0
  BY <1>8 DEF Emitted, Behind
<1> QED
  BY <1>1, <1>9, <1>10, <1>11

\* A token whose text is content sends more of it, up to a tool call.
LEMMA AnswersMore ==
    ASSUME NEW n, NEW piece, Ready(n, piece), start <= contentEmitted, Answers(Buffer(piece), Before(piece))
    PROVE  LET b == Buffer(piece) IN
           /\ start # Nowhere /\ start' = start /\ reasonEmitted' = reasonEmitted
           /\ contentEmitted' \in Nat /\ contentEmitted <= contentEmitted' /\ contentEmitted' <= Len(b)
           /\ req.tools /\ Find(b, ToolOpen, start) # Nowhere => contentEmitted' = Find(b, ToolOpen, start)
           /\ \A a, d \in Nat : d <= start /\ Told(said, a, d, start, contentEmitted)
                                  => Told(said', a, d, start, contentEmitted')
           /\ pc' = "stream" => HeldStop(b, req.stop, Emitted', Behind')
           /\ IsAt(b, ThinkOpen, start) => req.tools /\ Find(b, ToolOpen, start) < start
<1> DEFINE b == Buffer(piece)
           w == Before(piece)
           c == contentEmitted
<1>1. /\ pc = "stream" /\ req' = req /\ acc = text /\ acc' = b
      /\ text \in Seq(Alphabet) /\ b \in Seq(Alphabet) /\ Len(b) \in Nat /\ Len(b) <= MaxText
      /\ Extends(text', text) /\ Extends(text', b) /\ text' \in Seq(Alphabet)
      /\ pc' = "stream" => b = text' /\ Extends(b, text)
      /\ \A m \in StopMark : \A i \in Nat : ~IsAt(b, m, i)
      /\ w \in Seq(Kinds)
      /\ Emitted \in Nat /\ c \in Nat /\ Emitted = IF start = Nowhere THEN reasonEmitted ELSE contentEmitted
      /\ Behind \in Nat /\ c \in 0..Len(b)
      /\ start # Nowhere => start \in 0..Len(b) /\ start \in Nat
      /\ Len(req.stop) \in Nat /\ DOMAIN req.stop = 1..Len(req.stop)
  BY ReadyIs
<1>2. \A a, f \in Nat : \A d, e \in Nat :
        d <= Emitted /\ e <= Emitted /\ Told(said, a, d, f, e) => Told(w, a, d, f, e)
  BY ReadyIs
<1>3. Types /\ Flow /\ HeldStop(text, req.stop, Emitted, Behind) /\ start # Nowhere
  BY DEF Ready, Answers
<1>4. start \in 0..Len(b) /\ start \in Nat /\ Emitted = c /\ Behind = start /\ c <= Len(b)
  BY <1>1, <1>3 DEF Behind
<1> HIDE DEF b, w
<1>5. PICK end \in start..Len(b) :
        /\ start' = start /\ reasonEmitted' = reasonEmitted
        /\ contentEmitted' = IF contentEmitted <= end THEN end ELSE contentEmitted
        /\ said' = Sent(w, "content", contentEmitted, end)
        /\ LetGo(b, start, end, ContentMarks)
  BY <1>1, <1>3, <1>4, AnswersEffect DEF b, w
<1>6. end \in Nat /\ start <= end /\ end <= Len(b)
  BY <1>1, <1>4
<1> DEFINE c1 == contentEmitted'
<1>7. c1 \in Nat /\ c <= c1 /\ c1 <= Len(b) /\ (c1 = c \/ c1 = end) /\ c1 = IF c <= end THEN end ELSE c
  BY <1>1, <1>4, <1>5, <1>6
<1>8. ASSUME req.tools, Find(b, ToolOpen, start) # Nowhere PROVE c1 = Find(b, ToolOpen, start)
  <2> DEFINE h == Find(b, ToolOpen, start)
  <2>1. end = h
    BY <1>5, <1>8 DEF LetGo
  <2>2. h \in Nat /\ IsAt(b, ToolOpen, h) /\ start <= h
    BY <1>1, <1>4, <1>6, <1>8, <2>1, FoundIs, TagIs
  <2> HIDE DEF h
  <2>3. ASSUME h < c PROVE FALSE
    <3>1. Unbegun(text, ToolOpen, start, c)
      BY <1>1, <1>3, <1>8 DEF Flow, Quiet
    <3>2. h \in start..(c - 1)
      BY <1>1, <1>4, <2>2, <2>3
    <3>3. IsAt(text', ToolOpen, h)
      BY <1>1, <2>2, ExtendsTag, TagIs
    <3>4. Begun(text, Len(text), ToolOpen, h)
      BY <1>1, <2>2, <3>3, ExtendsTag, TagIs
    <3> QED
      BY <3>1, <3>2, <3>4 DEF Unbegun
  <2>4. c <= end
    BY <1>1, <2>1, <2>2, <2>3
  <2> QED
    BY <1>7, <2>1, <2>4 DEF h
<1>9. ASSUME NEW a \in Nat, NEW d \in Nat, d <= start, Told(said, a, d, start, c)
      PROVE  Told(said', a, d, start, c1)
  <2>1. d <= Emitted /\ c <= Emitted
    BY <1>1, <1>4, <1>9
  <2>2. Told(w, a, d, start, c)
    BY <1>1, <1>2, <1>4, <1>9, <2>1
  <2>3. Told(Sent(w, "content", c, end), a, d, start, IF c <= end THEN end ELSE c)
    BY <1>1, <1>4, <1>6, <1>9, <2>2, ToldContent
  <2> QED
    BY <1>5, <1>7, <2>3
<1>10. Emitted' = c1 /\ Behind' = start
  BY <1>3, <1>5 DEF Emitted, Behind
<1> HIDE DEF c1
<1>11. ASSUME pc' = "stream" PROVE HeldStop(b, req.stop, c1, start)
  <2>1. Extends(b, text) /\ HeldStop(text, req.stop, c, start) /\ start <= start
    BY <1>1, <1>3, <1>4, <1>11
  <2>2. req.stop # <<>> =>
             \A j \in start..(end - 1) : Begun(b, Len(b), req.stop, j) =>
               \E v \in Tags : \E i \in Nat : IsAt(b, v, i) /\ j < i + 2
    <3>1. StopMark \subseteq ContentMarks
      BY <1>3, StopIs DEF Types
    <3> QED
      BY <1>1, <1>3, <1>4, <1>5, <3>1, NewlySent
  <2>3. \A j \in c..(c1 - 1) : j \in start..(end - 1)
    BY <1>1, <1>4, <1>6, <1>7
  <2>4. req.stop # <<>> =>
             \A j \in c..(c1 - 1) : Begun(b, Len(b), req.stop, j) =>
               (\E v \in Tags : \E i \in Nat : IsAt(b, v, i) /\ j < i + 2) \/ j < start
    BY <2>2, <2>3
  <2> QED
    BY <1>1, <1>4, <1>7, <2>1, <2>4, HeldStopLater
<1>12. IsAt(b, ThinkOpen, start) => req.tools /\ Find(b, ToolOpen, start) < start
  <2> SUFFICES ASSUME IsAt(b, ThinkOpen, start) PROVE req.tools /\ Find(b, ToolOpen, start) < start
    OBVIOUS
  <2>1. /\ Find(b, ThinkOpen, start) # Nowhere /\ Find(b, ThinkOpen, start) <= start
        /\ Find(b, ThinkOpen, start) \in start..Len(b)
    <3>1. start <= start /\ start \in Nat
      BY <1>4
    <3>2. /\ Find(b, ThinkOpen, start) # Nowhere => Find(b, ThinkOpen, start) \in start..Len(b)
          /\ \A i \in Nat : start <= i /\ IsAt(b, ThinkOpen, i)
                            => Find(b, ThinkOpen, start) # Nowhere /\ Find(b, ThinkOpen, start) <= i
      BY <1>1, <3>1, FoundIs, TagIs
    <3> QED
      BY <3>1, <3>2
  <2>2. Find(b, ThinkOpen, start) = start
    BY <1>1, <1>4, <2>1
  <2>3. OpenTag(b) = Nowhere
    BY DEF Answers, b
  <2> QED
    BY <2>1, <2>2, <2>3 DEF OpenTag
<1> QED
  BY <1>3, <1>5, <1>7, <1>8, <1>9, <1>10, <1>11, <1>12 DEF b, c1

LEMMA MuteAnswers ==
    ASSUME NEW n, NEW piece, Ready(n, piece), Mute, Answers(Buffer(piece), Before(piece))
    PROVE  Mute' /\ (pc' = "stream" => HeldStop(acc, req.stop, Emitted, Behind)')
<1> DEFINE b == Buffer(piece)
<1>1. /\ ~req.thinks /\ start = 0 /\ reasonEmitted = 0 /\ Told(said, 0, 0, 0, contentEmitted)
  BY DEF Mute
<1>2. /\ req' = req /\ acc' = b /\ contentEmitted \in Nat /\ b \in Seq(Alphabet) /\ Len(b) <= MaxText
  BY ReadyIs
<1>3. start <= contentEmitted
  BY <1>1, <1>2
<1>4. /\ start' = start /\ reasonEmitted' = reasonEmitted
      /\ contentEmitted' \in Nat /\ contentEmitted' <= Len(b)
      /\ req.tools /\ Find(b, ToolOpen, start) # Nowhere => contentEmitted' = Find(b, ToolOpen, start)
      /\ \A a, d \in Nat : d <= start /\ Told(said, a, d, start, contentEmitted)
                             => Told(said', a, d, start, contentEmitted')
      /\ pc' = "stream" => HeldStop(b, req.stop, Emitted', Behind')
      /\ IsAt(b, ThinkOpen, start) => req.tools /\ Find(b, ToolOpen, start) < start
  BY <1>3, AnswersMore
<1> HIDE DEF b
<1>5. Told(said', 0, 0, 0, contentEmitted')
  BY <1>1, <1>4
<1>6. ~IsAt(b, ThinkOpen, 0)
  <2>1. Find(b, ToolOpen, 0) \in Nat
    BY <1>2, FirstIs, TagIs
  <2> QED
    BY <1>1, <1>4, <2>1
<1>7. Mute'
  BY <1>1, <1>2, <1>4, <1>5, <1>6 DEF Mute
<1> QED
  BY <1>2, <1>4, <1>7

LEMMA AnsweringAnswers ==
    ASSUME NEW n, NEW piece, Ready(n, piece), Answering, Answers(Buffer(piece), Before(piece))
    PROVE  Answering' /\ (pc' = "stream" => HeldStop(acc, req.stop, Emitted, Behind)')
<1> DEFINE b == Buffer(piece)
           c == Find(text, ThinkClose, 0)
<1>1. /\ req' = req /\ acc' = b /\ acc = text /\ contentEmitted \in Nat /\ b \in Seq(Alphabet) /\ Len(b) <= MaxText
      /\ text \in Seq(Alphabet) /\ Len(text) <= MaxText /\ Extends(text', text) /\ Extends(text', b)
      /\ Len(text) \in Nat /\ Len(b) \in Nat /\ start # Nowhere => start \in 0..Len(b) /\ start \in Nat
  BY ReadyIs
<1>2. /\ c # Nowhere /\ start # Nowhere /\ Base <= c
      /\ c + 2 <= start /\ start <= contentEmitted /\ contentEmitted <= Len(text)
      /\ \A k \in (c + 3)..start : text[k] = Blank
      /\ Told(said, Base, c, start, contentEmitted)
      /\ req.thinks \/ IsAt(text, ThinkOpen, 0)
  BY <1>1 DEF Answering
<1>3. /\ start' = start /\ contentEmitted' \in Nat /\ contentEmitted <= contentEmitted' /\ contentEmitted' <= Len(b)
      /\ req.tools /\ Find(b, ToolOpen, start) # Nowhere => contentEmitted' = Find(b, ToolOpen, start)
      /\ \A a, d \in Nat : d <= start /\ Told(said, a, d, start, contentEmitted)
                             => Told(said', a, d, start, contentEmitted')
      /\ pc' = "stream" => HeldStop(b, req.stop, Emitted', Behind')
  BY <1>2, AnswersMore
<1>4. \A m \in Tags : \A i \in Nat : /\ IsAt(text, m, i) => IsAt(b, m, i)
                                     /\ i + 2 <= Len(text) /\ IsAt(b, m, i) => IsAt(text, m, i)
  BY DEF Ready
<1> HIDE DEF b
<1>5. Find(b, ThinkClose, 0) = c
  BY <1>1, <1>2, <1>4, CloseKept
<1>6. c \in Nat
  BY <1>1, FirstIs, TagIs
<1> HIDE DEF c
<1>7. \A k \in (c + 3)..start : b[k] = Blank
  <2>1. \A k \in (c + 3)..start : k \in 1..Len(text) /\ k \in 1..Len(b)
    BY <1>1, <1>2, <1>6
  <2> QED
    BY <1>1, <1>2, <2>1 DEF Extends, Alike
<1>8. Told(said', Base, c, start, contentEmitted')
  <2>1. Base \in Nat /\ c <= start
    BY <1>1, <1>2, <1>6 DEF Base
  <2> QED
    BY <1>2, <1>3, <1>6, <2>1
<1>9. Base' = Base
  BY <1>1 DEF Base
<1>10. start <= contentEmitted'
  BY <1>1, <1>2, <1>3
<1>11. req.thinks \/ IsAt(b, ThinkOpen, 0)
  BY <1>2, <1>4, TagIs
<1>12. Answering'
  BY <1>1, <1>2, <1>3, <1>5, <1>7, <1>8, <1>9, <1>10, <1>11 DEF Answering
<1> QED
  BY <1>1, <1>3, <1>12

\* Nothing that was sent as reasoning has a close tag in it, or a tool marker.
LEMMA ReasonsClean ==
    ASSUME NEW n, NEW piece, Ready(n, piece), Reasons
    PROVE  /\ Base \in Nat /\ Base <= reasonEmitted
           /\ req.thinks \/ IsAt(Buffer(piece), ThinkOpen, 0)
           /\ \A i \in Nat : IsAt(Buffer(piece), ThinkClose, i) => reasonEmitted <= i
           /\ req.thinks /\ req.tools => \A i \in Nat : IsAt(Buffer(piece), ToolOpen, i) => reasonEmitted <= i
<1> DEFINE b == Buffer(piece)
<1>1. /\ acc = text /\ b \in Seq(Alphabet) /\ text \in Seq(Alphabet) /\ text' \in Seq(Alphabet) /\ pc = "stream"
      /\ Extends(text', text) /\ Extends(text', b) /\ reasonEmitted \in Nat
  BY ReadyIs
<1>2. \A m \in Tags : \A i \in Nat : IsAt(text, m, i) => IsAt(b, m, i)
  BY DEF Ready
<1> HIDE DEF b
<1>3. /\ Base <= reasonEmitted /\ (req.thinks \/ IsAt(text, ThinkOpen, 0))
      /\ Unbegun(text, ThinkClose, Base, reasonEmitted)
      /\ req.tools => Unbegun(text, ToolOpen, Base, reasonEmitted)
  BY <1>1 DEF Reasons
<1>4. Base \in Nat /\ (req.thinks => Base = 0) /\ (~req.thinks => Base = 2)
  BY DEF Base
<1>5. req.thinks \/ IsAt(b, ThinkOpen, 0)
  BY <1>2, <1>3, TagIs
<1>6. ASSUME NEW m \in Tags, NEW i \in Nat, IsAt(b, m, i) PROVE Begun(text, Len(text), m, i)
  <2>1. IsAt(text', m, i)
    BY <1>1, <1>6, ExtendsTag
  <2> QED
    BY <1>1, <2>1, ExtendsTag
<1>7. ASSUME NEW i \in Nat, IsAt(b, ThinkClose, i) PROVE reasonEmitted <= i
  <2>1. Base <= i
    <3>1. CASE req.thinks
      BY <1>4, <3>1
    <3>2. CASE ~req.thinks
      <4>1. i # 0 + 1 /\ (i = 0 => ThinkClose = ThinkOpen)
        BY <1>1, <1>5, <1>7, <3>2, Apart, TagIs
      <4>2. ThinkClose # ThinkOpen
        BY TagIs
      <4> QED
        BY <1>4, <3>2, <4>1, <4>2
    <3> QED
      BY <3>1, <3>2
  <2>2. Begun(text, Len(text), ThinkClose, i)
    BY <1>6, <1>7, TagIs
  <2>3. i \notin Base..(reasonEmitted - 1)
    BY <1>3, <2>2 DEF Unbegun
  <2> QED
    BY <1>1, <1>4, <2>1, <2>3
<1>8. ASSUME req.thinks, req.tools, NEW i \in Nat, IsAt(b, ToolOpen, i) PROVE reasonEmitted <= i
  <2>1. Begun(text, Len(text), ToolOpen, i)
    BY <1>6, <1>8, TagIs
  <2>2. i \notin Base..(reasonEmitted - 1)
    BY <1>3, <1>8, <2>1 DEF Unbegun
  <2> QED
    BY <1>1, <1>4, <1>8, <2>2
<1> QED
  BY <1>3, <1>4, <1>5, <1>7, <1>8 DEF b

LEMMA ReasonsEnds ==
    ASSUME NEW n, NEW piece, Ready(n, piece), Reasons, EndsThinking(Buffer(piece), Before(piece))
    PROVE  Answering' /\ (pc' = "stream" => HeldStop(acc, req.stop, Emitted, Behind)')
<1> DEFINE b == Buffer(piece)
           w == Before(piece)
           r == reasonEmitted
<1>1. /\ req' = req /\ acc' = b /\ acc = text /\ b \in Seq(Alphabet) /\ Len(b) \in Nat /\ Len(b) <= MaxText
      /\ Len(b) < Nowhere /\ Nowhere \in Nat /\ text \in Seq(Alphabet)
      /\ r \in Nat /\ r \in 0..Len(b) /\ w \in Seq(Kinds)
      /\ pc' = "stream" => b = text' /\ Extends(b, text)
      /\ \A m \in StopMark : \A i \in Nat : ~IsAt(b, m, i)
      /\ Emitted \in Nat /\ Emitted = IF start = Nowhere THEN reasonEmitted ELSE contentEmitted
      /\ Len(req.stop) \in Nat /\ DOMAIN req.stop = 1..Len(req.stop)
  BY ReadyIs
<1>2. \A a, f \in Nat : \A d, e \in Nat :
        d <= Emitted /\ e <= Emitted /\ Told(said, a, d, f, e) => Told(w, a, d, f, e)
  BY ReadyIs
<1>3. /\ Base \in Nat /\ Base <= r /\ (req.thinks \/ IsAt(b, ThinkOpen, 0))
      /\ \A i \in Nat : IsAt(b, ThinkClose, i) => r <= i
  BY ReasonsClean
<1>4. Types /\ HeldStop(text, req.stop, Emitted, Behind)
  BY DEF Ready
<1>5. start = Nowhere /\ Told(said, Base, r, 0, 0) /\ Behind = 0 /\ Emitted = r
  BY DEF Reasons, Behind, Emitted
<1> HIDE DEF b, w
<1>6. PICK idx \in r..Len(b), lead \in 0..Len(b), end \in 0..Len(b) :
        /\ start' = lead /\ contentEmitted' = end /\ reasonEmitted' = r
        /\ said' = Sent(Sent(w, "reasoning", r, idx), "content", lead, end)
        /\ idx = Find(b, ThinkClose, r) /\ IsAt(b, ThinkClose, idx)
        /\ idx + 2 <= lead /\ lead <= end /\ lead = PastBlanks(b, idx + 2)
        /\ LetGo(b, lead, end, ContentMarks)
  BY <1>1, <1>4, EndsEffect DEF b, w
<1>7. idx \in Nat /\ lead \in Nat /\ end \in Nat /\ r <= idx /\ idx <= Len(b) /\ end <= Len(b) /\ lead <= Len(b)
      /\ idx <= lead /\ lead # Nowhere /\ Base <= idx
  BY <1>1, <1>3, <1>6
<1>8. Find(b, ThinkClose, 0) = idx
  <2> DEFINE d == Find(b, ThinkClose, 0)
  <2>1. /\ d \in Nat /\ (d # Nowhere => IsAt(b, ThinkClose, d))
        /\ \A i \in Nat : IsAt(b, ThinkClose, i) => d # Nowhere /\ d <= i
    BY <1>1, FirstIs, TagIs
  <2> HIDE DEF d
  <2>2. d # Nowhere /\ d <= idx /\ IsAt(b, ThinkClose, d) /\ r <= d
    BY <1>3, <1>6, <1>7, <2>1
  <2>3. idx <= d
    BY <1>1, <1>6, <2>1, <2>2, FoundIs, TagIs
  <2> QED
    BY <1>7, <2>1, <2>2, <2>3 DEF d
<1>9. \A k \in (idx + 3)..lead : b[k] = Blank
  <2>1. idx + 2 \in 0..Len(b)
    BY <1>1, <1>6, <1>7
  <2>2. \A k \in (idx + 2 + 1)..lead : b[k] = Blank
    BY <1>1, <1>6, <2>1, BlanksIs
  <2>3. \A k \in (idx + 3)..lead : k \in (idx + 2 + 1)..lead
    BY <1>7
  <2> QED
    BY <2>2, <2>3
<1>10. Told(said', Base, idx, lead, end)
  <2> DEFINE u == Sent(w, "reasoning", r, idx)
  <2>1. 0 <= Emitted /\ r <= Emitted /\ 0 \in Nat
    BY <1>1, <1>5
  <2>2. Told(w, Base, r, 0, 0)
    BY <1>1, <1>2, <1>3, <1>5, <2>1
  <2>3. Told(u, Base, idx, 0, 0) /\ u \in Seq(Kinds)
    BY <1>1, <1>3, <1>7, <2>2, ToldReasoning
  <2> HIDE DEF u
  <2>4. Told(u, Base, idx, lead, lead)
    <3>1. Len(u) \in Nat
      BY <2>3, LenProperties
    <3>2. \A i \in 1..Len(u) : ~(lead < i /\ i <= lead) /\ ~(0 < i /\ i <= 0)
      BY <1>7, <3>1
    <3> QED
      BY <2>3, <3>2 DEF Told
  <2>5. Told(Sent(u, "content", lead, end), Base, idx, lead, IF lead <= end THEN end ELSE lead)
    <3>1. lead <= lead
      BY <1>7
    <3> QED
      BY <1>3, <1>7, <2>3, <2>4, <3>1, ToldContent
  <2> QED
    BY <1>6, <2>5 DEF u
<1>11. req.tools /\ Find(b, ToolOpen, lead) # Nowhere => end = Find(b, ToolOpen, lead)
  BY <1>6 DEF LetGo
<1>12. Base' = Base /\ Emitted' = end /\ Behind' = lead
  BY <1>1, <1>6, <1>7 DEF Base, Emitted, Behind
<1>13. Answering'
  <2>1. idx # Nowhere
    BY <1>1, <1>7
  <2> QED
    BY <1>1, <1>3, <1>6, <1>7, <1>8, <1>9, <1>10, <1>11, <1>12, <2>1 DEF Answering
<1>14. ASSUME pc' = "stream" PROVE HeldStop(b, req.stop, end, lead)
  <2>1. Extends(b, text) /\ HeldStop(text, req.stop, r, 0) /\ 0 \in Nat /\ 0 <= lead
    BY <1>1, <1>4, <1>5, <1>7, <1>14
  <2>2. req.stop # <<>> =>
             \A j \in lead..(end - 1) : Begun(b, Len(b), req.stop, j) =>
               \E v \in Tags : \E i \in Nat : IsAt(b, v, i) /\ j < i + 2
    <3>1. StopMark \subseteq ContentMarks
      BY <1>4, StopIs DEF Types
    <3> QED
      BY <1>1, <1>4, <1>6, <3>1, NewlySent
  <2>3. \A j \in r..(end - 1) : j < lead \/ j \in lead..(end - 1)
    BY <1>1, <1>7
  <2>4. req.stop # <<>> =>
             \A j \in r..(end - 1) : Begun(b, Len(b), req.stop, j) =>
               (\E v \in Tags : \E i \in Nat : IsAt(b, v, i) /\ j < i + 2) \/ j < lead
    BY <2>2, <2>3
  <2> QED
    BY <1>1, <1>7, <2>1, <2>4, HeldStopLater
<1> QED
  BY <1>1, <1>12, <1>13, <1>14

LEMMA ReasonsThinks ==
    ASSUME NEW n, NEW piece, Ready(n, piece), Reasons, Thinks(Buffer(piece), Before(piece))
    PROVE  Reasons' /\ (pc' = "stream" => HeldStop(acc, req.stop, Emitted, Behind)')
<1> DEFINE b == Buffer(piece)
           w == Before(piece)
           r == reasonEmitted
<1>1. /\ req' = req /\ acc' = b /\ acc = text /\ b \in Seq(Alphabet) /\ Len(b) \in Nat /\ Len(b) <= MaxText
      /\ pc = "stream" /\ Len(b) < Nowhere /\ Nowhere \in Nat /\ text \in Seq(Alphabet)
      /\ r \in Nat /\ r \in 0..Len(b) /\ w \in Seq(Kinds)
      /\ pc' = "stream" => b = text' /\ Extends(b, text)
      /\ \A m \in StopMark : \A i \in Nat : ~IsAt(b, m, i)
      /\ Emitted \in Nat /\ Emitted = IF start = Nowhere THEN reasonEmitted ELSE contentEmitted
      /\ Len(req.stop) \in Nat /\ DOMAIN req.stop = 1..Len(req.stop)
  BY ReadyIs
<1>2. \A a, f \in Nat : \A d, e \in Nat :
        d <= Emitted /\ e <= Emitted /\ Told(said, a, d, f, e) => Told(w, a, d, f, e)
  BY ReadyIs
<1>3. /\ Base \in Nat /\ Base <= r /\ (req.thinks \/ IsAt(b, ThinkOpen, 0))
      /\ \A i \in Nat : IsAt(b, ThinkClose, i) => r <= i
      /\ req.thinks /\ req.tools => \A i \in Nat : IsAt(b, ToolOpen, i) => r <= i
  BY ReasonsClean
<1>4. Types /\ HeldStop(text, req.stop, Emitted, Behind)
  BY DEF Ready
<1>5. /\ start = Nowhere /\ contentEmitted = 0 /\ Told(said, Base, r, 0, 0) /\ Behind = 0 /\ Emitted = r
      /\ Unbegun(text, ThinkClose, Base, r) /\ (req.tools => Unbegun(text, ToolOpen, Base, r))
  BY <1>1 DEF Reasons, Behind, Emitted
<1> HIDE DEF b, w
<1>6. PICK end \in r..Len(b) :
        /\ start' = start /\ contentEmitted' = contentEmitted /\ reasonEmitted' = end
        /\ said' = Sent(w, "reasoning", r, end)
        /\ Find(b, ThinkClose, r) = Nowhere
        /\ LetGo(b, r, end, StopMark) /\ Unbegun(b, ThinkClose, r, end)
  BY <1>1, <1>4, ThinksEffect DEF b, w
<1>7. end \in Nat /\ r <= end /\ end <= Len(b) /\ Base <= end
  BY <1>1, <1>3, <1>6
<1>8. \A i \in Nat : ~IsAt(b, ThinkClose, i)
  BY <1>1, <1>3, <1>6, FoundIs, TagIs
<1>9. Told(said', Base, end, 0, 0)
  <2>1. 0 <= Emitted /\ r <= Emitted /\ 0 \in Nat
    BY <1>1, <1>5
  <2>2. Told(w, Base, r, 0, 0)
    BY <1>1, <1>2, <1>3, <1>5, <2>1
  <2> QED
    BY <1>1, <1>3, <1>6, <1>7, <2>2, ToldReasoning
<1>10. req.thinks /\ req.tools /\ Find(b, ToolOpen, 0) # Nowhere => end = Find(b, ToolOpen, 0)
  <2> SUFFICES ASSUME req.thinks, req.tools, Find(b, ToolOpen, 0) # Nowhere PROVE end = Find(b, ToolOpen, 0)
    OBVIOUS
  <2> DEFINE h == Find(b, ToolOpen, 0)
             g == Find(b, ToolOpen, r)
  <2>1. h \in Nat /\ IsAt(b, ToolOpen, h) /\ \A i \in Nat : IsAt(b, ToolOpen, i) => h <= i
    BY <1>1, FirstIs, TagIs
  <2>2. r <= h
    BY <1>3, <2>1
  <2>3. /\ g # Nowhere => g \in r..Len(b) /\ IsAt(b, ToolOpen, g)
        /\ \A i \in Nat : r <= i /\ IsAt(b, ToolOpen, i) => g # Nowhere /\ g <= i
    BY <1>1, FoundIs, TagIs
  <2>4. g # Nowhere => end = g
    BY <1>6 DEF LetGo
  <2> HIDE DEF g, h
  <2>5. g # Nowhere /\ g <= h /\ g \in Nat /\ h <= g
    BY <1>1, <2>1, <2>2, <2>3
  <2> QED
    BY <2>1, <2>4, <2>5 DEF h
<1>11. StopMark \subseteq StopMark /\ \A m \in StopMark : Len(m) \in Nat /\ DOMAIN m = 1..Len(m)
  BY <1>4, StopIs DEF Types
<1>12. ASSUME pc' = "stream"
       PROVE  /\ Unbegun(b, ThinkClose, Base, end)
              /\ req.tools => Unbegun(b, ToolOpen, Base, end)
  <2>1. Extends(b, text)
    BY <1>1, <1>12
  <2>2. Unbegun(b, ThinkClose, Base, r) /\ (req.tools => Unbegun(b, ToolOpen, Base, r))
    BY <1>1, <1>3, <1>5, <2>1, UnbegunLater, TagIs
  <2>3. req.tools => Unbegun(b, ToolOpen, r, end)
    BY <1>1, <1>6, <1>11, LetClean
  <2>4. \A j \in Base..(end - 1) : j \in Base..(r - 1) \/ j \in r..(end - 1)
    BY <1>1, <1>3, <1>7
  <2> QED
    BY <1>6, <2>2, <2>3, <2>4 DEF Unbegun
<1>13. Base' = Base /\ Emitted' = end /\ Behind' = 0
  BY <1>1, <1>5, <1>6 DEF Base, Emitted, Behind
<1>14. Reasons'
  BY <1>1, <1>3, <1>5, <1>6, <1>7, <1>8, <1>9, <1>10, <1>12, <1>13 DEF Reasons
<1>15. ASSUME pc' = "stream" PROVE HeldStop(b, req.stop, end, 0)
  <2>1. Extends(b, text) /\ HeldStop(text, req.stop, r, 0) /\ 0 \in Nat /\ 0 <= 0
    BY <1>1, <1>4, <1>5, <1>15
  <2>2. req.stop # <<>> =>
             \A j \in r..(end - 1) : Begun(b, Len(b), req.stop, j) =>
               \E v \in Tags : \E i \in Nat : IsAt(b, v, i) /\ j < i + 2
    BY <1>1, <1>4, <1>6, <1>11, NewlySent
  <2> QED
    BY <1>1, <1>7, <2>1, <2>2, HeldStopLater
<1> QED
  BY <1>1, <1>13, <1>14, <1>15

LEMMA ModesToken ==
    ASSUME Types, Buffered, Modes, NEW n \in 1..(MaxText - Len(text)), NEW piece \in Pieces[n], Token(piece)
    PROVE  Modes'
<1> DEFINE b == Buffer(piece)
           w == Before(piece)
<1>1. /\ pc = "stream" /\ req' = req /\ acc = text /\ acc' = b /\ Len(b) \in 0..Len(text')
      /\ pc' = (IF Len(b) < Len(text') THEN "cut" ELSE "stream") /\ text \in Seq(Alphabet)
      /\ b \in Seq(Alphabet) /\ Len(b) <= MaxText
      /\ \/ SaysNothing(b, w)
         \/ ~CutBelow(b) /\ EndsThinking(b, w)
         \/ ~CutBelow(b) /\ Thinks(b, w)
         \/ ~CutBelow(b) /\ StartsThinking(b, w)
         \/ ~CutBelow(b) /\ Answers(b, w)
  BY TokenIs DEF Types
<1> SUFFICES ASSUME Usual(b, req.thinks), Len(b) < Len(text') => ~Overlaps(text', Len(b), req.stop)
             PROVE  /\ Flow'
                    /\ Mute' \/ Reasons' \/ Answering'
                    /\ pc' = "stream" => HeldStop(acc, req.stop, Emitted, Behind)'
  <2> HIDE DEF b
  <2> QED
    BY <1>1 DEF Modes
<1>2. Usual(text, req.thinks)
  BY UsualBefore
<1>3. Flow /\ (Mute \/ Reasons \/ Answering) /\ HeldStop(text, req.stop, Emitted, Behind)
  BY <1>1, <1>2 DEF Modes, Sending
<1>4. ~CutBelow(b) /\ ~SaysNothing(b, w) /\ Emitted <= Len(b)
  BY <1>3, NotBelow
<1>5. \A m \in Tags : \A i \in Nat : /\ IsAt(text, m, i) => IsAt(b, m, i)
                                     /\ i + 2 <= Len(text) /\ IsAt(b, m, i) => IsAt(text, m, i)
  BY TagsKept
<1>6. Ready(n, piece)
  BY <1>2, <1>3, <1>4, <1>5 DEF Ready
<1> HIDE DEF b, w
<1>7. Flow'
  <2>1. ASSUME NEW i \in Nat, NEW j \in Nat, IsAt(b, ThinkClose, i), i <= j, IsAt(b, ThinkOpen, j) PROVE FALSE
    <3>1. j = 0
      BY <2>1 DEF Usual
    <3>2. i = j
      BY <2>1, <3>1
    <3>3. ThinkClose = ThinkOpen
      BY <1>1, <2>1, <3>2, Apart, TagIs
    <3> QED
      BY <3>3, TagIs
  <2> QED
    BY <1>3, <2>1, FlowToken DEF b
<1>8. CASE Mute
  <2>1. start # Nowhere
    BY <1>8, NowhereIs DEF Mute, Nowhere
  <2>2. StartsThinking(b, w) \/ Answers(b, w)
    BY <1>1, <1>4, <2>1 DEF EndsThinking, Thinks
  <2> QED
    BY <1>6, <1>7, <1>8, <2>2, MuteStarts, MuteAnswers DEF b, w
<1>9. CASE Reasons
  <2>1. EndsThinking(b, w) \/ Thinks(b, w)
    BY <1>1, <1>4, <1>9 DEF Reasons, StartsThinking, Answers
  <2> QED
    BY <1>6, <1>7, <1>9, <2>1, ReasonsEnds, ReasonsThinks DEF b, w
<1>10. CASE Answering
  <2>1. start # Nowhere
    BY <1>10 DEF Answering
  <2>2. ~StartsThinking(b, w)
    <3> SUFFICES ASSUME StartsThinking(b, w) PROVE FALSE
      OBVIOUS
    <3>1. PICK open \in 0..Len(b) : start \in Nat /\ start <= open /\ IsAt(b, ThinkOpen, open)
      BY <1>1, StartsEffect DEF b, w
    <3>2. open \in Nat /\ open = 0
      BY <3>1 DEF Usual
    <3>3. Find(text, ThinkClose, 0) + 2 <= start /\ Find(text, ThinkClose, 0) \in Nat
      BY <1>1, <1>10, FirstIs, TagIs DEF Answering, Types
    <3> QED
      BY <3>1, <3>2, <3>3
  <2>3. Answers(b, w)
    BY <1>1, <1>4, <2>1, <2>2 DEF EndsThinking, Thinks
  <2> QED
    BY <1>6, <1>7, <1>10, <2>3, AnsweringAnswers DEF b, w
<1> QED
  BY <1>3, <1>7, <1>8, <1>9, <1>10

LEMMA ModesInit ==
    ASSUME Init
    PROVE  Modes
<1>1. /\ text = <<>> /\ acc = <<>> /\ said = <<>> /\ reasonEmitted = 0 /\ contentEmitted = 0 /\ pc = "stream"
      /\ start = IF req.thinks THEN Nowhere ELSE 0
  BY DEF Init
<1>2. Flow /\ Types
  BY FlowInit, TypesInit
<1>3. acc \in Seq(Alphabet) /\ Len(acc) = 0 /\ Len(acc) <= MaxText /\ Nowhere \in Nat /\ Nowhere # 0
  BY <1>1, <1>2, NowhereIs DEF Types
<1>4. \A m \in Tags : Find(acc, m, 0) = Nowhere /\ \A i \in Nat : ~IsAt(acc, m, i)
  <2>1. \A m \in Tags : \A i \in Nat : ~IsAt(acc, m, i)
    <3>1. \A i \in Nat : ~(i + 2 <= 0)
      OBVIOUS
    <3> QED
      BY <1>3, <3>1, AtTag
  <2> QED
    BY <1>3, <2>1, FirstIs
<1>5. \A a, b, c, d : Told(said, a, b, c, d)
  BY <1>1 DEF Told
<1>6. HeldStop(acc, req.stop, Emitted, Behind)
  BY <1>1 DEF HeldStop, Emitted
<1>7. ~req.thinks => Mute
  BY <1>1, <1>3, <1>4, <1>5, TagIs DEF Mute
<1>8. req.thinks => Reasons
  BY <1>1, <1>3, <1>4, <1>5, TagIs DEF Reasons, Base, Unbegun
<1> QED
  BY <1>2, <1>6, <1>7, <1>8 DEF Modes

LEMMA ModesFinish ==
    ASSUME NEW failed \in BOOLEAN, Finish(failed)
    PROVE  Modes'
BY DEF Finish, Modes, Sending

LEMMA ModesStutters ==
    ASSUME Modes, UNCHANGED vars
    PROVE  Modes'
<1>1. Flow => Flow'
  BY FlowStutters
<1> QED
  BY <1>1 DEF vars, Modes, Sending, Mute, Reasons, Answering, Emitted, Behind, Base

-----------------------------------------------------------------------------
(* The end of the stream *)

\* Where the content of a finished text begins, and its tool calls, of a request of kind q.
ContentAt(s, q) ==
  LET e == LeastOf({i \in Found(s, ThinkClose, 0) : q.thinks \/ ~InsideCall(s, i)}) IN
  IF e = Nowhere THEN 0 ELSE PastBlanks(s, e + Len(ThinkClose))
CallsAt(s, q) == IF q.tools THEN Calls(s, ContentAt(s, q)) ELSE {}

LEMMA CallsAtIs == \A s : ContentFrom(s) = ContentAt(s, req) /\ Parsed(s, ContentFrom(s)) = CallsAt(s, req)
<1>1. \A s : ContentFrom(s) = ContentAt(s, req)
  BY DEF ContentFrom, ContentAt, Boundary
<1> QED
  BY <1>1 DEF Parsed, CallsAt

\* Where a reply's content ends: behind it stand tool calls.
ContentEnd(s, from, found) == IF found = {} THEN Len(s) ELSE Find(s, ToolOpen, from)
\* Where the reasoning of a block that was never closed ends.
OpenEnd(s, tools) == IF tools /\ Find(s, ToolOpen, 0) # Nowhere THEN Find(s, ToolOpen, 0) ELSE Len(s)

\* What was said in the three kinds of ordinary replies.
Shape ==
  \/ /\ ~req.thinks /\ \A i \in Nat : ~IsAt(acc, ThinkClose, i)
     /\ Told(said, 0, 0, 0, ContentEnd(acc, 0, calls))
  \/ /\ req.thinks /\ \A i \in Nat : ~IsAt(acc, ThinkClose, i)
     /\ LET m == OpenEnd(acc, req.tools) IN Told(said, 0, m, m, IF calls = {} THEN Len(acc) ELSE m)
  \/ LET c == Find(acc, ThinkClose, 0) IN
     /\ c # Nowhere /\ Base <= c /\ (req.thinks \/ IsAt(acc, ThinkOpen, 0))
     /\ \E s \in Nat : /\ c + 2 <= s /\ s <= Len(acc) /\ \A k \in (c + 3)..s : acc[k] = Blank
                       /\ Told(said, Base, c, s, ContentEnd(acc, s, calls))

Ended ==
  pc = "done" =>
    /\ calls = CallsAt(acc, req)
    /\ Usual(acc, req.thinks) /\ Closed(acc, req.thinks) /\ ~Overlaps(text, Len(acc), req.stop) /\ ~BlockSwallowed
         => Shape

\* Calls are read behind tool markers.
LEMMA CallsFound ==
    ASSUME NEW s \in Seq(Alphabet), Len(s) <= MaxText, NEW from \in Nat, Parsed(s, from) # {}
    PROVE  req.tools /\ Find(s, ToolOpen, from) # Nowhere
<1>1. req.tools /\ Calls(s, from) # {}
  BY DEF Parsed
<1>2. Found(s, ToolOpen, from) # {}
  BY <1>1 DEF Calls
<1>3. PICK i \in Found(s, ToolOpen, from) : TRUE
  BY <1>2
<1>4. i \in from..Len(s) /\ IsAt(s, ToolOpen, i)
  BY <1>3 DEF Found
<1>5. Find(s, ToolOpen, from) # Nowhere
  BY <1>4, FindIs
<1> QED
  BY <1>1, <1>5

\* The boundary of a usual text is its first close tag.
LEMMA BoundaryUsual ==
    ASSUME NEW s \in Seq(Alphabet), Len(s) <= MaxText, Usual(s, req.thinks)
    PROVE  /\ Boundary(s) = Find(s, ThinkClose, 0)
           /\ ContentFrom(s) = IF Find(s, ThinkClose, 0) = Nowhere THEN 0 ELSE PastBlanks(s, Find(s, ThinkClose, 0) + 2)
<1> DEFINE c == Find(s, ThinkClose, 0)
           e == Boundary(s)
<1>1. /\ c \in Nat /\ (c # Nowhere => IsAt(s, ThinkClose, c) /\ c + 2 <= Len(s))
      /\ \A i \in Nat : IsAt(s, ThinkClose, i) => c # Nowhere /\ c <= i
  BY FirstIs, TagIs
<1>2. /\ e \in Nat /\ (e # Nowhere => IsAt(s, ThinkClose, e))
      /\ \A i \in Nat : IsAt(s, ThinkClose, i) /\ (req.thinks \/ ~InsideCall(s, i)) => e # Nowhere /\ e <= i
  BY BoundaryIs
<1> HIDE DEF c, e
<1>3. c # Nowhere => req.thinks \/ ~InsideCall(s, c)
  <2> SUFFICES ASSUME c # Nowhere, ~req.thinks, InsideCall(s, c) PROVE FALSE
    OBVIOUS
  <2>0. c \in 0..Len(s) /\ 0 \in 0..Len(s) /\ Len(s) \in Nat
    BY <1>1, LenProperties
  <2>1. /\ Part(s, 0, c) \in Seq(Alphabet) /\ Len(Part(s, 0, c)) = c
        /\ \A i \in 1..c : Part(s, 0, c)[i] = s[i]
    <3>1. /\ Part(s, 0, c) \in Seq(Alphabet) /\ Len(Part(s, 0, c)) = c - 0
          /\ \A i \in 1..(c - 0) : Part(s, 0, c)[i] = s[0 + i]
      <4>1. 0 \in 0..Len(s) /\ c \in 0..Len(s)
        BY <2>0
      <4> QED
        BY <4>1, PartIs
    <3> QED
      BY <1>1, <3>1
  <2>2. PICK i \in Found(Part(s, 0, c), ToolOpen, 0) : TRUE
    BY DEF InsideCall
  <2>3. i \in 0..c /\ IsAt(Part(s, 0, c), ToolOpen, i)
    BY <2>1, <2>2 DEF Found
  <2>4. Extends(s, Part(s, 0, c)) /\ i \in Nat
    BY <1>1, <2>0, <2>1, <2>3 DEF Extends, Alike
  <2>5. IsAt(s, ToolOpen, i) /\ i + 2 <= c
    BY <2>1, <2>3, <2>4, ExtendsTag, AtTag, TagIs
  <2>6. IsAt(s, ThinkOpen, 0)
    BY <1>1 DEF Usual
  <2>7. PICK j \in Nat : j < i /\ IsAt(s, ThinkClose, j)
    BY <2>4, <2>5, <2>6 DEF Usual
  <2> QED
    BY <1>1, <2>4, <2>5, <2>7
<1>4. e = c
  <2>1. c # Nowhere => e # Nowhere /\ e <= c
    BY <1>1, <1>2, <1>3
  <2>2. e # Nowhere => c # Nowhere /\ c <= e
    BY <1>1, <1>2
  <2> QED
    BY <1>1, <1>2, <2>1, <2>2
<1>5. ContentFrom(s) = IF e = Nowhere THEN 0 ELSE PastBlanks(s, e + 2)
  BY TagIs DEF ContentFrom, e
<1> QED
  BY <1>4, <1>5 DEF c, e

\* Where the end of the stream starts from.
LEMMA FinishIs ==
    ASSUME Types, Buffered, Modes, Finish(FALSE), Usual(acc, req.thinks), ~Overlaps(text, Len(acc), req.stop)
    PROVE  /\ Flow /\ (Mute \/ Reasons \/ Answering) /\ Sending
           /\ req' = req /\ acc' = acc /\ text' = text /\ start' = start /\ pc' = "done"
           /\ calls' = Parsed(acc, ContentFrom(acc)) /\ ContentFrom(acc) \in Nat
           /\ said' = IF calls' # {} THEN said ELSE HeldTail(said)
           /\ acc \in Seq(Alphabet) /\ Len(acc) \in Nat /\ Len(acc) <= MaxText /\ Len(acc) <= Len(text)
           /\ Len(acc) < Nowhere /\ Nowhere \in Nat
           /\ Len(said) = Len(text) /\ Len(said') = Len(text) /\ Len(text) \in Nat
           /\ reasonEmitted \in Nat /\ contentEmitted \in Nat /\ (start # Nowhere => start \in Nat)
           /\ Emitted = IF start = Nowhere THEN reasonEmitted ELSE contentEmitted
           /\ Emitted \in Nat
<1>1. /\ pc \in {"stream", "cut"} /\ calls' = Parsed(acc, ContentFrom(acc))
      /\ said' = IF calls' # {} THEN said ELSE HeldTail(said)
      /\ pc' = "done"
      /\ req' = req /\ text' = text /\ acc' = acc /\ start' = start
  BY DEF Finish
<1>2. Sending
  BY <1>1 DEF Sending
<1>3. Flow /\ (Mute \/ Reasons \/ Answering)
  BY <1>2 DEF Modes
<1>4. /\ acc \in Seq(Alphabet) /\ Len(acc) \in Nat /\ Len(acc) <= MaxText /\ Len(acc) <= Len(text) /\ Len(text) \in Nat
      /\ Len(acc) < Nowhere /\ Nowhere \in Nat
  BY BufferIs, NowhereIs
<1>5. ContentFrom(acc) \in Nat
  <2>1. ContentFrom(acc) \in 0..Len(acc)
    BY <1>4, BoundaryIs
  <2> QED
    BY <1>4, <2>1
<1>6. Len(said) = Len(text) /\ Len(said') = Len(text)
  BY <1>1, HeldTailType DEF Types
<1>7. /\ reasonEmitted \in Nat /\ contentEmitted \in Nat /\ (start # Nowhere => start \in Nat)
      /\ Emitted = (IF start = Nowhere THEN reasonEmitted ELSE contentEmitted) /\ Emitted \in Nat
  BY NowhereIs DEF Types, Emitted
<1> QED
  BY <1>1, <1>2, <1>3, <1>4, <1>5, <1>6, <1>7

\* What was held at the end of content leaves as content.
LEMMA TailContent ==
    ASSUME Types, Buffered, Flow, Sending, start # Nowhere, contentEmitted <= Len(acc),
           NEW a \in Nat, NEW b \in Nat, NEW c \in Nat, b <= c, c <= contentEmitted,
           Told(said, a, b, c, contentEmitted)
    PROVE  Told(HeldTail(said), a, b, c, Len(acc))
<1> DEFINE end == Len(acc)
           h == HeldTail(said)
           d == contentEmitted
<1>1. /\ Emitted = d /\ d \in Nat /\ Len(h) = Len(text) /\ Len(said) = Len(text) /\ Len(text) \in Nat
      /\ end \in Nat /\ d <= end
  BY HeldTailType, BufferIs DEF Types, Emitted
<1>2. /\ Emitted >= end => h = said
      /\ Emitted < end /\ start # Nowhere =>
           \A i \in 1..Len(text) : h[i] = IF Emitted < i /\ i <= end THEN "content" ELSE said[i]
  BY HeldTailIs DEF Flow
<1> HIDE DEF h
<1>3. CASE d >= end
  <2>1. h = said /\ d = end
    BY <1>1, <1>2, <1>3
  <2> QED
    BY <2>1 DEF h
<1>4. CASE d < end
  <2>1. ASSUME NEW i \in 1..Len(h)
        PROVE  h[i] = IF a < i /\ i <= b THEN "reasoning" ELSE IF c < i /\ i <= end THEN "content" ELSE "held"
    <3>1. h[i] = IF d < i /\ i <= end THEN "content" ELSE said[i]
      BY <1>1, <1>2, <1>4
    <3>2. said[i] = IF a < i /\ i <= b THEN "reasoning" ELSE IF c < i /\ i <= d THEN "content" ELSE "held"
      BY <1>1 DEF Told
    <3>3. i \in Nat /\ Len(h) \in Nat
      BY <1>1
    <3> QED
      BY <1>1, <1>4, <3>1, <3>2, <3>3
  <2> QED
    BY <2>1 DEF Told, h
<1> QED
  BY <1>1, <1>3, <1>4

LEMMA EndMute ==
    ASSUME Types, Buffered, Modes, Finish(FALSE), Usual(acc, req.thinks), ~Overlaps(text, Len(acc), req.stop), Mute
    PROVE  Shape'
<1>1. /\ Flow /\ Sending /\ req' = req /\ acc' = acc /\ calls' = Parsed(acc, ContentFrom(acc))
      /\ said' = IF calls' # {} THEN said ELSE HeldTail(said)
      /\ acc \in Seq(Alphabet) /\ Len(acc) <= MaxText /\ contentEmitted \in Nat /\ Nowhere # 0
  BY FinishIs
<1>2. /\ ~req.thinks /\ start = 0 /\ contentEmitted <= Len(acc) /\ Told(said, 0, 0, 0, contentEmitted)
      /\ ~IsAt(acc, ThinkOpen, 0)
      /\ req.tools /\ Find(acc, ToolOpen, 0) # Nowhere => contentEmitted = Find(acc, ToolOpen, 0)
  BY DEF Mute
<1>3. \A i \in Nat : ~IsAt(acc, ThinkClose, i)
  BY <1>2 DEF Usual
<1>4. ContentFrom(acc) = 0
  BY <1>1, <1>3, FirstIs, TagIs, BoundaryUsual
<1>5. CASE calls' # {}
  <2>1. contentEmitted = Find(acc, ToolOpen, 0)
    BY <1>1, <1>2, <1>4, <1>5, CallsFound
  <2> QED
    BY <1>1, <1>2, <1>3, <1>5, <2>1 DEF Shape, ContentEnd
<1>6. CASE calls' = {}
  <2>1. 0 \in Nat /\ 0 <= 0 /\ 0 <= contentEmitted /\ start # Nowhere
    BY <1>1, <1>2
  <2>2. Told(HeldTail(said), 0, 0, 0, Len(acc))
    BY <1>1, <1>2, <2>1, TailContent
  <2> QED
    BY <1>1, <1>2, <1>3, <1>6, <2>2 DEF Shape, ContentEnd
<1> QED
  BY <1>5, <1>6

LEMMA EndAnswering ==
    ASSUME Types, Buffered, Modes, Finish(FALSE), Usual(acc, req.thinks), ~Overlaps(text, Len(acc), req.stop), Answering
    PROVE  Shape'
<1> DEFINE c == Find(acc, ThinkClose, 0)
<1>1. /\ Flow /\ Sending /\ req' = req /\ acc' = acc /\ calls' = Parsed(acc, ContentFrom(acc))
      /\ said' = IF calls' # {} THEN said ELSE HeldTail(said)
      /\ acc \in Seq(Alphabet) /\ Len(acc) <= MaxText /\ Len(acc) \in Nat /\ contentEmitted \in Nat
      /\ start # Nowhere => start \in Nat
  BY FinishIs
<1>2. /\ c # Nowhere /\ start # Nowhere /\ Base <= c
      /\ c + 2 <= start /\ start <= contentEmitted /\ contentEmitted <= Len(acc)
      /\ \A k \in (c + 3)..start : acc[k] = Blank
      /\ Told(said, Base, c, start, contentEmitted)
      /\ req.thinks \/ IsAt(acc, ThinkOpen, 0)
      /\ req.tools /\ Find(acc, ToolOpen, start) # Nowhere => contentEmitted = Find(acc, ToolOpen, start)
  BY DEF Answering
<1>3. c \in Nat /\ IsAt(acc, ThinkClose, c) /\ start \in Nat /\ start <= Len(acc) /\ c + 2 <= Len(acc)
  BY <1>1, <1>2, FirstIs, TagIs
<1>4. ContentFrom(acc) = PastBlanks(acc, c + 2) /\ start <= PastBlanks(acc, c + 2) /\ PastBlanks(acc, c + 2) \in Nat
  <2> HIDE DEF c
  <2>1. c + 2 \in 0..Len(acc) /\ start \in (c + 2)..Len(acc) /\ \A k \in (c + 2 + 1)..start : k \in (c + 3)..start
    BY <1>1, <1>2, <1>3
  <2>2. start <= PastBlanks(acc, c + 2) /\ PastBlanks(acc, c + 2) \in (c + 2)..Len(acc)
    BY <1>1, <1>2, <2>1, BlanksReach, BlanksIs
  <2>3. ContentFrom(acc) = PastBlanks(acc, c + 2)
    BY <1>1, <1>2, BoundaryUsual DEF c
  <2> QED
    BY <1>1, <1>3, <2>2, <2>3
<1> HIDE DEF c
<1>5. Told(said', Base, c, start, ContentEnd(acc, start, calls'))
  <2>1. CASE calls' # {}
    <3> DEFINE L == PastBlanks(acc, c + 2)
               h == Find(acc, ToolOpen, L)
    <3>1. req.tools /\ h # Nowhere
      BY <1>1, <1>4, <2>1, CallsFound
    <3>2. h \in L..Len(acc) /\ IsAt(acc, ToolOpen, h)
      BY <1>1, <1>4, <3>1, FoundIs, TagIs
    <3> HIDE DEF h, L
    <3>3. h \in Nat /\ start <= h
      BY <1>1, <1>3, <1>4, <3>2 DEF L
    <3>4. Find(acc, ToolOpen, start) # Nowhere
      BY <1>1, <1>3, <3>2, <3>3, FoundIs, TagIs
    <3> QED
      BY <1>1, <1>2, <2>1, <3>1, <3>4 DEF ContentEnd
  <2>2. CASE calls' = {}
    <3>1. Base \in Nat /\ c <= start
      BY <1>2, <1>3 DEF Base
    <3>2. Told(HeldTail(said), Base, c, start, Len(acc))
      BY <1>1, <1>2, <1>3, <3>1, TailContent
    <3> QED
      BY <1>1, <2>2, <3>2 DEF ContentEnd
  <2> QED
    BY <2>1, <2>2
<1>6. Base' = Base /\ Find(acc', ThinkClose, 0) = c
  BY <1>1 DEF Base, c
<1> QED
  BY <1>1, <1>2, <1>3, <1>5, <1>6 DEF Shape

LEMMA EndOpen ==
    ASSUME Types, Buffered, Modes, Finish(FALSE), Usual(acc, req.thinks), Closed(acc, req.thinks),
           ~Overlaps(text, Len(acc), req.stop), Reasons, \A i \in Nat : ~IsAt(acc, ThinkClose, i)
    PROVE  Shape'
<1> DEFINE end == Len(acc)
           r == reasonEmitted
           hit0 == Find(acc, ToolOpen, 0)
           m == OpenEnd(acc, req.tools)
           h == HeldTail(said)
<1>1. /\ Flow /\ Sending /\ req' = req /\ acc' = acc /\ calls' = Parsed(acc, ContentFrom(acc))
      /\ said' = IF calls' # {} THEN said ELSE h
      /\ acc \in Seq(Alphabet) /\ end <= MaxText /\ end \in Nat /\ r \in Nat /\ end < Nowhere /\ Nowhere \in Nat
      /\ Len(said) = Len(text) /\ Len(text) \in Nat /\ Emitted = IF start = Nowhere THEN r ELSE contentEmitted
  BY FinishIs
<1>2. /\ start = Nowhere /\ Told(said, Base, r, 0, 0) /\ r <= end
      /\ req.thinks \/ IsAt(acc, ThinkOpen, 0)
      /\ req.thinks /\ req.tools /\ hit0 # Nowhere => r = hit0
  BY DEF Reasons
<1>3. req.thinks /\ Base = 0
  BY <1>2 DEF Closed, Base
<1>4. ContentFrom(acc) = 0
  BY <1>1, FirstIs, TagIs, BoundaryUsual
<1>5. /\ m = IF req.tools /\ hit0 # Nowhere THEN hit0 ELSE end
      /\ hit0 \in Nat /\ (hit0 # Nowhere => hit0 + 2 <= end /\ IsAt(acc, ToolOpen, hit0))
      /\ \A i \in Nat : IsAt(acc, ToolOpen, i) => hit0 # Nowhere /\ hit0 <= i
  BY <1>1, FirstIs, TagIs DEF OpenEnd
<1>6. Len(h) = Len(text) /\ Emitted = r
  BY <1>1, <1>2, HeldTailType DEF Types
<1>7. Emitted >= end => h = said
  BY <1>1, HeldTailIs DEF Flow
<1> DEFINE hit == Find(acc, ToolOpen, r)
           marker == IF req.tools /\ hit # Nowhere THEN hit ELSE end
           close == Find(acc, ThinkClose, r)
<1>8. r < end => /\ marker \in r..end
                 /\ ~(close < marker) =>
                       \A i \in 1..Len(text) : h[i] = IF r < i /\ i <= marker THEN "reasoning"
                                                      ELSE IF marker < i /\ i <= end THEN "content" ELSE said[i]
  <2>1. Emitted < end /\ start = Nowhere =>
           LET e == Len(acc)
               l == Find(acc, ThinkClose, Emitted)
               t == Find(acc, ToolOpen, Emitted)
               k == IF req.tools /\ t # Nowhere THEN t ELSE e
           IN /\ k \in Emitted..e
              /\ ~(l < k) =>
                   \A i \in 1..Len(text) : HeldTail(said)[i] = IF Emitted < i /\ i <= k THEN "reasoning"
                                                               ELSE IF k < i /\ i <= e THEN "content" ELSE said[i]
    BY <1>1, HeldTailIs DEF Flow
  <2> QED
    BY <1>2, <1>6, <2>1
<1>9. close = Nowhere
  BY <1>1, FoundIs, TagIs
<1>10. r < end => marker = m
  <2> SUFFICES ASSUME r < end PROVE marker = m
    OBVIOUS
  <2>1. /\ hit \in Nat /\ (hit # Nowhere => IsAt(acc, ToolOpen, hit))
        /\ \A i \in Nat : r <= i /\ IsAt(acc, ToolOpen, i) => hit # Nowhere /\ hit <= i
        /\ hit # Nowhere => hit \in r..end
    BY <1>1, FoundIs, TagIs
  <2> HIDE DEF hit, hit0, m
  <2>2. CASE req.tools /\ hit0 # Nowhere
    <3>1. r = hit0 /\ r <= hit0
      BY <1>1, <1>2, <1>3, <2>2
    <3>2. hit # Nowhere /\ hit <= hit0 /\ r <= hit
      BY <1>1, <1>5, <2>1, <2>2, <3>1
    <3>3. hit = hit0
      BY <1>5, <2>1, <3>1, <3>2
    <3> QED
      BY <1>5, <2>2, <3>2, <3>3
  <2>3. CASE ~(req.tools /\ hit0 # Nowhere)
    <3>1. hit # Nowhere => hit0 # Nowhere
      BY <1>5, <2>1
    <3> QED
      BY <1>5, <2>3, <3>1
  <2> QED
    BY <2>2, <2>3
<1> HIDE DEF marker, close, hit, h, hit0, m
<1>11. m \in Nat /\ m <= end
  BY <1>1, <1>5
<1>12. CASE calls' # {}
  <2>1. req.tools /\ hit0 # Nowhere
    BY <1>1, <1>4, <1>12, CallsFound DEF hit0
  <2>2. m = r
    BY <1>2, <1>3, <1>5, <2>1
  <2>3. Told(said, 0, m, 0, 0)
    BY <1>2, <1>3, <2>2
  <2>4. \A i \in 1..Len(said) : ~(m < i /\ i <= m) /\ ~(0 < i /\ i <= 0)
    BY <1>1, <1>11
  <2>5. Told(said, 0, m, m, m)
    BY <2>3, <2>4 DEF Told
  <2> QED
    BY <1>1, <1>3, <1>12, <2>5 DEF Shape, m
<1>13. CASE calls' = {}
  <2>1. Told(h, 0, m, m, end)
    <3>1. CASE r < end
      <4>1. ~(close < marker)
        BY <1>1, <1>9, <1>10, <1>11, <3>1
      <4>2. ASSUME NEW i \in 1..Len(h)
            PROVE  h[i] = IF 0 < i /\ i <= m THEN "reasoning" ELSE IF m < i /\ i <= end THEN "content" ELSE "held"
        <5>1. h[i] = IF r < i /\ i <= m THEN "reasoning" ELSE IF m < i /\ i <= end THEN "content" ELSE said[i]
          BY <1>6, <1>8, <1>10, <3>1, <4>1
        <5>2. said[i] = IF 0 < i /\ i <= r THEN "reasoning" ELSE IF 0 < i /\ i <= 0 THEN "content" ELSE "held"
          BY <1>1, <1>2, <1>3, <1>6 DEF Told
        <5>3. i \in Nat /\ 0 < i /\ r <= m
          BY <1>1, <1>6, <1>8, <1>10, <3>1
        <5> QED
          BY <1>1, <1>11, <5>1, <5>2, <5>3
      <4> QED
        BY <4>2 DEF Told
    <3>2. CASE ~(r < end)
      <4>1. r = end /\ h = said
        BY <1>1, <1>2, <1>6, <1>7, <3>2
      <4>2. m = end
        BY <1>1, <1>2, <1>3, <1>5, <4>1
      <4>3. Told(said, 0, end, 0, 0)
        BY <1>2, <1>3, <4>1
      <4>4. \A i \in 1..Len(said) : ~(end < i /\ i <= end) /\ ~(0 < i /\ i <= 0)
        BY <1>1
      <4> QED
        BY <4>1, <4>2, <4>3, <4>4 DEF Told
    <3> QED
      BY <3>1, <3>2
  <2> QED
    BY <1>1, <1>3, <1>13, <2>1 DEF Shape, m, h
<1> QED
  BY <1>12, <1>13

LEMMA EndClosed ==
    ASSUME Types, Buffered, Modes, Finish(FALSE), Usual(acc, req.thinks), ~Overlaps(text, Len(acc), req.stop),
           Reasons, ~BlockSwallowed', \E i \in Nat : IsAt(acc, ThinkClose, i)
    PROVE  Shape'
<1> DEFINE end == Len(acc)
           c == Find(acc, ThinkClose, 0)
           lead == PastBlanks(acc, c + 2)
           h == HeldTail(said)
<1>1. /\ Flow /\ Sending /\ req' = req /\ acc' = acc /\ start' = start
      /\ said' = IF calls' # {} THEN said ELSE h
      /\ acc \in Seq(Alphabet) /\ end <= MaxText /\ end \in Nat /\ end < Nowhere /\ Nowhere \in Nat
      /\ Len(said) = Len(text) /\ Len(text) \in Nat /\ Emitted = IF start = Nowhere THEN reasonEmitted ELSE contentEmitted
  BY FinishIs
<1>2. /\ start = Nowhere /\ Told(said, Base, reasonEmitted, 0, 0)
      /\ reasonEmitted = Base /\ ~req.thinks /\ IsAt(acc, ThinkOpen, 0)
  BY DEF Reasons
<1>3. Base = 2 /\ Emitted = 2 /\ Told(said, 2, 2, 0, 0)
  BY <1>1, <1>2 DEF Base
<1>4. c \in Nat /\ c # Nowhere /\ IsAt(acc, ThinkClose, c) /\ c + 2 <= end /\ \A i \in Nat : IsAt(acc, ThinkClose, i) => c <= i
  BY <1>1, FirstIs, TagIs
<1>5. calls' = {}
  <2>1. Found(acc, ThinkClose, 0) # {}
    BY <1>1, <1>4, FirstIs, TagIs
  <2> QED
    BY <1>1, <1>2, <2>1 DEF BlockSwallowed
<1> HIDE DEF c
<1>6. 2 <= c
  <2>1. c # 0 + 1 /\ (c = 0 => ThinkClose = ThinkOpen)
    BY <1>1, <1>2, <1>4, Apart, TagIs
  <2>2. ThinkClose # ThinkOpen
    BY TagIs
  <2> QED
    BY <1>4, <2>1, <2>2
<1>7. Find(acc, ThinkClose, 2) = c
  <2>1. /\ Find(acc, ThinkClose, 2) \in Nat
        /\ Find(acc, ThinkClose, 2) # Nowhere => IsAt(acc, ThinkClose, Find(acc, ThinkClose, 2))
        /\ \A i \in Nat : 2 <= i /\ IsAt(acc, ThinkClose, i)
                            => Find(acc, ThinkClose, 2) # Nowhere /\ Find(acc, ThinkClose, 2) <= i
    BY <1>1, FoundIs, TagIs
  <2> QED
    BY <1>4, <1>6, <2>1
<1> DEFINE hit == Find(acc, ToolOpen, 2)
           marker == IF req.tools /\ hit # Nowhere THEN hit ELSE end
<1>8. c < marker
  <2>1. hit \in Nat /\ (hit # Nowhere => IsAt(acc, ToolOpen, hit))
    BY <1>1, FoundIs, TagIs
  <2> HIDE DEF hit
  <2>2. CASE req.tools /\ hit # Nowhere
    <3>1. PICK j \in Nat : j < hit /\ IsAt(acc, ThinkClose, j)
      BY <1>2, <2>1, <2>2 DEF Usual
    <3> QED
      BY <1>4, <2>1, <2>2, <3>1
  <2>3. CASE ~(req.tools /\ hit # Nowhere)
    BY <1>1, <1>4, <2>3
  <2> QED
    BY <2>2, <2>3
<1>9. \A i \in 1..Len(text) : h[i] = IF 2 < i /\ i <= c THEN "reasoning"
                                     ELSE IF lead < i /\ i <= end THEN "content" ELSE said[i]
  <2>1. Emitted < end /\ start = Nowhere =>
           LET e == Len(acc)
               l == Find(acc, ThinkClose, Emitted)
               t == Find(acc, ToolOpen, Emitted)
               k == IF req.tools /\ t # Nowhere THEN t ELSE e
           IN l < k =>
                   \A i \in 1..Len(text) : HeldTail(said)[i] = IF Emitted < i /\ i <= l THEN "reasoning"
                                                               ELSE IF PastBlanks(acc, l + 2) < i /\ i <= e THEN "content"
                                                               ELSE said[i]
    BY <1>1, HeldTailIs DEF Flow
  <2>2. Emitted < end
    BY <1>1, <1>3, <1>4, <1>6
  <2> QED
    BY <1>2, <1>3, <1>7, <1>8, <2>1, <2>2
<1>10. Len(h) = Len(text)
  BY <1>1, HeldTailType DEF Types
<1>11. /\ lead \in (c + 2)..end /\ (\A k \in (c + 2 + 1)..lead : acc[k] = Blank)
  <2>1. c + 2 \in 0..end
    BY <1>1, <1>4
  <2> QED
    BY <1>1, <2>1, BlanksIs
<1> HIDE DEF lead, h, hit, marker
<1>12. lead \in Nat /\ c + 2 <= lead /\ lead <= end /\ \A k \in (c + 3)..lead : acc[k] = Blank
  <2>1. lead \in Nat /\ c + 2 <= lead /\ lead <= end
    BY <1>1, <1>4, <1>11
  <2>2. \A k \in (c + 3)..lead : k \in (c + 2 + 1)..lead
    BY <1>4, <2>1
  <2> QED
    BY <1>11, <2>1, <2>2
<1>13. Told(h, 2, c, lead, end)
  <2>1. ASSUME NEW i \in 1..Len(h)
        PROVE  h[i] = IF 2 < i /\ i <= c THEN "reasoning" ELSE IF lead < i /\ i <= end THEN "content" ELSE "held"
    <3>1. said[i] = IF 2 < i /\ i <= 2 THEN "reasoning" ELSE IF 0 < i /\ i <= 0 THEN "content" ELSE "held"
      BY <1>1, <1>3, <1>10 DEF Told
    <3>2. said[i] = "held"
      BY <1>1, <1>10, <3>1
    <3> QED
      BY <1>9, <1>10, <3>2
  <2> QED
    BY <2>1 DEF Told
<1>14. Told(said', Base, c, lead, ContentEnd(acc, lead, calls'))
  BY <1>1, <1>3, <1>5, <1>13 DEF ContentEnd
<1>15. Base' = Base /\ Find(acc', ThinkClose, 0) = c /\ Base <= c
  BY <1>1, <1>3, <1>6 DEF Base, c
<1> QED
  BY <1>1, <1>2, <1>4, <1>12, <1>14, <1>15 DEF Shape

LEMMA EndedFinish ==
    ASSUME Types, Buffered, Modes, NEW failed \in BOOLEAN, Finish(failed)
    PROVE  Ended'
<1>1. CASE failed
  BY <1>1 DEF Finish, Ended
<1>2. CASE ~failed
  <2>1. Finish(FALSE)
    BY <1>2
  <2>2. calls' = CallsAt(acc, req) /\ acc' = acc /\ req' = req /\ text' = text
    BY <2>1, CallsAtIs DEF Finish
  <2>3. ASSUME Usual(acc, req.thinks), Closed(acc, req.thinks), ~Overlaps(text, Len(acc), req.stop), ~BlockSwallowed'
        PROVE  Shape'
    <3>1. Mute \/ Reasons \/ Answering
      BY <2>1, <2>3, FinishIs
    <3> QED
      BY <2>1, <2>3, <3>1, EndMute, EndAnswering, EndOpen, EndClosed
  <2> QED
    BY <2>2, <2>3 DEF Ended
<1> QED
  BY <1>1, <1>2

LEMMA EndedToken ==
    ASSUME Types, Buffered, NEW n \in 1..(MaxText - Len(text)), NEW piece \in Pieces[n], Token(piece)
    PROVE  Ended'
<1>1. pc' # "done"
  BY TokenIs
<1> QED
  BY <1>1 DEF Ended

LEMMA EndedStutters ==
    ASSUME Ended, UNCHANGED vars
    PROVE  Ended'
BY DEF vars, Ended, Shape, Base, BlockSwallowed

LEMMA EndedInit ==
    ASSUME Init
    PROVE  Ended
BY DEF Init, Ended

-----------------------------------------------------------------------------
(* What was said *)

\* f picks from the first n symbols of t those that w marks as kind.
Picks(t, w, kind, n, f) ==
    f = [i \in 0..n |-> IF i = 0 THEN <<>>
                        ELSE IF w[i] = kind THEN Append(f[i - 1], t[i]) ELSE f[i - 1]]

LEMMA PicksExists ==
    ASSUME NEW t, NEW w, NEW kind, NEW n \in Nat
    PROVE  \E f : Picks(t, w, kind, n, f)
<1> DEFINE Bad == {m \in Nat : ~ \E f : Picks(t, w, kind, m, f)}
<1> SUFFICES ASSUME Bad # {} PROVE FALSE
  OBVIOUS
<1>1. PICK m \in Bad : \A l \in Bad : m <= l
  <2>1. Bad \in SUBSET Nat
    OBVIOUS
  <2> HIDE DEF Bad
  <2> QED
    BY <2>1, LeastNumber
<1>2. m # 0
  <2> DEFINE f == [i \in {0} |-> <<>>]
  <2>1. Picks(t, w, kind, 0, f)
    <3>1. 0..0 = {0}
      OBVIOUS
    <3> QED
      BY <3>1 DEF Picks
  <2> QED
    BY <2>1
<1>3. m - 1 \in Nat /\ m - 1 \notin Bad
  <2>1. m \in Nat /\ m - 1 \in Nat /\ ~(m <= m - 1)
    BY <1>2
  <2> HIDE DEF Bad
  <2> QED
    BY <1>1, <2>1
<1>4. PICK f : Picks(t, w, kind, m - 1, f)
  BY <1>3
<1> DEFINE g == [i \in 0..m |-> IF i < m THEN f[i]
                                ELSE IF w[m] = kind THEN Append(f[m - 1], t[m]) ELSE f[m - 1]]
<1>5. ASSUME NEW i \in 0..m
      PROVE  g[i] = IF i = 0 THEN <<>> ELSE IF w[i] = kind THEN Append(g[i - 1], t[i]) ELSE g[i - 1]
  <2>1. CASE i = 0
    <3>1. 0 \in 0..(m - 1) /\ i < m /\ f[0] = <<>>
      BY <1>3, <1>4, <2>1 DEF Picks
    <3> QED
      BY <2>1, <3>1
  <2>2. CASE i # 0 /\ i < m
    <3>1. i \in 0..(m - 1) /\ i - 1 \in 0..m /\ i - 1 < m
      BY <1>3, <2>2
    <3>2. f[i] = IF w[i] = kind THEN Append(f[i - 1], t[i]) ELSE f[i - 1]
      BY <1>4, <2>2, <3>1 DEF Picks
    <3>3. g[i] = f[i] /\ g[i - 1] = f[i - 1]
      BY <2>2, <3>1
    <3> QED
      BY <2>2, <3>2, <3>3
  <2>3. CASE i = m
    <3>1. m \in Nat /\ ~(m < m) /\ m - 1 \in 0..m /\ m - 1 < m /\ m # 0
      BY <1>2, <1>3
    <3>2. g[m - 1] = f[m - 1]
      BY <3>1
    <3>3. g[m] = IF w[m] = kind THEN Append(f[m - 1], t[m]) ELSE f[m - 1]
      BY <3>1
    <3> QED
      BY <2>3, <3>1, <3>2, <3>3
  <2> QED
    BY <1>3, <2>1, <2>2, <2>3
<1>6. Picks(t, w, kind, m, g)
  <2>1. g = [i \in 0..m |-> g[i]]
    OBVIOUS
  <2> HIDE DEF g
  <2> QED
    BY <1>5, <2>1 DEF Picks
<1> QED
  BY <1>6

LEMMA SaysPicks ==
    ASSUME NEW kind, Len(said) \in Nat
    PROVE  \E f : Picks(text, said, kind, Len(said), f) /\ Says(kind) = f[Len(said)]
<1> DEFINE f == CHOOSE f : Picks(text, said, kind, Len(said), f)
<1>1. Picks(text, said, kind, Len(said), f)
  BY PicksExists
<1>2. Says(kind) = f[Len(said)]
  BY DEF Says, Picks
<1> QED
  BY <1>1, <1>2

\* A part of a text and its next symbol.
LEMMA PartMore ==
    ASSUME NEW S, NEW t \in Seq(S), NEW a \in Nat, NEW i \in Nat, a < i, i <= Len(t)
    PROVE  Append(Part(t, a, i - 1), t[i]) = Part(t, a, i)
<1>1. Len(t) \in Nat /\ a \in 0..Len(t) /\ i - 1 \in a..Len(t) /\ i \in a..Len(t) /\ i \in 1..Len(t)
      /\ (i - 1) - a \in Nat /\ i - a \in Nat /\ i - a = ((i - 1) - a) + 1 /\ a + (i - a) = i
  BY LenProperties
<1> DEFINE p == Part(t, a, i - 1)
           q == Part(t, a, i)
<1>2. p \in Seq(S) /\ Len(p) = (i - 1) - a /\ \A k \in 1..((i - 1) - a) : p[k] = t[a + k]
  BY <1>1, PartIs
<1>3. q \in Seq(S) /\ Len(q) = i - a /\ \A k \in 1..(i - a) : q[k] = t[a + k]
  BY <1>1, PartIs
<1>4. t[i] \in S
  BY <1>1, ElementOfSeq
<1> HIDE DEF p, q
<1>5. /\ Append(p, t[i]) \in Seq(S) /\ Len(Append(p, t[i])) = Len(p) + 1
      /\ \A k \in 1..Len(p) : Append(p, t[i])[k] = p[k]
      /\ Append(p, t[i])[Len(p) + 1] = t[i]
  BY <1>2, <1>4, AppendProperties
<1>6. ASSUME NEW k \in 1..(i - a) PROVE Append(p, t[i])[k] = q[k]
  <2>1. CASE k = i - a
    <3>1. k = Len(p) + 1 /\ a + k = i
      BY <1>1, <1>2, <2>1
    <3> QED
      BY <1>3, <1>5, <3>1
  <2>2. CASE k # i - a
    <3>1. k \in 1..((i - 1) - a)
      BY <1>1, <2>2
    <3> QED
      BY <1>2, <1>3, <1>5, <3>1
  <2> QED
    BY <2>1, <2>2
<1>7. Append(p, t[i]) = q
  BY <1>1, <1>2, <1>3, <1>5, <1>6, SameText
<1> QED
  BY <1>7 DEF p, q

LEMMA PartNone ==
    ASSUME NEW t, NEW a \in Nat
    PROVE  Part(t, a, a) = <<>>
BY DEF Part

\* Where one stretch of the text was sent as kind, that is what it says of the kind.
LEMMA SaysIs ==
    ASSUME Types, NEW kind, NEW a \in Nat, NEW b \in Nat, a <= b, b <= Len(text),
           \A i \in 1..Len(said) : said[i] = kind <=> a < i /\ i <= b
    PROVE  Says(kind) = Part(text, a, b)
<1>1. text \in Seq(Alphabet) /\ Len(said) = Len(text) /\ Len(text) \in Nat
  BY LenProperties DEF Types
<1>2. PICK f : Picks(text, said, kind, Len(said), f) /\ Says(kind) = f[Len(said)]
  BY <1>1, SaysPicks
<1> DEFINE upto(i) == IF i <= a THEN <<>> ELSE Part(text, a, IF i <= b THEN i ELSE b)
           Bad == {i \in 0..Len(text) : f[i] # upto(i)}
<1>3. Bad = {}
  <2> SUFFICES ASSUME Bad # {} PROVE FALSE
    OBVIOUS
  <2>1. PICK i \in Bad : \A j \in Bad : i <= j
    <3>1. Bad \in SUBSET Nat
      OBVIOUS
    <3> HIDE DEF Bad
    <3> QED
      BY <3>1, LeastNumber
  <2>2. i \in 0..Len(text) /\ i \in Nat /\ f[i] # upto(i)
    BY <1>1, <2>1
  <2>3. i # 0
    <3>1. f[0] = <<>>
      BY <1>1, <1>2 DEF Picks
    <3> QED
      BY <2>2, <3>1
  <2>4. i - 1 \in 0..Len(text) /\ i - 1 \in Nat /\ ~(i <= i - 1) /\ i \in 1..Len(said) /\ i <= Len(text)
    BY <1>1, <2>2, <2>3
  <2>5. f[i - 1] = upto(i - 1)
    BY <2>1, <2>4
  <2>6. f[i] = IF said[i] = kind THEN Append(f[i - 1], text[i]) ELSE f[i - 1]
    BY <1>1, <1>2, <2>2, <2>3 DEF Picks
  <2>7. CASE i <= a
    <3>1. ~(said[i] = kind) /\ i - 1 <= a
      BY <2>2, <2>4, <2>7
    <3> QED
      BY <2>2, <2>5, <2>6, <2>7, <3>1
  <2>8. CASE a < i /\ i <= b
    <3>1. said[i] = kind /\ ~(i <= a) /\ i - 1 <= b
      BY <2>2, <2>4, <2>8
    <3>2. upto(i) = Part(text, a, i)
      BY <2>8, <3>1
    <3>3. f[i - 1] = Part(text, a, i - 1)
      <4>1. CASE i - 1 <= a
        <5>1. i - 1 = a
          BY <2>4, <2>8, <4>1
        <5>2. upto(i - 1) = <<>>
          BY <4>1
        <5> QED
          BY <2>5, <5>1, <5>2, PartNone
      <4>2. CASE ~(i - 1 <= a)
        BY <2>5, <3>1, <4>2
      <4> QED
        BY <4>1, <4>2
    <3>4. f[i] = Append(Part(text, a, i - 1), text[i])
      BY <2>6, <3>1, <3>3
    <3> QED
      BY <1>1, <2>2, <2>4, <2>8, <3>2, <3>4, PartMore
  <2>9. CASE b < i
    <3>1. ~(said[i] = kind) /\ ~(i <= a) /\ ~(i <= b)
      BY <2>2, <2>4, <2>9
    <3>2. upto(i) = Part(text, a, b)
      BY <3>1
    <3>3. upto(i - 1) = Part(text, a, b)
      <4>1. CASE i - 1 <= a
        <5>1. a = b
          BY <2>4, <2>9, <4>1
        <5>2. upto(i - 1) = <<>>
          BY <4>1
        <5> QED
          BY <5>1, <5>2, PartNone
      <4>2. CASE ~(i - 1 <= a) /\ i - 1 <= b
        <5>1. i - 1 = b
          BY <2>4, <2>9, <4>2
        <5> QED
          BY <4>2, <5>1
      <4>3. CASE ~(i - 1 <= a) /\ ~(i - 1 <= b)
        BY <4>3
      <4> QED
        BY <4>1, <4>2, <4>3
    <3> QED
      BY <2>2, <2>5, <2>6, <3>1, <3>2, <3>3
  <2> QED
    BY <2>2, <2>7, <2>8, <2>9
<1>4. f[Len(text)] = upto(Len(text))
  <2>1. Len(text) \in 0..Len(text)
    BY <1>1
  <2> QED
    BY <1>3, <2>1
<1>5. upto(Len(text)) = Part(text, a, b)
  <2>1. CASE Len(text) <= a
    <3>1. a = b
      BY <1>1, <2>1
    <3> QED
      BY <2>1, <3>1, PartNone
  <2>2. CASE ~(Len(text) <= a)
    <3>1. Len(text) <= b => Len(text) = b
      BY <1>1
    <3> QED
      BY <2>2, <3>1
  <2> QED
    BY <2>1, <2>2
<1> QED
  BY <1>1, <1>2, <1>4, <1>5

\* A part of the buffer is that part of the text.
LEMMA PartBuffer ==
    ASSUME Types, Buffered, NEW a \in Nat, NEW b \in Nat, a <= b, b <= Len(acc)
    PROVE  Part(text, a, b) = Part(acc, a, b)
<1>1. acc \in Seq(Alphabet) /\ text \in Seq(Alphabet) /\ Len(acc) \in Nat /\ Len(text) \in Nat
      /\ Len(acc) <= Len(text) /\ \A i \in 1..Len(acc) : acc[i] = text[i]
  BY BufferIs DEF Types, Extends, Alike
<1>2. a \in 0..Len(acc) /\ a \in 0..Len(text) /\ b \in a..Len(acc) /\ b \in a..Len(text) /\ b - a \in Nat
  BY <1>1
<1>3. Part(acc, a, b) \in Seq(Alphabet) /\ Len(Part(acc, a, b)) = b - a
      /\ \A i \in 1..(b - a) : Part(acc, a, b)[i] = acc[a + i]
  BY <1>1, <1>2, PartIs
<1>4. Part(text, a, b) \in Seq(Alphabet) /\ Len(Part(text, a, b)) = b - a
      /\ \A i \in 1..(b - a) : Part(text, a, b)[i] = text[a + i]
  BY <1>1, <1>2, PartIs
<1>5. \A i \in 1..(b - a) : a + i \in 1..Len(acc)
  BY <1>1, <1>2
<1> QED
  BY <1>1, <1>3, <1>4, <1>5, SameText

\* What a reply said, of one stretch of reasoning and one of content behind it.
LEMMA ToldIs ==
    ASSUME Types, Buffered, NEW a \in Nat, NEW b \in Nat, NEW c \in Nat, NEW d \in Nat,
           a <= b, b <= c, c <= d, d <= Len(acc), Told(said, a, b, c, d)
    PROVE  Says("reasoning") = Part(acc, a, b) /\ Says("content") = Part(acc, c, d)
<1>1. Len(acc) \in Nat /\ Len(text) \in Nat /\ Len(acc) <= Len(text) /\ Len(said) = Len(text)
      /\ b <= Len(acc) /\ b <= Len(text) /\ d <= Len(text)
  BY BufferIs DEF Types
<1>2. ASSUME NEW i \in 1..Len(said)
      PROVE  /\ said[i] = "reasoning" <=> a < i /\ i <= b
             /\ said[i] = "content" <=> c < i /\ i <= d
  <2>1. said[i] = IF a < i /\ i <= b THEN "reasoning" ELSE IF c < i /\ i <= d THEN "content" ELSE "held"
    BY DEF Told
  <2>2. i \in Nat /\ ~(i <= b /\ c < i)
    BY <1>1
  <2> QED
    BY <2>1, <2>2
<1>3. Says("reasoning") = Part(text, a, b)
  BY <1>1, <1>2, SaysIs
<1>4. Says("content") = Part(text, c, d)
  BY <1>1, <1>2, SaysIs
<1> QED
  BY <1>1, <1>3, <1>4, PartBuffer

\* White space in front is trimmed.
LEMMA TrimPart ==
    ASSUME NEW t \in Seq(Alphabet), NEW s \in Nat, NEW l \in Nat, NEW e \in Nat, s <= l, l <= e, e <= Len(t),
           \A k \in (s + 1)..l : t[k] = Blank
    PROVE  Trim(Part(t, s, e)) = Trim(Part(t, l, e))
<1> DEFINE p == Part(t, s, e)
           q == Part(t, l, e)
           P == {i \in DOMAIN p : p[i] # Blank}
           Q == {i \in DOMAIN q : q[i] # Blank}
           d == l - s
<1>1. Len(t) \in Nat /\ s \in 0..Len(t) /\ l \in 0..Len(t) /\ e \in s..Len(t) /\ e \in l..Len(t)
      /\ d \in Nat /\ e - s \in Nat /\ e - l \in Nat /\ e - s = (e - l) + d /\ l = s + d
  BY LenProperties
<1>2. p \in Seq(Alphabet) /\ Len(p) = e - s /\ DOMAIN p = 1..(e - s) /\ \A i \in 1..(e - s) : p[i] = t[s + i]
  <2>1. p \in Seq(Alphabet) /\ Len(p) = e - s /\ \A i \in 1..(e - s) : p[i] = t[s + i]
    BY <1>1, PartIs
  <2> HIDE DEF p
  <2> QED
    BY <2>1, LenProperties
<1>3. q \in Seq(Alphabet) /\ Len(q) = e - l /\ DOMAIN q = 1..(e - l) /\ \A i \in 1..(e - l) : q[i] = t[l + i]
  <2>1. q \in Seq(Alphabet) /\ Len(q) = e - l /\ \A i \in 1..(e - l) : q[i] = t[l + i]
    BY <1>1, PartIs
  <2> HIDE DEF q
  <2> QED
    BY <2>1, LenProperties
<1>4. Trim(p) = IF P = {} THEN <<>> ELSE Part(p, Min(P) - 1, Max(P))
  <2>1. P # {} => Min(P) - 1 + 1 = Min(P)
    <3>1. P \in SUBSET Nat
      BY <1>2
    <3>2. P # {} => Min(P) \in Nat
      BY <3>1, MinIs
    <3> HIDE DEF P
    <3> QED
      BY <3>2
  <2> QED
    BY <2>1 DEF Trim, Part
<1>5. Trim(q) = IF Q = {} THEN <<>> ELSE Part(q, Min(Q) - 1, Max(Q))
  <2>1. Q # {} => Min(Q) - 1 + 1 = Min(Q)
    <3>1. Q \in SUBSET Nat
      BY <1>3
    <3>2. Q # {} => Min(Q) \in Nat
      BY <3>1, MinIs
    <3> HIDE DEF Q
    <3> QED
      BY <3>2
  <2> QED
    BY <2>1 DEF Trim, Part
<1>6. P \in SUBSET (0..(e - s)) /\ P \in SUBSET Nat /\ Q \in SUBSET (0..(e - l)) /\ Q \in SUBSET Nat
  BY <1>2, <1>3
<1>7. ASSUME NEW i \in P PROVE i \in Nat /\ i <= e - s /\ i - d \in Q /\ i - d \in Nat
  <2>1. i \in 1..(e - s) /\ p[i] = t[s + i] /\ p[i] # Blank
    BY <1>2
  <2>2. d < i
    <3> SUFFICES ASSUME ~(d < i) PROVE FALSE
      OBVIOUS
    <3>1. s + i \in (s + 1)..l
      BY <1>1, <2>1
    <3> QED
      BY <2>1, <3>1
  <2>3. i - d \in 1..(e - l) /\ l + (i - d) = s + i
    BY <1>1, <2>1, <2>2
  <2>4. q[i - d] = t[s + i]
    BY <1>3, <2>3
  <2> QED
    BY <1>3, <2>1, <2>3, <2>4
<1>8. ASSUME NEW i \in Q PROVE i \in Nat /\ i + d \in P
  <2>1. i \in 1..(e - l) /\ q[i] = t[l + i] /\ q[i] # Blank
    BY <1>3
  <2>2. i + d \in 1..(e - s) /\ s + (i + d) = l + i
    BY <1>1, <2>1
  <2>3. p[i + d] = t[l + i]
    BY <1>2, <2>2
  <2> QED
    BY <1>2, <2>1, <2>2, <2>3
<1> HIDE DEF p, q, P, Q, d
<1>9. CASE P = {}
  <2>1. Q = {}
    BY <1>8, <1>9
  <2> QED
    BY <1>4, <1>5, <1>9, <2>1 DEF p, q
<1>10. CASE P # {}
  <2>1. Q # {}
    BY <1>7, <1>10
  <2> DEFINE m == Min(P)
             n == Max(P)
             u == Min(Q)
             v == Max(Q)
  <2>2. m \in P /\ \A i \in P : m <= i
    BY <1>6, <1>10, MinIs
  <2>3. n \in P /\ \A i \in P : i <= n
    BY <1>1, <1>6, <1>10, MaxIs
  <2>4. u \in Q /\ \A i \in Q : u <= i
    BY <1>6, <2>1, MinIs
  <2>5. v \in Q /\ \A i \in Q : i <= v
    BY <1>1, <1>6, <2>1, MaxIs
  <2>6. m \in Nat /\ n \in Nat /\ u \in Nat /\ v \in Nat /\ m <= n /\ 1 <= m /\ n <= e - s /\ u <= v /\ 1 <= u /\ v <= e - l
    <3>1. 1 <= m /\ n <= e - s
      <4>1. m \in DOMAIN p /\ n \in DOMAIN p
        BY <2>2, <2>3 DEF P
      <4> QED
        BY <1>1, <1>2, <4>1
    <3>2. 1 <= u /\ v <= e - l
      <4>1. u \in DOMAIN q /\ v \in DOMAIN q
        BY <2>4, <2>5 DEF Q
      <4> QED
        BY <1>1, <1>3, <4>1
    <3> QED
      BY <1>6, <2>2, <2>3, <2>4, <2>5, <3>1, <3>2
  <2> HIDE DEF m, n, u, v
  <2>7. m = u + d
    <3>1. u + d \in P /\ m - d \in Q
      BY <1>7, <1>8, <2>2, <2>4
    <3>2. m <= u + d /\ u <= m - d
      BY <2>2, <2>4, <3>1
    <3> QED
      BY <1>1, <2>6, <3>2
  <2>8. n = v + d
    <3>1. v + d \in P /\ n - d \in Q
      BY <1>7, <1>8, <2>3, <2>5
    <3>2. v + d <= n /\ n - d <= v
      BY <2>3, <2>5, <3>1
    <3> QED
      BY <1>1, <2>6, <3>2
  <2>9. /\ m - 1 \in 0..Len(p) /\ n \in (m - 1)..Len(p) /\ u - 1 \in 0..Len(q) /\ v \in (u - 1)..Len(q)
        /\ n - (m - 1) = v - (u - 1) /\ n - (m - 1) \in Nat
    BY <1>1, <1>2, <1>3, <2>6, <2>7, <2>8
  <2> DEFINE x == m - 1
             y == u - 1
  <2>10. /\ Part(p, m - 1, n) \in Seq(Alphabet) /\ Len(Part(p, m - 1, n)) = n - (m - 1)
         /\ \A i \in 1..(n - (m - 1)) : Part(p, m - 1, n)[i] = p[(m - 1) + i]
    <3>1. x \in 0..Len(p) /\ n \in x..Len(p) /\ p \in Seq(Alphabet)
      BY <1>2, <2>9
    <3> HIDE DEF x
    <3>2. Part(p, x, n) \in Seq(Alphabet) /\ Len(Part(p, x, n)) = n - x /\ \A i \in 1..(n - x) : Part(p, x, n)[i] = p[x + i]
      BY <3>1, PartIs
    <3> QED
      BY <3>2 DEF x
  <2>11. /\ Part(q, u - 1, v) \in Seq(Alphabet) /\ Len(Part(q, u - 1, v)) = v - (u - 1)
         /\ \A i \in 1..(v - (u - 1)) : Part(q, u - 1, v)[i] = q[(u - 1) + i]
    <3>1. y \in 0..Len(q) /\ v \in y..Len(q) /\ q \in Seq(Alphabet)
      BY <1>3, <2>9
    <3> HIDE DEF y
    <3>2. Part(q, y, v) \in Seq(Alphabet) /\ Len(Part(q, y, v)) = v - y /\ \A i \in 1..(v - y) : Part(q, y, v)[i] = q[y + i]
      BY <3>1, PartIs
    <3> QED
      BY <3>2 DEF y
  <2>12. ASSUME NEW i \in 1..(n - (m - 1)) PROVE Part(p, m - 1, n)[i] = Part(q, u - 1, v)[i]
    <3>1. /\ (m - 1) + i \in 1..(e - s) /\ (u - 1) + i \in 1..(e - l)
          /\ s + ((m - 1) + i) = l + ((u - 1) + i)
      BY <1>1, <2>6, <2>7, <2>8
    <3>2. p[(m - 1) + i] = t[s + ((m - 1) + i)] /\ q[(u - 1) + i] = t[l + ((u - 1) + i)]
      BY <1>2, <1>3, <3>1
    <3> QED
      BY <2>9, <2>10, <2>11, <3>1, <3>2
  <2>13. Part(p, m - 1, n) = Part(q, u - 1, v)
    BY <2>9, <2>10, <2>11, <2>12, SameText
  <2> QED
    BY <1>4, <1>5, <1>10, <2>1, <2>13 DEF p, q, m, n, u, v
<1> QED
  BY <1>9, <1>10

\* Where no tool call opens between two offsets, the calls read from both are the same.
LEMMA CallsFrom ==
    ASSUME NEW s \in Seq(Alphabet), NEW a \in Nat, NEW b \in Nat, a <= b,
           \A i \in Nat : a <= i /\ IsAt(s, ToolOpen, i) => b <= i
    PROVE  Parsed(s, a) = Parsed(s, b)
<1>1. Found(s, ToolOpen, a) = Found(s, ToolOpen, b)
  <2>1. ASSUME NEW i \in a..Len(s), IsAt(s, ToolOpen, i) PROVE i \in b..Len(s)
    <3>1. Len(s) \in Nat /\ i \in Nat /\ a <= i
      BY LenProperties
    <3> QED
      BY <2>1, <3>1
  <2>2. b..Len(s) \subseteq a..Len(s)
    BY LenProperties
  <2> QED
    BY <2>1, <2>2 DEF Found
<1> QED
  BY <1>1 DEF Parsed, Calls

-----------------------------------------------------------------------------
(* The stream says what the JSON reply says *)

\* An ordinary reply is usual and closes the block it opens.
LEMMA OrdinaryIs ==
    ASSUME Types, NEW s \in Seq(Alphabet), Len(s) <= MaxText, Ordinary(s)
    PROVE  Usual(s, req.thinks) /\ Closed(s, req.thinks)
<1>1. Len(s) \in Nat /\ req.thinks \in BOOLEAN
  BY LenProperties, StopIs DEF Types
<1>2. ASSUME NEW m \in Tags, NEW i \in Nat, IsAt(s, m, i) PROVE i \in Found(s, m, 0)
  <2>1. i + 2 <= Len(s)
    BY <1>2, AtTag
  <2>2. i \in 0..Len(s)
    BY <1>1, <2>1
  <2> QED
    BY <1>2, <2>2 DEF Found
<1>3. ThinkOpen \in Tags /\ ThinkClose \in Tags /\ ToolOpen \in Tags
  BY TagIs
<1>4. CASE req.thinks
  <2>1. Found(s, ThinkOpen, 0) = {}
    BY <1>4 DEF Ordinary
  <2> QED
    BY <1>2, <1>3, <1>4, <2>1 DEF Usual, Closed
<1>5. CASE ~req.thinks /\ Found(s, ThinkOpen, 0) = {} /\ Found(s, ThinkClose, 0) = {}
  <2>1. \A i \in Nat : ~IsAt(s, ThinkOpen, i) /\ ~IsAt(s, ThinkClose, i)
    BY <1>2, <1>3, <1>5
  <2> QED
    BY <1>5, <2>1 DEF Usual, Closed
<1>6. CASE /\ ~req.thinks /\ Found(s, ThinkOpen, 0) = {0} /\ Found(s, ThinkClose, 0) # {}
           /\ Find(s, ThinkClose, 0) < Find(s, ToolOpen, 0)
  <2> DEFINE c == Find(s, ThinkClose, 0)
             h == Find(s, ToolOpen, 0)
  <2>1. IsAt(s, ThinkOpen, 0) /\ \A i \in Nat : IsAt(s, ThinkOpen, i) => i = 0
    <3>1. 0 \in Found(s, ThinkOpen, 0)
      BY <1>6
    <3> QED
      BY <1>2, <1>3, <1>6, <3>1 DEF Found
  <2>2. c \in Nat /\ IsAt(s, ThinkClose, c)
    BY <1>3, <1>6, FirstIs
  <2>3. h \in Nat /\ \A i \in Nat : IsAt(s, ToolOpen, i) => h <= i
    BY <1>3, FirstIs
  <2>4. c < h
    BY <1>6
  <2> HIDE DEF c, h
  <2>5. \A i \in Nat : IsAt(s, ToolOpen, i) => c < i
    BY <2>2, <2>3, <2>4
  <2> QED
    BY <1>6, <2>1, <2>2, <2>5 DEF Usual, Closed
<1> QED
  BY <1>1, <1>4, <1>5, <1>6 DEF Ordinary

\* The stop strings that ModesAgree leaves out are those that overlap a tag or the white
\* space behind one.
LEMMA OverlapsIs ==
    ASSUME Types, Buffered, pc = "done", ~StopInTag, ~StopOverTag, ~StopInBlanks
    PROVE  ~Overlaps(text, Len(acc), req.stop)
<1> SUFFICES ASSUME Overlaps(text, Len(acc), req.stop) PROVE FALSE
  OBVIOUS
<1>1. /\ Len(acc) \in Nat /\ Len(text) \in Nat /\ text \in Seq(Alphabet) /\ Len(text) <= MaxText
      /\ Len(acc) < Len(text)
  BY BufferIs DEF Types, Overlaps
<1>2. Stopped
  BY <1>1 DEF Stopped
<1>3. CASE \E w \in Tags : \E i \in Nat :
             IsAt(text, w, i) /\ Len(acc) < i + 2 /\ (i < Len(acc) \/ i + 2 < Len(acc) + Len(req.stop))
  <2>1. PICK w \in Tags, i \in Nat :
             IsAt(text, w, i) /\ Len(acc) < i + 2 /\ (i < Len(acc) \/ i + 2 < Len(acc) + Len(req.stop))
    BY <1>3
  <2>2. Len(w) = 2 /\ i + 2 <= Len(text)
    BY <1>1, <2>1, AtTag, TagIs
  <2>3. i \in Found(text, w, 0)
    BY <1>1, <2>1, <2>2 DEF Found
  <2>4. CASE i < Len(acc)
    BY <1>2, <2>1, <2>2, <2>3, <2>4 DEF StopInTag
  <2>5. CASE ~(i < Len(acc))
    <3>1. Len(acc) <= i /\ i + 2 < Len(acc) + Len(req.stop)
      BY <1>1, <2>1, <2>5
    <3> QED
      BY <1>2, <2>2, <2>3, <3>1 DEF StopOverTag
  <2> QED
    BY <2>4, <2>5
<1>4. CASE /\ Find(text, ThinkClose, 0) # Nowhere /\ Find(text, ThinkClose, 0) + 2 <= Len(acc)
           /\ Len(acc) < PastBlanks(text, Find(text, ThinkClose, 0) + 2)
  BY <1>2, <1>4, TagIs DEF StopInBlanks
<1> QED
  BY <1>3, <1>4 DEF Overlaps

\* The JSON reply to the buffer.
LEMMA JsonIs ==
    ASSUME Types, Buffered
    PROVE  LET unclosed == UnclosedThink(acc)
               from == IF unclosed THEN OpenEnd(acc, req.tools) ELSE ContentFrom(acc)
           IN /\ Json.reasoning = IF unclosed THEN Part(acc, 0, OpenEnd(acc, req.tools)) ELSE Reasoning(acc)
              /\ Json.content = Part(acc, from, ContentEnd(acc, from, Parsed(acc, from)))
              /\ Json.calls = Parsed(acc, from)
<1>1. acc = Cut(text) /\ acc \in Seq(Alphabet) /\ Len(acc) \in Nat /\ Len(acc) <= MaxText
  BY BufferIs
<1>2. (IF req.tools THEN Min({Find(acc, ToolOpen, 0), Len(acc)}) ELSE Len(acc)) = OpenEnd(acc, req.tools)
  <2> DEFINE h == Find(acc, ToolOpen, 0)
  <2>1. h \in Nat /\ (h # Nowhere => h + 2 <= Len(acc))
    BY <1>1, FirstIs, TagIs
  <2>2. MaxText \in Nat /\ Nowhere \in Nat /\ MaxText < Nowhere
    BY NowhereIs
  <2>3. OpenEnd(acc, req.tools) = IF req.tools /\ h # Nowhere THEN h ELSE Len(acc)
    BY DEF OpenEnd
  <2> HIDE DEF h
  <2>4. Min({h, Len(acc)}) = IF h <= Len(acc) THEN h ELSE Len(acc)
    BY <1>1, <2>1, MinOfTwo
  <2>5. h <= Len(acc) <=> h # Nowhere
    BY <1>1, <2>1, <2>2
  <2> QED
    BY <2>3, <2>4, <2>5 DEF h
<1> QED
  BY <1>1, <1>2 DEF Json, From, ContentEnd

Agreed ==
  /\ calls = Json.calls
  /\ IF NamedApart
     THEN /\ Json.reasoning = <<>>
          /\ Trim(Says("reasoning") \o Says("content")) = Trim(Json.content)
     ELSE /\ Trim(Says("reasoning")) = Trim(Json.reasoning)
          /\ Trim(Says("content")) = Trim(Json.content)

\* Two stretches that meet are one.
LEMMA PartsJoin ==
    ASSUME NEW t \in Seq(Alphabet), NEW m \in Nat, NEW d \in Nat, m <= d, d <= Len(t)
    PROVE  Part(t, 0, m) \o Part(t, m, d) = Part(t, 0, d)
<1> DEFINE p == Part(t, 0, m)
           q == Part(t, m, d)
           w == Part(t, 0, d)
<1>1. /\ Len(t) \in Nat /\ 0 \in 0..Len(t) /\ m \in 0..Len(t) /\ d \in 0..Len(t) /\ d \in m..Len(t)
      /\ m - 0 = m /\ d - 0 = d
  BY LenProperties
<1>2. p \in Seq(Alphabet) /\ Len(p) = m /\ \A i \in 1..m : p[i] = t[0 + i]
  BY <1>1, PartIs
<1>3. q \in Seq(Alphabet) /\ Len(q) = d - m /\ \A i \in 1..(d - m) : q[i] = t[m + i]
  BY <1>1, PartIs
<1>4. w \in Seq(Alphabet) /\ Len(w) = d /\ \A i \in 1..d : w[i] = t[0 + i]
  BY <1>1, PartIs
<1> HIDE DEF p, q, w
<1>5. /\ p \o q \in Seq(Alphabet) /\ Len(p \o q) = Len(p) + Len(q)
      /\ \A i \in 1..(Len(p) + Len(q)) : (p \o q)[i] = IF i <= Len(p) THEN p[i] ELSE q[i - Len(p)]
  BY <1>2, <1>3, ConcatProperties
<1>6. Len(p) + Len(q) = d
  BY <1>2, <1>3
<1>7. ASSUME NEW i \in 1..d PROVE (p \o q)[i] = w[i]
  <2>1. w[i] = t[i]
    BY <1>4
  <2>2. CASE i <= m
    BY <1>2, <1>5, <1>6, <2>1, <2>2
  <2>3. CASE ~(i <= m)
    <3>1. i - m \in 1..(d - m) /\ m + (i - m) = i
      BY <2>3
    <3>2. q[i - m] = t[i]
      BY <1>3, <3>1
    <3> QED
      BY <1>2, <1>5, <1>6, <2>1, <2>3, <3>2
  <2> QED
    BY <2>2, <2>3
<1>8. p \o q = w
  <2> DEFINE u == p \o q
  <2>1. u \in Seq(Alphabet) /\ Len(u) = Len(w) /\ w \in Seq(Alphabet) /\ \A i \in 1..Len(u) : u[i] = w[i]
    BY <1>4, <1>5, <1>6, <1>7
  <2> HIDE DEF u
  <2>2. u = w
    BY <2>1, SeqEqual
  <2> QED
    BY <2>2 DEF u
<1> QED
  BY <1>8 DEF p, q, w

\* No think block.
LEMMA AgreedMute ==
    ASSUME Types, Buffered, Usual(acc, req.thinks), calls = Parsed(acc, ContentFrom(acc)),
           ~req.thinks, \A i \in Nat : ~IsAt(acc, ThinkClose, i),
           Told(said, 0, 0, 0, ContentEnd(acc, 0, calls))
    PROVE  Agreed
<1>1. acc \in Seq(Alphabet) /\ Len(acc) \in Nat /\ Len(acc) <= MaxText
  BY BufferIs
<1>2. Find(acc, ThinkClose, 0) = Nowhere
  <2>1. Find(acc, ThinkClose, 0) \in Nat /\ (Find(acc, ThinkClose, 0) # Nowhere => IsAt(acc, ThinkClose, Find(acc, ThinkClose, 0)))
    BY <1>1, FirstIs, TagIs
  <2> QED
    BY <2>1
<1>3. Boundary(acc) = Nowhere /\ ContentFrom(acc) = 0
  BY <1>1, <1>2, BoundaryUsual
<1>4. Reasoning(acc) = <<>>
  BY <1>3 DEF Reasoning
<1>5. /\ Json.reasoning = <<>> /\ Json.content = Part(acc, 0, ContentEnd(acc, 0, calls)) /\ Json.calls = calls
      /\ ~NamedApart
  <2>1. ~UnclosedThink(acc)
    BY StopIs DEF UnclosedThink, Types
  <2> QED
    BY <1>3, <1>4, <2>1, JsonIs DEF NamedApart
<1>6. ContentEnd(acc, 0, calls) \in Nat /\ ContentEnd(acc, 0, calls) <= Len(acc)
  <2>1. CASE calls = {}
    BY <1>1, <2>1 DEF ContentEnd
  <2>2. CASE calls # {}
    <3>1. Find(acc, ToolOpen, 0) # Nowhere
      <4>1. Parsed(acc, 0) # {} /\ 0 \in Nat
        BY <1>3, <2>2
      <4> QED
        BY <1>1, <4>1, CallsFound
    <3>2. Find(acc, ToolOpen, 0) \in Nat /\ Find(acc, ToolOpen, 0) + 2 <= Len(acc)
      BY <1>1, <3>1, FirstIs, TagIs
    <3>3. ContentEnd(acc, 0, calls) = Find(acc, ToolOpen, 0)
      BY <2>2 DEF ContentEnd
    <3> QED
      BY <1>1, <3>2, <3>3
  <2> QED
    BY <2>1, <2>2
<1> DEFINE e == ContentEnd(acc, 0, calls)
<1>7. Says("reasoning") = Part(acc, 0, 0) /\ Says("content") = Part(acc, 0, e)
  <2>1. 0 \in Nat /\ 0 <= 0 /\ e \in Nat /\ 0 <= e /\ e <= Len(acc) /\ Told(said, 0, 0, 0, e)
    BY <1>6
  <2> HIDE DEF e
  <2> QED
    BY <2>1, ToldIs
<1>8. Part(acc, 0, 0) = <<>>
  BY PartNone
<1> QED
  BY <1>5, <1>7, <1>8 DEF Agreed

\* A think block that is not closed.
LEMMA AgreedOpen ==
    ASSUME Types, Buffered, Usual(acc, req.thinks), calls = Parsed(acc, ContentFrom(acc)),
           req.thinks, \A i \in Nat : ~IsAt(acc, ThinkClose, i),
           Told(said, 0, OpenEnd(acc, req.tools), OpenEnd(acc, req.tools),
                IF calls = {} THEN Len(acc) ELSE OpenEnd(acc, req.tools))
    PROVE  Agreed
<1> DEFINE m == OpenEnd(acc, req.tools)
           h == Find(acc, ToolOpen, 0)
           d == IF calls = {} THEN Len(acc) ELSE m
<1>1. acc \in Seq(Alphabet) /\ Len(acc) \in Nat /\ Len(acc) <= MaxText
  BY BufferIs
<1>2. Find(acc, ThinkClose, 0) = Nowhere /\ Found(acc, ThinkClose, 0) = {}
  <2>1. /\ Find(acc, ThinkClose, 0) # Nowhere => IsAt(acc, ThinkClose, Find(acc, ThinkClose, 0))
        /\ Find(acc, ThinkClose, 0) \in Nat
        /\ Find(acc, ThinkClose, 0) = Nowhere <=> Found(acc, ThinkClose, 0) = {}
    BY <1>1, FirstIs, TagIs
  <2> QED
    BY <2>1
<1>3. ContentFrom(acc) = 0
  BY <1>1, <1>2, BoundaryUsual
<1>4. h \in Nat /\ (h # Nowhere => IsAt(acc, ToolOpen, h) /\ h + 2 <= Len(acc))
      /\ \A i \in Nat : IsAt(acc, ToolOpen, i) => h # Nowhere /\ h <= i
  BY <1>1, FirstIs, TagIs
<1>5. m = IF req.tools /\ h # Nowhere THEN h ELSE Len(acc)
  BY DEF OpenEnd
<1> HIDE DEF h, m
<1>6. m \in Nat /\ m <= Len(acc)
  BY <1>1, <1>4, <1>5
<1>7. Parsed(acc, m) = calls
  <2>1. CASE req.tools
    <3>1. ASSUME NEW i \in Nat, 0 <= i, IsAt(acc, ToolOpen, i) PROVE m <= i
      BY <1>4, <1>5, <2>1, <3>1
    <3>2. Parsed(acc, 0) = Parsed(acc, m)
      <4>1. 0 \in Nat /\ 0 <= m
        BY <1>6
      <4> QED
        BY <1>1, <1>6, <3>1, <4>1, CallsFrom
    <3> QED
      BY <1>3, <3>2
  <2>2. CASE ~req.tools
    BY <2>2 DEF Parsed
  <2> QED
    BY <2>1, <2>2
<1>8. ContentEnd(acc, m, calls) = d
  <2>1. CASE calls = {}
    BY <2>1 DEF ContentEnd
  <2>2. CASE calls # {}
    <3>1. req.tools /\ Find(acc, ToolOpen, m) # Nowhere
      BY <1>1, <1>6, <1>7, <2>2, CallsFound
    <3>2. /\ Find(acc, ToolOpen, m) \in Nat /\ m <= Find(acc, ToolOpen, m) /\ IsAt(acc, ToolOpen, Find(acc, ToolOpen, m))
          /\ \A i \in Nat : m <= i /\ IsAt(acc, ToolOpen, i) => Find(acc, ToolOpen, m) <= i
      <4>1. Find(acc, ToolOpen, m) \in m..Len(acc)
        BY <1>1, <1>6, <3>1, FoundIs, TagIs
      <4> QED
        BY <1>1, <1>6, <3>1, <4>1, FoundIs, TagIs
    <3>3. h # Nowhere
      BY <1>4, <3>2
    <3>4. m = h
      BY <1>5, <3>1, <3>3
    <3>5. Find(acc, ToolOpen, m) = m
      BY <1>4, <1>6, <3>2, <3>3, <3>4
    <3> QED
      BY <2>2, <3>5 DEF ContentEnd
  <2> QED
    BY <2>1, <2>2
<1>9. d \in Nat /\ m <= d /\ d <= Len(acc)
  BY <1>1, <1>6
<1>10. Told(said, 0, m, m, d)
  BY DEF m
<1> HIDE DEF d
<1>11. Says("reasoning") = Part(acc, 0, m) /\ Says("content") = Part(acc, m, d)
  <2>1. 0 \in Nat /\ 0 <= m /\ m <= m
    BY <1>6
  <2> QED
    BY <1>6, <1>9, <1>10, <2>1, ToldIs
<1>12. CASE UnclosedThink(acc)
  <2>1. /\ Json.reasoning = Part(acc, 0, m) /\ Json.content = Part(acc, m, ContentEnd(acc, m, calls))
        /\ Json.calls = calls
    BY <1>7, <1>12, JsonIs DEF m
  <2> QED
    BY <1>8, <1>11, <1>12, <2>1 DEF Agreed, NamedApart, UnclosedThink
<1>13. CASE ~UnclosedThink(acc)
  <2>1. Reasoning(acc) = <<>>
    BY <1>1, <1>2, BoundaryUsual DEF Reasoning
  <2>2. /\ Json.reasoning = <<>> /\ Json.content = Part(acc, 0, ContentEnd(acc, 0, calls))
        /\ Json.calls = calls
    BY <1>3, <1>13, <2>1, JsonIs
  <2>3. NamedApart
    BY <1>2, <1>13, StopIs, ChatStreamAssumption DEF NamedApart, UnclosedThink, Types
  <2>4. ContentEnd(acc, 0, calls) = d
    <3>1. CASE calls = {}
      BY <3>1 DEF ContentEnd, d
    <3>2. CASE calls # {}
      <4>1. req.tools /\ h # Nowhere
        <5>1. Parsed(acc, 0) # {} /\ 0 \in Nat
          BY <1>3, <3>2
        <5> QED
          BY <1>1, <5>1, CallsFound DEF h
      <4> QED
        BY <1>5, <3>2, <4>1 DEF ContentEnd, d, h
    <3> QED
      BY <3>1, <3>2
  <2>5. Part(acc, 0, m) \o Part(acc, m, d) = Part(acc, 0, d)
    BY <1>1, <1>6, <1>9, PartsJoin
  <2> QED
    BY <1>11, <2>2, <2>3, <2>4, <2>5 DEF Agreed
<1> QED
  BY <1>12, <1>13

\* A think block that is closed.
LEMMA AgreedClosed ==
    ASSUME Types, Buffered, Usual(acc, req.thinks), calls = Parsed(acc, ContentFrom(acc)),
           Find(acc, ThinkClose, 0) # Nowhere, Base <= Find(acc, ThinkClose, 0), req.thinks \/ IsAt(acc, ThinkOpen, 0),
           NEW s \in Nat, Find(acc, ThinkClose, 0) + 2 <= s, s <= Len(acc),
           \A k \in (Find(acc, ThinkClose, 0) + 3)..s : acc[k] = Blank,
           Told(said, Base, Find(acc, ThinkClose, 0), s, ContentEnd(acc, s, calls))
    PROVE  Agreed
<1> DEFINE c == Find(acc, ThinkClose, 0)
           l == PastBlanks(acc, c + 2)
           d == ContentEnd(acc, s, calls)
<1>1. acc \in Seq(Alphabet) /\ Len(acc) \in Nat /\ Len(acc) <= MaxText
  BY BufferIs
<1>2. c \in Nat /\ IsAt(acc, ThinkClose, c) /\ c + 2 <= Len(acc)
  BY <1>1, FirstIs, TagIs
<1>3. Found(acc, ThinkClose, 0) # {}
  BY <1>1, FirstIs, TagIs
<1>4. Boundary(acc) = c /\ ContentFrom(acc) = l
  BY <1>1, BoundaryUsual
<1>5. Base \in Nat /\ Base <= c /\ (req.thinks => Base = 0) /\ (~req.thinks => Base = 2)
  BY DEF Base
<1>6. calls = Parsed(acc, l)
  BY <1>4
<1>7. Told(said, Base, c, s, d) /\ c # Nowhere
  OBVIOUS
<1>8. \A k \in (c + 3)..s : acc[k] = Blank
  OBVIOUS
<1>9. c + 2 <= s /\ s <= Len(acc)
  OBVIOUS
<1>10. d = IF calls = {} THEN Len(acc) ELSE Find(acc, ToolOpen, s)
  BY DEF ContentEnd
<1>11. Reasoning(acc) = Part(acc, Base, c)
  <2>1. Reasoning(acc) = Part(acc, IF IsAt(Part(acc, 0, c), ThinkOpen, 0) THEN 2 ELSE 0, c)
    BY <1>4, <1>7, TagIs DEF Reasoning
  <2> HIDE DEF c
  <2>2. 0 \in 0..Len(acc) /\ c \in 0..Len(acc) /\ c - 0 = c
    BY <1>1, <1>2
  <2>3. /\ Part(acc, 0, c) \in Seq(Alphabet) /\ Len(Part(acc, 0, c)) = c
        /\ \A i \in 1..c : Part(acc, 0, c)[i] = acc[i]
    <3>1. /\ Part(acc, 0, c) \in Seq(Alphabet) /\ Len(Part(acc, 0, c)) = c - 0
          /\ \A i \in 1..(c - 0) : Part(acc, 0, c)[i] = acc[0 + i]
      BY <1>1, <2>2, PartIs
    <3>2. \A i \in 1..c : 0 + i = i
      BY <1>2
    <3> QED
      BY <2>2, <3>1, <3>2
  <2>4. Extends(acc, Part(acc, 0, c))
    BY <1>1, <1>2, <2>3 DEF Extends, Alike
  <2>5. /\ IsAt(Part(acc, 0, c), ThinkOpen, 0) => IsAt(acc, ThinkOpen, 0)
        /\ 0 + 2 <= c /\ IsAt(acc, ThinkOpen, 0) => IsAt(Part(acc, 0, c), ThinkOpen, 0)
    BY <1>1, <2>3, <2>4, ExtendsTag, TagIs
  <2>6. req.thinks => ~IsAt(acc, ThinkOpen, 0)
    BY DEF Usual
  <2>7. IsAt(Part(acc, 0, c), ThinkOpen, 0) <=> ~req.thinks
    BY <1>2, <1>5, <2>5, <2>6
  <2> QED
    BY <1>5, <2>1, <2>7
<1> HIDE DEF c, l, d
<1>12. l \in Nat /\ c + 2 <= l /\ l <= Len(acc) /\ \A k \in (c + 3)..l : acc[k] = Blank
  <2>1. c + 2 \in 0..Len(acc) /\ (c + 2) + 1 = c + 3
    BY <1>1, <1>2
  <2>2. l \in (c + 2)..Len(acc) /\ \A k \in ((c + 2) + 1)..l : acc[k] = Blank
    BY <1>1, <2>1, BlanksIs DEF l
  <2> QED
    BY <1>1, <1>2, <2>1, <2>2
<1>13. s <= l
  <2>1. c + 2 \in 0..Len(acc) /\ (c + 2) + 1 = c + 3 /\ s \in (c + 2)..Len(acc)
    BY <1>1, <1>2, <1>9
  <2> QED
    BY <1>1, <1>8, <2>1, BlanksReach DEF l
<1>14. \A k \in (s + 1)..l : acc[k] = Blank
  <2>1. \A k \in (s + 1)..l : k \in (c + 3)..l
    BY <1>2, <1>9, <1>12
  <2> QED
    BY <1>12, <2>1
<1>15. Find(acc, ToolOpen, s) = Find(acc, ToolOpen, l)
  BY <1>1, <1>12, <1>13, <1>14, FindBehindBlanks, TagIs
<1>16. l <= d /\ d \in Nat /\ d <= Len(acc) /\ d = ContentEnd(acc, l, calls)
  <2>1. CASE calls = {}
    BY <1>1, <1>10, <1>12, <2>1 DEF ContentEnd
  <2>2. CASE calls # {}
    <3>1. Find(acc, ToolOpen, l) # Nowhere
      BY <1>1, <1>6, <1>12, <2>2, CallsFound
    <3>2. Find(acc, ToolOpen, l) \in l..Len(acc)
      BY <1>1, <1>12, <3>1, FoundIs, TagIs
    <3>3. d = Find(acc, ToolOpen, l) /\ d = ContentEnd(acc, l, calls)
      BY <1>10, <1>15, <2>2 DEF ContentEnd
    <3> QED
      BY <1>1, <1>12, <3>2, <3>3
  <2> QED
    BY <2>1, <2>2
<1>17. /\ Json.reasoning = Part(acc, Base, c) /\ Json.content = Part(acc, l, d) /\ Json.calls = calls
       /\ ~NamedApart
  <2>1. ~UnclosedThink(acc)
    BY <1>3 DEF UnclosedThink
  <2> QED
    BY <1>3, <1>4, <1>6, <1>11, <1>16, <2>1, JsonIs DEF NamedApart
<1>18. Says("reasoning") = Part(acc, Base, c) /\ Says("content") = Part(acc, s, d)
  <2>1. c <= s /\ s <= d
    BY <1>2, <1>9, <1>12, <1>13, <1>16
  <2> QED
    BY <1>2, <1>5, <1>7, <1>16, <2>1, ToldIs
<1>19. Trim(Part(acc, s, d)) = Trim(Part(acc, l, d))
  BY <1>1, <1>12, <1>13, <1>14, <1>16, TrimPart
<1> QED
  BY <1>17, <1>18, <1>19 DEF Agreed

\* For every text, every way to cut it into tokens and every request: an ordinary reply that
\* was streamed to its end says what its JSON says, the same reasoning, the same content and
\* the same calls, unless its stop string overlaps a tag or the white space behind one, or a
\* call swallowed a block that the last token opened and closed.  An unclosed block that the
\* JSON takes for content, though the stream took it for reasoning (hy_v3's effort, or
\* --unclosed-think content, server.rs:2394-2401), is the same text under the two names,
\* with the same calls.
THEOREM ModesAgreeIsInvariant == Spec => []ModesAgree
<1> DEFINE Inv == Types /\ Buffered /\ Modes /\ Ended
<1>1. Init => Inv
  BY TypesInit, ModesInit, EndedInit
<1>2. Inv /\ [Next]_vars => Inv'
  <2> SUFFICES ASSUME Types, Buffered, Modes, Ended, [Next]_vars PROVE Modes' /\ Ended'
    BY TypesStep
  <2>1. ASSUME NEW n \in 1..(MaxText - Len(text)), NEW piece \in Pieces[n], Token(piece)
        PROVE  Modes' /\ Ended'
    BY <2>1, ModesToken, EndedToken
  <2>2. ASSUME NEW failed \in BOOLEAN, Finish(failed) PROVE Modes' /\ Ended'
    BY <2>2, ModesFinish, EndedFinish
  <2>3. CASE UNCHANGED vars
    BY <2>3, ModesStutters, EndedStutters
  <2> QED
    BY <2>1, <2>2, <2>3 DEF Next
<1>3. Inv => ModesAgree
  <2> SUFFICES ASSUME Types, Buffered, Ended, pc = "done", Ordinary(acc),
                      ~StopInTag, ~StopOverTag, ~StopInBlanks, ~BlockSwallowed
               PROVE  Agreed
    BY DEF ModesAgree, Agreed
  <2>1. acc \in Seq(Alphabet) /\ Len(acc) <= MaxText
    BY BufferIs
  <2>2. Usual(acc, req.thinks) /\ Closed(acc, req.thinks)
    BY <2>1, OrdinaryIs
  <2>3. ~Overlaps(text, Len(acc), req.stop)
    BY OverlapsIs
  <2>4. calls = Parsed(acc, ContentFrom(acc))
    BY CallsAtIs DEF Ended
  <2>5. Shape
    BY <2>2, <2>3 DEF Ended
  <2>6. CASE /\ ~req.thinks /\ \A i \in Nat : ~IsAt(acc, ThinkClose, i)
             /\ Told(said, 0, 0, 0, ContentEnd(acc, 0, calls))
    BY <2>2, <2>4, <2>6, AgreedMute
  <2>7. CASE /\ req.thinks /\ \A i \in Nat : ~IsAt(acc, ThinkClose, i)
             /\ LET m == OpenEnd(acc, req.tools) IN Told(said, 0, m, m, IF calls = {} THEN Len(acc) ELSE m)
    BY <2>2, <2>4, <2>7, AgreedOpen
  <2>8. CASE LET c == Find(acc, ThinkClose, 0) IN
             /\ c # Nowhere /\ Base <= c /\ (req.thinks \/ IsAt(acc, ThinkOpen, 0))
             /\ \E s \in Nat : /\ c + 2 <= s /\ s <= Len(acc) /\ \A k \in (c + 3)..s : acc[k] = Blank
                               /\ Told(said, Base, c, s, ContentEnd(acc, s, calls))
    BY <2>2, <2>4, <2>8, AgreedClosed
  <2> QED
    BY <2>5, <2>6, <2>7, <2>8 DEF Shape
<1> QED
  BY <1>1, <1>2, <1>3, PTL DEF Spec
=============================================================================
