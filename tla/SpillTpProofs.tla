--------------------------- MODULE SpillTpProofs ---------------------------
(***************************************************************************)
(* That the ranks keep one policy and that a failing disk fails nobody,    *)
(* for any number of ranks, any files and any faults.  What a rank does    *)
(* next depends on its policy and the admission alone, so ranks with one   *)
(* policy come to the same agree with the same question; the verdict is    *)
(* the same for all, and leaves them with one policy again.                *)
(* Then, for each rank by itself, that its disk holds no file its policy   *)
(* has lost: what an agree takes out of the policy it gives to the writer  *)
(* thread, and what a capture wrote is in one or the other after it.       *)
(***************************************************************************)
EXTENDS SpillTp, SequenceTheorems, WellFoundedInduction, TLAPS

-----------------------------------------------------------------------------
(* The invariant *)

States == {"capture", "restore", "agree", "seam", "bailed"}

\* What the steps of a rank assign.
Shape ==
    /\ pc \in [Ranks -> States]
    /\ op \in [Ranks -> {"capture", "restore"}]

Up(k) == pc[k] # "bailed"
Early(k) == pc[k] = "capture" \/ (pc[k] = "agree" /\ op[k] = "capture")
Past(k) == pc[k] \in {"restore", "seam"} \/ (pc[k] = "agree" /\ op[k] = "restore")
Skips(k) == adm.evict = NoKey \/ Gated(k)

\* Ranks that are up have one policy, and restored the same.
OnePolicy == \A j, k \in Ranks : Up(j) /\ Up(k) => lru[j] = lru[k] /\ got[j] = got[k]

\* A rank at the capture's agree has something to capture; one that is past the capture
\* while another is not had nothing.
Captures == \A k \in Ranks : pc[k] = "agree" /\ op[k] = "capture" => ~Skips(k)
Passed == \A j, k \in Ranks : Past(j) /\ Early(k) => Skips(j)

\* The same for the restore.
Restores == \A k \in Ranks : pc[k] = "agree" /\ op[k] = "restore" => Wanted(k) # NoKey
Sits == \A j, k \in Ranks : pc[j] = "seam" /\ pc[k] \notin {"seam", "bailed"} => Wanted(j) = NoKey

SameInv ==
    /\ Shape
    /\ "capture" \notin device => OnePolicy /\ Captures /\ Passed /\ Restores /\ Sits
    /\ device = {} => \A k \in Ranks : Up(k)

\* Before the first admission all policies are empty.
LEMMA InitInv == Init => SameInv
<1> SUFFICES ASSUME Init PROVE SameInv
  OBVIOUS
<1>1. Shape
  BY DEF Init, Shape, States
<1>2. OnePolicy /\ Captures /\ Passed /\ Restores /\ Sits /\ \A k \in Ranks : Up(k)
  BY DEF Init, OnePolicy, Captures, Passed, Restores, Sits, Up, Early, Past
<1> QED
  BY <1>1, <1>2 DEF SameInv

\* What a rank captures or restores is up to its policy and the admission.
LEMMA SameDecision ==
    ASSUME NEW j \in Ranks, NEW k \in Ranks, lru[j] = lru[k]
    PROVE  (Skips(j) <=> Skips(k)) /\ Wanted(j) = Wanted(k)
BY DEF Skips, Gated, Wanted

\* A rank that does not meet the others leaves every decision as it was.
LEMMA DecisionStays ==
    ASSUME UNCHANGED <<adm, lru>>, NEW k \in Ranks
    PROVE  (Skips(k)' <=> Skips(k)) /\ Wanted(k)' = Wanted(k)
BY DEF Skips, Gated, Wanted

\* The step of one rank k.
LEMMA RankInv == ASSUME SameInv, NEW k \in Ranks, Rank(k) PROVE SameInv'
<1>1. UNCHANGED <<adm, lru, got>> /\ \A j \in Ranks : (Skips(j)' <=> Skips(j)) /\ Wanted(j)' = Wanted(j)
  <2>1. UNCHANGED <<adm, lru, got>>
    BY DEF Rank, CaptureSkip, CaptureFails, CaptureWrite, RestoreSkip, RestoreRead
  <2> QED
    BY <2>1, DecisionStays
<1>2. Shape
  BY DEF SameInv
<1>3. /\ \A j \in Ranks \ {k} : pc'[j] = pc[j] /\ op'[j] = op[j]
      /\ device \subseteq device' /\ Shape'
      /\ \/ pc[k] = "capture" /\ pc'[k] = "restore" /\ (Skips(k) \/ "capture" \in device')
         \/ pc[k] = "capture" /\ pc'[k] = "agree" /\ op'[k] = "capture" /\ ~Skips(k)
         \/ pc[k] = "restore" /\ pc'[k] = "seam" /\ Wanted(k) = NoKey
         \/ pc[k] = "restore" /\ pc'[k] = "agree" /\ op'[k] = "restore" /\ Wanted(k) # NoKey
  <2>1. CASE CaptureSkip(k)
    BY <1>1, <1>2, <2>1 DEF CaptureSkip, Goto, Skips, Shape, States
  <2>2. CASE CaptureFails(k)
    BY <1>1, <1>2, <2>2 DEF CaptureFails, Goto, Shape, States
  <2>3. CASE CaptureWrite(k)
    BY <1>1, <1>2, <2>3 DEF CaptureWrite, Bring, Goto, Skips, Shape, States
  <2>4. CASE RestoreSkip(k)
    BY <1>1, <1>2, <2>4 DEF RestoreSkip, Goto, Shape, States
  <2>5. CASE RestoreRead(k)
    BY <1>1, <1>2, <2>5 DEF RestoreRead, Bring, Goto, Shape, States
  <2> QED
    BY <2>1, <2>2, <2>3, <2>4, <2>5 DEF Rank
<1>4. \A j \in Ranks : Up(j)' <=> Up(j)
  BY <1>3 DEF Up
<1>5. ASSUME "capture" \notin device' PROVE (OnePolicy /\ Captures /\ Passed /\ Restores /\ Sits)'
  <2>1. OnePolicy /\ Captures /\ Passed /\ Restores /\ Sits
    BY <1>3, <1>5 DEF SameInv
  <2>2. OnePolicy'
    BY <1>1, <1>4, <2>1 DEF OnePolicy
  <2>3. \A j \in Ranks \ {k} : (Early(j)' <=> Early(j)) /\ (Past(j)' <=> Past(j))
    BY <1>3 DEF Early, Past
  <2>4. Captures' /\ Restores'
    BY <1>1, <1>3, <2>1 DEF Captures, Restores
  <2>5. Passed'
    <3>1. Early(k)' => Early(k)
      BY <1>3 DEF Early
    <3>2. Past(k)' => Past(k) \/ Skips(k)
      BY <1>3, <1>5 DEF Past
    <3> QED
      BY <1>1, <2>1, <2>3, <3>1, <3>2 DEF Passed
  <2>6. Sits'
    <3>1. pc'[k] = "seam" => Wanted(k) = NoKey
      BY <1>3
    <3>2. pc[k] \notin {"seam", "bailed"}
      BY <1>3
    <3> QED
      BY <1>1, <1>3, <2>1, <3>1, <3>2 DEF Sits
  <2> QED
    BY <2>2, <2>4, <2>5, <2>6
<1>6. device' = {} => \A j \in Ranks : Up(j)'
  BY <1>3, <1>4 DEF SameInv
<1> QED
  BY <1>3, <1>5, <1>6 DEF SameInv

\* All ranks at an agree ask the same question.
LEMMA SameQuestion ==
    ASSUME SameInv, "capture" \notin device, \A k \in Ranks : pc[k] = "agree"
    PROVE  /\ \A j, k \in Ranks : op[j] = op[k] /\ lru[j] = lru[k] /\ got[j] = got[k]
           /\ \A j, k \in Ranks : LruAfter(j) = LruAfter(k) /\ Wanted(j) = Wanted(k)
<1>1. \A j, k \in Ranks : lru[j] = lru[k] /\ got[j] = got[k]
  BY DEF SameInv, OnePolicy, Up
<1>2. \A k \in Ranks : op[k] \in {"capture", "restore"}
  BY DEF SameInv, Shape
<1>3. ASSUME NEW j \in Ranks, NEW k \in Ranks, op[j] = "capture", op[k] = "restore" PROVE FALSE
  <2>1. Early(j) /\ Past(k)
    BY <1>3 DEF Early, Past
  <2>2. Skips(k) /\ ~Skips(j)
    BY <1>3, <2>1 DEF SameInv, Passed, Captures
  <2> QED
    BY <1>1, <2>2, SameDecision
<1>4. \A j, k \in Ranks : op[j] = op[k]
  BY <1>2, <1>3
<1>5. \A j, k \in Ranks : Verdict(j) <=> Verdict(k)
  BY DEF Verdict
<1>6. \A j, k \in Ranks : Shifted(j, adm.evict) = Shifted(k, adm.evict)
  BY <1>1 DEF Shifted
<1>7. \A j, k \in Ranks : Wanted(j) = Wanted(k)
  BY <1>1, SameDecision
<1>8. \A j, k \in Ranks : LruAfter(j) = LruAfter(k)
  BY <1>1, <1>4, <1>5, <1>6, <1>7 DEF LruAfter
<1> QED
  BY <1>1, <1>4, <1>7, <1>8

\* spill_agree: one question, one verdict, one policy after it.
LEMMA AgreeInv == SameInv /\ Agree => SameInv'
<1> SUFFICES ASSUME SameInv, Agree PROVE SameInv'
  OBVIOUS
<1>1. \A k \in Ranks : pc[k] = "agree"
  BY DEF Agree
<1>2. PICK failed \in SUBSET {k \in Ranks : op[k] = "restore" /\ Verdict(k)} :
        /\ \/ failed = {} /\ device' = device
           \/ device' = device \cup {"restore"}
        /\ pc' = [k \in Ranks |-> IF k \in failed THEN "bailed"
                                  ELSE IF op[k] = "capture" THEN "restore" ELSE "seam"]
        /\ got' = [k \in Ranks |-> IF op[k] = "restore" /\ Verdict(k) /\ k \notin failed
                                   THEN Wanted(k) ELSE got[k]]
        /\ lru' = [k \in Ranks |-> IF k \in failed THEN lru[k] ELSE LruAfter(k)]
        /\ op' = op
  BY DEF Agree
<1>3. Shape'
  BY <1>2 DEF SameInv, Shape, States
<1>4. ASSUME "capture" \notin device' PROVE (OnePolicy /\ Captures /\ Passed /\ Restores /\ Sits)'
  <2>1. "capture" \notin device
    BY <1>2, <1>4
  <2>2. /\ \A j, k \in Ranks : op[j] = op[k] /\ lru[j] = lru[k] /\ got[j] = got[k]
        /\ \A j, k \in Ranks : LruAfter(j) = LruAfter(k) /\ Wanted(j) = Wanted(k)
    BY <1>1, <2>1, SameQuestion
  <2>3. \A j, k \in Ranks : Verdict(j) <=> Verdict(k)
    BY DEF Verdict
  <2>4. OnePolicy'
    BY <1>2, <2>2, <2>3 DEF OnePolicy, Up
  <2>5. \/ \A k \in Ranks : pc'[k] = "restore"
        \/ \A k \in Ranks : pc'[k] \in {"seam", "bailed"}
    BY <1>2, <2>2
  <2>6. (Captures /\ Passed /\ Restores /\ Sits)'
    BY <2>5 DEF Captures, Passed, Restores, Sits, Early, Past
  <2> QED
    BY <2>4, <2>6
<1>5. device' = {} => \A k \in Ranks : Up(k)'
  BY <1>2 DEF Up
<1> QED
  BY <1>3, <1>4, <1>5 DEF SameInv

\* Ranks that come to different places do so after a device call failed on one of them.
LEMMA OutOfStepInv == SameInv /\ OutOfStep => SameInv'
<1> SUFFICES ASSUME SameInv, OutOfStep PROVE SameInv'
  OBVIOUS
<1>1. /\ pc' = [k \in Ranks |-> "bailed"]
      /\ UNCHANGED <<lru, op, ok, got, device>>
      /\ \A k \in Ranks : pc[k] \in {"agree", "seam", "bailed"}
  BY DEF OutOfStep
<1>2. Shape'
  BY <1>1 DEF SameInv, Shape, States
<1>3. (OnePolicy /\ Captures /\ Passed /\ Restores /\ Sits)'
  BY <1>1 DEF OnePolicy, Captures, Passed, Restores, Sits, Up, Early, Past
<1>4. ASSUME device = {} PROVE FALSE
  <2>1. OnePolicy /\ Captures /\ Passed /\ Restores /\ Sits /\ \A k \in Ranks : Up(k)
    BY <1>4 DEF SameInv
  <2>2. PICK j \in Ranks, k \in Ranks : pc[j] = "seam" /\ pc[k] = "agree"
    BY <1>1, <2>1 DEF OutOfStep, Up
  <2>3. (Skips(j) <=> Skips(k)) /\ Wanted(j) = Wanted(k)
    BY <2>1, SameDecision DEF OnePolicy
  <2>4. CASE op[k] = "capture"
    BY <2>1, <2>2, <2>3, <2>4 DEF Captures, Passed, Past, Early
  <2>5. CASE op[k] = "restore"
    BY <2>1, <2>2, <2>3, <2>5 DEF Restores, Sits
  <2> QED
    BY <2>4, <2>5 DEF SameInv, Shape
<1> QED
  BY <1>1, <1>2, <1>3, <1>4 DEF SameInv

\* An admission begins on all ranks with the policies they have.
LEMMA NextAdmissionInv == SameInv /\ NextAdmission => SameInv'
<1> SUFFICES ASSUME SameInv, NextAdmission PROVE SameInv'
  OBVIOUS
<1>1. /\ \A k \in Ranks : pc[k] = "seam"
      /\ pc' = [k \in Ranks |-> "capture"] /\ got' = [k \in Ranks |-> NoKey]
      /\ UNCHANGED <<lru, op, ok, device>>
  BY DEF NextAdmission
<1>2. Shape'
  BY <1>1 DEF SameInv, Shape, States
<1>3. "capture" \notin device' => (OnePolicy /\ Captures /\ Passed /\ Restores /\ Sits)'
  BY <1>1 DEF SameInv, OnePolicy, Captures, Passed, Restores, Sits, Up, Early, Past
<1>4. \A k \in Ranks : Up(k)'
  BY <1>1 DEF Up
<1> QED
  BY <1>2, <1>3, <1>4 DEF SameInv

\* A writer thread touches no policy.
LEMMA BystanderInv ==
    ASSUME SameInv, UNCHANGED <<adm, lru, pc, op, ok, got, device>> PROVE SameInv'
<1>1. \A k \in Ranks : (Skips(k)' <=> Skips(k)) /\ Wanted(k)' = Wanted(k)
  BY DecisionStays
<1>2. Shape'
  BY DEF SameInv, Shape
<1>3. "capture" \notin device' => (OnePolicy /\ Captures /\ Passed /\ Restores /\ Sits)'
  BY <1>1 DEF SameInv, OnePolicy, Captures, Passed, Restores, Sits, Up, Early, Past
<1>4. device' = {} => \A k \in Ranks : Up(k)'
  BY DEF SameInv, Up
<1> QED
  BY <1>2, <1>3, <1>4 DEF SameInv

\* No step of any rank breaks the invariant.
LEMMA NextInv == SameInv /\ [Next]_vars => SameInv'
<1> SUFFICES ASSUME SameInv, [Next]_vars PROVE SameInv'
  OBVIOUS
<1>1. CASE UNCHANGED vars
  BY <1>1, BystanderInv DEF vars
<1>2. ASSUME NEW k \in Ranks, Writer(k) PROVE SameInv'
  BY <1>2, BystanderInv DEF Writer
<1>3. CASE \E k \in Ranks : Rank(k)
  BY <1>3, RankInv
<1> QED
  BY <1>1, <1>2, <1>3, AgreeInv, OutOfStepInv, NextAdmissionInv DEF Next

-----------------------------------------------------------------------------
(* What spill_agree guarantees *)

\* Every state the ranks reach obeys the invariant.
THEOREM SameInvariant == Spec => []SameInv
BY InitInv, NextInv, PTL DEF Spec

\* Whatever disks fail and however late files are deleted, the ranks hold one policy and
\* have restored one snapshot whenever they meet at the seam of an admission, unless a
\* copy off the device failed.
THEOREM OnePolicyForAll == Spec => []RanksAgree
<1>1. SameInv => RanksAgree
  BY DEF SameInv, RanksAgree, OnePolicy, Met, Up
<1> QED
  BY <1>1, SameInvariant, PTL

\* As long as no device call fails, every agree of spill_capture_slot and
\* spill_restore_slot is entered by all ranks: no round fails for a disk.
THEOREM DisksFailNobody == Spec => []DiskNeverFailsTheRound
<1>1. SameInv => DiskNeverFailsTheRound
  BY DEF SameInv, DiskNeverFailsTheRound, AllInStep, Up
<1> QED
  BY <1>1, SameInvariant, PTL

-----------------------------------------------------------------------------
(* Policy::remove and the first half of Policy::put: a key leaves the policy *)

\* The others stay.
LEMMA WithoutElements ==
    ASSUME NEW S, NEW q \in Seq(S), NEW key
    PROVE  /\ Without(q, key) \in Seq(S)
           /\ ToSet(q) \ {key} \subseteq ToSet(Without(q, key))
<1> DEFINE pos == CHOOSE i \in DOMAIN q : q[i] = key
           rest == [i \in 1..(Len(q) - 1) |-> IF i < pos THEN q[i] ELSE q[i + 1]]
<1>1. CASE key \notin ToSet(q)
  BY <1>1 DEF Without
<1>2. CASE key \in ToSet(q)
  <2>1. Len(q) \in Nat /\ DOMAIN q = 1..Len(q) /\ \A i \in 1..Len(q) : q[i] \in S
    BY LenProperties, ElementOfSeq
  <2>2. pos \in 1..Len(q) /\ q[pos] = key
    BY <1>2, <2>1 DEF ToSet
  <2> HIDE DEF pos
  <2>3. Len(q) - 1 \in Nat /\ \A i \in 1..(Len(q) - 1) : i \in 1..Len(q) /\ i + 1 \in 1..Len(q)
    BY <2>1, <2>2
  <2>4. \A i \in 1..(Len(q) - 1) : rest[i] \in S
    BY <2>1, <2>3
  <2>5. rest \in Seq(S) /\ DOMAIN rest = 1..(Len(q) - 1)
    <3> HIDE DEF rest
    <3>1. DOMAIN rest = 1..(Len(q) - 1) /\ rest = [i \in 1..(Len(q) - 1) |-> rest[i]]
      BY DEF rest
    <3> QED
      BY <2>3, <2>4, <3>1
  <2>6. ASSUME NEW x \in ToSet(q), x # key PROVE x \in ToSet(rest)
    <3>1. PICK i \in 1..Len(q) : q[i] = x
      BY <2>1, <2>6 DEF ToSet
    <3>2. i # pos
      BY <2>2, <2>6, <3>1
    <3>3. CASE i < pos
      <4>1. i \in 1..(Len(q) - 1) /\ rest[i] = x
        BY <2>1, <2>2, <3>1, <3>3
      <4> QED
        BY <2>5, <4>1 DEF ToSet
    <3>4. CASE pos < i
      <4>1. i - 1 \in 1..(Len(q) - 1) /\ ~(i - 1 < pos) /\ (i - 1) + 1 = i
        BY <2>1, <2>2, <3>1, <3>4
      <4>2. rest[i - 1] = x
        BY <3>1, <4>1
      <4> QED
        BY <2>5, <4>1, <4>2 DEF ToSet
    <3> QED
      BY <2>1, <2>2, <3>1, <3>2, <3>3, <3>4
  <2>7. Without(q, key) = rest
    BY <1>2 DEF Without, pos
  <2> QED
    BY <2>5, <2>6, <2>7
<1> QED
  BY <1>1, <1>2

\* What is put behind the policy, and what is cut off its front.
LEMMA AppendElements ==
    ASSUME NEW S, NEW q \in Seq(S), NEW x \in S
    PROVE  Append(q, x) \in Seq(S) /\ ToSet(Append(q, x)) = ToSet(q) \cup {x}
<1>1. /\ Append(q, x) \in Seq(S) /\ Len(Append(q, x)) = Len(q) + 1
      /\ \A i \in 1..Len(q) : Append(q, x)[i] = q[i]
      /\ Append(q, x)[Len(q) + 1] = x
  BY AppendProperties
<1>2. /\ DOMAIN q = 1..Len(q) /\ Len(q) \in Nat
      /\ DOMAIN Append(q, x) = 1..(Len(q) + 1)
  BY <1>1, LenProperties
<1> QED
  BY <1>1, <1>2 DEF ToSet

LEMMA ConcatElements ==
    ASSUME NEW S, NEW q \in Seq(S), NEW p \in Seq(S)
    PROVE  q \o p \in Seq(S) /\ ToSet(q \o p) = ToSet(q) \cup ToSet(p)
<1>1. /\ q \o p \in Seq(S) /\ Len(q \o p) = Len(q) + Len(p)
      /\ \A i \in 1..(Len(q) + Len(p)) : (q \o p)[i] = IF i <= Len(q) THEN q[i] ELSE p[i - Len(q)]
  BY ConcatProperties
<1>2. /\ DOMAIN q = 1..Len(q) /\ Len(q) \in Nat /\ DOMAIN p = 1..Len(p) /\ Len(p) \in Nat
      /\ DOMAIN (q \o p) = 1..(Len(q) + Len(p))
  BY <1>1, LenProperties
<1>3. ASSUME NEW x \in ToSet(q \o p) PROVE x \in ToSet(q) \cup ToSet(p)
  <2>1. PICK i \in 1..(Len(q) + Len(p)) : (q \o p)[i] = x
    BY <1>2 DEF ToSet
  <2>2. i <= Len(q) \/ i - Len(q) \in 1..Len(p)
    BY <1>2, <2>1
  <2> QED
    BY <1>1, <1>2, <2>1, <2>2 DEF ToSet
<1>4. ASSUME NEW x \in ToSet(q) PROVE x \in ToSet(q \o p)
  <2>1. PICK i \in 1..Len(q) : q[i] = x
    BY <1>2 DEF ToSet
  <2> QED
    BY <1>1, <1>2, <2>1 DEF ToSet
<1>5. ASSUME NEW x \in ToSet(p) PROVE x \in ToSet(q \o p)
  <2>1. PICK i \in 1..Len(p) : p[i] = x
    BY <1>2 DEF ToSet
  <2>2. i + Len(q) \in 1..(Len(q) + Len(p)) /\ ~(i + Len(q) <= Len(q)) /\ (i + Len(q)) - Len(q) = i
    BY <1>2, <2>1
  <2>3. (q \o p)[i + Len(q)] = x
    BY <1>1, <2>1, <2>2
  <2> QED
    BY <1>2, <2>2, <2>3 DEF ToSet
<1> QED
  BY <1>1, <1>3, <1>4, <1>5

LEMMA SplitElements ==
    ASSUME NEW S, NEW q \in Seq(S), NEW n \in 0..Len(q)
    PROVE  /\ SubSeq(q, 1, n) \in Seq(S) /\ SubSeq(q, n + 1, Len(q)) \in Seq(S)
           /\ ToSet(q) = ToSet(SubSeq(q, 1, n)) \cup ToSet(SubSeq(q, n + 1, Len(q)))
<1>1. Len(q) \in Nat /\ n \in Nat /\ \A i \in 1..Len(q) : q[i] \in S
  BY LenProperties, ElementOfSeq
<1>2. SubSeq(q, 1, n) \in Seq(S)
  <2>1. 1 \in Int /\ n \in Int /\ \A i \in 1..n : q[i] \in S
    BY <1>1
  <2> QED
    BY ONLY <2>1, SubSeqProperties
<1>3. SubSeq(q, n + 1, Len(q)) \in Seq(S)
  <2>1. n + 1 \in Int /\ Len(q) \in Int /\ \A i \in (n + 1)..Len(q) : q[i] \in S
    BY <1>1
  <2> QED
    BY ONLY <2>1, SubSeqProperties
<1>4. SubSeq(q, 1, n) \o SubSeq(q, n + 1, Len(q)) = q
  <2>1. 1 \in 1..(Len(q) + 1) /\ n \in (1 - 1)..Len(q) /\ Len(q) \in n..Len(q)
    BY <1>1
  <2>2. SubSeq(q, 1, n) \o SubSeq(q, n + 1, Len(q)) = SubSeq(q, 1, Len(q))
    BY <2>1, ConcatAdjacentSubSeq
  <2> QED
    BY <2>2, SubSeqFull
<1> QED
  BY <1>2, <1>3, <1>4, ConcatElements

\* Policy::put shifts out as few entries as it must, and never more than there are.
LEMMA ShiftedInRange ==
    ASSUME NEW k \in Ranks, NEW key \in Keys, lru[k] \in Seq(Keys), Size[key] <= Cap
    PROVE  Shifted(k, key) \in 0..Len(Without(lru[k], key))
<1> DEFINE rest == Without(lru[k], key)
           Fits(n) == Total(SubSeq(rest, n + 1, Len(rest))) + Size[key] <= Cap
           Enough == {n \in 0..Len(rest) : Fits(n)}
<1>1. Len(rest) \in Nat
  BY WithoutElements, LenProperties
<1>2. Size[key] \in Nat
  BY SpillAssumption
<1>3. Fits(Len(rest))
  <2>1. SubSeq(rest, Len(rest) + 1, Len(rest)) = <<>>
    BY <1>1, SubSeqEmpty
  <2>2. Total(<<>>) = 0
    <3> DEFINE Sum(f) == f = [n \in 0..0 |-> IF n = 0 THEN 0 ELSE f[n - 1] + Size[<<>>[n]]]
    <3>1. Sum([n \in 0..0 |-> 0])
      OBVIOUS
    <3>2. Sum(CHOOSE f : Sum(f))
      BY <3>1
    <3>3. Total(<<>>) = (CHOOSE f : Sum(f))[0]
      BY DEF Total
    <3> QED
      BY <3>2, <3>3
  <2>3. Cap \in Nat /\ 0 + Size[key] <= Cap
    BY <1>2, SpillAssumption
  <2> QED
    BY <2>1, <2>2, <2>3
<1> HIDE DEF Fits, rest
<1>4. Enough \subseteq Nat /\ Enough # {}
  BY <1>1, <1>3
<1>5. PICK n \in Enough : \A m \in Enough : ~(<<m, n>> \in OpToRel(<, Nat))
  BY <1>4, NatLessThanWellFounded, WFMin
<1>6. \A m \in 0..(n - 1) : ~Fits(m)
  <2> SUFFICES ASSUME NEW m \in 0..(n - 1), Fits(m) PROVE FALSE
    OBVIOUS
  <2>1. m \in Nat /\ n \in 0..Len(rest) /\ m < n /\ m \in 0..Len(rest)
    BY <1>1, <1>4
  <2>2. <<m, n>> \in OpToRel(<, Nat)
    BY <2>1 DEF OpToRel
  <2> QED
    BY <1>5, <2>1, <2>2
<1>7. \E i \in 0..Len(rest) : Fits(i) /\ \A m \in 0..(i - 1) : ~Fits(m)
  BY <1>4, <1>5, <1>6
<1>8. Shifted(k, key) = CHOOSE i \in 0..Len(rest) : Fits(i) /\ \A m \in 0..(i - 1) : ~Fits(m)
  BY DEF Shifted, rest, Fits
<1>9. Shifted(k, key) \in 0..Len(rest)
  BY <1>7, <1>8
<1> QED
  BY <1>9 DEF rest

-----------------------------------------------------------------------------
(* No file is left behind *)

Typed ==
    /\ Shape
    /\ adm \in [evict : Keys \cup {NoKey}, wants : Keys \cup {NoKey}]
    /\ lru \in [Ranks -> Seq(Keys)] /\ dels \in [Ranks -> Seq(Keys)]
    /\ files \in [Ranks -> SUBSET Keys]

\* A rank comes to an agree with a key.
Brings(k) == pc[k] = "agree" => IF op[k] = "capture" THEN adm.evict # NoKey ELSE Wanted(k) # NoKey

\* A file's key is in the policy, or with the writer thread, or about to be agreed on.
Held(k, key) ==
    \/ key \in ToSet(lru[k]) \cup ToSet(dels[k]) \/ Size[key] > Cap
    \/ pc[k] = "agree" /\ op[k] = "capture" /\ key = adm.evict

TidyInv ==
    /\ Typed
    /\ \A k \in Ranks : Brings(k)
    /\ \A k \in Ranks : Up(k) => \A key \in files[k] : Held(k, key)

\* A rank's step before the agree: only put_sync makes a file, and it brings its key.
LEMMA RankTidy == ASSUME TidyInv, NEW k \in Ranks, Rank(k) PROVE TidyInv'
<1>1. Typed /\ Shape /\ (\A j \in Ranks : Brings(j)) /\ UNCHANGED <<adm, lru, dels>>
  BY DEF Rank, CaptureSkip, CaptureFails, CaptureWrite, RestoreSkip, RestoreRead, TidyInv, Typed
<1>2. Up(k)
  BY DEF Rank, CaptureSkip, CaptureFails, CaptureWrite, RestoreSkip, RestoreRead, Up
<1>3. pc[k] # "agree"
  BY DEF Rank, CaptureSkip, CaptureFails, CaptureWrite, RestoreSkip, RestoreRead
<1>4. /\ \A j \in Ranks \ {k} : pc'[j] = pc[j] /\ op'[j] = op[j] /\ files'[j] = files[j]
      /\ Shape' /\ files' \in [Ranks -> SUBSET Keys]
      /\ pc'[k] = "agree" => IF op'[k] = "capture" THEN adm.evict # NoKey ELSE Wanted(k) # NoKey
      /\ \/ files'[k] = files[k]
         \/ pc'[k] = "agree" /\ op'[k] = "capture" /\ files'[k] = files[k] \cup {adm.evict}
  <2>1. CASE CaptureSkip(k)
    BY <1>1, <2>1 DEF CaptureSkip, Goto, Shape, States, Typed
  <2>2. CASE CaptureFails(k)
    BY <1>1, <2>2 DEF CaptureFails, Goto, Shape, States, Typed
  <2>3. CASE CaptureWrite(k)
    <3>1. adm.evict \in Keys
      BY <1>1, <2>3 DEF CaptureWrite, Typed
    <3>2. \/ files' = [files EXCEPT ![k] = @ \cup {adm.evict}]
          \/ files' = files
      BY <2>3 DEF CaptureWrite
    <3>3. /\ pc' = [pc EXCEPT ![k] = "agree"] /\ op' = [op EXCEPT ![k] = "capture"]
          /\ adm.evict # NoKey
      BY <2>3 DEF CaptureWrite, Bring, Goto
    <3>4. Shape'
      BY <1>1, <3>3 DEF Shape, States
    <3>5. files' \in [Ranks -> SUBSET Keys]
      <4>1. files \in [Ranks -> SUBSET Keys] /\ files[k] \cup {adm.evict} \in SUBSET Keys
        BY <1>1, <3>1 DEF Typed
      <4> QED
        BY <3>2, <4>1
    <3>6. pc'[k] = "agree" /\ op'[k] = "capture"
      BY <1>1, <3>3 DEF Shape
    <3>7. files'[k] = files[k] \/ files'[k] = files[k] \cup {adm.evict}
      BY <1>1, <3>2 DEF Typed
    <3>8. \A j \in Ranks \ {k} : pc'[j] = pc[j] /\ op'[j] = op[j] /\ files'[j] = files[j]
      BY <1>1, <3>2, <3>3 DEF Typed, Shape
    <3> QED
      BY <3>3, <3>4, <3>5, <3>6, <3>7, <3>8
  <2>4. CASE RestoreSkip(k)
    BY <1>1, <2>4 DEF RestoreSkip, Goto, Shape, States, Typed
  <2>5. CASE RestoreRead(k)
    BY <1>1, <2>5 DEF RestoreRead, Bring, Goto, Shape, States, Typed
  <2> QED
    BY <2>1, <2>2, <2>3, <2>4, <2>5 DEF Rank
<1>5. Typed'
  BY <1>1, <1>4 DEF Typed
<1>6. \A j \in Ranks : Wanted(j)' = Wanted(j)
  BY <1>1 DEF Wanted
<1>7. \A j \in Ranks : Brings(j)'
  BY <1>1, <1>4, <1>6 DEF Brings
<1>8. ASSUME NEW j \in Ranks, Up(j)', NEW key \in files'[j] PROVE Held(j, key)'
  <2>1. CASE j # k
    BY <1>1, <1>4, <1>8, <2>1 DEF TidyInv, Held, Up
  <2>2. CASE j = k /\ key \in files[k]
    BY <1>1, <1>2, <1>3, <2>2 DEF TidyInv, Held
  <2>3. CASE j = k /\ key \notin files[k]
    BY <1>1, <1>4, <1>8, <2>3 DEF Held
  <2> QED
    BY <2>1, <2>2, <2>3
<1> QED
  BY <1>5, <1>7, <1>8 DEF TidyInv

\* What the verdict takes out of the policy goes to the writer thread.
LEMMA NothingForgotten ==
    ASSUME TidyInv, NEW k \in Ranks, pc[k] = "agree"
    PROVE  /\ LruAfter(k) \in Seq(Keys) /\ Dropped(k) \in Seq(Keys)
           /\ ToSet(lru[k]) \subseteq ToSet(LruAfter(k)) \cup ToSet(Dropped(k))
           /\ op[k] = "capture" /\ Size[adm.evict] <= Cap
                => adm.evict \in ToSet(LruAfter(k)) \cup ToSet(Dropped(k))
<1> DEFINE key == adm.evict
           rest == Without(lru[k], key)
           n == Shifted(k, key)
<1>1. lru[k] \in Seq(Keys) /\ op[k] \in {"capture", "restore"}
  BY DEF TidyInv, Typed, Shape
<1>2. CASE op[k] = "restore"
  <2>1. Wanted(k) \in Keys
    BY <1>2 DEF TidyInv, Typed, Brings, Wanted
  <2>2. <<Wanted(k)>> \in Seq(Keys) /\ ToSet(<<Wanted(k)>>) = {Wanted(k)}
    BY <2>1 DEF ToSet
  <2>3. LruAfter(k) = Without(lru[k], Wanted(k)) /\ Dropped(k) = <<Wanted(k)>>
    BY <1>2 DEF LruAfter, Dropped
  <2> QED
    BY <1>1, <1>2, <2>2, <2>3, WithoutElements
<1>3. CASE op[k] = "capture"
  <2>1. key \in Keys /\ Size[key] \in Nat /\ Cap \in Nat
    BY <1>3, SpillAssumption DEF TidyInv, Typed, Brings
  <2>2. CASE ~Verdict(k)
    <3>1. <<key>> \in Seq(Keys) /\ ToSet(<<key>>) = {key}
      BY <2>1 DEF ToSet
    <3>2. LruAfter(k) = lru[k] /\ Dropped(k) = <<key>>
      BY <1>3, <2>2 DEF LruAfter, Dropped
    <3> QED
      BY <1>1, <3>1, <3>2
  <2>3. CASE Verdict(k) /\ Size[key] > Cap
    <3>1. LruAfter(k) = lru[k] /\ Dropped(k) = <<>> /\ <<>> \in Seq(Keys)
      BY <1>3, <2>3 DEF LruAfter, Dropped
    <3> QED
      BY <1>1, <2>1, <2>3, <3>1
  <2>4. CASE Verdict(k) /\ Size[key] <= Cap
    <3>1. rest \in Seq(Keys) /\ ToSet(lru[k]) \ {key} \subseteq ToSet(rest)
      BY <1>1, WithoutElements
    <3>2. n \in 0..Len(rest)
      BY <1>1, <2>1, <2>4, ShiftedInRange
    <3> DEFINE front == SubSeq(rest, 1, n)
               back == SubSeq(rest, n + 1, Len(rest))
    <3> HIDE DEF n, rest
    <3>3. front \in Seq(Keys) /\ back \in Seq(Keys) /\ ToSet(rest) = ToSet(front) \cup ToSet(back)
      BY <3>1, <3>2, SplitElements
    <3>4. LruAfter(k) = Append(back, key) /\ Dropped(k) = front
      <4>1. ~(Size[adm.evict] > Cap) /\ op[k] # "restore"
        BY <1>3, <2>1, <2>4
      <4> QED
        BY <2>4, <4>1 DEF LruAfter, Dropped, n, rest
    <3> HIDE DEF front, back
    <3>5. Append(back, key) \in Seq(Keys) /\ ToSet(Append(back, key)) = ToSet(back) \cup {key}
      BY <2>1, <3>3, AppendElements
    <3> QED
      BY <3>1, <3>3, <3>4, <3>5
  <2> QED
    BY <2>1, <2>2, <2>3, <2>4
<1> QED
  BY <1>1, <1>2, <1>3

\* spill_agree.
LEMMA AgreeTidy == TidyInv /\ Agree => TidyInv'
<1> SUFFICES ASSUME TidyInv, Agree PROVE TidyInv'
  OBVIOUS
<1>1. \A k \in Ranks : pc[k] = "agree"
  BY DEF Agree
<1>2. PICK failed \in SUBSET {k \in Ranks : op[k] = "restore" /\ Verdict(k)} :
        /\ pc' = [k \in Ranks |-> IF k \in failed THEN "bailed"
                                  ELSE IF op[k] = "capture" THEN "restore" ELSE "seam"]
        /\ lru' = [k \in Ranks |-> IF k \in failed THEN lru[k] ELSE LruAfter(k)]
        /\ dels' = [k \in Ranks |-> IF k \in failed THEN dels[k] ELSE dels[k] \o Dropped(k)]
        /\ UNCHANGED <<adm, files, op>>
  BY DEF Agree
<1>3. ASSUME NEW k \in Ranks
      PROVE  /\ LruAfter(k) \in Seq(Keys) /\ dels[k] \o Dropped(k) \in Seq(Keys)
             /\ ToSet(lru[k]) \subseteq ToSet(LruAfter(k)) \cup ToSet(dels[k] \o Dropped(k))
             /\ ToSet(dels[k]) \subseteq ToSet(dels[k] \o Dropped(k))
             /\ op[k] = "capture" /\ Size[adm.evict] <= Cap
                  => adm.evict \in ToSet(LruAfter(k)) \cup ToSet(dels[k] \o Dropped(k))
  <2>1. dels[k] \in Seq(Keys)
    BY DEF TidyInv, Typed
  <2>2. Dropped(k) \in Seq(Keys)
    BY <1>1, NothingForgotten
  <2>3. dels[k] \o Dropped(k) \in Seq(Keys)
        /\ ToSet(dels[k] \o Dropped(k)) = ToSet(dels[k]) \cup ToSet(Dropped(k))
    BY <2>1, <2>2, ConcatElements
  <2> QED
    BY <1>1, <2>3, NothingForgotten
<1>4. Typed'
  <2>1. Shape'
    BY <1>2 DEF TidyInv, Typed, Shape, States
  <2>2. lru' \in [Ranks -> Seq(Keys)] /\ dels' \in [Ranks -> Seq(Keys)]
    BY <1>2, <1>3 DEF TidyInv, Typed
  <2> QED
    BY <1>2, <2>1, <2>2 DEF TidyInv, Typed
<1>5. \A k \in Ranks : Brings(k)'
  BY <1>2 DEF Brings
<1>6. ASSUME NEW k \in Ranks, Up(k)', NEW key \in files'[k] PROVE Held(k, key)'
  <2>1. k \notin failed
    BY <1>2, <1>6 DEF Up
  <2>2. lru'[k] = LruAfter(k) /\ dels'[k] = dels[k] \o Dropped(k)
    BY <1>2, <2>1
  <2>3. Held(k, key) /\ key \in Keys
    BY <1>1, <1>2, <1>6 DEF TidyInv, Up, Typed
  <2>4. Size[key] \in Nat /\ Cap \in Nat
    BY <2>3, SpillAssumption
  <2>5. Size[key] > Cap \/ Size[key] <= Cap
    BY <2>4
  <2> QED
    BY <1>3, <2>2, <2>3, <2>5 DEF Held
<1> QED
  BY <1>4, <1>5, <1>6 DEF TidyInv

\* A delete takes the file with it.
LEMMA WriterTidy == ASSUME TidyInv, NEW k \in Ranks, Writer(k) PROVE TidyInv'
<1>1. /\ files' = [files EXCEPT ![k] = @ \ {Head(dels[k])}]
      /\ dels' = [dels EXCEPT ![k] = Tail(@)]
      /\ UNCHANGED <<adm, lru, pc, op>> /\ dels[k] # <<>>
  BY DEF Writer
<1>2. dels[k] \in Seq(Keys) /\ DOMAIN dels = Ranks /\ DOMAIN files = Ranks
  BY DEF TidyInv, Typed
<1>3. Tail(dels[k]) \in Seq(Keys) /\ ToSet(dels[k]) \subseteq {Head(dels[k])} \cup ToSet(Tail(dels[k]))
  <2>1. /\ Tail(dels[k]) \in Seq(Keys) /\ Len(Tail(dels[k])) = Len(dels[k]) - 1
        /\ \A i \in 1..Len(Tail(dels[k])) : Tail(dels[k])[i] = dels[k][i + 1]
    BY <1>1, <1>2, HeadTailProperties
  <2>2. Len(dels[k]) \in Nat /\ DOMAIN dels[k] = 1..Len(dels[k])
        /\ DOMAIN Tail(dels[k]) = 1..Len(Tail(dels[k])) /\ Head(dels[k]) = dels[k][1]
    BY <1>1, <1>2, <2>1, LenProperties
  <2>3. ASSUME NEW i \in DOMAIN dels[k], i # 1 PROVE dels[k][i] \in ToSet(Tail(dels[k]))
    <3>1. i - 1 \in 1..Len(Tail(dels[k])) /\ (i - 1) + 1 = i
      BY <2>1, <2>2, <2>3
    <3>2. Tail(dels[k])[i - 1] = dels[k][i]
      BY <2>1, <3>1
    <3> QED
      BY <2>2, <3>1, <3>2 DEF ToSet
  <2> QED
    BY <2>1, <2>2, <2>3 DEF ToSet
<1>4. Typed'
  BY <1>1, <1>3 DEF TidyInv, Typed, Shape
<1>5. \A j \in Ranks : Brings(j)'
  BY <1>1 DEF TidyInv, Brings, Wanted
<1>6. ASSUME NEW j \in Ranks, Up(j)', NEW key \in files'[j] PROVE Held(j, key)'
  <2>1. key \in files[j] /\ (j = k => key # Head(dels[k])) /\ Up(j)
    BY <1>1, <1>2, <1>6 DEF Up
  <2>2. Held(j, key)
    BY <2>1 DEF TidyInv
  <2>3. ToSet(dels[j]) \subseteq ToSet(dels'[j]) \cup (IF j = k THEN {Head(dels[k])} ELSE {})
    BY <1>1, <1>2, <1>3
  <2> QED
    BY <1>1, <2>1, <2>2, <2>3 DEF Held
<1> QED
  BY <1>4, <1>5, <1>6 DEF TidyInv

\* No step of any rank loses a file.
LEMMA NextTidy == TidyInv /\ [Next]_vars => TidyInv'
<1> SUFFICES ASSUME TidyInv, [Next]_vars PROVE TidyInv'
  OBVIOUS
<1>1. CASE UNCHANGED vars
  BY <1>1 DEF vars, TidyInv, Typed, Shape, Brings, Wanted, Held, Up
<1>2. CASE OutOfStep
  <2>1. pc' = [k \in Ranks |-> "bailed"] /\ UNCHANGED <<adm, lru, files, dels, op>>
    BY <1>2 DEF OutOfStep
  <2> QED
    BY <2>1 DEF TidyInv, Typed, Shape, States, Brings, Up
<1>3. CASE NextAdmission
  <2>1. /\ pc' = [k \in Ranks |-> "capture"] /\ UNCHANGED <<lru, files, dels, op>>
        /\ adm' \in [evict : Keys \cup {NoKey}, wants : Keys \cup {NoKey}]
        /\ \A k \in Ranks : pc[k] = "seam"
    BY <1>3 DEF NextAdmission
  <2> QED
    BY <2>1 DEF TidyInv, Typed, Shape, States, Brings, Up, Held
<1> QED
  BY <1>1, <1>2, <1>3, RankTidy, WriterTidy, AgreeTidy DEF Next

\* At every seam, a file that is neither known to its rank's policy nor on its way out is
\* one the policy refused for its size: with any number of ranks, files and faults, and
\* whatever is still in the queue of the writer threads.
THEOREM NoFileLeftBehind == Spec => []NoOrphans
<1>1. Init => TidyInv
  BY DEF Init, TidyInv, Typed, Shape, States, Brings, Held, Up
<1>2. TidyInv => NoOrphans
  <2> SUFFICES ASSUME TidyInv, Met, NEW k \in Ranks, NEW key \in files[k]
               PROVE  key \in ToSet(lru[k]) \cup ToSet(dels[k]) \/ Size[key] > Cap
    BY DEF NoOrphans
  <2>1. pc[k] = "seam"
    BY DEF Met
  <2> QED
    BY <2>1 DEF TidyInv, Held, Up
<1> QED
  BY <1>1, <1>2, NextTidy, PTL DEF Spec
=============================================================================
