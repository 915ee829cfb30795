-------------------------- MODULE Exl3ServeProofs --------------------------
(***************************************************************************)
(* Theorems about the single-box server of Exl3Serve, for any number of    *)
(* requests and lanes and every value of the policy's options:             *)
(*   - what the scheduler thread knows of its own job and lanes at each    *)
(*     point of its loop (IInv, the inductive invariant the rest uses);    *)
(*   - what the reservation policy promises through the scheduler that     *)
(*     acts on it, deciding at one instant and carrying it out later;      *)
(*   - that each request is answered once;                                 *)
(*   - that the server implements the service of LaneService.              *)
(***************************************************************************)
EXTENDS Exl3Serve, SequenceTheorems, FiniteSetTheorems, WellFoundedInduction, TLAPS

\* A lane is free or runs a request that has a token left to generate.
LaneShape ==
    \A s \in Slots : lanes[s] = FreeLane \/ (lanes[s].req \in Reqs /\ lanes[s].left > 0)

\* Where the thread holds a request, and where it has given it a slot.
JobShape ==
    /\ pc = "picked" => job.req \in Reqs /\ job.slot = NoSlot
    /\ pc = "prefill" => job.req \in Reqs /\ job.slot \in Slots
    /\ pc \in {"sweep", "round"} => job = NoJob \/ (job.req \in Reqs /\ job.slot \in Slots)
    /\ pc \notin {"picked", "prefill", "sweep", "round"} => job = NoJob

IInv == TypeOK /\ LaneShape /\ JobShape

USE DEF NoSlot, Never, Instants

\* No lane is numbered as the absent one.
LEMMA SlotFacts == Slots \subseteq Nat /\ NoSlot \notin Slots
BY PolicyAssumption

\* What the assumptions say of the requests.
LEMMA PromptFacts ==
    /\ NoReq \notin Reqs
    /\ \A r \in Reqs : SnapOf(r) \in Snapshots
    /\ \A r \in Reqs : MaxNew[r] \in Nat \ {0}
<1>1. ASSUME NEW r \in Reqs PROVE SnapOf(r) \in Snapshots
    BY ServeAssumption DEF SnapOf, Snapshots, Convs
<1> QED BY <1>1, ServeAssumption

\* Removing an element of a queue leaves a queue of the other elements.
LEMMA RemoveAtElements ==
    ASSUME NEW S, NEW q \in Seq(S), NEW i \in 1..Len(q)
    PROVE  /\ RemoveAt(q, i) \in Seq(S)
           /\ Len(RemoveAt(q, i)) = Len(q) - 1
           /\ \A k \in 1..(Len(q) - 1) : RemoveAt(q, i)[k] = IF k < i THEN q[k] ELSE q[k + 1]
           /\ \A k \in DOMAIN RemoveAt(q, i) : \E j \in DOMAIN q : j # i /\ RemoveAt(q, i)[k] = q[j]
<1> DEFINE left == SubSeq(q, 1, i - 1)
           right == SubSeq(q, i + 1, Len(q))
<1>1. Len(q) \in Nat /\ DOMAIN q = 1..Len(q) /\ \A j \in 1..Len(q) : q[j] \in S
    BY LenProperties, ElementOfSeq
<1>2. /\ left \in Seq(S) /\ Len(left) = i - 1
      /\ \A k \in 1..(i - 1) : left[k] = q[k]
    BY <1>1, SubSeqProperties
<1>3. /\ right \in Seq(S) /\ Len(right) = Len(q) - i
      /\ \A k \in 1..(Len(q) - i) : right[k] = q[k + i]
    <2>1. i + 1 \in Int /\ Len(q) \in Int /\ \A k \in (i + 1)..Len(q) : q[k] \in S
        BY <1>1
    <2>2. /\ right \in Seq(S)
          /\ Len(right) = IF i + 1 <= Len(q) THEN Len(q) - (i + 1) + 1 ELSE 0
          /\ \A k \in 1..(Len(q) - (i + 1) + 1) : right[k] = q[i + 1 + k - 1]
        BY <2>1, SubSeqProperties
    <2>3. \A k \in 1..(Len(q) - i) : i + 1 + k - 1 = k + i /\ k \in 1..(Len(q) - (i + 1) + 1)
        BY <1>1
    <2> HIDE DEF right
    <2>4. \A k \in 1..(Len(q) - i) : right[k] = q[k + i]
        BY <2>2, <2>3, Zenon
    <2>5. Len(right) = Len(q) - i
        <3>1. \A n \in Nat : \A k \in 1..n : (IF k + 1 <= n THEN n - (k + 1) + 1 ELSE 0) = n - k
            OBVIOUS
        <3>2. (IF i + 1 <= Len(q) THEN Len(q) - (i + 1) + 1 ELSE 0) = Len(q) - i
            BY <1>1, <3>1
        <3> QED BY <2>2, <3>2
    <2> QED BY <2>2, <2>4, <2>5
<1>4. RemoveAt(q, i) = left \o right
    BY DEF RemoveAt
<1>5. RemoveAt(q, i) \in Seq(S) /\ Len(RemoveAt(q, i)) = Len(q) - 1
    <2> HIDE DEF left, right
    <2>1. left \o right \in Seq(S) /\ Len(left \o right) = Len(left) + Len(right)
        BY <1>2, <1>3, ConcatProperties
    <2> QED BY <1>1, <1>2, <1>3, <1>4, <2>1
<1>6. \A k \in 1..(Len(q) - 1) : RemoveAt(q, i)[k] = IF k < i THEN q[k] ELSE q[k + 1]
    <2> HIDE DEF left, right
    <2>1. \A k \in 1..Len(left) + Len(right) :
            (left \o right)[k] = IF k <= Len(left) THEN left[k] ELSE right[k - Len(left)]
        BY <1>2, <1>3, ConcatProperties
    <2>2. ASSUME NEW k \in 1..(Len(q) - 1)
          PROVE  RemoveAt(q, i)[k] = IF k < i THEN q[k] ELSE q[k + 1]
        <3>1. CASE k < i
            BY <1>1, <1>2, <1>3, <1>4, <2>1, <3>1
        <3>2. CASE k >= i
            <4>1. k - (i - 1) \in 1..(Len(q) - i) /\ k - (i - 1) + i = k + 1
                BY <1>1, <3>2
            <4>2. RemoveAt(q, i)[k] = right[k - (i - 1)]
                <5>1. k \in 1..Len(left) + Len(right) /\ ~(k <= Len(left)) /\ Len(left) = i - 1
                    BY <1>1, <1>2, <1>3, <3>2
                <5>2. (left \o right)[k] = right[k - Len(left)]
                    BY <2>1, <5>1
                <5> QED BY <1>4, <5>1, <5>2
            <4> QED BY <1>3, <3>2, <4>1, <4>2
        <3> QED BY <1>1, <3>1, <3>2
    <2> QED BY <2>2
<1>7. DOMAIN RemoveAt(q, i) = 1..(Len(q) - 1)
    BY <1>5, LenProperties
<1> QED BY <1>1, <1>5, <1>6, <1>7

\* Removing a request leaves a queue.
LEMMA RemoveAtType ==
    ASSUME NEW S, NEW q \in Seq(S), NEW i \in 1..Len(q)
    PROVE  RemoveAt(q, i) \in Seq(S)
BY RemoveAtElements

\* The invariant holds at the start.
LEMMA InitInv == Init => IInv
<1> SUFFICES ASSUME Init PROVE IInv
    OBVIOUS
<1>1. NoJob \in Jobs BY DEF NoJob, Jobs
<1>2. <<>> \in Seq(Reqs) BY EmptySeq
<1> QED BY <1>1, <1>2, ServeAssumption
        DEF Init, IInv, TypeOK, LaneShape, JobShape, FreeLane, Labels

\* The steps of the handlers, the clients and the clock.
LEMMA EnvironmentInv == IInv /\ Environment => IInv'
<1> SUFFICES ASSUME IInv, Environment PROVE IInv'
    OBVIOUS
<1> USE DEF IInv, TypeOK, LaneShape, JobShape, clientVars, clockVars, slotVars, planVars, engineVars
<1>1. ASSUME NEW r \in Reqs, Receive(r) PROVE IInv'
    BY <1>1 DEF Receive
<1>2. ASSUME NEW r \in Reqs, Enqueue(r) PROVE IInv'
    <2>1. rx' \in Seq(Reqs) BY <1>2 DEF Enqueue
    <2> QED BY <1>2, <2>1 DEF Enqueue
<1>3. ASSUME NEW r \in Reqs, Refuse(r) PROVE IInv'
    BY <1>3 DEF Refuse
<1>4. ASSUME NEW r \in Reqs, Leave(r) PROVE IInv'
    BY <1>4 DEF Leave
<1>5. ASSUME NEW r \in Reqs, HitStopString(r) PROVE IInv'
    BY <1>5 DEF HitStopString
<1>6. CASE Tick
    BY <1>6 DEF Tick
<1> QED BY <1>1, <1>2, <1>3, <1>4, <1>5, <1>6 DEF Environment

\* A request taken from the queue.
LEMMA TakeInv ==
    ASSUME IInv, NEW i \in DOMAIN waiting, NEW allowed \in SUBSET Slots,
           NEW kind \in {"fifo", "own", "unreserved", "forced"},
           Take(i, allowed, kind), nextForced' \in Instants, lastForced' \in Instants
    PROVE  IInv'
<1>1. waiting[i] \in Reqs /\ waiting' \in Seq(Reqs)
    BY RemoveAtType, LenProperties, ElementOfSeq DEF IInv, TypeOK, Take
<1>2. job' \in Jobs /\ job'.req \in Reqs /\ job'.slot = NoSlot
    BY <1>1 DEF Take, NoJob, Jobs
<1> QED
    BY <1>1, <1>2 DEF IInv, TypeOK, LaneShape, JobShape, Take, Labels, clientVars, clockVars,
                      slotVars, engineVars

\* A queue that is not empty has a front, and the policy sees it.
LEMMA QueueFacts ==
    ASSUME IInv, waiting # <<>>
    PROVE  1 \in DOMAIN waiting /\ Waits # <<>>
<1>1. Len(waiting) \in Nat \ {0} /\ DOMAIN waiting = 1..Len(waiting)
    BY EmptySeq, LenProperties DEF IInv, TypeOK
<1>2. DOMAIN Waits # {}
    BY <1>1 DEF Waits
<1> QED BY <1>1, <1>2

\* The top of the loop, the admission loop and the policy's answers.
LEMMA LoopInv == IInv /\ (Loop \/ Plan) => IInv'
<1> SUFFICES ASSUME IInv, Loop \/ Plan PROVE IInv'
    OBVIOUS
<1> USE DEF IInv, TypeOK, LaneShape, JobShape, Labels, Goto, clientVars, clockVars, slotVars,
            planVars, engineVars
<1>0. NoJob \in Jobs BY DEF NoJob, Jobs
<1>1. CASE TopFatal BY <1>0, <1>1 DEF TopFatal
<1>2. CASE TopIdle BY <1>0, <1>2 DEF TopIdle
<1>3. CASE Drain
    <2>1. waiting' \in Seq(Reqs) /\ rx' \in Seq(Reqs)
        BY <1>3, ConcatProperties, EmptySeq DEF Drain
    <2> QED BY <1>0, <1>3, <2>1 DEF Drain
<1>4. CASE AdmitDone BY <1>0, <1>4 DEF AdmitDone
<1>5. CASE PopFront BY <1>5, QueueFacts, TakeInv DEF PopFront
<1>6. CASE DrainAgain
    <2>1. waiting' \in Seq(Reqs) /\ rx' \in Seq(Reqs)
        BY <1>6, ConcatProperties, EmptySeq DEF DrainAgain
    <2> QED BY <1>6, <2>1 DEF DrainAgain
<1>7. CASE DropGone
    <2>1. waiting' \in Seq(Reqs)
        BY <1>7, LenProperties, RemoveAtType DEF DropGone
    <2> QED BY <1>7, <2>1 DEF DropGone
<1>8. CASE PlanOwn
    <2>1. PICK i \in DOMAIN waiting :
            IsOldest(i, Waits, OwnHolders(Views, Waits)) /\ Take(i, {Waits[i].own}, "own")
        BY <1>8 DEF PlanOwn
    <2>2. Waits[i].own \in Slots
        BY <2>1 DEF IsOldest, OwnHolders, Free
    <2> QED BY <1>8, <2>1, <2>2, TakeInv DEF PlanOwn
<1>9. CASE PlanUnreserved
    <2>1. Unreserved(Views, now) \subseteq Slots
        BY DEF Unreserved, Free
    <2>2. waiting # <<>>
        BY <1>9 DEF PlanUnreserved, UnreservedRule, Waits
    <2> QED BY <1>9, <2>1, <2>2, QueueFacts, TakeInv DEF PlanUnreserved
<1>10. CASE PlanForced
    <2>1. Free(Views) \subseteq Slots
        BY DEF Free
    <2>2. waiting # <<>>
        BY <1>10 DEF PlanForced, ForcedRule, Waits
    <2>3. ArmLimiter(now) \in Instants
        BY PolicyAssumption DEF ArmLimiter
    <2> QED BY <1>10, <2>1, <2>2, <2>3, QueueFacts, TakeInv DEF PlanForced
<1>11. CASE PlanWait
    <2>1. ASSUME NEW d \in Deadlines(Views, Waits, nextForced, now) PROVE d \in Nat
        <3>1. now \in Nat /\ Reserve \in Nat /\ Patience \in Nat /\ nextForced \in Instants
            BY PolicyAssumption
        <3>2. \A s \in Slots : Views[s].releasedAt \in Int
            BY DEF Views
        <3>3. Waits # <<>> => Waits[1].arrivedAt \in Int
            <4> SUFFICES ASSUME Waits # <<>> PROVE Waits[1].arrivedAt \in Int
                OBVIOUS
            <4>1. waiting # <<>>
                BY DEF Waits
            <4> QED BY <4>1, QueueFacts, ElementOfSeq, LenProperties DEF Waits
        <3> QED BY <2>1, <3>1, <3>2, <3>3 DEF Deadlines, Free
    <2>2. until' \in Instants
        BY <1>11, <2>1 DEF PlanWait
    <2> QED BY <1>0, <1>11, <2>2 DEF PlanWait
<1>12. CASE PollDeadline BY <1>0, <1>12 DEF PollDeadline
<1>13. CASE PollRequest
    <2>1. waiting' \in Seq(Reqs) /\ rx' \in Seq(Reqs)
        BY <1>13, HeadTailProperties DEF PollRequest
    <2> QED BY <1>0, <1>13, <2>1 DEF PollRequest
<1> QED BY <1>1, <1>2, <1>3, <1>4, <1>5, <1>6, <1>7, <1>8, <1>9, <1>10, <1>11, <1>12, <1>13
        DEF Loop, Plan

\* The slot of an admission is free and allowed.
LEMMA PickIsFree ==
    ASSUME NEW s \in Slots, NEW deep \in SUBSET Slots, IsPick(s, deep)
    PROVE  s \in Idle \cap job.allowed
BY DEF IsPick, IsPickOf, IsLongest, Hits, IsVictim, IsHighest, IsLowest, IsLeastRecent

\* The admission of a request, up to its first token.
LEMMA AdmitInv == IInv /\ (Admit \/ Prefill) => IInv'
<1> SUFFICES ASSUME IInv, Admit \/ Prefill PROVE IInv'
    OBVIOUS
<1> USE DEF IInv, TypeOK, LaneShape, JobShape, Labels, Goto, Fault, Prefilling,
            clientVars, clockVars, slotVars, planVars, engineVars
<1>0. NoJob \in Jobs BY DEF NoJob, Jobs
<1>1. CASE PickedGone BY <1>0, <1>1 DEF PickedGone
<1>2. CASE PickedRefused BY <1>0, <1>2 DEF PickedRefused
<1>3. CASE PickedFault BY <1>0, <1>3 DEF PickedFault
<1>4. CASE StartPrefill
    <2>1. job' \in Jobs /\ job'.req \in Reqs /\ job'.slot \in Slots
        <3>1. PICK s \in Slots, chunks \in 0..MaxChunks :
                job' = [job EXCEPT !.slot = s, !.left = chunks]
            BY <1>4 DEF StartPrefill
        <3>2. job \in Jobs /\ job.req \in Reqs /\ chunks \in Nat
            BY <1>4, ServeAssumption DEF StartPrefill
        <3> QED BY <3>1, <3>2 DEF Jobs
    <2> QED BY <1>4, <2>1 DEF StartPrefill
<1>5. CASE PrefillCancelled BY <1>0, <1>5 DEF PrefillCancelled
<1>6. CASE PrefillChunk
    <2>1. job' \in Jobs /\ job'.req \in Reqs /\ job'.slot \in Slots
        <3>1. PICK quota \in Nat :
                job' = [job EXCEPT !.left = @ - 1, !.started = TRUE, !.quota = quota]
            BY <1>6, ServeAssumption DEF PrefillChunk
        <3>2. job \in Jobs /\ job.req \in Reqs /\ job.slot \in Slots /\ job.left - 1 \in Nat
            BY <1>6 DEF PrefillChunk, Jobs
        <3> QED BY <3>1, <3>2 DEF Jobs
    <2> QED BY <1>6, <2>1 DEF PrefillChunk
<1>7. CASE AdmitFault
    <2>1. cache' \in [Slots -> Snapshots \cup {NoSnap}]
        BY <1>7, PromptFacts DEF AdmitFault
    <2>2. fatal' \in BOOLEAN /\ finish' \in [Reqs -> {"none", "normal", "error"}]
        BY <1>7 DEF AdmitFault
    <2> QED BY <1>0, <1>7, <2>1, <2>2 DEF AdmitFault
<1>8. ASSUME FirstToken
      PROVE  /\ cache' \in [Slots -> Snapshots \cup {NoSnap}]
             /\ job' = NoJob /\ pc' = "admit"
    BY <1>8, PromptFacts DEF FirstToken
<1>9. CASE FirstTokenGone BY <1>0, <1>8, <1>9 DEF FirstTokenGone, FirstToken
<1>10. CASE FirstTokenEnds BY <1>0, <1>8, <1>10 DEF FirstTokenEnds, FirstToken
<1>11. CASE FirstTokenLane
    <2>1. MaxNew[job.req] - 1 \in Nat /\ MaxNew[job.req] - 1 > 0
        BY <1>11, PromptFacts DEF FirstTokenLane, FirstToken
    <2>2. lanes' \in [Slots -> [req : Reqs \cup {NoReq}, left : Nat]] /\ LaneShape'
        BY <1>11, <2>1 DEF FirstTokenLane, FirstToken, FreeLane
    <2> QED BY <1>0, <1>8, <1>11, <2>2 DEF FirstTokenLane, FirstToken
<1> QED BY <1>1, <1>2, <1>3, <1>4, <1>5, <1>6, <1>7, <1>9, <1>10, <1>11 DEF Admit, Prefill

\* A release leaves stamps.
LEMMA ReleaseType ==
    ASSUME TypeOK, NEW done, NEW cancelled, Release(done, cancelled)
    PROVE  rel' \in [Slots -> [at : Instants, normal : BOOLEAN]]
BY DEF TypeOK, Release, Stamp

\* The steps of the running lanes, and the end of the service.
LEMMA StepInv == IInv /\ (Step \/ Die \/ DeadReply) => IInv'
<1> SUFFICES ASSUME IInv, Step \/ Die \/ DeadReply PROVE IInv'
    OBVIOUS
<1> USE DEF IInv, TypeOK, LaneShape, JobShape, Labels, Goto, clientVars, clockVars, planVars
<1>0. NoJob \in Jobs BY DEF NoJob, Jobs
<1>1. CASE PreStep BY <1>0, <1>1 DEF PreStep, slotVars, engineVars
<1>2. CASE NestedStep
    <2>1. job' \in Jobs /\ job'.req \in Reqs /\ job'.slot \in Slots
        <3>1. job \in Jobs /\ job.req \in Reqs /\ job.slot \in Slots /\ job.quota - 1 \in Nat
            BY <1>2 DEF NestedStep, Jobs
        <3> QED BY <1>2, <3>1 DEF NestedStep, Jobs
    <2> QED BY <1>2, <2>1 DEF NestedStep, slotVars, engineVars
<1>3. CASE Sweep
    <2>1. lanes' \in [Slots -> [req : Reqs \cup {NoReq}, left : Nat]] /\ LaneShape'
        BY <1>3 DEF Sweep, FreeLane
    <2> QED BY <1>3, <2>1, ReleaseType DEF Sweep, AfterStep, engineVars
<1>4. CASE Round
    <2>1. PICK stepped \in (SUBSET Busy) \ {{}} :
          \E done \in SUBSET (stepped \ {s \in stepped : lanes[s].req \in gone}) :
            LET cancelled == {s \in stepped : lanes[s].req \in gone}
            IN  /\ AtLimit(stepped \ cancelled) \subseteq done
                /\ lanes' = [s \in Slots |->
                                IF s \in done \cup cancelled THEN FreeLane
                                ELSE IF s \in stepped THEN [lanes[s] EXCEPT !.left = @ - 1]
                                ELSE lanes[s]]
                /\ Release(done, cancelled)
        BY <1>4 DEF Round
    <2>2. lanes' \in [Slots -> [req : Reqs \cup {NoReq}, left : Nat]] /\ LaneShape'
        <3>1. ASSUME NEW s \in stepped, s \in Slots, lanes[s] # FreeLane, lanes[s].left # 1
              PROVE  [lanes[s] EXCEPT !.left = @ - 1] \in [req : Reqs, left : Nat \ {0}]
            <4>1. lanes[s] \in [req : Reqs \cup {NoReq}, left : Nat]
                BY <3>1
            <4>2. lanes[s].req \in Reqs /\ lanes[s].left - 1 \in Nat \ {0}
                BY <3>1, <4>1
            <4> QED BY <4>1, <4>2
        <3> QED BY <2>1, <3>1 DEF AtLimit, Busy, FreeLane
    <2> QED BY <1>4, <2>1, <2>2, ReleaseType DEF Round, AfterStep, engineVars
<1>5. CASE RoundFault
    <2>1. rel' \in [Slots -> [at : Instants, normal : BOOLEAN]]
        BY <1>5 DEF RoundFault, Stamp
    <2>2. lanes' \in [Slots -> [req : Reqs \cup {NoReq}, left : Nat]]
        BY <1>5 DEF RoundFault, FreeLane
    <2>3. fatal' \in BOOLEAN /\ faults' \in Nat /\ finish' \in [Reqs -> {"none", "normal", "error"}]
        BY <1>5 DEF RoundFault, Fault
    <2>4. LaneShape'
        BY <1>5 DEF RoundFault
    <2> QED BY <1>0, <1>5, <2>1, <2>2, <2>3, <2>4 DEF RoundFault
<1>6. CASE Die
    <2>1. lanes' \in [Slots -> [req : Reqs \cup {NoReq}, left : Nat]]
        BY <1>6 DEF Die, FreeLane
    <2>2. waiting' \in Seq(Reqs) /\ rx' \in Seq(Reqs)
        BY <1>6, EmptySeq DEF Die
    <2> QED BY <1>0, <1>6, <2>1, <2>2 DEF Die
<1>7. CASE DeadReply
    <2>1. Head(rx) \in Reqs /\ Tail(rx) \in Seq(Reqs)
        BY <1>7, HeadTailProperties DEF DeadReply
    <2> QED BY <1>7, <2>1 DEF DeadReply, slotVars, engineVars
<1> QED BY <1>1, <1>2, <1>3, <1>4, <1>5, <1>6, <1>7 DEF Step

\* A step that changes nothing keeps the invariant.
LEMMA StutterInv == IInv /\ UNCHANGED vars => IInv'
BY DEF IInv, TypeOK, LaneShape, JobShape, vars, clientVars, clockVars, slotVars, planVars, engineVars

\* IInv holds in every state the server reaches.
THEOREM Invariance == Spec => []IInv
<1>1. IInv /\ [Next]_vars => IInv'
    BY EnvironmentInv, LoopInv, AdmitInv, StepInv, StutterInv DEF Next, Scheduler
<1> QED BY InitInv, <1>1, PTL DEF Spec

\* Every variable always holds a value of its kind.
THEOREM TypeCorrect == Spec => []TypeOK
<1>1. IInv => TypeOK
    BY DEF IInv
<1> QED BY Invariance, <1>1, PTL

-----------------------------------------------------------------------------
(* Slot ownership *)

\* What is left unchanged, or reset, keeps the ownership of the slots.
LEMMA OwnershipKept ==
    ASSUME SlotOwnership, lanes' = lanes, cache' = cache, job'.slot \in {job.slot, NoSlot}
    PROVE  SlotOwnership'
BY DEF SlotOwnership, Busy, SnapOf

\* A lane that is freed, or goes on with the same request, keeps it as well.
LEMMA OwnershipSteps ==
    ASSUME SlotOwnership, cache' = cache, job'.slot \in {job.slot, NoSlot},
           job.slot # NoSlot => job.slot \in Slots,
           \A s \in Slots : \/ lanes'[s] = FreeLane
                            \/ s \in Busy /\ lanes'[s].req = lanes[s].req
    PROVE  SlotOwnership'
BY DEF SlotOwnership, Busy, SnapOf

\* Taking a request out of the queue touches no lane.
LEMMA TakeSlot ==
    ASSUME NEW i, NEW allowed, NEW kind, Take(i, allowed, kind)
    PROVE  job'.slot = NoSlot /\ lanes' = lanes /\ cache' = cache
BY DEF Take, NoJob, slotVars

\* What the admission knows of a request just taken.
LEMMA TakeKind ==
    ASSUME NEW i, NEW allowed, NEW kind, Take(i, allowed, kind)
    PROVE  /\ job' = [req |-> waiting[i], slot |-> NoSlot, allowed |-> allowed, kind |-> kind,
                      left |-> 0, started |-> FALSE, quota |-> 0]
           /\ pc' = "picked" /\ now' = now /\ arrived' = arrived /\ handed' = handed /\ rx' = rx
BY DEF Take, NoJob, clockVars, clientVars

\* Every step keeps the ownership of slots.
LEMMA OwnershipStep == IInv /\ SlotOwnership /\ [Next]_vars => SlotOwnership'
<1> SUFFICES ASSUME IInv, SlotOwnership, [Next]_vars PROVE SlotOwnership'
    OBVIOUS
<1> USE DEF Goto, slotVars
<1>0. NoJob.slot = NoSlot /\ job.slot \in Slots \cup {NoSlot} /\ lanes \in [Slots -> [req : Reqs \cup {NoReq}, left : Nat]]
      /\ cache \in [Slots -> Snapshots \cup {NoSnap}]
    BY DEF NoJob, IInv, TypeOK, Jobs
<1>1. CASE Environment
    BY <1>1, OwnershipKept
        DEF Environment, Receive, Enqueue, Refuse, Leave, HitStopString, Tick
<1>2. CASE Loop
    BY <1>0, <1>2, TakeSlot, OwnershipKept
        DEF Loop, TopFatal, TopIdle, Drain, AdmitDone, PopFront, DrainAgain, DropGone
<1>3. CASE Plan
    <2>1. CASE PlanOwn \/ PlanUnreserved \/ PlanForced
        BY <2>1, TakeSlot, OwnershipKept DEF PlanOwn, PlanUnreserved, PlanForced
    <2>2. CASE PlanWait \/ PollDeadline \/ PollRequest
        BY <1>0, <2>2, OwnershipKept DEF PlanWait, PollDeadline, PollRequest
    <2> QED BY <1>3, <2>1, <2>2 DEF Plan
<1>4. CASE Admit
    <2>1. CASE PickedGone \/ PickedRefused \/ PickedFault
        BY <1>0, <2>1, OwnershipKept DEF PickedGone, PickedRefused, PickedFault
    <2>2. CASE StartPrefill
        <3>1. PICK s \in Slots, deep \in SUBSET Slots, chunks \in 0..MaxChunks :
                /\ IsPick(s, deep)
                /\ job' = [job EXCEPT !.slot = s, !.left = chunks]
                /\ cache' = [cache EXCEPT ![s] = NoSnap]
            BY <2>2 DEF StartPrefill
        <3>2. s \in Idle /\ lanes' = lanes
            BY <2>2, <3>1, PickIsFree DEF StartPrefill
        <3>3. job'.slot = s
            BY <2>2, <3>1 DEF StartPrefill, IInv, TypeOK, Jobs
        <3> QED BY <1>0, <3>1, <3>2, <3>3 DEF SlotOwnership, Idle, Busy, SnapOf
    <2> QED BY <1>4, <2>1, <2>2 DEF Admit
<1>5. CASE Prefill
    <2>1. CASE PrefillCancelled
        BY <1>0, <2>1, OwnershipKept DEF PrefillCancelled
    <2>2. CASE PrefillChunk
        BY <1>0, <2>2, OwnershipKept DEF PrefillChunk, IInv, TypeOK, Jobs
    <2>3. job.slot \in Slots /\ lanes[job.slot] = FreeLane /\ job.req \in Reqs
        BY <1>5, SlotFacts DEF Prefill, PrefillCancelled, PrefillChunk, AdmitFault, FirstTokenGone,
            FirstTokenEnds, FirstTokenLane, FirstToken, Prefilling, IInv, JobShape, SlotOwnership
    <2>4. CASE AdmitFault \/ FirstTokenGone \/ FirstTokenEnds
        <3>1. lanes' = lanes /\ job' = NoJob /\ \A s \in Slots \ {job.slot} : cache'[s] = cache[s]
            BY <1>0, <2>4 DEF AdmitFault, FirstTokenGone, FirstTokenEnds, FirstToken
        <3> QED BY <1>0, <2>3, <3>1 DEF SlotOwnership, Busy, SnapOf
    <2>5. CASE FirstTokenLane
        <3>1. /\ job' = NoJob
              /\ lanes' = [lanes EXCEPT ![job.slot] = [req |-> job.req, left |-> MaxNew[job.req] - 1]]
              /\ cache' = [cache EXCEPT ![job.slot] = SnapOf(job.req)]
            BY <2>5 DEF FirstTokenLane, FirstToken
        <3>2. cache'[job.slot] = SnapOf(lanes'[job.slot].req)
            BY <1>0, <2>3, <3>1
        <3>3. \A s \in Slots \ {job.slot} : lanes'[s] = lanes[s] /\ cache'[s] = cache[s]
            BY <1>0, <3>1
        <3> QED BY <1>0, <2>3, <3>1, <3>2, <3>3 DEF SlotOwnership, Busy, SnapOf
    <2> QED BY <1>5, <2>1, <2>2, <2>4, <2>5 DEF Prefill
<1>6. CASE Step
    <2>1. CASE PreStep \/ NestedStep
        BY <1>0, <2>1, OwnershipKept DEF PreStep, NestedStep, IInv, TypeOK, Jobs
    <2>2. CASE Sweep
        <3>1. \A s \in Slots : lanes'[s] = FreeLane \/ (s \in Busy /\ lanes'[s] = lanes[s])
            <4>1. PICK swept \in SUBSET Busy :
                    lanes' = [s \in Slots |-> IF s \in swept THEN FreeLane ELSE lanes[s]]
                BY <2>2 DEF Sweep
            <4> QED BY <4>1 DEF Busy
        <3> QED BY <1>0, <2>2, <3>1, OwnershipSteps DEF Sweep, AfterStep
    <2>3. CASE Round
        <3>1. \A s \in Slots : \/ lanes'[s] = FreeLane
                               \/ s \in Busy /\ lanes'[s].req = lanes[s].req
            BY <1>0, <2>3 DEF Round, Busy
        <3> QED BY <1>0, <2>3, <3>1, OwnershipSteps DEF Round, AfterStep
    <2>4. CASE RoundFault
        BY <1>0, <2>4, OwnershipSteps DEF RoundFault
    <2> QED BY <1>6, <2>1, <2>2, <2>3, <2>4 DEF Step
<1>7. CASE Die
    BY <1>0, <1>7, OwnershipSteps DEF Die
<1>8. CASE DeadReply
    BY <1>8, OwnershipKept DEF DeadReply
<1>9. CASE UNCHANGED vars
    BY <1>9, OwnershipKept DEF vars
<1> QED BY <1>1, <1>2, <1>3, <1>4, <1>5, <1>6, <1>7, <1>8, <1>9 DEF Next, Scheduler

\* The slot of a prompt being prefilled is free and without a snapshot whatever the
\* interleaved steps do, and a running lane's slot keeps the snapshot of its own prompt.
THEOREM SlotsOwned == Spec => []SlotOwnership
<1>1. Init => SlotOwnership
    BY DEF Init, SlotOwnership, Busy, NoJob
<1>2. IInv /\ SlotOwnership /\ [Next]_vars => SlotOwnership'
    BY OwnershipStep
<1> QED BY Invariance, <1>1, <1>2, PTL DEF Spec

-----------------------------------------------------------------------------
(* A sticky device error *)

\* The thread has seen the error wherever it goes on: it never prefills or steps again.
FatalInv == fatal => pc \in {"top", "admit", "prestep", "die", "dead", "exited"}

\* Every step keeps a broken engine on its way to the end.
LEMMA FatalStep == FatalInv /\ [Next]_vars => FatalInv'
<1> SUFFICES ASSUME FatalInv, [Next]_vars PROVE FatalInv'
    OBVIOUS
<1> USE DEF FatalInv, Goto, engineVars
<1>1. CASE Environment
    BY <1>1 DEF Environment, Receive, Enqueue, Refuse, Leave, HitStopString, Tick
<1>2. CASE Loop
    BY <1>2 DEF Loop, TopFatal, TopIdle, Drain, AdmitDone, PopFront, DrainAgain, DropGone, Take,
                Admitting
<1>3. CASE Plan
    BY <1>3 DEF Plan, PlanOwn, PlanUnreserved, PlanForced, PlanWait, PollDeadline, PollRequest,
                Take, Planning, Admitting
<1>4. CASE Admit
    BY <1>4 DEF Admit, PickedGone, PickedRefused, PickedFault, StartPrefill
<1>5. CASE Prefill
    BY <1>5 DEF Prefill, PrefillCancelled, PrefillChunk, AdmitFault, FirstTokenGone,
                FirstTokenEnds, FirstTokenLane, FirstToken, Prefilling
<1>6. CASE Step
    BY <1>6 DEF Step, PreStep, NestedStep, Sweep, Round, RoundFault, AfterStep
<1>7. CASE Die \/ DeadReply
    BY <1>7 DEF Die, DeadReply
<1>8. CASE UNCHANGED vars
    BY <1>8 DEF vars
<1> QED BY <1>1, <1>2, <1>3, <1>4, <1>5, <1>6, <1>7, <1>8 DEF Next, Scheduler

\* A reply ends normally only with its first token or in a round.
LEMMA NormalEnd ==
    ASSUME TypeOK, [Next]_vars, NEW r \in Reqs, finish[r] = "none", finish'[r] = "normal"
    PROVE  pc \in {"prefill", "round"}
<1> USE DEF TypeOK
<1>1. CASE Environment
    BY <1>1 DEF Environment, Receive, Enqueue, Refuse, Leave, HitStopString, Tick
<1>2. CASE Loop
    BY <1>2 DEF Loop, TopFatal, TopIdle, Drain, AdmitDone, PopFront, DrainAgain, DropGone, Take
<1>3. CASE Plan
    BY <1>3 DEF Plan, PlanOwn, PlanUnreserved, PlanForced, PlanWait, PollDeadline, PollRequest, Take
<1>4. CASE Admit
    BY <1>4 DEF Admit, PickedGone, PickedRefused, PickedFault, StartPrefill
<1>5. CASE Prefill
    BY <1>5 DEF Prefill, PrefillCancelled, PrefillChunk, AdmitFault, FirstTokenGone,
                FirstTokenEnds, FirstTokenLane, FirstToken, Prefilling
<1>6. CASE Step
    BY <1>6 DEF Step, PreStep, NestedStep, Sweep, Round, RoundFault
<1>7. CASE Die \/ DeadReply
    BY <1>7 DEF Die, DeadReply
<1>8. CASE UNCHANGED vars
    BY <1>8 DEF vars
<1> QED BY <1>1, <1>2, <1>3, <1>4, <1>5, <1>6, <1>7, <1>8 DEF Next, Scheduler

\* Once the engine hit a sticky device error, no reply ends as if it were complete.
THEOREM FatalStops == Spec => FatalStopsService
<1>1. Init => FatalInv
    BY DEF Init, FatalInv
<1>2. IInv /\ FatalInv /\ [Next]_vars
        => [fatal => \A r \in Reqs : finish[r] = "none" => finish'[r] # "normal"]_vars
    BY NormalEnd DEF IInv, FatalInv
<1> QED BY Invariance, FatalStep, <1>1, <1>2, PTL DEF Spec, FatalStopsService

-----------------------------------------------------------------------------
(* The limiter of forced takes *)

\* The limiter remembers the last forced take.
LimiterInv ==
    lastForced # Never => lastForced <= now /\ (Swap # 0 => nextForced = lastForced + Swap)

\* Every step keeps the limiter, and a forced take respects it.
LEMMA LimiterStep ==
    IInv /\ LimiterInv /\ [Next]_vars
        => LimiterInv' /\ [pc = "admit" /\ pc' = "picked" /\ job'.kind = "forced" /\ lastForced # Never
                              => now - lastForced >= Swap]_vars
<1> SUFFICES ASSUME IInv, LimiterInv, [Next]_vars
             PROVE  /\ LimiterInv'
                    /\ pc = "admit" /\ pc' = "picked" /\ job'.kind = "forced" /\ lastForced # Never
                        => now - lastForced >= Swap
    OBVIOUS
<1> USE DEF LimiterInv, clockVars
<1>0. now \in Nat /\ lastForced \in Instants /\ nextForced \in Instants /\ Swap \in Nat
    BY PolicyAssumption DEF IInv, TypeOK
<1>1. CASE Environment
    BY <1>0, <1>1 DEF Environment, Receive, Enqueue, Refuse, Leave, HitStopString, Tick, planVars
<1>2. CASE Loop
    <2>1. CASE PopFront
        BY <2>1, TakeKind DEF PopFront
    <2> QED BY <1>2, <2>1 DEF Loop, TopFatal, TopIdle, Drain, AdmitDone, DrainAgain, DropGone, Goto,
                planVars
<1>3. CASE Plan
    <2>1. CASE PlanOwn \/ PlanUnreserved
        <3>1. CASE PlanOwn
            <4>1. PICK i \in DOMAIN waiting : Take(i, {Waits[i].own}, "own")
                BY <3>1 DEF PlanOwn
            <4> QED BY <3>1, <4>1, TakeKind DEF PlanOwn
        <3>2. CASE PlanUnreserved
            BY <3>2, TakeKind DEF PlanUnreserved
        <3> QED BY <2>1, <3>1, <3>2
    <2>2. CASE PlanForced
        <3>1. nextForced = Never \/ now >= nextForced
            BY <2>2 DEF PlanForced, ForcedRule, HeadMayForce
        <3>2. nextForced' = ArmLimiter(now) /\ lastForced' = now /\ now' = now
            BY <2>2, TakeKind DEF PlanForced
        <3> QED BY <1>0, <3>1, <3>2 DEF ArmLimiter
    <2>3. CASE PlanWait \/ PollDeadline \/ PollRequest
        BY <2>3 DEF PlanWait, PollDeadline, PollRequest, Goto, planVars
    <2> QED BY <1>3, <2>1, <2>2, <2>3 DEF Plan
<1>4. CASE Admit \/ Prefill
    BY <1>4 DEF Admit, PickedGone, PickedRefused, PickedFault, StartPrefill, Prefill,
                PrefillCancelled, PrefillChunk, AdmitFault, FirstTokenGone, FirstTokenEnds,
                FirstTokenLane, FirstToken, Prefilling, planVars
<1>5. CASE Step \/ Die \/ DeadReply
    BY <1>5 DEF Step, PreStep, NestedStep, Sweep, Round, RoundFault, Die, DeadReply, planVars
<1>6. CASE UNCHANGED vars
    BY <1>6 DEF vars, planVars
<1> QED BY <1>1, <1>2, <1>3, <1>4, <1>5, <1>6 DEF Next, Scheduler

\* Two forced takes are at least S apart.
THEOREM ForcedApart == Spec => ForcedSpacing
<1>1. Init => LimiterInv
    BY DEF Init, LimiterInv
<1> QED BY Invariance, LimiterStep, <1>1, PTL DEF Spec, ForcedSpacing
-----------------------------------------------------------------------------
(***************************************************************************)
(* The reservation policy: the decision is taken at one instant and        *)
(* carried out later, while the clock goes on and requests arrive.         *)
(***************************************************************************)

(* The longest snapshot that fits a prompt exists. *)

\* s comes before t: a shorter snapshot, or the same length in a lower slot.
Precedes(s, t) == cache[s].len < cache[t].len \/ (cache[s].len = cache[t].len /\ s <= t)

\* Among finitely many lanes one comes last.
LEMMA LastExists ==
    ASSUME \A s \in Slots : cache[s] # NoSnap => cache[s].len \in Nat,
           NEW T \in SUBSET {s \in Slots : cache[s] # NoSnap}, T # {}
    PROVE  \E s \in T : \A t \in T : Precedes(t, s)
<1> DEFINE U == {s \in Slots : cache[s] # NoSnap}
           HasLast(V) == \E s \in V : \A t \in V : Precedes(t, s)
           Bad == {V \in SUBSET U : V # {} /\ ~HasLast(V)}
<1>1. IsFiniteSet(U) /\ U \subseteq Nat
    BY PolicyAssumption, FS_Subset
<1>2. SUFFICES ASSUME Bad # {} PROVE FALSE
    OBVIOUS
<1>3. Bad \subseteq FiniteSubsetsOf(U)
    BY <1>1, FS_Subset DEF FiniteSubsetsOf
<1>4. PICK V \in Bad : \A W \in Bad : <<W, V>> \notin StrictSubsetOrdering(U)
    BY <1>2, <1>3, FS_StrictSubsetOrderingWellFounded, WFMin
<1>5. PICK x \in V : TRUE
    OBVIOUS
<1>6. <<V \ {x}, V>> \in StrictSubsetOrdering(U)
    BY <1>5 DEF StrictSubsetOrdering
<1>7. V \ {x} = {} \/ HasLast(V \ {x})
    BY <1>4, <1>6
<1>8. \A s, t \in U : Precedes(s, t) \/ Precedes(t, s)
    BY <1>1 DEF Precedes
<1>9. \A s, t, u \in U : Precedes(s, t) /\ Precedes(t, u) => Precedes(s, u)
    BY <1>1 DEF Precedes
<1>10. CASE V \ {x} = {}
    BY <1>5, <1>8, <1>10
<1>11. CASE HasLast(V \ {x})
    <2>1. PICK s \in V \ {x} : \A t \in V \ {x} : Precedes(t, s)
        BY <1>11
    <2>2. CASE Precedes(x, s)
        BY <2>1, <2>2
    <2>3. CASE Precedes(s, x)
        <3>1. \A t \in V : Precedes(t, x)
            BY <1>5, <1>8, <1>9, <2>1, <2>3
        <3> QED BY <1>5, <3>1
    <2> QED BY <1>5, <1>8, <2>1, <2>2, <2>3
<1> QED BY <1>7, <1>10, <1>11

\* A queued request without a slot of its own continues no free lane's snapshot.
LEMMA NoOwnNoHit ==
    ASSUME TypeOK, NEW r \in Reqs, OwnSlot(r) \notin Idle
    PROVE  \A s \in Idle : ~ContinuedBy(cache[s], Prompt[r])
<1>1. SUFFICES ASSUME Hits(r, Idle) # {} PROVE FALSE
    BY DEF Hits
<1>2. \A s \in Slots : cache[s] # NoSnap => cache[s].len \in Nat
    BY DEF TypeOK, Snapshots
<1>3. Hits(r, Idle) \subseteq {s \in Slots : cache[s] # NoSnap}
    BY DEF Hits, Idle, ContinuedBy
<1>4. PICK s \in Hits(r, Idle) : \A t \in Hits(r, Idle) : Precedes(t, s)
    BY <1>1, <1>2, <1>3, LastExists
<1>5. s \in Idle /\ IsLongestHit(s, r, Idle)
    BY <1>4 DEF IsLongestHit, IsLongest, Precedes, Hits
<1> QED BY <1>5 DEF OwnSlot

\* A request's own slot is free and holds a snapshot the request continues.
LEMMA OwnSlotFits ==
    ASSUME NEW r, OwnSlot(r) \in Slots
    PROVE  ContinuedBy(cache[OwnSlot(r)], Prompt[r])
<1>1. \E s \in Idle : IsLongestHit(s, r, Idle)
    BY SlotFacts DEF OwnSlot
<1> QED BY <1>1 DEF OwnSlot, IsLongestHit, IsLongest, Hits

-----------------------------------------------------------------------------
(* Queued requests have arrived *)

\* Only requests that were handed over are queued or admitted, and each has its stamp.
QueueInv ==
    /\ rx \in Seq(handed) /\ waiting \in Seq(handed)
    /\ job.req # NoReq => job.req \in handed
    /\ \A r \in handed : arrived[r] # Never

\* The reservation arm, on or off, took the job as it says.
AdmissionInv ==
    pc = "picked" =>
        /\ job.kind \in {"fifo", "own", "unreserved", "forced"}
        /\ job.kind = "fifo" => Reserve = 0
        /\ job.kind = "own" => \A s \in job.allowed : ContinuedBy(cache[s], Prompt[job.req])
        /\ job.kind = "unreserved" => \A s \in job.allowed : ~Reserved(Views[s], now)
        /\ job.kind = "forced" => now - arrived[job.req] >= Patience

\* A request gets a slot other than its own only if no queued request continues the
\* snapshot of a free lane.
StrangerInv ==
    pc = "picked" /\ job.kind \in {"unreserved", "forced"} =>
        \A i \in DOMAIN waiting, s \in Idle : ~ContinuedBy(cache[s], Prompt[waiting[i]])

\* A queued request keeps its place in time.
LEMMA QueueStep == IInv /\ QueueInv /\ [Next]_vars => QueueInv'
<1> SUFFICES ASSUME IInv, QueueInv, [Next]_vars PROVE QueueInv'
    OBVIOUS
<1> USE DEF QueueInv, Goto, clientVars
<1>0. NoJob.req = NoReq /\ handed \subseteq Reqs /\ arrived \in [Reqs -> Instants] /\ job \in Jobs
    BY DEF NoJob, IInv, TypeOK
<1>1. CASE Environment
    <2>1. ASSUME NEW r \in Reqs, Receive(r) PROVE QueueInv'
        BY <1>0, <2>1 DEF Receive, IInv, TypeOK
    <2>2. ASSUME NEW r \in Reqs, Enqueue(r) PROVE QueueInv'
        <3>1. handed' = handed \cup {r} /\ rx \in Seq(handed') /\ waiting \in Seq(handed')
            BY <2>2, SeqMonotonic DEF Enqueue
        <3>2. rx' \in Seq(handed')
            BY <2>2, <3>1 DEF Enqueue
        <3> QED BY <1>0, <2>2, <3>1, <3>2 DEF Enqueue
    <2>3. ASSUME NEW r \in Reqs, Refuse(r) PROVE QueueInv'
        <3>1. handed' = handed \cup {r} /\ rx \in Seq(handed') /\ waiting \in Seq(handed')
            BY <2>3, SeqMonotonic DEF Refuse
        <3> QED BY <1>0, <2>3, <3>1 DEF Refuse
    <2>4. CASE \E r \in Reqs : Leave(r) \/ HitStopString(r)
        BY <2>4 DEF Leave, HitStopString
    <2>5. CASE Tick
        BY <2>5 DEF Tick
    <2> QED BY <1>1, <2>1, <2>2, <2>3, <2>4, <2>5 DEF Environment
<1>2. ASSUME NEW i \in DOMAIN waiting, NEW allowed, NEW kind, Take(i, allowed, kind)
      PROVE  QueueInv'
    <2>1. waiting[i] \in handed /\ waiting' \in Seq(handed)
        BY <1>2, RemoveAtType, LenProperties, ElementOfSeq DEF Take
    <2> QED BY <1>2, <2>1, TakeKind
<1>3. CASE Loop
    <2>1. CASE Drain \/ DrainAgain
        <3>1. waiting' = waiting \o rx /\ rx' = <<>> /\ handed' = handed /\ arrived' = arrived
            BY <2>1 DEF Drain, DrainAgain
        <3>2. job'.req \in {job.req, NoReq}
            BY <1>0, <2>1 DEF Drain, DrainAgain
        <3> QED BY <3>1, <3>2, ConcatProperties, EmptySeq
    <2>2. CASE PopFront
        BY <1>2, <2>2, QueueFacts DEF PopFront
    <2>3. CASE DropGone
        BY <2>3, LenProperties, RemoveAtType DEF DropGone
    <2> QED BY <1>0, <1>3, <2>1, <2>2, <2>3 DEF Loop, TopFatal, TopIdle, AdmitDone
<1>4. CASE Plan
    <2>1. CASE PlanOwn
        BY <1>2, <2>1 DEF PlanOwn
    <2>2. CASE PlanUnreserved \/ PlanForced
        <3>1. waiting # <<>>
            BY <2>2 DEF PlanUnreserved, UnreservedRule, PlanForced, ForcedRule, Waits
        <3> QED BY <1>2, <2>2, <3>1, QueueFacts DEF PlanUnreserved, PlanForced
    <2>3. CASE PlanWait \/ PollDeadline
        BY <1>0, <2>3 DEF PlanWait, PollDeadline
    <2>4. CASE PollRequest
        BY <1>0, <2>4, HeadTailProperties DEF PollRequest
    <2> QED BY <1>4, <2>1, <2>2, <2>3, <2>4 DEF Plan
<1>5. CASE Admit \/ Prefill
    BY <1>0, <1>5 DEF Admit, PickedGone, PickedRefused, PickedFault, StartPrefill, Prefill,
        PrefillCancelled, PrefillChunk, AdmitFault, FirstTokenGone, FirstTokenEnds, FirstTokenLane,
        FirstToken, Jobs
<1>6. CASE Step
    BY <1>0, <1>6 DEF Step, PreStep, NestedStep, Sweep, Round, RoundFault, AfterStep, Jobs
<1>7. CASE Die \/ DeadReply
    <2>1. CASE Die
        BY <1>0, <2>1, EmptySeq DEF Die
    <2>2. CASE DeadReply
        BY <1>0, <2>2, HeadTailProperties DEF DeadReply
    <2> QED BY <1>7, <2>1, <2>2
<1>8. CASE UNCHANGED vars
    BY <1>8 DEF vars
<1> QED BY <1>1, <1>3, <1>4, <1>5, <1>6, <1>7, <1>8 DEF Next, Scheduler

-----------------------------------------------------------------------------
(* From the decision to the admission *)

\* A reservation that has run out stays out, whatever time passes.
LEMMA ReservedExpires ==
    ASSUME TypeOK, NEW s \in Slots, now' \in {now, now + 1}, UNCHANGED <<lanes, cache, rel>>,
           ~Reserved(Views[s], now)
    PROVE  ~Reserved(Views[s], now)'
<1>1. Views' = Views
    BY DEF Views
<1>2. now \in Nat /\ Views[s].releasedAt \in Int /\ Reserve \in Nat
    BY PolicyAssumption DEF TypeOK, Views
<1> QED BY <1>1, <1>2 DEF Reserved

\* Only the admission loop reaches the admission, by a take.
LEMMA OnlyTakes ==
    ASSUME [Next]_vars, pc' = "picked"
    PROVE  \/ Environment /\ pc = "picked"
           \/ UNCHANGED vars
           \/ PopFront \/ PlanOwn \/ PlanUnreserved \/ PlanForced
BY DEF Next, Scheduler, Environment, Receive, Enqueue, Refuse, Leave, HitStopString, Tick, Loop,
       TopFatal, TopIdle, Drain, AdmitDone, DrainAgain, DropGone, Plan, PlanWait, PollDeadline,
       PollRequest, Admit, PickedGone, PickedRefused, PickedFault, StartPrefill, Prefill,
       PrefillCancelled, PrefillChunk, AdmitFault, FirstTokenGone, FirstTokenEnds, FirstTokenLane,
       FirstToken, Prefilling, Step, PreStep, NestedStep, Sweep, Round, RoundFault, AfterStep,
       Die, DeadReply, Goto, Admitting

\* While a decision waits to be carried out, only the clock moves.
LEMMA EnvironmentKeeps ==
    ASSUME IInv, QueueInv, Environment, pc = "picked"
    PROVE  /\ UNCHANGED <<lanes, cache, rel, waiting, job>> /\ now' \in {now, now + 1}
           /\ job.req \in Reqs /\ arrived'[job.req] = arrived[job.req] /\ arrived[job.req] \in Nat
<1>1. job.req \in Reqs /\ arrived \in [Reqs -> Instants] /\ arrived[job.req] # Never
    BY PromptFacts DEF IInv, TypeOK, JobShape, QueueInv
<1>2. UNCHANGED <<lanes, cache, rel, waiting, job>> /\ now' \in {now, now + 1}
    BY DEF Environment, Receive, Enqueue, Refuse, Leave, HitStopString, Tick, slotVars, clockVars
<1>3. arrived'[job.req] = arrived[job.req]
    BY <1>1 DEF Environment, Receive, Enqueue, Refuse, Leave, HitStopString, Tick, clientVars
<1> QED BY <1>1, <1>2, <1>3

\* Every step keeps what the plan decided true until the pick.
LEMMA AdmissionStep == IInv /\ QueueInv /\ AdmissionInv /\ [Next]_vars => AdmissionInv'
<1> SUFFICES ASSUME IInv, QueueInv, AdmissionInv, [Next]_vars, pc' = "picked" PROVE AdmissionInv'
    BY DEF AdmissionInv
<1>1. CASE Environment /\ pc = "picked"
    <2>1. \A s \in Slots : ~Reserved(Views[s], now) => ~Reserved(Views[s], now)'
        BY <1>1, EnvironmentKeeps, ReservedExpires DEF IInv
    <2>2. job.allowed \subseteq Slots /\ now \in Nat /\ Patience \in Nat
        BY PolicyAssumption DEF IInv, TypeOK, Jobs
    <2> QED BY <1>1, <2>1, <2>2, EnvironmentKeeps DEF AdmissionInv
<1>2. CASE PopFront
    <2>1. Reserve = 0 /\ job'.kind = "fifo"
        BY <1>2, TakeKind DEF PopFront
    <2> QED BY <2>1 DEF AdmissionInv
<1>3. CASE PlanOwn
    <2>1. PICK i \in DOMAIN waiting :
            IsOldest(i, Waits, OwnHolders(Views, Waits)) /\ Take(i, {Waits[i].own}, "own")
        BY <1>3 DEF PlanOwn
    <2>2. Waits[i].own = OwnSlot(waiting[i]) /\ Waits[i].own \in Slots
        BY <2>1 DEF IsOldest, OwnHolders, Free, Waits
    <2>3. ContinuedBy(cache[OwnSlot(waiting[i])], Prompt[waiting[i]])
        BY <2>2, OwnSlotFits
    <2>4. job'.kind = "own" /\ job'.allowed = {OwnSlot(waiting[i])} /\ job'.req = waiting[i] /\ cache' = cache
        BY <2>1, <2>2, TakeKind, TakeSlot
    <2> QED BY <2>3, <2>4 DEF AdmissionInv, ContinuedBy
<1>4. CASE PlanUnreserved
    <2>1. Take(1, Unreserved(Views, now), "unreserved")
        BY <1>4 DEF PlanUnreserved
    <2>2. job'.kind = "unreserved" /\ job'.allowed = Unreserved(Views, now) /\ now' = now
        BY <2>1, TakeKind
    <2>3. UNCHANGED <<lanes, cache, rel>>
        BY <2>1 DEF Take, slotVars
    <2>4. \A s \in Unreserved(Views, now) : s \in Slots /\ ~Reserved(Views[s], now)
        BY DEF Unreserved, Free
    <2>5. \A s \in Unreserved(Views, now) : ~Reserved(Views[s], now)'
        BY <2>2, <2>3, <2>4, ReservedExpires DEF IInv
    <2> QED BY <2>2, <2>5 DEF AdmissionInv
<1>5. CASE PlanForced
    <2>1. Take(1, Free(Views), "forced") /\ waiting # <<>>
        BY <1>5 DEF PlanForced, ForcedRule, Waits
    <2>2. job'.kind = "forced" /\ job'.req = waiting[1] /\ now' = now /\ arrived' = arrived
        BY <2>1, TakeKind
    <2>3. Waits[1].arrivedAt = arrived[waiting[1]]
        BY <2>1, QueueFacts DEF Waits
    <2>4. now - Waits[1].arrivedAt >= Patience
        BY <1>5 DEF PlanForced, ForcedRule, HeadMayForce
    <2> QED BY <2>2, <2>3, <2>4 DEF AdmissionInv
<1>6. CASE UNCHANGED vars
    BY <1>6 DEF vars, AdmissionInv, slotVars, clockVars, clientVars, Views, Reserved, ContinuedBy
<1> QED BY <1>1, <1>2, <1>3, <1>4, <1>5, <1>6, OnlyTakes

\* The slot that changes hands was free and allowed.
LEMMA HandsOverFree ==
    ASSUME IInv, [Next]_vars, NEW s \in Slots, HandsOver(s)
    PROVE  s \in Idle \cap job.allowed
<1>1. StartPrefill
    BY DEF HandsOver, Next, Scheduler, Environment, Receive, Enqueue, Refuse, Leave,
        HitStopString, Tick, Loop, TopFatal, TopIdle, Drain, AdmitDone, PopFront, DrainAgain,
        DropGone, Plan, PlanOwn, PlanUnreserved, PlanForced, PlanWait, PollDeadline,
        PollRequest, Admit, PickedGone, PickedRefused, PickedFault, Prefill,
        PrefillCancelled, PrefillChunk, AdmitFault, FirstTokenGone, FirstTokenEnds,
        FirstTokenLane, FirstToken, Prefilling, Step, PreStep, NestedStep, Sweep, Round,
        RoundFault, Die, DeadReply, Goto, Admitting, Planning, vars
<1>2. PICK t \in Slots, deep \in SUBSET Slots, chunks \in 0..MaxChunks :
        IsPick(t, deep) /\ job' = [job EXCEPT !.slot = t, !.left = chunks]
    BY <1>1 DEF StartPrefill
<1>3. job'.slot = t
    BY <1>2 DEF IInv, TypeOK, Jobs
<1> QED BY <1>2, <1>3, PickIsFree DEF HandsOver

\* A reserved lane changes hands only by a forced take of a request past its patience, or
\* goes back to a request that continues its conversation.
THEOREM ReservationKept == Spec => ReservationHonoured
<1>1. Init => QueueInv /\ AdmissionInv
    BY EmptySeq DEF Init, QueueInv, AdmissionInv, NoJob
<1>2. ASSUME IInv, AdmissionInv, [Next]_vars, NEW s \in Slots, HandsOver(s),
             Reserved(Views[s], now), ~ContinuedBy(cache[s], Prompt[job.req])
      PROVE  job.kind = "forced" /\ now - arrived[job.req] >= Patience
    <2>1. s \in job.allowed
        BY <1>2, HandsOverFree
    <2>2. Reserve # 0
        BY <1>2 DEF Reserved
    <2> QED BY <1>2, <2>1, <2>2 DEF AdmissionInv, HandsOver
<1>3. IInv /\ AdmissionInv /\ [Next]_vars
        => [\A s \in Slots :
              HandsOver(s) /\ Reserved(Views[s], now) /\ ~ContinuedBy(cache[s], Prompt[job.req])
                => job.kind = "forced" /\ now - arrived[job.req] >= Patience]_vars
    BY <1>2
<1> QED BY Invariance, QueueStep, AdmissionStep, <1>1, <1>3, PTL DEF Spec, ReservationHonoured

-----------------------------------------------------------------------------
(* Whose snapshot an admission destroys *)

\* Every step keeps a stranger off the lanes that a queued request continues.
LEMMA StrangerStep == IInv /\ QueueInv /\ StrangerInv /\ [Next]_vars => StrangerInv'
<1> SUFFICES ASSUME IInv, QueueInv, StrangerInv, [Next]_vars, pc' = "picked" PROVE StrangerInv'
    BY DEF StrangerInv
<1>1. CASE Environment /\ pc = "picked"
    <2>1. Idle' = Idle
        BY <1>1, EnvironmentKeeps DEF Idle, Busy
    <2> QED BY <1>1, <2>1, EnvironmentKeeps DEF StrangerInv, ContinuedBy
<1>2. CASE PopFront \/ PlanOwn
    <2>1. job'.kind \in {"fifo", "own"}
        <3>1. CASE PopFront
            BY <3>1, TakeKind DEF PopFront
        <3>2. CASE PlanOwn
            <4>1. PICK i \in DOMAIN waiting : Take(i, {Waits[i].own}, "own")
                BY <3>2 DEF PlanOwn
            <4> QED BY <4>1, TakeKind
        <3> QED BY <1>2, <3>1, <3>2
    <2> QED BY <2>1 DEF StrangerInv
<1>3. CASE PlanUnreserved \/ PlanForced
    <2>1. Reserve # 0 /\ waiting # <<>> /\ ~OwnRule(Views, Waits)
        BY <1>3 DEF PlanUnreserved, UnreservedRule, PlanForced, ForcedRule, Planning, Waits
    <2>2. OwnHolders(Views, Waits) = {}
        BY <2>1, QueueFacts DEF OwnRule
    <2>3. \A j \in DOMAIN waiting : OwnSlot(waiting[j]) \notin Idle
        BY <2>2 DEF OwnHolders, Waits, Free, Views, Idle, Busy
    <2>4. waiting \in Seq(Reqs) /\ \A j \in DOMAIN waiting : waiting[j] \in Reqs
        BY LenProperties, ElementOfSeq DEF IInv, TypeOK
    <2>5. \A j \in DOMAIN waiting, s \in Idle : ~ContinuedBy(cache[s], Prompt[waiting[j]])
        BY <2>3, <2>4, NoOwnNoHit DEF IInv
    <2>6. UNCHANGED <<lanes, cache>> /\ waiting' = RemoveAt(waiting, 1)
        BY <1>3 DEF PlanUnreserved, PlanForced, Take, slotVars
    <2>7. \A i \in DOMAIN waiting' : \E j \in DOMAIN waiting : waiting'[i] = waiting[j]
        BY <2>1, <2>4, <2>6, QueueFacts, LenProperties, RemoveAtElements
    <2> QED BY <2>5, <2>6, <2>7 DEF StrangerInv, Idle, Busy, ContinuedBy
<1>4. CASE UNCHANGED vars
    BY <1>4 DEF vars, StrangerInv, slotVars, Idle, Busy, ContinuedBy
<1> QED BY <1>1, <1>2, <1>3, <1>4, OnlyTakes

\* No admission destroys a snapshot that a queued request continues, except one that
\* continues it as well.
THEOREM QueuedKeep == Spec => QueuedKeepSnapshots
<1>1. Init => QueueInv /\ AdmissionInv /\ StrangerInv
    BY EmptySeq DEF Init, QueueInv, AdmissionInv, StrangerInv, NoJob
<1>2. ASSUME IInv, AdmissionInv, StrangerInv, [Next]_vars, NEW s \in Slots, NEW r \in ToSet(waiting),
             Reserve # 0, HandsOver(s), ContinuedBy(cache[s], Prompt[r])
      PROVE  ContinuedBy(cache[s], Prompt[job.req])
    <2>1. s \in job.allowed /\ s \in Idle
        BY <1>2, HandsOverFree
    <2>2. PICK i \in DOMAIN waiting : r = waiting[i]
        BY <1>2 DEF ToSet
    <2>3. job.kind \notin {"fifo", "unreserved", "forced"}
        BY <1>2, <2>1, <2>2 DEF AdmissionInv, StrangerInv, HandsOver
    <2> QED BY <1>2, <2>1, <2>3 DEF AdmissionInv, HandsOver
<1>3. IInv /\ AdmissionInv /\ StrangerInv /\ [Next]_vars
        => [\A s \in Slots, r \in ToSet(waiting) :
              Reserve # 0 /\ HandsOver(s) /\ ContinuedBy(cache[s], Prompt[r])
                => ContinuedBy(cache[s], Prompt[job.req])]_vars
    BY <1>2
<1> QED BY Invariance, QueueStep, AdmissionStep, StrangerStep, <1>1, <1>3, PTL
        DEF Spec, QueuedKeepSnapshots
-----------------------------------------------------------------------------
(***************************************************************************)
(* The bounded wait.  It was decided at some instant p, and until its      *)
(* deadline the policy has nothing new to say: the queue, the lanes and    *)
(* the limiter are those of p, and whatever else could change the answer   *)
(* (a reservation that runs out, the head's patience, the limiter) is one  *)
(* of the deadlines the wait ends at.                                      *)
(***************************************************************************)

\* While the thread sleeps, its plan is the one of an earlier instant.
SleepInv ==
    pc = "poll" =>
        \E p \in Nat :
            /\ p <= now
            /\ WaitRule(Views, Waits, nextForced, p)
            /\ IsWaitUntil(until, Deadlines(Views, Waits, nextForced, p))

\* A plan that waits goes on waiting until the earliest of its deadlines.
LEMMA WaitLasts ==
    ASSUME NEW views \in [Slots -> SlotViews], NEW waits,
           waits # <<>> => waits[1].arrivedAt \in Nat,
           NEW limit \in Instants, NEW d \in Instants,
           NEW p \in Nat, NEW t \in Nat, p <= t, d = Never \/ t < d,
           WaitRule(views, waits, limit, p),
           IsWaitUntil(d, Deadlines(views, waits, limit, p))
    PROVE  WaitRule(views, waits, limit, t)
<1> DEFINE ahead == Deadlines(views, waits, limit, p)
<1>0. Reserve \in Nat /\ Patience \in Nat
    BY PolicyAssumption
<1>1. SUFFICES ASSUME waits # <<>>, ~OwnRule(views, waits), Free(views) # {}
               PROVE  ~UnreservedRule(views, waits, t) /\ ~ForcedRule(views, waits, limit, t)
    BY DEF WaitRule, UnreservedRule, Unreserved, ForcedRule, OwnRule
<1>2. \A e \in ahead : t < e
    <2> SUFFICES ASSUME NEW e \in ahead PROVE t < e
        OBVIOUS
    <2>1. d \in ahead /\ d <= e /\ d > p
        BY <1>1 DEF IsWaitUntil, Deadlines
    <2>2. e \in Int
        BY <1>0, <1>1 DEF Deadlines, Free, SlotViews
    <2> QED BY <2>1, <2>2
<1>3. ASSUME NEW s \in Free(views) PROVE Reserved(views[s], t)
    <2>1. s \in Slots /\ views[s] \in SlotViews /\ Reserved(views[s], p)
        BY <1>1 DEF WaitRule, UnreservedRule, Unreserved, Free
    <2>2. views[s].releasedAt \in Nat /\ views[s].releasedAt + Reserve > p
        BY <1>0, <2>1 DEF Reserved, SlotViews
    <2>3. views[s].releasedAt + Reserve \in ahead
        BY <1>1, <2>1, <2>2 DEF Deadlines
    <2>4. t - views[s].releasedAt < Reserve
        BY <1>0, <1>2, <2>2, <2>3
    <2> QED BY <2>1, <2>4 DEF Reserved
<1>4. ~HeadMayForce(waits, limit, t)
    <2>1. ~HeadMayForce(waits, limit, p)
        BY <1>1 DEF WaitRule, UnreservedRule, ForcedRule
    <2>2. waits[1].arrivedAt \in Nat
        BY <1>1
    <2>3. CASE ~(p - waits[1].arrivedAt >= Patience)
        <3>1. waits[1].arrivedAt + Patience \in ahead
            BY <1>0, <1>1, <2>2, <2>3 DEF Deadlines
        <3>2. t < waits[1].arrivedAt + Patience
            BY <1>2, <3>1
        <3> QED BY <1>0, <2>2, <3>2 DEF HeadMayForce
    <2>4. CASE limit # Never /\ ~(p >= limit)
        <3>1. limit \in ahead
            BY <1>1, <2>4 DEF Deadlines
        <3>2. t < limit
            BY <1>2, <3>1
        <3> QED BY <2>4, <3>2 DEF HeadMayForce
    <2> QED BY <2>1, <2>3, <2>4 DEF HeadMayForce
<1> QED BY <1>1, <1>3, <1>4 DEF UnreservedRule, Unreserved, ForcedRule

\* What the policy sees of the lanes and of the head of the queue.
LEMMA SeenTypes ==
    ASSUME IInv, QueueInv
    PROVE  /\ Views \in [Slots -> SlotViews]
           /\ Waits # <<>> => Waits[1].arrivedAt \in Nat
<1>1. Views \in [Slots -> SlotViews]
    BY DEF IInv, TypeOK, Views, SlotViews
<1>2. ASSUME Waits # <<>> PROVE Waits[1].arrivedAt \in Nat
    <2>1. waiting # <<>>
        BY <1>2 DEF Waits
    <2>2. 1 \in DOMAIN waiting
        BY <2>1, QueueFacts
    <2>3. waiting[1] \in Reqs /\ waiting[1] \in handed
        BY <2>2, LenProperties, ElementOfSeq DEF IInv, TypeOK, QueueInv
    <2> QED BY <2>2, <2>3 DEF Waits, IInv, TypeOK, QueueInv
<1> QED BY <1>1, <1>2

\* What the policy sees does not depend on the clock or on requests still on their way.
LEMMA SeenKept ==
    ASSUME IInv, QueueInv, UNCHANGED <<lanes, cache, rel, waiting>>,
           \A r \in handed : arrived'[r] = arrived[r]
    PROVE  Views' = Views /\ Waits' = Waits
<1>1. Views' = Views
    BY DEF Views
<1>2. \A i \in DOMAIN waiting : waiting[i] \in handed
    BY LenProperties, ElementOfSeq DEF QueueInv
<1>3. \A r : OwnSlot(r)' = OwnSlot(r)
    <2>1. \A r : Hits(r, Idle)' = Hits(r, Idle)
        BY DEF Hits, Idle, Busy, ContinuedBy
    <2>2. Idle' = Idle /\ cache' = cache
        BY DEF Idle, Busy
    <2>3. \A s, r : IsLongestHit(s, r, Idle)' = IsLongestHit(s, r, Idle)
        BY <2>1, <2>2 DEF IsLongestHit, IsLongest
    <2> QED BY <2>2, <2>3 DEF OwnSlot
<1> QED BY <1>1, <1>2, <1>3 DEF Waits

\* Only a plan that waits puts the thread to sleep, and while it sleeps the lanes, the
\* queue, the limiter and the deadline are not touched.
LEMMA Sleeping ==
    ASSUME IInv, QueueInv, [Next]_vars, pc' = "poll"
    PROVE  /\ UNCHANGED <<lanes, cache, rel, waiting, nextForced>>
           /\ \A r \in handed : arrived'[r] = arrived[r]
           /\ \/ PlanWait /\ now' = now
              \/ pc = "poll" /\ until' = until /\ now' \in {now, now + 1}
<1>0. handed \subseteq Reqs /\ arrived \in [Reqs -> Instants] /\ \A r \in handed : arrived[r] # Never
    BY DEF IInv, TypeOK, QueueInv
<1>1. CASE Environment
    <2>1. /\ UNCHANGED <<lanes, cache, rel, waiting, nextForced, until, pc>>
          /\ now' \in {now, now + 1}
        BY <1>1 DEF Environment, Receive, Enqueue, Refuse, Leave, HitStopString, Tick,
                    slotVars, clockVars, planVars
    <2>2. \A r \in handed : arrived'[r] = arrived[r]
        BY <1>0, <1>1 DEF Environment, Receive, Enqueue, Refuse, Leave, HitStopString, Tick,
                          clientVars
    <2> QED BY <2>1, <2>2
<1>2. CASE PlanWait
    BY <1>2 DEF PlanWait, clientVars, clockVars, slotVars
<1>3. CASE UNCHANGED vars
    BY <1>3 DEF vars, clientVars, clockVars, slotVars, planVars
<1>4. ~(Loop \/ PlanOwn \/ PlanUnreserved \/ PlanForced \/ PollDeadline \/ PollRequest)
    BY DEF Loop, TopFatal, TopIdle, Drain, AdmitDone, PopFront, DrainAgain, DropGone, Take,
           PlanOwn, PlanUnreserved, PlanForced, PollDeadline, PollRequest, Goto, Admitting
<1>5. ~(Admit \/ Prefill)
    BY DEF Admit, PickedGone, PickedRefused, PickedFault, StartPrefill, Prefill,
           PrefillCancelled, PrefillChunk, AdmitFault, FirstTokenGone, FirstTokenEnds,
           FirstTokenLane, FirstToken, Prefilling, Goto
<1>6. ~(Step \/ Die \/ DeadReply)
    BY DEF Step, PreStep, NestedStep, Sweep, Round, RoundFault, AfterStep, Die, DeadReply, Goto
<1> QED BY <1>1, <1>2, <1>3, <1>4, <1>5, <1>6 DEF Next, Scheduler, Plan

\* Every step keeps the sleeper's plan.
LEMMA SleepStep == IInv /\ QueueInv /\ SleepInv /\ [Next]_vars => SleepInv'
<1> SUFFICES ASSUME IInv, QueueInv, SleepInv, [Next]_vars, pc' = "poll" PROVE SleepInv'
    BY DEF SleepInv
<1>0. now \in Nat
    BY DEF IInv, TypeOK
<1>1. Views' = Views /\ Waits' = Waits /\ nextForced' = nextForced
    BY Sleeping, SeenKept
<1>2. CASE PlanWait /\ now' = now
    <2>1. /\ WaitRule(Views, Waits, nextForced, now)
          /\ IsWaitUntil(until', Deadlines(Views, Waits, nextForced, now))
        BY <1>2 DEF PlanWait
    <2> QED BY <1>0, <1>1, <1>2, <2>1 DEF SleepInv
<1>3. CASE pc = "poll" /\ until' = until /\ now' \in {now, now + 1}
    <2>1. PICK p \in Nat : /\ p <= now
                           /\ WaitRule(Views, Waits, nextForced, p)
                           /\ IsWaitUntil(until, Deadlines(Views, Waits, nextForced, p))
        BY <1>3 DEF SleepInv
    <2>2. p <= now'
        BY <1>0, <1>3, <2>1
    <2> QED BY <1>1, <1>3, <2>1, <2>2 DEF SleepInv
<1> QED BY <1>2, <1>3, Sleeping

\* A bounded wait is not slept through: until its deadline, no plan over the same queue
\* would admit anyone.
THEOREM WakesInTime == Spec => []NoMissedWakeup
<1>1. Init => QueueInv /\ SleepInv
    BY EmptySeq DEF Init, QueueInv, SleepInv, NoJob
<1>2. IInv /\ QueueInv /\ SleepInv => NoMissedWakeup
    <2> SUFFICES ASSUME IInv, QueueInv, SleepInv, pc = "poll", until = Never \/ now < until
                 PROVE  WaitRule(Views, Waits, nextForced, now)
        BY DEF NoMissedWakeup
    <2>1. PICK p \in Nat : /\ p <= now
                           /\ WaitRule(Views, Waits, nextForced, p)
                           /\ IsWaitUntil(until, Deadlines(Views, Waits, nextForced, p))
        BY DEF SleepInv
    <2>2. now \in Nat /\ nextForced \in Instants /\ until \in Instants
        BY DEF IInv, TypeOK
    <2> QED BY <2>1, <2>2, SeenTypes, WaitLasts
<1> QED BY Invariance, QueueStep, SleepStep, <1>1, <1>2, PTL DEF Spec

-----------------------------------------------------------------------------
(***************************************************************************)
(* Each request is answered once.  A step of the scheduler thread moves a  *)
(* request from the channel to the queue, to the admission and into a      *)
(* lane, and whoever drops it has answered it or knows its client gone.    *)
(* Most steps only let requests go; one lemma (Dropping) is about them.    *)
(***************************************************************************)

\* A request that was not handed over yet has no answer.
Fresh == \A r \in Reqs \ handed : finish[r] = "none"

OnceInv == EachRequestOnce /\ Fresh

-----------------------------------------------------------------------------
(* The line: the queue and the channel behind it *)

\* Two queues with no request in both places, or twice in one.
Apart(q, p) ==
    /\ \A i, j \in DOMAIN q : q[i] = q[j] => i = j
    /\ \A i, j \in DOMAIN p : p[i] = p[j] => i = j
    /\ \A i \in DOMAIN q, j \in DOMAIN p : q[i] # p[j]

\* The line behind the scheduler names each request once iff its two queues are apart.
LEMMA LineApart ==
    ASSUME NEW S, NEW q \in Seq(S), NEW p \in Seq(S)
    PROVE  IsInjective(q \o p) <=> Apart(q, p)
<1>1. /\ q \o p \in Seq(S) /\ Len(q \o p) = Len(q) + Len(p)
      /\ \A i \in 1..(Len(q) + Len(p)) :
            (q \o p)[i] = IF i <= Len(q) THEN q[i] ELSE p[i - Len(q)]
  BY ConcatProperties
<1>2. /\ Len(q) \in Nat /\ Len(p) \in Nat /\ DOMAIN q = 1..Len(q) /\ DOMAIN p = 1..Len(p)
      /\ DOMAIN (q \o p) = 1..(Len(q) + Len(p))
  BY <1>1, LenProperties
<1>3. ASSUME IsInjective(q \o p) PROVE Apart(q, p)
  <2>1. \A i \in DOMAIN q : i \in DOMAIN (q \o p) /\ (q \o p)[i] = q[i] /\ i <= Len(q)
    BY <1>1, <1>2
  <2>2. \A i \in DOMAIN p : /\ i + Len(q) \in DOMAIN (q \o p) /\ i + Len(q) > Len(q)
                            /\ (q \o p)[i + Len(q)] = p[i]
    <3> TAKE i \in DOMAIN p
    <3>1. i + Len(q) \in 1..(Len(q) + Len(p)) /\ ~(i + Len(q) <= Len(q)) /\ (i + Len(q)) - Len(q) = i
      BY <1>2
    <3>2. (q \o p)[i + Len(q)] = p[(i + Len(q)) - Len(q)]
      BY <1>1, <3>1
    <3> QED
      BY <1>2, <3>1, <3>2
  <2>3. \A i, j \in DOMAIN (q \o p) : (q \o p)[i] = (q \o p)[j] => i = j
    BY <1>3 DEF IsInjective
  <2>4. \A i, j \in DOMAIN p : p[i] = p[j] => i = j
    <3> SUFFICES ASSUME NEW i \in DOMAIN p, NEW j \in DOMAIN p, p[i] = p[j] PROVE i = j
      OBVIOUS
    <3>1. i + Len(q) = j + Len(q)
      BY <2>2, <2>3
    <3> QED
      BY <1>2, <3>1
  <2>5. \A i \in DOMAIN q, j \in DOMAIN p : q[i] # p[j]
    <3> SUFFICES ASSUME NEW i \in DOMAIN q, NEW j \in DOMAIN p, q[i] = p[j] PROVE FALSE
      OBVIOUS
    <3>1. i = j + Len(q)
      BY <2>1, <2>2, <2>3
    <3> QED
      BY <1>2, <2>1, <2>2, <3>1
  <2> QED
    BY <2>1, <2>3, <2>4, <2>5 DEF Apart
<1>4. ASSUME Apart(q, p) PROVE IsInjective(q \o p)
  <2> SUFFICES ASSUME NEW i \in 1..(Len(q) + Len(p)), NEW j \in 1..(Len(q) + Len(p)),
                      (q \o p)[i] = (q \o p)[j]
               PROVE  i = j
    BY <1>2 DEF IsInjective
  <2>1. \A k \in 1..(Len(q) + Len(p)) :
            IF k <= Len(q) THEN k \in DOMAIN q /\ (q \o p)[k] = q[k]
            ELSE k - Len(q) \in DOMAIN p /\ (q \o p)[k] = p[k - Len(q)]
    BY <1>1, <1>2
  <2>2. CASE i <= Len(q) /\ j <= Len(q)
    BY <1>4, <2>1, <2>2 DEF Apart
  <2>3. CASE ~(i <= Len(q)) /\ ~(j <= Len(q))
    <3>1. i - Len(q) = j - Len(q)
      BY <1>4, <2>1, <2>3 DEF Apart
    <3> QED
      BY <1>2, <3>1
  <2>4. CASE (i <= Len(q)) # (j <= Len(q))
    BY <1>4, <2>1, <2>4 DEF Apart
  <2> QED
    BY <2>2, <2>3, <2>4
<1> QED
  BY <1>3, <1>4

\* The requests of two queues are those of the line they make.
LEMMA ConcatElements ==
    ASSUME NEW S, NEW q \in Seq(S), NEW p \in Seq(S)
    PROVE  ToSet(q) \cup ToSet(p) = ToSet(q \o p)
<1>1. /\ Len(q) \in Nat /\ Len(p) \in Nat /\ DOMAIN q = 1..Len(q) /\ DOMAIN p = 1..Len(p)
      /\ DOMAIN (q \o p) = 1..(Len(q) + Len(p))
      /\ \A i \in 1..(Len(q) + Len(p)) :
            (q \o p)[i] = IF i <= Len(q) THEN q[i] ELSE p[i - Len(q)]
  BY ConcatProperties, LenProperties
<1>2. ASSUME NEW x \in ToSet(q) PROVE x \in ToSet(q \o p)
  <2>1. PICK i \in 1..Len(q) : q[i] = x
    BY <1>1, <1>2 DEF ToSet
  <2>2. i \in 1..(Len(q) + Len(p)) /\ i <= Len(q)
    BY <1>1
  <2> QED
    BY <1>1, <2>1, <2>2 DEF ToSet
<1>3. ASSUME NEW x \in ToSet(p) PROVE x \in ToSet(q \o p)
  <2>1. PICK i \in 1..Len(p) : p[i] = x
    BY <1>1, <1>3 DEF ToSet
  <2>2. /\ i + Len(q) \in 1..(Len(q) + Len(p)) /\ ~(i + Len(q) <= Len(q))
        /\ (i + Len(q)) - Len(q) = i
    BY <1>1
  <2>3. (q \o p)[i + Len(q)] = p[(i + Len(q)) - Len(q)]
    BY <1>1, <2>2
  <2> QED
    BY <1>1, <2>1, <2>2, <2>3 DEF ToSet
<1>4. ASSUME NEW x \in ToSet(q \o p) PROVE x \in ToSet(q) \cup ToSet(p)
  <2>1. PICK i \in 1..(Len(q) + Len(p)) : (q \o p)[i] = x
    BY <1>1, <1>4 DEF ToSet
  <2>2. CASE i <= Len(q)
    BY <1>1, <2>1, <2>2 DEF ToSet
  <2>3. CASE ~(i <= Len(q))
    <3>1. i - Len(q) \in DOMAIN p /\ p[i - Len(q)] = x
      BY <1>1, <2>1, <2>3
    <3> QED
      BY <3>1 DEF ToSet
  <2> QED
    BY <2>2, <2>3
<1> QED
  BY <1>2, <1>3, <1>4

\* A request leaves the queue.
LEMMA LeaveQueue ==
    ASSUME NEW S, NEW q \in Seq(S), NEW p \in Seq(S), Apart(q, p), NEW i \in 1..Len(q)
    PROVE  /\ Apart(RemoveAt(q, i), p)
           /\ q[i] \in ToSet(q) /\ q[i] \notin ToSet(RemoveAt(q, i)) \cup ToSet(p)
           /\ ToSet(q) = ToSet(RemoveAt(q, i)) \cup {q[i]}
<1> DEFINE t == RemoveAt(q, i)
<1>1. /\ t \in Seq(S) /\ Len(t) = Len(q) - 1
      /\ \A k \in 1..(Len(q) - 1) : t[k] = IF k < i THEN q[k] ELSE q[k + 1]
      /\ \A k \in DOMAIN t : \E j \in DOMAIN q : j # i /\ t[k] = q[j]
  BY RemoveAtElements
<1>2. /\ Len(q) \in Nat /\ Len(t) \in Nat /\ DOMAIN q = 1..Len(q) /\ DOMAIN t = 1..(Len(q) - 1)
  BY <1>1, LenProperties
<1>3. \A k \in DOMAIN t : \E j \in DOMAIN q :
            j # i /\ t[k] = q[j] /\ j = (IF k < i THEN k ELSE k + 1)
  <2> TAKE k \in DOMAIN t
  <2>1. k \in 1..(Len(q) - 1) /\ t[k] = IF k < i THEN q[k] ELSE q[k + 1]
    BY <1>1, <1>2
  <2>2. (IF k < i THEN k ELSE k + 1) \in DOMAIN q \ {i}
    BY <1>2, <2>1
  <2> QED
    BY <2>1, <2>2
<1>4. \A j \in DOMAIN q \ {i} : \E k \in DOMAIN t : t[k] = q[j]
  <2> TAKE j \in DOMAIN q \ {i}
  <2>1. CASE j < i
    <3>1. j \in 1..(Len(q) - 1)
      BY <1>2, <2>1
    <3> QED
      BY <1>1, <1>2, <2>1, <3>1
  <2>2. CASE j > i
    <3>1. j - 1 \in 1..(Len(q) - 1) /\ ~(j - 1 < i) /\ (j - 1) + 1 = j
      BY <1>2, <2>2
    <3>2. t[j - 1] = q[(j - 1) + 1]
      BY <1>1, <3>1
    <3> QED
      BY <1>2, <3>1, <3>2
  <2> QED
    BY <1>2, <2>1, <2>2
<1> HIDE DEF t
<1>5. Apart(t, p)
  <2>1. \A k, l \in DOMAIN t : t[k] = t[l] => k = l
    <3> SUFFICES ASSUME NEW k \in DOMAIN t, NEW l \in DOMAIN t, t[k] = t[l] PROVE k = l
      OBVIOUS
    <3>1. (IF k < i THEN k ELSE k + 1) = (IF l < i THEN l ELSE l + 1)
      BY <1>3 DEF Apart
    <3> QED
      BY <1>2, <3>1
  <2> QED
    BY <1>3, <2>1 DEF Apart
<1>6. q[i] \notin ToSet(t) \cup ToSet(p) /\ i \in DOMAIN q
  BY <1>2, <1>3 DEF Apart, ToSet
<1>7. ToSet(q) = ToSet(t) \cup {q[i]}
  BY <1>3, <1>4, <1>6 DEF ToSet
<1> QED
  BY <1>5, <1>6, <1>7 DEF t, ToSet

-----------------------------------------------------------------------------
(* Steps that let requests go *)

\* The types hold after every step.
LEMMA IInvStep == IInv /\ [Next]_vars => IInv'
BY EnvironmentInv, LoopInv, AdmitInv, StepInv, StutterInv DEF Next, Scheduler

\* The line is apart, as a fact about its two queues.
LEMMA OnceApart ==
    ASSUME IInv
    PROVE  IsInjective(waiting \o rx) <=> Apart(waiting, rx)
BY LineApart DEF IInv, TypeOK

\* A request that is in nobody's hand any more has an answer or no client.
LEMMA Dropping ==
    ASSUME IInv, OnceInv, IInv', handed' = handed, gone \subseteq gone',
           Apart(waiting', rx'), Queued' \subseteq Queued,
           \A s \in Slots : \/ lanes'[s] = FreeLane
                            \/ s \in Busy /\ lanes'[s].req = lanes[s].req,
           job'.req \in {job.req, NoReq},
           \A r \in InHand' : finish'[r] = "none",
           \A r \in InHand \ InHand' : finish'[r] # "none" \/ r \in gone',
           \A r \in Reqs \ InHand : finish'[r] = finish[r]
    PROVE  OnceInv'
<1>1. NoReq \notin Reqs /\ Queued \subseteq Reqs /\ Running \subseteq Reqs /\ handed \subseteq Reqs
  BY PromptFacts DEF IInv, TypeOK, LaneShape, Queued, Running, Busy, ToSet
<1>2. Running' \subseteq Running
  BY DEF Running, Busy
<1>3. InHand' \subseteq InHand /\ InHand \subseteq handed
  BY <1>2 DEF InHand, OnceInv, EachRequestOnce
<1>4. IsInjective(waiting' \o rx')
  BY LineApart DEF IInv, TypeOK
<1>5. \A s, t \in Busy' : lanes'[s].req = lanes'[t].req => s = t
  BY DEF OnceInv, EachRequestOnce, Busy
<1>6. Queued' \cap Running' = {} /\ job'.req \notin Queued' \cup Running'
  BY <1>1, <1>2 DEF OnceInv, EachRequestOnce
<1>7. \A r \in handed \ InHand' : finish'[r] # "none" \/ r \in gone'
  BY <1>1 DEF OnceInv, EachRequestOnce
<1>8. Fresh'
  BY <1>3 DEF OnceInv, Fresh
<1> QED
  BY <1>3, <1>4, <1>5, <1>6, <1>7, <1>8 DEF OnceInv, EachRequestOnce

\* Nothing but a client leaving.
LEMMA Staying ==
    ASSUME IInv, OnceInv, IInv', UNCHANGED <<handed, waiting, rx, lanes, finish>>,
           gone \subseteq gone', job'.req = job.req
    PROVE  OnceInv'
<1>1. Queued' = Queued /\ Running' = Running /\ InHand' = InHand
  BY DEF Queued, Running, InHand, Busy
<1>2. \A s \in Slots : lanes'[s] = FreeLane \/ (s \in Busy /\ lanes'[s].req = lanes[s].req)
  BY DEF Busy
<1>3. Apart(waiting', rx')
  BY OnceApart DEF OnceInv, EachRequestOnce
<1>4. \A r \in InHand' : finish'[r] = "none"
  BY <1>1 DEF OnceInv, EachRequestOnce
<1> QED
  BY <1>1, <1>2, <1>3, <1>4, Dropping

\* The request being admitted is dropped: its client left, or it is answered.
LEMMA JobEnds ==
    ASSUME IInv, OnceInv, IInv', UNCHANGED <<handed, gone, waiting, rx, lanes>>,
           job' = NoJob, job.req \in Reqs,
           \/ finish' = finish /\ job.req \in gone
           \/ \E how \in {"normal", "error"} : finish' = [finish EXCEPT ![job.req] = how]
    PROVE  OnceInv'
<1>1. Queued' = Queued /\ Running' = Running
  BY DEF Queued, Running, Busy
<1>2. NoJob.req = NoReq /\ NoReq \notin Reqs
  BY PromptFacts DEF NoJob
<1>3. InHand = Queued \cup Running \cup {job.req} /\ InHand' = Queued \cup Running
  BY <1>1, <1>2 DEF InHand
<1>4. job.req \notin Queued \cup Running
  BY DEF OnceInv, EachRequestOnce
<1>5. finish \in [Reqs -> {"none", "normal", "error"}]
  BY DEF IInv, TypeOK
<1>6. finish'[job.req] # "none" \/ job.req \in gone'
  BY <1>5
<1>7. \A r \in Reqs \ {job.req} : finish'[r] = finish[r]
  BY <1>5
<1>8. \A s \in Slots : lanes'[s] = FreeLane \/ (s \in Busy /\ lanes'[s].req = lanes[s].req)
  BY DEF Busy
<1>9. Apart(waiting', rx')
  BY OnceApart DEF OnceInv, EachRequestOnce
<1>10. \A r \in InHand' : finish'[r] = "none"
  <2>1. \A r \in Queued \cup Running : r \in Reqs /\ finish[r] = "none"
    BY DEF OnceInv, EachRequestOnce, InHand, IInv, TypeOK
  <2> QED
    BY <1>3, <1>4, <1>7, <2>1
<1> QED
  BY <1>1, <1>2, <1>3, <1>6, <1>7, <1>8, <1>9, <1>10, Dropping

\* Lanes are freed: their clients left, or they are answered.
LEMMA LanesEnd ==
    ASSUME IInv, OnceInv, IInv', UNCHANGED <<handed, gone, waiting, rx>>, job'.req = job.req,
           \A s \in Slots : \/ lanes'[s] = FreeLane
                            \/ s \in Busy /\ lanes'[s].req = lanes[s].req,
           NEW done \in SUBSET Busy,
           \A s \in Busy : lanes'[s] = FreeLane => s \in done \/ lanes[s].req \in gone,
           \A s \in done : lanes'[s] = FreeLane,
           \A r \in Reqs : finish'[r] = IF \E s \in done : lanes[s].req = r THEN "normal" ELSE finish[r]
    PROVE  OnceInv'
<1>1. Queued' = Queued
  BY DEF Queued
<1>2. Queued \subseteq Reqs /\ Running \subseteq Reqs /\ \A s \in Busy : lanes[s].req \in Running
  BY DEF IInv, TypeOK, LaneShape, Queued, Running, Busy, ToSet
<1>3. Apart(waiting', rx')
  BY OnceApart DEF OnceInv, EachRequestOnce
<1>4. ASSUME NEW r \in InHand' PROVE finish'[r] = "none"
  <2>1. r \in Reqs /\ finish[r] = "none" /\ r \in InHand
    <3>1. Running' \subseteq Running
      BY DEF Running, Busy
    <3>2. r \in InHand /\ handed \subseteq Reqs
      BY <1>1, <3>1 DEF InHand, IInv, TypeOK
    <3> QED
      BY <3>2 DEF OnceInv, EachRequestOnce
  <2>2. CASE r \in Queued \cup {job.req}
    BY <1>2, <2>1, <2>2 DEF OnceInv, EachRequestOnce
  <2>3. CASE r \in Running'
    <3>1. PICK t \in Busy : lanes'[t] # FreeLane /\ lanes[t].req = r
      BY <2>3 DEF Running, Busy
    <3>2. \A s \in done : lanes[s].req # r
      BY <3>1 DEF OnceInv, EachRequestOnce
    <3> QED
      BY <2>1, <3>2
  <2> QED
    BY <1>1, <2>2, <2>3 DEF InHand
<1>5. ASSUME NEW r \in InHand \ InHand' PROVE finish'[r] # "none" \/ r \in gone'
  <2>1. PICK s \in Busy : lanes[s].req = r /\ s \notin Busy'
    BY <1>1, <1>5 DEF InHand, Running, Busy
  <2>2. s \in done \/ r \in gone
    BY <2>1 DEF Busy
  <2> QED
    BY <1>2, <2>1, <2>2
<1>6. \A r \in Reqs \ InHand : finish'[r] = finish[r]
  BY <1>2 DEF InHand
<1> QED
  BY <1>1, <1>3, <1>4, <1>5, <1>6, Dropping

-----------------------------------------------------------------------------
(* The steps *)

LEMMA EnvironmentOnce == IInv /\ IInv' /\ OnceInv /\ Environment => OnceInv'
<1> SUFFICES ASSUME IInv, IInv', OnceInv, Environment PROVE OnceInv'
  OBVIOUS
<1> USE DEF clientVars, slotVars
<1>1. CASE \E r \in Reqs : Receive(r) \/ Leave(r) \/ HitStopString(r)
  BY <1>1, Staying DEF Receive, Leave, HitStopString
<1>2. CASE Tick
  BY <1>2, Staying DEF Tick
<1>3. ASSUME NEW r \in Reqs, Enqueue(r) PROVE OnceInv'
  <2>1. /\ r \notin handed /\ handed' = handed \cup {r} /\ rx' = Append(rx, r)
        /\ UNCHANGED <<waiting, lanes, job, finish, gone>>
    BY <1>3 DEF Enqueue
  <2>2. /\ DOMAIN rx' = 1..(Len(rx) + 1) /\ DOMAIN rx = 1..Len(rx) /\ Len(rx) \in Nat
        /\ \A i \in 1..Len(rx) : rx'[i] = rx[i]
        /\ rx'[Len(rx) + 1] = r
    BY <2>1, AppendProperties, LenProperties DEF IInv, TypeOK
  <2>3. Queued' = Queued \cup {r}
    BY <2>1, <2>2 DEF Queued, ToSet
  <2>4. Running' = Running /\ Busy' = Busy
    BY <2>1 DEF Running, Busy
  <2>5. InHand' = InHand \cup {r} /\ r \notin InHand /\ r # NoReq
    BY <2>1, <2>3, <2>4, PromptFacts DEF InHand, OnceInv, EachRequestOnce
  <2>6. IsInjective(waiting' \o rx')
    <3>1. Apart(waiting, rx)
      BY OnceApart DEF OnceInv, EachRequestOnce
    <3>2. \A i \in DOMAIN waiting : waiting[i] # r
      BY <2>5 DEF InHand, Queued, ToSet
    <3>3. \A i \in DOMAIN rx : rx[i] # r
      BY <2>5 DEF InHand, Queued, ToSet
    <3>4. Apart(waiting', rx')
      BY <2>1, <2>2, <3>1, <3>2, <3>3 DEF Apart
    <3> QED
      BY <3>4, LineApart DEF IInv, TypeOK
  <2>7. finish[r] = "none"
    BY <2>1 DEF OnceInv, Fresh
  <2>8. EachRequestOnce'
    <3>1. r \notin Running /\ r # job.req
      BY <2>5 DEF InHand
    <3>2. \A s, t \in Busy' : lanes'[s].req = lanes'[t].req => s = t
      BY <2>1, <2>4 DEF OnceInv, EachRequestOnce
    <3>3. Queued' \cap Running' = {} /\ job'.req \notin Queued' \cup Running'
      BY <2>1, <2>3, <2>4, <3>1 DEF OnceInv, EachRequestOnce
    <3>4. \A x \in InHand' : x \in handed' /\ finish'[x] = "none"
      BY <2>1, <2>5, <2>7 DEF OnceInv, EachRequestOnce
    <3>5. \A x \in handed' \ InHand' : finish'[x] # "none" \/ x \in gone'
      BY <2>1, <2>5 DEF OnceInv, EachRequestOnce
    <3> QED
      BY <2>6, <3>2, <3>3, <3>4, <3>5 DEF EachRequestOnce
  <2> QED
    BY <2>1, <2>8 DEF OnceInv, Fresh
<1>4. ASSUME NEW r \in Reqs, Refuse(r) PROVE OnceInv'
  <2>1. /\ r \notin handed /\ handed' = handed \cup {r} /\ finish' = [finish EXCEPT ![r] = "error"]
        /\ UNCHANGED <<rx, waiting, lanes, job, gone>>
    BY <1>4 DEF Refuse
  <2>2. finish'[r] = "error" /\ \A x \in Reqs \ {r} : finish'[x] = finish[x]
    BY <2>1 DEF IInv, TypeOK
  <2>3. InHand' = InHand /\ Queued' = Queued /\ Running' = Running /\ Busy' = Busy
    BY <2>1 DEF InHand, Queued, Running, Busy
  <2>4. r \notin InHand /\ handed \subseteq Reqs
    BY <2>1 DEF OnceInv, EachRequestOnce, IInv, TypeOK
  <2>5. \A x \in InHand' : x \in handed' /\ finish'[x] = "none"
    BY <2>1, <2>2, <2>3, <2>4 DEF OnceInv, EachRequestOnce
  <2>6. \A x \in handed' \ InHand' : finish'[x] # "none" \/ x \in gone'
    BY <2>1, <2>2, <2>3, <2>4 DEF OnceInv, EachRequestOnce
  <2>7. Fresh'
    BY <2>1, <2>2 DEF OnceInv, Fresh
  <2> QED
    BY <2>1, <2>3, <2>5, <2>6, <2>7 DEF OnceInv, EachRequestOnce
<1> QED
  BY <1>1, <1>2, <1>3, <1>4 DEF Environment

\* A request goes from the queue to the admission: it changes its place.
LEMMA TakeOnce ==
    ASSUME IInv, IInv', OnceInv, job = NoJob, NEW i \in DOMAIN waiting, NEW allowed, NEW kind,
           Take(i, allowed, kind)
    PROVE  OnceInv'
<1>1. /\ waiting' = RemoveAt(waiting, i) /\ job'.req = waiting[i]
      /\ UNCHANGED <<rx, handed, gone, lanes, finish>>
  <2>1. job'.req = waiting[i]
    BY TakeKind
  <2> QED
    BY <2>1 DEF Take, clientVars, slotVars
<1>2. Apart(waiting, rx)
  BY OnceApart DEF OnceInv, EachRequestOnce
<1>3. /\ Apart(waiting', rx')
      /\ waiting[i] \in ToSet(waiting) /\ waiting[i] \notin Queued'
      /\ Queued = Queued' \cup {waiting[i]}
  <2>1. waiting \in Seq(Reqs) /\ rx \in Seq(Reqs) /\ i \in 1..Len(waiting)
    BY LenProperties DEF IInv, TypeOK
  <2> QED
    BY <1>1, <1>2, <2>1, LeaveQueue DEF Queued
<1>4. waiting[i] \in Reqs /\ NoReq \notin Reqs /\ waiting[i] \in Queued
  BY <1>3, PromptFacts DEF IInv, TypeOK, Queued, ToSet
<1>5. Running' = Running /\ Busy' = Busy
  BY <1>1 DEF Running, Busy
<1>6. InHand' = InHand
  BY <1>1, <1>3, <1>4, <1>5 DEF InHand, NoJob
<1>7. IsInjective(waiting' \o rx')
  BY <1>3, LineApart DEF IInv, TypeOK
<1>8. Queued' \cap Running' = {} /\ job'.req \notin Queued' \cup Running'
  BY <1>1, <1>3, <1>4, <1>5 DEF OnceInv, EachRequestOnce
<1> QED
  BY <1>1, <1>5, <1>6, <1>7, <1>8 DEF OnceInv, EachRequestOnce, Fresh

\* The loop moves requests along the line, to the admission, or drops those whose client left.
LEMMA LoopOnce == IInv /\ IInv' /\ OnceInv /\ (Loop \/ Plan) => OnceInv'
<1> SUFFICES ASSUME IInv, IInv', OnceInv, Loop \/ Plan PROVE OnceInv'
  OBVIOUS
<1> USE DEF clientVars, slotVars, Goto
<1>0. /\ waiting \in Seq(Reqs) /\ rx \in Seq(Reqs) /\ NoReq \notin Reqs
      /\ pc \in {"top", "idle", "admit", "poll", "prestep"} => job = NoJob
  BY PromptFacts DEF IInv, TypeOK, JobShape
<1>1. CASE TopFatal \/ TopIdle \/ AdmitDone \/ PlanWait \/ PollDeadline
  <2>1. UNCHANGED <<handed, waiting, rx, lanes, finish, gone>> /\ job' = NoJob
    BY <1>1 DEF TopFatal, TopIdle, AdmitDone, PlanWait, PollDeadline
  <2>2. job = NoJob
    BY <1>0, <1>1 DEF TopFatal, TopIdle, AdmitDone, PlanWait, PollDeadline, Planning, Admitting
  <2> QED
    BY <2>1, <2>2, Staying
<1>2. CASE Drain \/ DrainAgain \/ PollRequest
  <2>1. job' = job /\ UNCHANGED <<handed, lanes, finish, gone>>
    BY <1>0, <1>2 DEF Drain, DrainAgain, PollRequest
  <2>2. waiting' \o rx' = waiting \o rx
    <3>1. CASE Drain \/ DrainAgain
      <4>1. waiting' = waiting \o rx /\ rx' = <<>> /\ waiting \o rx \in Seq(Reqs)
        BY <1>0, <3>1, ConcatProperties DEF Drain, DrainAgain
      <4> QED
        BY <4>1
    <3>2. CASE PollRequest
      <4>1. waiting' = Append(waiting, Head(rx)) /\ rx' = Tail(rx) /\ rx # <<>>
        BY <3>2 DEF PollRequest
      <4> QED
        BY <1>0, <4>1
    <3> QED
      BY <1>2, <3>1, <3>2
  <2>3. Queued' = Queued
    <3>1. waiting' \in Seq(Reqs) /\ rx' \in Seq(Reqs)
      BY DEF IInv, TypeOK
    <3>2. Queued = ToSet(waiting \o rx) /\ Queued' = ToSet(waiting' \o rx')
      BY <1>0, <3>1, ConcatElements DEF Queued
    <3> QED
      BY <2>2, <3>2
  <2>4. Running' = Running /\ Busy' = Busy /\ InHand' = InHand
    BY <2>1, <2>3 DEF Running, Busy, InHand
  <2> QED
    BY <2>1, <2>2, <2>3, <2>4 DEF OnceInv, EachRequestOnce, Fresh
<1>3. CASE PopFront \/ PlanUnreserved \/ PlanForced
  <2>1. waiting # <<>> /\ pc = "admit"
    BY <1>3 DEF PopFront, PlanUnreserved, UnreservedRule, PlanForced, ForcedRule, Waits,
                Planning, Admitting
  <2>2. \E allowed, kind : Take(1, allowed, kind)
    BY <1>3 DEF PopFront, PlanUnreserved, PlanForced
  <2> QED
    BY <1>0, <2>1, <2>2, QueueFacts, TakeOnce
<1>4. CASE PlanOwn
  <2>1. \E i \in DOMAIN waiting : Take(i, {Waits[i].own}, "own")
    BY <1>4 DEF PlanOwn
  <2> QED
    BY <1>0, <1>4, <2>1, TakeOnce DEF PlanOwn, Planning, Admitting
<1>5. CASE DropGone
  <2>1. PICK i \in DOMAIN waiting : waiting[i] \in gone /\ waiting' = RemoveAt(waiting, i)
    BY <1>5 DEF DropGone
  <2>2. UNCHANGED <<handed, gone, rx, lanes, finish, job>>
    BY <1>5 DEF DropGone
  <2>3. /\ Apart(waiting', rx') /\ waiting[i] \in ToSet(waiting) /\ waiting[i] \notin Queued'
        /\ Queued = Queued' \cup {waiting[i]}
    <3>1. Apart(waiting, rx) /\ i \in 1..Len(waiting)
      BY <1>0, OnceApart, LenProperties DEF OnceInv, EachRequestOnce
    <3> QED
      BY <1>0, <2>1, <2>2, <3>1, LeaveQueue DEF Queued
  <2>4. Running' = Running
    BY <2>2 DEF Running, Busy
  <2>5. InHand' \subseteq InHand /\ InHand \ InHand' \subseteq {waiting[i]}
    BY <2>2, <2>3, <2>4 DEF InHand
  <2>6. \A r \in InHand' : finish'[r] = "none"
    BY <2>2, <2>5 DEF OnceInv, EachRequestOnce
  <2>7. \A s \in Slots : lanes'[s] = FreeLane \/ (s \in Busy /\ lanes'[s].req = lanes[s].req)
    BY <2>2 DEF Busy
  <2> QED
    BY <2>1, <2>2, <2>3, <2>5, <2>6, <2>7, Dropping
<1> QED
  BY <1>1, <1>2, <1>3, <1>4, <1>5 DEF Loop, Plan

\* The admission ends the request, or gives it a lane.
LEMMA AdmitOnce == IInv /\ IInv' /\ OnceInv /\ SlotOwnership /\ (Admit \/ Prefill) => OnceInv'
<1> SUFFICES ASSUME IInv, IInv', OnceInv, SlotOwnership, Admit \/ Prefill PROVE OnceInv'
  OBVIOUS
<1> USE DEF clientVars, slotVars, Goto
<1>0. pc \in {"picked", "prefill"} /\ job.req \in Reqs
  BY DEF Admit, PickedGone, PickedRefused, PickedFault, StartPrefill, Prefill, PrefillCancelled,
         PrefillChunk, AdmitFault, FirstTokenGone, FirstTokenEnds, FirstTokenLane, FirstToken,
         Prefilling, IInv, JobShape
<1>1. CASE PickedGone \/ PrefillCancelled \/ FirstTokenGone
  <2>1. /\ UNCHANGED <<handed, gone, waiting, rx, lanes, finish>>
        /\ job' = NoJob /\ job.req \in gone
    BY <1>1 DEF PickedGone, PrefillCancelled, FirstTokenGone, FirstToken
  <2> QED
    BY <1>0, <2>1, JobEnds
<1>2. CASE PickedRefused \/ PickedFault \/ AdmitFault
  <2>1. /\ UNCHANGED <<handed, gone, waiting, rx, lanes>>
        /\ job' = NoJob /\ finish' = [finish EXCEPT ![job.req] = "error"]
    BY <1>2 DEF PickedRefused, PickedFault, AdmitFault
  <2> QED
    BY <1>0, <2>1, JobEnds
<1>3. CASE FirstTokenEnds
  <2>1. /\ UNCHANGED <<handed, gone, waiting, rx, lanes>>
        /\ job' = NoJob /\ finish' = [finish EXCEPT ![job.req] = "normal"]
    BY <1>3 DEF FirstTokenEnds, FirstToken
  <2> QED
    BY <1>0, <2>1, JobEnds
<1>4. CASE StartPrefill \/ PrefillChunk
  <2>1. UNCHANGED <<handed, waiting, rx, lanes, finish, gone>> /\ job'.req = job.req
    BY <1>4 DEF StartPrefill, PrefillChunk, IInv, TypeOK, Jobs
  <2> QED
    BY <2>1, Staying
<1>5. CASE FirstTokenLane
  <2>1. /\ UNCHANGED <<handed, gone, waiting, rx, finish>>
        /\ job' = NoJob
        /\ lanes' = [lanes EXCEPT ![job.slot] = [req |-> job.req, left |-> MaxNew[job.req] - 1]]
        /\ pc = "prefill"
    BY <1>5 DEF FirstTokenLane, FirstToken, Prefilling
  <2>2. job.slot \in Slots /\ lanes[job.slot] = FreeLane
    BY <2>1, SlotFacts DEF IInv, JobShape, SlotOwnership
  <2>3. /\ lanes'[job.slot].req = job.req
        /\ \A s \in Slots \ {job.slot} : lanes'[s] = lanes[s]
    BY <2>1, <2>2 DEF IInv, TypeOK
  <2>4. NoReq \notin Reqs /\ lanes'[job.slot] # FreeLane /\ NoJob.req = NoReq
    BY <1>0, <2>3, PromptFacts DEF FreeLane, NoJob
  <2>5. Busy' = Busy \cup {job.slot} /\ job.slot \notin Busy
    BY <2>2, <2>3, <2>4 DEF Busy
  <2>6. Running' = Running \cup {job.req} /\ Queued' = Queued
    BY <2>1, <2>3, <2>5 DEF Running, Queued, Busy
  <2>7. InHand' = InHand
    BY <1>0, <2>1, <2>4, <2>6 DEF InHand
  <2>8. job.req \notin Queued \cup Running /\ \A s \in Busy : lanes[s].req # job.req
    BY DEF OnceInv, EachRequestOnce, Running
  <2>9. \A s, t \in Busy' : lanes'[s].req = lanes'[t].req => s = t
    <3>1. \A s \in Busy : lanes'[s].req = lanes[s].req
      BY <2>3, <2>5 DEF Busy
    <3> QED
      BY <2>3, <2>5, <2>8, <3>1 DEF OnceInv, EachRequestOnce
  <2>10. Queued \subseteq Reqs /\ Running \subseteq Reqs
    BY DEF IInv, TypeOK, LaneShape, Queued, Running, Busy, ToSet
  <2>11. Queued' \cap Running' = {} /\ job'.req \notin Queued' \cup Running'
    BY <1>0, <2>1, <2>4, <2>6, <2>8, <2>10 DEF OnceInv, EachRequestOnce
  <2> QED
    BY <2>1, <2>7, <2>9, <2>11 DEF OnceInv, EachRequestOnce, Fresh
<1> QED
  BY <1>1, <1>2, <1>3, <1>4, <1>5 DEF Admit, Prefill

\* The steps of the lanes: a freed lane was cancelled or answered.
LEMMA StepOnce == IInv /\ IInv' /\ OnceInv /\ Step => OnceInv'
<1> SUFFICES ASSUME IInv, IInv', OnceInv, Step PROVE OnceInv'
  OBVIOUS
<1> USE DEF clientVars, slotVars, Goto
<1>0. /\ finish \in [Reqs -> {"none", "normal", "error"}]
      /\ lanes \in [Slots -> [req : Reqs \cup {NoReq}, left : Nat]]
      /\ pc = "prestep" => job = NoJob
      /\ job \in Jobs
  BY DEF IInv, TypeOK, JobShape
<1>1. CASE PreStep \/ NestedStep
  <2>1. UNCHANGED <<handed, waiting, rx, lanes, finish, gone>> /\ job'.req = job.req
    BY <1>0, <1>1 DEF PreStep, NestedStep, Jobs
  <2> QED
    BY <2>1, Staying
<1>2. CASE Sweep
  <2>1. /\ UNCHANGED <<handed, gone, waiting, rx, finish>> /\ job' = job
        /\ lanes' = [s \in Slots |-> IF s \in {t \in Busy : lanes[t].req \in gone}
                                     THEN FreeLane ELSE lanes[s]]
    BY <1>2 DEF Sweep, AfterStep
  <2>2. \A s \in Slots : lanes'[s] = FreeLane \/ (s \in Busy /\ lanes'[s].req = lanes[s].req)
    BY <1>0, <2>1 DEF Busy
  <2>3. \A s \in Busy : lanes'[s] = FreeLane => lanes[s].req \in gone
    BY <2>1 DEF Busy
  <2> DEFINE done == {}
  <2>4. /\ done \in SUBSET Busy
        /\ \A r \in Reqs : finish'[r] = IF \E s \in done : lanes[s].req = r THEN "normal" ELSE finish[r]
    BY <2>1
  <2> QED
    BY <2>1, <2>2, <2>3, <2>4, LanesEnd
<1>3. CASE Round
  <2>1. /\ UNCHANGED <<handed, gone, waiting, rx>> /\ job' = job
    BY <1>3 DEF Round, AfterStep
  <2>2. PICK stepped \in SUBSET Busy :
        \E done \in SUBSET (stepped \ {s \in stepped : lanes[s].req \in gone}) :
            LET cancelled == {s \in stepped : lanes[s].req \in gone}
            IN  /\ AtLimit(stepped \ cancelled) \subseteq done
                /\ lanes' = [s \in Slots |->
                                IF s \in done \cup cancelled THEN FreeLane
                                ELSE IF s \in stepped THEN [lanes[s] EXCEPT !.left = @ - 1]
                                ELSE lanes[s]]
                /\ finish' = [r \in Reqs |-> IF \E s \in done : lanes[s].req = r
                                             THEN "normal" ELSE finish[r]]
    BY <1>3 DEF Round
  <2> DEFINE cancelled == {s \in stepped : lanes[s].req \in gone}
  <2>3. PICK done \in SUBSET (stepped \ cancelled) :
            /\ lanes' = [s \in Slots |->
                            IF s \in done \cup cancelled THEN FreeLane
                            ELSE IF s \in stepped THEN [lanes[s] EXCEPT !.left = @ - 1]
                            ELSE lanes[s]]
            /\ finish' = [r \in Reqs |-> IF \E s \in done : lanes[s].req = r
                                         THEN "normal" ELSE finish[r]]
    BY <2>2
  <2>4. done \in SUBSET Busy /\ Busy \subseteq Slots
    BY <2>2, <2>3 DEF Busy
  <2>5. \A s \in Slots : lanes'[s] = FreeLane \/ (s \in Busy /\ lanes'[s].req = lanes[s].req)
    BY <1>0, <2>2, <2>3 DEF Busy
  <2>6. \A s \in Busy : lanes'[s] = FreeLane => s \in done \/ lanes[s].req \in gone
    <3> SUFFICES ASSUME NEW s \in Busy, lanes'[s] = FreeLane, s \notin done, lanes[s].req \notin gone
                 PROVE  FALSE
      OBVIOUS
    <3>1. lanes'[s].req = lanes[s].req
      BY <1>0, <2>3, <2>4
    <3>2. lanes[s].req \in Reqs /\ NoReq \notin Reqs
      BY PromptFacts DEF IInv, LaneShape, Busy
    <3> QED
      BY <3>1, <3>2 DEF FreeLane
  <2>7. \A s \in done : lanes'[s] = FreeLane
    BY <2>3, <2>4
  <2>8. \A r \in Reqs : finish'[r] = IF \E s \in done : lanes[s].req = r THEN "normal" ELSE finish[r]
    BY <2>3
  <2> QED
    BY <2>1, <2>4, <2>5, <2>6, <2>7, <2>8, LanesEnd
<1>4. CASE RoundFault
  <2>1. /\ UNCHANGED <<handed, gone, waiting, rx>> /\ job' = NoJob
        /\ lanes' = [s \in Slots |-> FreeLane]
        /\ finish' = [r \in Reqs |-> IF r \in Running \cup ({job.req} \ {NoReq})
                                     THEN "error" ELSE finish[r]]
    BY <1>4 DEF RoundFault, Running
  <2>2. Queued' = Queued /\ Running' = {} /\ NoJob.req = NoReq
    BY <2>1 DEF Queued, Running, Busy, NoJob
  <2>3. InHand' = Queued
    BY <2>1, <2>2 DEF InHand
  <2>4. Queued \subseteq Reqs /\ Running \subseteq Reqs /\ job.req \in Reqs \cup {NoReq}
    BY <1>0 DEF IInv, TypeOK, LaneShape, Queued, Running, Busy, ToSet, Jobs
  <2>5. \A r \in InHand' : finish'[r] = "none"
    BY <2>1, <2>3, <2>4 DEF OnceInv, EachRequestOnce, InHand
  <2>6. \A r \in InHand \ InHand' : finish'[r] # "none"
    BY <2>1, <2>3, <2>4 DEF InHand
  <2>7. \A r \in Reqs \ InHand : finish'[r] = finish[r]
    BY <2>1 DEF InHand
  <2>8. Apart(waiting', rx')
    BY <2>1, OnceApart DEF OnceInv, EachRequestOnce
  <2>9. \A s \in Slots : lanes'[s] = FreeLane
    BY <2>1
  <2> QED
    BY <2>1, <2>2, <2>5, <2>6, <2>7, <2>8, <2>9, Dropping
<1> QED
  BY <1>1, <1>2, <1>3, <1>4 DEF Step

\* The end of the service answers whoever is left.
LEMMA EndOnce == IInv /\ IInv' /\ OnceInv /\ (Die \/ DeadReply) => OnceInv'
<1> SUFFICES ASSUME IInv, IInv', OnceInv, Die \/ DeadReply PROVE OnceInv'
  OBVIOUS
<1> USE DEF clientVars, slotVars, Goto
<1>0. /\ finish \in [Reqs -> {"none", "normal", "error"}]
      /\ waiting \in Seq(Reqs) /\ rx \in Seq(Reqs)
      /\ pc \in {"die", "dead"} => job = NoJob
      /\ Queued \subseteq Reqs /\ Running \subseteq Reqs
  BY DEF IInv, TypeOK, JobShape, LaneShape, Queued, Running, Busy, ToSet
<1>1. CASE Die
  <2>1. /\ UNCHANGED <<handed, gone>> /\ job = NoJob /\ job' = NoJob
        /\ waiting' = <<>> /\ rx' = <<>> /\ lanes' = [s \in Slots |-> FreeLane]
        /\ finish' = [r \in Reqs |-> IF r \in Queued \cup Running THEN "error" ELSE finish[r]]
    BY <1>0, <1>1 DEF Die, Held, Queued, Running
  <2>2. InHand = Queued \cup Running
    BY <2>1 DEF InHand, NoJob
  <2>3. InHand' = {} /\ Queued' = {}
    BY <2>1 DEF InHand, Queued, Running, Busy, ToSet, NoJob
  <2>4. \A r \in InHand : finish'[r] # "none"
    BY <1>0, <2>1, <2>2
  <2>5. \A r \in Reqs \ InHand : finish'[r] = finish[r]
    BY <2>1, <2>2
  <2>6. Apart(waiting', rx') /\ \A s \in Slots : lanes'[s] = FreeLane
    BY <2>1 DEF Apart
  <2> QED
    BY <2>1, <2>3, <2>4, <2>5, <2>6, Dropping
<1>2. CASE DeadReply
  <2>1. /\ UNCHANGED <<handed, gone, waiting, lanes, job>> /\ rx # <<>> /\ rx' = Tail(rx)
        /\ finish' = [finish EXCEPT ![Head(rx)] = "error"]
    BY <1>2 DEF DeadReply
  <2>2. /\ Len(rx) \in Nat \ {0} /\ DOMAIN rx = 1..Len(rx) /\ DOMAIN rx' = 1..(Len(rx) - 1)
        /\ Head(rx) = rx[1] /\ \A i \in 1..(Len(rx) - 1) : rx'[i] = rx[i + 1]
    BY <1>0, <2>1, EmptySeq, LenProperties, HeadTailProperties
  <2>3. Apart(waiting, rx)
    BY OnceApart DEF OnceInv, EachRequestOnce
  <2>4. \A i \in DOMAIN rx' : i + 1 \in DOMAIN rx /\ i + 1 # 1 /\ rx'[i] = rx[i + 1]
    BY <2>2
  <2>5. \A i, j \in DOMAIN rx' : rx'[i] = rx'[j] => i = j
    <3> SUFFICES ASSUME NEW i \in DOMAIN rx', NEW j \in DOMAIN rx', rx'[i] = rx'[j] PROVE i = j
      OBVIOUS
    <3>1. i + 1 = j + 1
      BY <2>3, <2>4 DEF Apart
    <3> QED
      BY <2>2, <3>1
  <2>6. Apart(waiting', rx') /\ 1 \in DOMAIN rx
    BY <2>1, <2>2, <2>3, <2>4, <2>5 DEF Apart
  <2>7. ToSet(rx) = ToSet(rx') \cup {rx[1]} /\ rx[1] \notin ToSet(rx') \cup ToSet(waiting)
    <3>1. ToSet(rx') \subseteq ToSet(rx)
      BY <2>4 DEF ToSet
    <3>2. ASSUME NEW i \in DOMAIN rx, i # 1 PROVE rx[i] \in ToSet(rx')
      <4>1. i - 1 \in 1..(Len(rx) - 1) /\ (i - 1) + 1 = i
        BY <2>2, <3>2
      <4>2. rx'[i - 1] = rx[(i - 1) + 1]
        BY <2>2, <4>1
      <4> QED
        BY <2>2, <4>1, <4>2 DEF ToSet
    <3>3. rx[1] \notin ToSet(rx') \cup ToSet(waiting)
      BY <2>3, <2>4, <2>6 DEF ToSet, Apart
    <3> QED
      BY <2>6, <3>1, <3>2, <3>3 DEF ToSet
  <2>8. /\ Queued = Queued' \cup {rx[1]} /\ rx[1] \notin Queued'
        /\ Running' = Running /\ rx[1] \in Reqs
    BY <1>0, <2>1, <2>7 DEF Queued, Running, Busy
  <2>9. InHand' \subseteq InHand \ {rx[1]} /\ InHand \ InHand' \subseteq {rx[1]}
    <3>1. rx[1] \notin Running /\ rx[1] # job.req
      BY <2>8 DEF OnceInv, EachRequestOnce
    <3> QED
      BY <2>1, <2>8, <3>1 DEF InHand
  <2>10. finish'[rx[1]] = "error" /\ \A r \in Reqs \ {rx[1]} : finish'[r] = finish[r]
    BY <1>0, <2>1, <2>2, <2>8
  <2>11. InHand \subseteq Reqs /\ \A r \in InHand : finish[r] = "none"
    BY DEF OnceInv, EachRequestOnce, IInv, TypeOK
  <2>12. \A r \in InHand' : finish'[r] = "none"
    BY <2>9, <2>10, <2>11
  <2>13. \A r \in InHand \ InHand' : finish'[r] # "none"
    BY <2>9, <2>10
  <2>14. \A r \in Reqs \ InHand : finish'[r] = finish[r]
    BY <2>8, <2>10 DEF InHand
  <2>15. \A s \in Slots : lanes'[s] = FreeLane \/ (s \in Busy /\ lanes'[s].req = lanes[s].req)
    BY <2>1 DEF Busy
  <2> QED
    BY <2>1, <2>6, <2>8, <2>12, <2>13, <2>14, <2>15, Dropping
<1> QED
  BY <1>1, <1>2

-----------------------------------------------------------------------------

\* Whatever the scheduler, the clients and the clock do, no request is lost or answered twice.
THEOREM OnceInvariance == Spec => []OnceInv
<1>1. Init => OnceInv
  BY EmptySeq, ConcatProperties
     DEF Init, OnceInv, EachRequestOnce, Fresh, InHand, Queued, Running, Busy, ToSet, IsInjective, NoJob
<1>2. IInv /\ SlotOwnership /\ OnceInv /\ [Next]_vars => OnceInv'
  <2> SUFFICES ASSUME IInv, SlotOwnership, OnceInv, [Next]_vars PROVE OnceInv'
    OBVIOUS
  <2>1. IInv'
    BY IInvStep
  <2>2. CASE UNCHANGED vars
    BY <2>1, <2>2, Staying DEF vars, clientVars, slotVars
  <2> QED
    BY <2>1, <2>2, EnvironmentOnce, LoopOnce, AdmitOnce, StepOnce, EndOnce DEF Next, Scheduler
<1> QED
  BY Invariance, SlotsOwned, <1>1, <1>2, PTL DEF Spec

\* A request is in one place until it is answered, and nowhere afterwards.
THEOREM RequestsOnce == Spec => []EachRequestOnce
<1>1. OnceInv => EachRequestOnce
  BY DEF OnceInv
<1> QED
  BY <1>1, OnceInvariance, PTL
-----------------------------------------------------------------------------
(***************************************************************************)
(* The refinement.  A step of the handlers or the clients is a Submit, a   *)
(* Leave or nothing; any step of the scheduler thread is a Serve, because  *)
(* of the few things it may do to a request (Handled) and because a        *)
(* request that runs has a slot of its own (LanesEnough).                  *)
(***************************************************************************)

\* A request with a lane, or a prefill that will get it one.
Runs(r) == r \in Running \/ (job.req = r /\ job.slot # NoSlot)

\* The engine is marked DEAD, and the thread ends, after a sticky error only.
EndInv == dead \/ pc \in {"die", "dead", "exited"} => fatal

ServiceInv == IInv /\ OnceInv /\ SlotOwnership /\ FatalInv /\ EndInv

\* Only a sticky error leads to the end of the service.
LEMMA EndStep == EndInv /\ FatalInv /\ [Next]_vars => EndInv'
<1> SUFFICES ASSUME EndInv, FatalInv, [Next]_vars PROVE EndInv'
  OBVIOUS
<1> USE DEF EndInv, FatalInv, Goto, engineVars
<1>1. CASE Environment
  BY <1>1 DEF Environment, Receive, Enqueue, Refuse, Leave, HitStopString, Tick
<1>2. CASE Loop
  BY <1>2 DEF Loop, TopFatal, TopIdle, Drain, AdmitDone, PopFront, DrainAgain, DropGone, Take,
              Admitting
<1>3. CASE Plan
  BY <1>3 DEF Plan, PlanOwn, PlanUnreserved, PlanForced, PlanWait, PollDeadline, PollRequest,
              Take, Planning, Admitting
<1>4. CASE Admit
  BY <1>4 DEF Admit, PickedGone, PickedRefused, PickedFault, StartPrefill
<1>5. CASE Prefill
  BY <1>5 DEF Prefill, PrefillCancelled, PrefillChunk, AdmitFault, FirstTokenGone,
              FirstTokenEnds, FirstTokenLane, FirstToken, Prefilling
<1>6. CASE Step
  BY <1>6 DEF Step, PreStep, NestedStep, Sweep, Round, RoundFault, AfterStep
<1>7. CASE Die \/ DeadReply
  BY <1>7 DEF Die, DeadReply
<1>8. CASE UNCHANGED vars
  BY <1>8 DEF vars
<1> QED
  BY <1>1, <1>2, <1>3, <1>4, <1>5, <1>6, <1>7, <1>8 DEF Next, Scheduler

-----------------------------------------------------------------------------
(* What a step of the scheduler may do to a request *)

\* It never queues a request.
LEMMA QueuedShrinks == IInv /\ IInv' /\ Scheduler => Queued' \subseteq Queued
<1> SUFFICES ASSUME IInv, IInv', Scheduler PROVE Queued' \subseteq Queued
  OBVIOUS
<1>0. waiting \in Seq(Reqs) /\ rx \in Seq(Reqs) /\ waiting' \in Seq(Reqs) /\ rx' \in Seq(Reqs)
  BY DEF IInv, TypeOK
<1>1. CASE waiting' = waiting /\ rx' = rx
  BY <1>1 DEF Queued
<1>2. CASE waiting' \o rx' = waiting \o rx
  <2>1. ToSet(waiting) \cup ToSet(rx) = ToSet(waiting \o rx)
    BY <1>0, ConcatElements
  <2>2. ToSet(waiting') \cup ToSet(rx') = ToSet(waiting' \o rx')
    BY <1>0, ConcatElements
  <2> QED
    BY <1>2, <2>1, <2>2 DEF Queued
<1>3. ASSUME NEW i \in DOMAIN waiting, waiting' = RemoveAt(waiting, i), rx' = rx
      PROVE  Queued' \subseteq Queued
  <2>1. \A k \in DOMAIN waiting' : \E j \in DOMAIN waiting : waiting'[k] = waiting[j]
    BY <1>0, <1>3, RemoveAtElements, LenProperties
  <2> QED
    BY <1>3, <2>1 DEF Queued, ToSet
<1>4. CASE waiting' = <<>> /\ rx' = <<>>
  BY <1>4 DEF Queued, ToSet
<1>5. CASE waiting' = waiting /\ rx # <<>> /\ rx' = Tail(rx)
  <2>1. \A k \in DOMAIN rx' : k + 1 \in DOMAIN rx /\ rx'[k] = rx[k + 1]
    <3>1. /\ Len(rx) \in Nat \ {0} /\ DOMAIN rx = 1..Len(rx) /\ DOMAIN rx' = 1..(Len(rx) - 1)
          /\ \A k \in 1..(Len(rx) - 1) : rx'[k] = rx[k + 1]
      BY <1>0, <1>5, EmptySeq, LenProperties, HeadTailProperties
    <3> QED
      BY <3>1
  <2> QED
    BY <1>5, <2>1 DEF Queued, ToSet
<1>6. ASSUME NEW i \in DOMAIN waiting, NEW allowed, NEW kind, Take(i, allowed, kind)
      PROVE  Queued' \subseteq Queued
  BY <1>3, <1>6 DEF Take
<1>7. CASE Loop
  <2>1. CASE Drain \/ DrainAgain
    <3>1. waiting' = waiting \o rx /\ rx' = <<>> /\ waiting \o rx \in Seq(Reqs)
      BY <1>0, <2>1, ConcatProperties DEF Drain, DrainAgain
    <3> QED
      BY <1>2, <3>1
  <2>2. CASE PopFront
    BY <1>6, <2>2, QueueFacts DEF PopFront
  <2>3. CASE DropGone
    BY <1>3, <2>3 DEF DropGone
  <2> QED
    BY <1>1, <1>7, <2>1, <2>2, <2>3 DEF Loop, TopFatal, TopIdle, AdmitDone
<1>8. CASE Plan
  <2>1. CASE PlanOwn
    BY <1>6, <2>1 DEF PlanOwn
  <2>2. CASE PlanUnreserved \/ PlanForced
    <3>1. waiting # <<>>
      BY <2>2 DEF PlanUnreserved, UnreservedRule, PlanForced, ForcedRule, Waits
    <3> QED
      BY <1>6, <2>2, <3>1, QueueFacts DEF PlanUnreserved, PlanForced
  <2>3. CASE PollRequest
    <3>1. waiting' = Append(waiting, Head(rx)) /\ rx' = Tail(rx) /\ rx # <<>>
      BY <2>3 DEF PollRequest
    <3>2. waiting' \o rx' = waiting \o rx
      BY <1>0, <3>1
    <3> QED
      BY <1>2, <3>2
  <2> QED
    BY <1>1, <1>8, <2>1, <2>2, <2>3 DEF Plan, PlanWait, PollDeadline
<1>9. CASE Admit \/ Prefill \/ Step
  BY <1>1, <1>9 DEF Admit, PickedGone, PickedRefused, PickedFault, StartPrefill, Prefill,
        PrefillCancelled, PrefillChunk, AdmitFault, FirstTokenGone, FirstTokenEnds, FirstTokenLane,
        FirstToken, Step, PreStep, NestedStep, Sweep, Round, RoundFault
<1>10. CASE Die \/ DeadReply
  BY <1>4, <1>5, <1>10 DEF Die, DeadReply
<1> QED
  BY <1>7, <1>8, <1>9, <1>10 DEF Scheduler

\* What may become of the admission, of a lane, and of an answer.
JobGoes ==
    \/ job'.req = NoReq
    \/ job'.req = job.req /\ (job.slot # NoSlot => job'.slot # NoSlot)
    \/ job.req = NoReq /\ job'.req \in ToSet(waiting)
LaneGoes(s) ==
    \/ lanes'[s] = FreeLane
    \/ s \in Busy /\ lanes'[s].req = lanes[s].req
    \/ lanes'[s].req = job.req /\ Runs(job.req)
AnswerGoes(r) ==
    \/ finish'[r] = finish[r]
    \/ finish'[r] = "error" /\ r \in InHand
    \/ finish'[r] = "normal" /\ Runs(r) /\ ~fatal

Handled ==
    /\ UNCHANGED <<handed, gone>> /\ (fatal => fatal')
    /\ JobGoes
    /\ \A s \in Slots : LaneGoes(s)
    /\ \A r \in Reqs : AnswerGoes(r)

\* A request is taken out of the queue only when nothing is being admitted.
LEMMA TakeHandled ==
    ASSUME IInv, job = NoJob, NEW i \in DOMAIN waiting, NEW allowed, NEW kind,
           Take(i, allowed, kind)
    PROVE  Handled
<1>1. job'.req = waiting[i] /\ job.req = NoReq /\ waiting[i] \in ToSet(waiting)
  BY TakeKind DEF NoJob, ToSet
<1>2. UNCHANGED <<handed, gone, fatal, lanes, finish>>
  BY DEF Take, clientVars, slotVars, engineVars
<1> QED
  BY <1>1, <1>2 DEF Handled, JobGoes, LaneGoes, AnswerGoes, Busy

\* Whatever the scheduler thread does next, it only handles requests.
LEMMA SchedulerHandled == ServiceInv /\ Scheduler => Handled
<1> SUFFICES ASSUME ServiceInv, Scheduler PROVE Handled
  OBVIOUS
<1>0. /\ IInv /\ NoJob.req = NoReq /\ job \in Jobs
      /\ finish \in [Reqs -> {"none", "normal", "error"}]
      /\ lanes \in [Slots -> [req : Reqs \cup {NoReq}, left : Nat]]
      /\ pc \in {"picked", "prefill"} => job.req \in Reqs
      /\ pc = "prefill" => job.slot \in Slots
      /\ pc \notin {"picked", "prefill", "sweep", "round"} => job = NoJob
  BY DEF ServiceInv, IInv, TypeOK, JobShape, NoJob
<1>1. job.req \in Reqs => job.req \in InHand /\ (pc = "prefill" => Runs(job.req))
  BY <1>0, PromptFacts, SlotFacts DEF InHand, Runs
<1>2. pc \in {"prefill", "round"} => ~fatal
  BY DEF ServiceInv, FatalInv
<1>3. UNCHANGED <<lanes>> => \A s \in Slots : LaneGoes(s)
  BY DEF LaneGoes, Busy
<1>4. UNCHANGED finish => \A r \in Reqs : AnswerGoes(r)
  BY DEF AnswerGoes
<1> USE DEF Goto, clientVars, slotVars, engineVars
<1>5. CASE Loop \/ Plan
  <2>1. CASE \E i \in DOMAIN waiting : \E allowed, kind : Take(i, allowed, kind) /\ pc = "admit"
    BY <1>0, <2>1, TakeHandled
  <2>2. CASE PopFront \/ PlanUnreserved \/ PlanForced
    <3>1. waiting # <<>> /\ pc = "admit"
      BY <2>2 DEF PopFront, PlanUnreserved, UnreservedRule, PlanForced, ForcedRule, Waits,
                  Planning, Admitting
    <3>2. \E allowed, kind : Take(1, allowed, kind)
      BY <2>2 DEF PopFront, PlanUnreserved, PlanForced
    <3> QED
      BY <1>0, <2>1, <3>1, <3>2, QueueFacts
  <2>3. CASE PlanOwn
    <3>1. pc = "admit" /\ \E i \in DOMAIN waiting : Take(i, {Waits[i].own}, "own")
      BY <2>3 DEF PlanOwn, Planning, Admitting
    <3> QED
      BY <2>1, <3>1
  <2>4. CASE \/ TopFatal \/ TopIdle \/ Drain \/ AdmitDone \/ DrainAgain \/ DropGone
             \/ PlanWait \/ PollDeadline \/ PollRequest
    <3>1. UNCHANGED <<handed, gone, fatal, lanes, finish>> /\ (job' = job \/ job' = NoJob)
      BY <2>4 DEF TopFatal, TopIdle, Drain, AdmitDone, DrainAgain, DropGone, PlanWait,
                  PollDeadline, PollRequest
    <3> QED
      BY <1>0, <1>3, <1>4, <3>1 DEF Handled, JobGoes
  <2> QED
    BY <1>5, <2>2, <2>3, <2>4 DEF Loop, Plan
<1>6. CASE Admit
  <2>1. /\ UNCHANGED <<handed, gone, lanes>> /\ job.req \in Reqs
        /\ fatal => fatal'
        /\ finish' = finish \/ finish' = [finish EXCEPT ![job.req] = "error"]
    BY <1>0, <1>6 DEF Admit, PickedGone, PickedRefused, PickedFault, StartPrefill,
                      ServiceInv, FatalInv
  <2>2. job' = NoJob \/ (job'.req = job.req /\ job'.slot # NoSlot)
    <3>1. CASE StartPrefill
      <4>1. PICK s \in Slots, chunks \in 0..MaxChunks : job' = [job EXCEPT !.slot = s, !.left = chunks]
        BY <3>1 DEF StartPrefill
      <4>2. job'.req = job.req /\ job'.slot = s
        BY <1>0, <4>1 DEF Jobs
      <4> QED
        BY <4>2, SlotFacts
    <3> QED
      BY <1>6, <3>1 DEF Admit, PickedGone, PickedRefused, PickedFault
  <2>3. \A r \in Reqs : AnswerGoes(r)
    BY <1>0, <1>1, <2>1 DEF AnswerGoes
  <2> QED
    BY <1>0, <1>3, <2>1, <2>2, <2>3 DEF Handled, JobGoes
<1>7. CASE Prefill
  <2>1. /\ UNCHANGED <<handed, gone>> /\ pc = "prefill"
        /\ \/ finish' = finish
           \/ \E how \in {"normal", "error"} : finish' = [finish EXCEPT ![job.req] = how]
        /\ \/ lanes' = lanes
           \/ lanes' = [lanes EXCEPT ![job.slot] = [req |-> job.req, left |-> MaxNew[job.req] - 1]]
        /\ job' = NoJob \/ (job'.req = job.req /\ job'.slot = job.slot)
    BY <1>0, <1>7 DEF Prefill, PrefillCancelled, PrefillChunk, AdmitFault, FirstTokenGone,
              FirstTokenEnds, FirstTokenLane, FirstToken, Prefilling, Jobs
  <2>2. job.req \in Reqs /\ Runs(job.req) /\ ~fatal /\ job.req \in InHand
    BY <1>0, <1>1, <1>2, <2>1
  <2>3. \A r \in Reqs : AnswerGoes(r)
    BY <1>0, <2>1, <2>2 DEF AnswerGoes
  <2>4. \A s \in Slots : LaneGoes(s)
    <3>1. CASE lanes' = lanes
      BY <1>3, <3>1
    <3>2. CASE lanes' = [lanes EXCEPT ![job.slot] = [req |-> job.req, left |-> MaxNew[job.req] - 1]]
      <4>1. \A s \in Slots : lanes'[s] = IF s = job.slot THEN [req |-> job.req, left |-> MaxNew[job.req] - 1]
                                         ELSE lanes[s]
        BY <1>0, <3>2
      <4> QED
        BY <2>2, <4>1 DEF LaneGoes, Busy
    <3> QED
      BY <2>1, <3>1, <3>2
  <2> QED
    BY <1>0, <2>1, <2>2, <2>3, <2>4 DEF Handled, JobGoes
<1>8. CASE Step
  <2>1. CASE PreStep \/ NestedStep
    <3>1. UNCHANGED <<handed, gone, fatal, lanes, finish>>
      BY <2>1 DEF PreStep, NestedStep
    <3>2. JobGoes
      <4>1. CASE PreStep
        BY <1>0, <4>1 DEF PreStep, JobGoes
      <4>2. CASE NestedStep
        <5>1. job' = [job EXCEPT !.quota = @ - 1]
          BY <4>2 DEF NestedStep
        <5> QED
          BY <1>0, <5>1 DEF JobGoes, Jobs
      <4> QED
        BY <2>1, <4>1, <4>2
    <3> QED
      BY <1>3, <1>4, <3>1, <3>2 DEF Handled
  <2>2. CASE Sweep
    <3>1. /\ UNCHANGED <<handed, gone, fatal, job, finish>>
          /\ lanes' = [s \in Slots |-> IF s \in {t \in Busy : lanes[t].req \in gone}
                                       THEN FreeLane ELSE lanes[s]]
      BY <2>2 DEF Sweep, AfterStep
    <3>2. \A s \in Slots : LaneGoes(s)
      BY <3>1 DEF LaneGoes, Busy
    <3> QED
      BY <1>4, <3>1, <3>2 DEF Handled, JobGoes
  <2>3. CASE Round
    <3>1. /\ UNCHANGED <<handed, gone, fatal>> /\ (job' = job \/ job' = NoJob) /\ pc = "round"
      BY <2>3 DEF Round, AfterStep
    <3>2. PICK stepped \in SUBSET Busy :
          \E done \in SUBSET (stepped \ {s \in stepped : lanes[s].req \in gone}) :
              LET cancelled == {s \in stepped : lanes[s].req \in gone}
              IN  /\ lanes' = [s \in Slots |->
                                  IF s \in done \cup cancelled THEN FreeLane
                                  ELSE IF s \in stepped THEN [lanes[s] EXCEPT !.left = @ - 1]
                                  ELSE lanes[s]]
                  /\ finish' = [r \in Reqs |-> IF \E s \in done : lanes[s].req = r
                                               THEN "normal" ELSE finish[r]]
      BY <2>3 DEF Round
    <3>3. \A s \in Slots : \/ lanes'[s] = FreeLane
                           \/ lanes'[s] = lanes[s]
                           \/ s \in Busy /\ lanes'[s] = [lanes[s] EXCEPT !.left = @ - 1]
      BY <3>2
    <3>4. \A s \in Slots : LaneGoes(s)
      BY <1>0, <3>3 DEF LaneGoes, Busy
    <3>5. \A r \in Reqs : finish'[r] = finish[r] \/ (finish'[r] = "normal" /\ r \in Running)
      BY <3>2 DEF Running
    <3>6. \A r \in Reqs : AnswerGoes(r)
      BY <1>2, <3>1, <3>5 DEF AnswerGoes, Runs
    <3> QED
      BY <1>0, <3>1, <3>4, <3>6 DEF Handled, JobGoes
  <2>4. CASE RoundFault
    <3>1. /\ UNCHANGED <<handed, gone>> /\ job' = NoJob /\ pc = "round"
          /\ lanes' = [s \in Slots |-> FreeLane]
          /\ finish' = [r \in Reqs |-> IF r \in Running \cup ({job.req} \ {NoReq})
                                       THEN "error" ELSE finish[r]]
      BY <2>4 DEF RoundFault, Running
    <3>2. \A r \in Reqs : AnswerGoes(r)
      BY <3>1 DEF AnswerGoes, InHand
    <3>3. \A s \in Slots : LaneGoes(s)
      BY <3>1 DEF LaneGoes
    <3> QED
      BY <1>0, <1>2, <3>1, <3>2, <3>3 DEF Handled, JobGoes
  <2> QED
    BY <1>8, <2>1, <2>2, <2>3, <2>4 DEF Step
<1>9. CASE Die
  <2>1. \A s \in Slots : lanes'[s] = FreeLane
    BY <1>9 DEF Die
  <2>2. \A r \in Reqs : finish'[r] = finish[r] \/ (finish'[r] = "error" /\ r \in InHand)
    BY <1>9 DEF Die, Held, InHand, Queued, Running
  <2> QED
    BY <1>0, <1>9, <2>1, <2>2 DEF Die, Handled, JobGoes, LaneGoes, AnswerGoes
<1>10. CASE DeadReply
  <2>1. Head(rx) \in ToSet(rx)
    BY <1>0, <1>10, HeadTailProperties, EmptySeq, LenProperties DEF DeadReply, ToSet, IInv, TypeOK
  <2>2. \A r \in Reqs : AnswerGoes(r)
    BY <1>0, <1>10, <2>1 DEF DeadReply, AnswerGoes, InHand, Queued
  <2> QED
    BY <1>0, <1>3, <1>10, <2>2 DEF DeadReply, Handled, JobGoes
<1> QED
  BY <1>5, <1>6, <1>7, <1>8, <1>9, <1>10 DEF Scheduler

\* So a request is in the scheduler's hands before the step that handles it, and one that
\* runs and stays there still runs.
LEMMA StaysRunning ==
    ASSUME IInv, IInv', OnceInv, Handled, Queued' \subseteq Queued, NEW r \in Reqs
    PROVE  /\ r \in InHand' => r \in InHand
           /\ Runs(r) => r \in InHand
           /\ Runs(r) /\ r \in InHand' => Runs(r)'
<1>1. NoReq \notin Reqs /\ ToSet(waiting) \subseteq Queued
  BY PromptFacts DEF Queued
<1>2. Runs(r) => r \in InHand
  BY <1>1 DEF Runs, InHand
<1>3. r \in Running' => \/ r \in Running
                        \/ r = job.req /\ Runs(r)
  BY <1>1 DEF Handled, LaneGoes, Running, Busy
<1>4. r = job'.req => \/ r = job.req /\ (job.slot # NoSlot => job'.slot # NoSlot)
                      \/ job.req = NoReq /\ r \in ToSet(waiting)
  BY <1>1 DEF Handled, JobGoes
<1>5. r \in InHand' => r \in InHand
  BY <1>1, <1>2, <1>3, <1>4 DEF InHand
<1>6. ASSUME Runs(r), r \in InHand' PROVE Runs(r)'
  <2>1. CASE r \in Running
    <3>1. r \notin Queued /\ r # job.req
      BY <2>1 DEF OnceInv, EachRequestOnce
    <3>2. r \in Running'
      BY <1>1, <1>4, <1>6, <3>1 DEF InHand
    <3> QED
      BY <3>2 DEF Runs
  <2>2. CASE job.req = r /\ job.slot # NoSlot
    <3>1. r \notin Queued
      BY <2>2 DEF OnceInv, EachRequestOnce
    <3>2. r \in Running' \/ (job'.req = r /\ job'.slot # NoSlot)
      BY <1>1, <1>4, <1>6, <2>2, <3>1 DEF InHand
    <3> QED
      BY <3>2 DEF Runs
  <2> QED
    BY <1>6, <2>1, <2>2 DEF Runs
<1> QED
  BY <1>2, <1>5, <1>6

-----------------------------------------------------------------------------
(* A lane for every request that runs *)

LanesEnough == Cardinality({r \in Reqs : StateOf(r) = "running"}) <= Cardinality(Slots)

\* Two running requests have two slots.
LEMMA OneLaneEach == ServiceInv => LanesEnough
<1> SUFFICES ASSUME ServiceInv PROVE LanesEnough
  OBVIOUS
<1> DEFINE Runners == {r \in Reqs : StateOf(r) = "running"}
           Has(r, s) == lanes[s].req = r \/ (job.req = r /\ job.slot = s)
           f == [r \in Runners |-> CHOOSE s \in Slots : Has(r, s)]
<1>0. /\ NoReq \notin Reqs /\ IsFiniteSet(Slots)
      /\ job.slot \in Slots \cup {NoSlot}
  BY PromptFacts, PolicyAssumption DEF ServiceInv, IInv, TypeOK, Jobs
<1>1. ASSUME NEW r \in Runners PROVE r \in Reqs /\ \E s \in Slots : Has(r, s)
  <2>1. r \in Reqs /\ Runs(r)
    BY DEF StateOf, Runs
  <2> QED
    BY <1>0, <2>1 DEF Runs, Running, Busy
<1>2. \A r \in Runners : f[r] \in Slots /\ Has(r, f[r])
  BY <1>1
<1>3. ASSUME NEW r \in Runners, NEW q \in Runners, f[r] = f[q] PROVE r = q
  <2> DEFINE s == f[r]
  <2>1. s \in Slots /\ Has(r, s) /\ Has(q, s) /\ r \in Reqs /\ q \in Reqs
    BY <1>1, <1>2, <1>3
  <2> HIDE DEF s
  <2>2. job.slot = s => lanes[s].req = NoReq
    BY <1>0, <2>1, SlotFacts DEF ServiceInv, SlotOwnership, FreeLane
  <2> QED
    BY <1>0, <2>1, <2>2
<1>4. f \in Injection(Runners, Slots)
  <2>1. f \in [Runners -> Slots]
    BY <1>2
  <2>2. IsInjective(f)
    BY <1>3 DEF IsInjective
  <2> QED
    BY <2>1, <2>2 DEF Injection
<1> HIDE DEF f
<1>5. Cardinality(Runners) <= Cardinality(Slots)
  BY <1>0, <1>4, FS_Injection
<1> QED
  BY <1>5 DEF LanesEnough

-----------------------------------------------------------------------------
(* The steps, as the service sees them *)

\* A handled request moves as the service allows.
LEMMA HandledMoves ==
    ASSUME IInv, IInv', OnceInv, OnceInv', Handled, Queued' \subseteq Queued, NEW r \in Reqs
    PROVE  Service!Moves(r, StateOf(r), StateOf(r)')
<1>0. /\ handed' = handed /\ gone' = gone /\ AnswerGoes(r)
      /\ finish[r] \in {"none", "normal", "error"} /\ finish'[r] \in {"none", "normal", "error"}
  BY DEF Handled, IInv, TypeOK
<1>1. /\ r \in InHand' => r \in InHand
      /\ Runs(r) => r \in InHand
      /\ Runs(r) /\ r \in InHand' => Runs(r)'
      /\ NoReq \notin Reqs
  BY StaysRunning, PromptFacts
<1>2. StateOf(r) = IF finish[r] = "normal" THEN "done" ELSE IF finish[r] = "error" THEN "failed"
                   ELSE IF r \notin handed THEN "new" ELSE IF Runs(r) THEN "running"
                   ELSE IF r \in InHand THEN "queued" ELSE "dropped"
  BY <1>1 DEF StateOf, Runs, InHand
<1>3. StateOf(r)' = IF finish'[r] = "normal" THEN "done" ELSE IF finish'[r] = "error" THEN "failed"
                    ELSE IF r \notin handed' THEN "new" ELSE IF Runs(r)' THEN "running"
                    ELSE IF r \in InHand' THEN "queued" ELSE "dropped"
  BY <1>1 DEF StateOf, Runs, InHand
<1>4. Runs(r)' => r \in InHand'
  BY <1>1 DEF Runs, InHand
<1>5. CASE r \notin InHand
  BY <1>0, <1>1, <1>2, <1>3, <1>4, <1>5 DEF AnswerGoes, Service!Moves
<1>6. CASE r \in InHand /\ r \in InHand'
  <2>1. finish[r] = "none" /\ finish'[r] = "none" /\ r \in handed
    BY <1>6 DEF OnceInv, EachRequestOnce
  <2> QED
    BY <1>0, <1>1, <1>2, <1>3, <1>6, <2>1 DEF Service!Moves
<1>7. CASE r \in InHand /\ r \notin InHand'
  <2>1. finish[r] = "none" /\ r \in handed
    BY <1>7 DEF OnceInv, EachRequestOnce
  <2>2. StateOf(r) = IF Runs(r) THEN "running" ELSE "queued"
    BY <1>2, <1>7, <2>1
  <2>3. finish'[r] # "none" \/ r \in gone
    BY <1>0, <1>7, <2>1 DEF OnceInv, EachRequestOnce
  <2> QED
    BY <1>0, <1>3, <1>4, <1>7, <2>1, <2>2, <2>3
       DEF AnswerGoes, Service!Moves, Service!Held
<1> QED
  BY <1>5, <1>6, <1>7

\* Every step is one of the service's, or none of its business.
LEMMA StepImplements ==
    ServiceInv /\ ServiceInv' /\ LanesEnough' /\ [Next]_vars => [Service!Next]_(Service!vars)
<1> SUFFICES ASSUME ServiceInv, ServiceInv', LanesEnough', [Next]_vars
             PROVE  [Service!Next]_(Service!vars)
  OBVIOUS
<1> DEFINE state == [r \in Reqs |-> StateOf(r)]
<1>0. /\ IInv /\ IInv' /\ OnceInv /\ OnceInv' /\ EndInv
      /\ NoReq \notin Reqs
      /\ finish \in [Reqs -> {"none", "normal", "error"}]
      /\ fatal \in BOOLEAN /\ fatal' \in BOOLEAN
  BY PromptFacts DEF ServiceInv, IInv, TypeOK
<1> USE DEF Service!vars
<1>1. ASSUME UNCHANGED <<finish, handed, lanes, job>>, Queued' = Queued
      PROVE  state' = state
  BY <1>1 DEF StateOf, Running, Busy
<1>2. CASE UNCHANGED vars
  BY <1>1, <1>2 DEF vars, clientVars, slotVars, engineVars, Queued
<1>3. CASE Scheduler
  <2>1. Handled /\ Queued' \subseteq Queued
    BY <1>0, <1>3, SchedulerHandled, QueuedShrinks
  <2>2. \A r \in Reqs : Service!Moves(r, state[r], state'[r])
    <3> TAKE r \in Reqs
    <3>1. Service!Moves(r, StateOf(r), StateOf(r)')
      BY <1>0, <2>1, HandledMoves
    <3> QED
      BY <3>1
  <2>3. state' \in [Reqs -> Service!States]
    BY DEF StateOf, Service!States, Service!Held
  <2>4. {r \in Reqs : state'[r] = "running"} = {r \in Reqs : StateOf(r)' = "running"}
    OBVIOUS
  <2>5. gone' = gone /\ fatal' \in {fatal, TRUE}
    BY <1>0, <2>1 DEF Handled
  <2>6. Cardinality({r \in Reqs : state'[r] = "running"}) <= Cardinality(Slots)
    BY <2>4 DEF LanesEnough
  <2>7. Service!Serve
    <3>1. state' \in [Reqs -> Service!States]
      BY <2>3
    <3>2. \A r \in Reqs : Service!Moves(r, state[r], state'[r])
      BY <2>2
    <3>3. Cardinality({r \in Reqs : state'[r] = "running"}) <= Cardinality(Slots)
      BY <2>6
    <3>4. fatal' \in {fatal, TRUE} /\ UNCHANGED gone
      BY <2>5
    <3>5. Service!Cardinality({r \in Reqs : state'[r] = "running"})
          = Cardinality({r \in Reqs : state'[r] = "running"})
      BY Zenon DEF Service!Cardinality, Cardinality
    <3>6. Service!Cardinality({r \in Reqs : state'[r] = "running"}) <= Cardinality(Slots)
      BY <3>3, <3>5, Zenon
    <3> QED
      BY <3>1, <3>2, <3>4, <3>6, Zenon DEF Service!Serve
  <2> QED
    BY <2>7 DEF Service!Next
<1>4. CASE Environment
  <2>1. CASE Tick \/ \E r \in Reqs : Receive(r)
    BY <1>1, <2>1 DEF Tick, Receive, clientVars, slotVars, engineVars, Queued
  <2>2. ASSUME NEW r \in Reqs, Leave(r) \/ HitStopString(r) PROVE Service!Leave(r)
    <3>1. UNCHANGED <<finish, handed, lanes, job, rx, waiting, fatal>> /\ gone' = gone \cup {r}
      BY <2>2 DEF Leave, HitStopString, slotVars, engineVars
    <3>2. r \in handed /\ finish[r] = "none" /\ (r \in InHand \/ r \in gone)
      <4>1. CASE Leave(r)
        BY <1>0, <4>1 DEF Leave, OnceInv, EachRequestOnce
      <4>2. CASE HitStopString(r)
        <5>1. r \in InHand
          BY <1>0, <4>2 DEF HitStopString, InHand, Running, Busy, FreeLane
        <5> QED
          BY <1>0, <5>1 DEF OnceInv, EachRequestOnce
      <4> QED
        BY <2>2, <4>1, <4>2
    <3>3. r \notin gone
      BY <2>2 DEF Leave, HitStopString
    <3>4. StateOf(r) \in {"queued", "running"}
      BY <1>0, <3>2, <3>3 DEF StateOf, InHand
    <3>5. state' = state
      BY <1>1, <3>1 DEF Queued
    <3> QED
      BY <3>1, <3>4, <3>5 DEF Service!Leave, Service!Held
  <2>3. ASSUME NEW r \in Reqs, Enqueue(r) PROVE Service!Submit(r)
    <3>1. /\ UNCHANGED <<finish, lanes, job, waiting, fatal, gone>> /\ handed' = handed \cup {r}
          /\ r \notin handed /\ rx' = Append(rx, r)
      BY <2>3 DEF Enqueue, slotVars, engineVars
    <3>2. finish[r] = "none" /\ r \notin InHand
      BY <1>0, <3>1 DEF OnceInv, Fresh, EachRequestOnce
    <3>3. Queued' = Queued \cup {r}
      <4>1. rx \in Seq(Reqs)
        BY <1>0 DEF IInv, TypeOK
      <4>2. ToSet(Append(rx, r)) = ToSet(rx) \cup {r}
        BY <4>1, LenProperties, AppendProperties DEF ToSet
      <4> QED
        BY <3>1, <4>2 DEF Queued
    <3>4. StateOf(r) = "new" /\ StateOf(r)' = "queued"
      BY <1>0, <3>1, <3>2, <3>3 DEF StateOf, InHand, Running, Busy
    <3>5. \A q \in Reqs \ {r} : StateOf(q)' = StateOf(q)
      BY <3>1, <3>3 DEF StateOf, Running, Busy
    <3>6. state' = [state EXCEPT ![r] = "queued"]
      BY <3>4, <3>5
    <3> QED
      BY <3>1, <3>4, <3>6 DEF Service!Submit
  <2>4. ASSUME NEW r \in Reqs, Refuse(r) PROVE Service!Submit(r)
    <3>1. /\ UNCHANGED <<lanes, job, waiting, rx, fatal, gone>> /\ handed' = handed \cup {r}
          /\ r \notin handed /\ finish' = [finish EXCEPT ![r] = "error"] /\ fatal
      BY <1>0, <2>4 DEF Refuse, slotVars, engineVars, EndInv
    <3>2. finish[r] = "none" /\ finish'[r] = "error" /\ \A q \in Reqs \ {r} : finish'[q] = finish[q]
      BY <1>0, <3>1 DEF OnceInv, Fresh
    <3>3. StateOf(r) = "new" /\ StateOf(r)' = "failed"
      BY <3>1, <3>2 DEF StateOf
    <3>4. \A q \in Reqs \ {r} : StateOf(q)' = StateOf(q)
      BY <3>1, <3>2 DEF StateOf, Running, Busy, Queued
    <3>5. state' = [state EXCEPT ![r] = "failed"]
      BY <3>3, <3>4
    <3> QED
      BY <3>1, <3>3, <3>5 DEF Service!Submit
  <2> QED
    BY <1>4, <2>1, <2>2, <2>3, <2>4 DEF Environment, Service!Next
<1> QED
  BY <1>2, <1>3, <1>4 DEF Next

-----------------------------------------------------------------------------

\* The single-box server is a service as LaneService describes it: each request runs in one
\* of the lanes, is answered once or dropped because its client left, and nothing completes
\* after a sticky device error.
THEOREM ServiceImplemented == Spec => ImplementsService
<1>1. Init => ServiceInv /\ Service!Init
  <2> SUFFICES ASSUME Init PROVE ServiceInv /\ Service!Init
    OBVIOUS
  <2>1. OnceInv
    BY EmptySeq, ConcatProperties
       DEF Init, OnceInv, EachRequestOnce, Fresh, InHand, Queued, Running, Busy, ToSet,
           IsInjective, NoJob
  <2>2. SlotOwnership /\ FatalInv /\ EndInv
    BY DEF Init, SlotOwnership, Busy, NoJob, FatalInv, EndInv
  <2>3. \A r \in Reqs : StateOf(r) = "new"
    BY DEF Init, StateOf
  <2> QED
    BY InitInv, <2>1, <2>2, <2>3 DEF ServiceInv, Service!Init, Init
<1>2. Spec => []ServiceInv
  <2>1. Init => FatalInv /\ EndInv
    BY DEF Init, FatalInv, EndInv
  <2>2. IInv /\ OnceInv /\ SlotOwnership /\ FatalInv /\ EndInv => ServiceInv
    BY DEF ServiceInv
  <2> QED
    BY Invariance, OnceInvariance, SlotsOwned, FatalStep, EndStep, <2>1, <2>2, PTL DEF Spec
<1> QED
  BY <1>1, <1>2, OneLaneEach, StepImplements, PTL DEF Spec, ImplementsService, Service!Spec
=============================================================================
