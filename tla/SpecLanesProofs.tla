-------------------------- MODULE SpecLanesProofs --------------------------
(***************************************************************************)
(* Proofs about SpecLanes for any number of lanes, any depth and any       *)
(* schedule of the policy: the types, that a speculating lane's head is    *)
(* ready, that a first off is confirmed, and that fcfs has a front.        *)
(***************************************************************************)
EXTENDS SpecLanes, FiniteSetTheorems, WellFoundedInduction, TLAPS

-----------------------------------------------------------------------------
(* The policy. *)

\* Counting a round moves two counters, one of them past its range by one.
LEMMA CountedFields ==
  ASSUME NEW r \in Policy
  PROVE  LET c == Counted(r)
         IN  /\ c \in [phase : {"Armed", "Off", "Probing"}, rounds : 0 .. MinRounds,
                       probe_rounds : 0 .. ProbeWindow, plain_steps : Nat,
                       backoff : Nat, confirm : {"none", "asked", "sampled"},
                       prime_tap_row : Rows]
             /\ c.phase = r.phase /\ c.confirm = r.confirm
             /\ r.phase # "Probing" => c.probe_rounds = r.probe_rounds
<1>1. /\ MinOf(r.rounds + 1, MinRounds) \in 0 .. MinRounds
      /\ r.probe_rounds + 1 \in 0 .. ProbeWindow /\ r.probe_rounds \in 0 .. ProbeWindow
  BY SpecLanesAssumption DEF Policy, MinOf
<1> QED
  BY <1>1 DEF Counted, Policy

\* went_off gives a policy state, whatever the counters were.
LEMMA WentOffType ==
  ASSUME NEW p,
         p \in [phase : {"Armed", "Off", "Probing"}, rounds : 0 .. MinRounds,
                probe_rounds : 0 .. ProbeWindow, plain_steps : Nat,
                backoff : Nat, confirm : {"none", "asked", "sampled"},
                prime_tap_row : Rows],
         NEW row \in Rows, NEW b \in BOOLEAN
  PROVE  WentOff(p, row, b) \in Policy
<1>1. MaxOf(MinOf(2 * p.backoff, BackoffCap), BackoffBase) \in Nat /\ BackoffBase \in Nat
  BY SpecLanesAssumption DEF MaxOf, MinOf
<1>2. 0 \in 0 .. ProbeWindow - 1
  BY SpecLanesAssumption
<1> QED
  BY <1>1, <1>2 DEF WentOff, Policy

\* What a speculative round leaves of the policy: its type; the phase is Off
\* exactly after an off verdict, with the round's row and a fresh count; a
\* confirm is asked for by its verdict or was asked for before; a first off had
\* a confirm.
LEMMA RoundDecides ==
  ASSUME NEW r \in Policy, NEW trips \in BOOLEAN, NEW a \in Rows
  PROVE  LET c == Counted(r)
             v == Verdict(c, trips)
             d == Decided(c, v, a)
         IN  /\ d \in Policy
             /\ r.phase # "Off" =>
                  /\ v \in {"Off", "ProbeFailed"} <=> d.phase = "Off"
             /\ v \in {"Off", "ProbeFailed"} => d.prime_tap_row = a /\ d.plain_steps = 0
             /\ d.confirm = "asked" => v = "ConfirmControl" \/ r.confirm = "asked"
             /\ r.phase = "Armed" /\ d.phase = "Off" => r.confirm # "none"
<1> DEFINE c == Counted(r)
           v == Verdict(c, trips)
           d == Decided(c, v, a)
<1>1. /\ c \in [phase : {"Armed", "Off", "Probing"}, rounds : 0 .. MinRounds,
                probe_rounds : 0 .. ProbeWindow, plain_steps : Nat,
                backoff : Nat, confirm : {"none", "asked", "sampled"},
                prime_tap_row : Rows]
      /\ c.phase = r.phase /\ c.confirm = r.confirm
      /\ r.phase # "Probing" => c.probe_rounds = r.probe_rounds
  BY CountedFields
<1>2. r.probe_rounds \in 0 .. ProbeWindow - 1
  BY DEF Policy
<1>. HIDE DEF c
<1>3. CASE v \in {"Off", "ProbeFailed"}
  <2>1. d = WentOff(c, a, TRUE) \/ d = WentOff(c, a, FALSE)
    BY <1>3 DEF Decided
  <2>2. WentOff(c, a, TRUE) \in Policy /\ WentOff(c, a, FALSE) \in Policy
    BY <1>1, WentOffType, Zenon
  <2>3. d.phase = "Off" /\ d.prime_tap_row = a /\ d.plain_steps = 0 /\ d.confirm = "none"
    BY <2>1, <1>1 DEF WentOff
  <2>4. r.phase = "Armed" => r.confirm # "none"
    BY <1>1, <1>3 DEF Verdict
  <2> QED
    BY <2>1, <2>2, <2>3, <2>4, <1>3 DEF c
<1>4. CASE v = "ProbeSucceeded"
  <2>1. d = ProbeOk(c)
    BY <1>4 DEF Decided
  <2>2. 0 \in 0 .. ProbeWindow - 1 /\ BackoffBase \in Nat
    BY SpecLanesAssumption
  <2>3. d \in Policy /\ d.phase = "Armed" /\ d.confirm = r.confirm
    BY <2>1, <2>2, <1>1 DEF ProbeOk, Policy
  <2> QED
    BY <2>3, <1>4 DEF c
<1>5. CASE v = "ConfirmControl"
  <2>1. r.phase = "Armed" /\ d = [c EXCEPT !.confirm = "asked"]
    BY <1>5, <1>1 DEF Decided, Verdict
  <2>2. d \in Policy /\ d.phase = "Armed"
    BY <2>1, <1>1, <1>2 DEF Policy
  <2> QED
    BY <2>2, <1>5 DEF c
<1>6. CASE v = "Continue"
  <2>1. c.probe_rounds \in 0 .. ProbeWindow - 1
    <3>1. CASE r.phase = "Probing"
      BY <3>1, <1>6, <1>1, SpecLanesAssumption DEF Verdict
    <3>2. CASE r.phase # "Probing"
      BY <3>2, <1>1, <1>2
    <3> QED
      BY <3>1, <3>2
  <2>2. d = IF c.phase = "Armed" THEN [c EXCEPT !.confirm = "none"] ELSE c
    BY <1>6 DEF Decided
  <2>3. d \in Policy /\ d.phase = r.phase
        /\ (d.confirm = "asked" => r.confirm = "asked")
    BY <2>1, <2>2, <1>1 DEF Policy
  <2> QED
    BY <2>3, <1>6 DEF c
<1>7. v \in {"Off", "ProbeFailed", "ProbeSucceeded", "ConfirmControl", "Continue"}
  BY DEF Verdict
<1> QED
  BY <1>3, <1>4, <1>5, <1>6, <1>7

\* Arming for the probe and a plain step off keep the type.
LEMMA SmallSteps ==
  ASSUME NEW r \in Policy
  PROVE  ArmedForProbe(r) \in Policy /\ Observed(r) \in Policy /\ Sampled(r) \in Policy
<1>1. 0 \in 0 .. MinRounds /\ 0 \in 0 .. ProbeWindow - 1 /\ 0 \in Rows
  BY SpecLanesAssumption DEF Rows
<1>2. r.plain_steps + 1 \in Nat
  BY DEF Policy
<1>3. ArmedForProbe(r) \in Policy
  BY <1>1 DEF ArmedForProbe, Policy
<1>4. Observed(r) \in Policy
  BY <1>1, <1>2 DEF Observed, Policy
<1>5. Sampled(r) \in Policy
  BY DEF Sampled, Policy
<1> QED
  BY <1>3, <1>4, <1>5

\* A new request's policy has the type.
LEMMA NewPolicyType == NewPolicy \in Policy
<1>1. 0 \in 0 .. MinRounds /\ 0 \in 0 .. ProbeWindow - 1 /\ 0 \in Rows /\ BackoffBase \in Nat
  BY SpecLanesAssumption DEF Rows
<1> QED
  BY <1>1 DEF NewPolicy, Policy

-----------------------------------------------------------------------------
(* Types. *)

\* Ranks are numbers.
LEMMA RankType ==
  ASSUME busy \subseteq Slots, NEW s, NEW gone
  PROVE  /\ Cardinality(Older(s) \ gone) \in Nat
         /\ Cardinality(busy) \in Nat /\ Cardinality(busy \ gone) \in Nat
<1>1. Older(s) \ gone \in SUBSET Slots /\ busy \ gone \in SUBSET Slots
  BY DEF Older
<1> QED
  BY <1>1, SpecLanesAssumption, FS_Subset, FS_CardinalityType

\* Lanes that leave keep the ranks numbers.
LEMMA LeaveType ==
  ASSUME TypeOK, NEW gone, Leave(gone)
  PROVE  busy' \subseteq Slots /\ age' \in [Slots -> Nat]
<1>1. \A s \in Slots : Cardinality(Older(s) \ gone) \in Nat
  BY RankType DEF TypeOK
<1> QED
  BY <1>1 DEF Leave, TypeOK

\* A round's end keeps the types of what it changes.
LEMMA EmittedType ==
  ASSUME TypeOK, NEW s \in Slots, NEW n \in Nat, Emitted(s, n)
  PROVE  busy' \subseteq Slots /\ age' \in [Slots -> Nat] /\ credit' \in [Slots -> Nat]
<1>1. CASE Charge(s, n) /\ UNCHANGED busy
  <2>1. CASE ToBack(s) /\ credit' = [credit EXCEPT ![s] = 0]
    <3>1. \A t \in Slots : Cardinality(Older(t) \ {s}) \in Nat
                           /\ Cardinality(busy \ {s}) \in Nat
      BY RankType DEF TypeOK
    <3>2. age' \in [Slots -> Nat]
      BY <3>1, <2>1 DEF ToBack
    <3> QED
      BY <3>2, <2>1, <1>1 DEF TypeOK
  <2>2. CASE UNCHANGED age /\ credit' = [credit EXCEPT ![s] = credit[s] + n]
    BY <2>2, <1>1 DEF TypeOK
  <2>3. CASE UNCHANGED <<age, credit>>
    BY <2>3, <1>1 DEF TypeOK
  <2> QED
    BY <1>1, <2>1, <2>2, <2>3 DEF Charge
<1>2. CASE Leave({s}) /\ UNCHANGED credit
  BY <1>2, LeaveType DEF TypeOK
<1> QED
  BY <1>1, <1>2 DEF Emitted

\* Re-arming keeps the types of what it changes.
LEMMA RearmType ==
  ASSUME TypeOK, Rearm
  PROVE  mtp' \in [Slots -> Rows \cup {None}] /\ rp' \in [Slots -> Policy]
<1>1. \A s \in Slots : ArmedForProbe(rp[s]) \in Policy
  BY SmallSteps DEF TypeOK
<1>2. 0 \in Rows
  BY SpecLanesAssumption DEF Rows
<1>3. rp' \in [Slots -> Policy]
  BY <1>1 DEF Rearm, TypeOK
<1>4. mtp' \in [Slots -> Rows \cup {None}]
  BY <1>2 DEF Rearm, TypeOK
<1> QED
  BY <1>3, <1>4

\* The initial state has the types.
LEMMA InitTypes == Init => TypeOK
<1> SUFFICES ASSUME Init PROVE TypeOK
  OBVIOUS
<1>1. rp \in [Slots -> Policy]
  BY NewPolicyType DEF Init
<1>2. age \in [Slots -> Nat] /\ credit \in [Slots -> Nat]
  BY DEF Init
<1> QED
  BY <1>1, <1>2 DEF Init, TypeOK

\* Every step keeps the types.
LEMMA NextTypes == TypeOK /\ [Next]_vars => TypeOK'
<1> SUFFICES ASSUME TypeOK, [Next]_vars PROVE TypeOK'
  OBVIOUS
<1>0. 0 \in Rows /\ \A a \in 0 .. K : a \in Rows /\ a + 1 \in Nat
  BY SpecLanesAssumption DEF Rows
<1>1. ASSUME NEW s \in Slots, Admit(s) PROVE TypeOK'
  <2>1. Cardinality(busy) \in Nat
    BY RankType DEF TypeOK
  <2>2. age' \in [Slots -> Nat] /\ credit' \in [Slots -> Nat]
    BY <1>1, <2>1 DEF Admit, TypeOK
  <2>3. rp' \in [Slots -> Policy]
    BY <1>1, NewPolicyType DEF Admit, TypeOK
  <2>4. mtp' \in [Slots -> Rows \cup {None}] /\ fresh' \in [Slots -> Rows \cup {None}]
    BY <1>0, <1>1 DEF Admit, TypeOK
  <2> QED
    BY <1>1, <2>2, <2>3, <2>4 DEF Admit, TypeOK, stepVars
<1>2. ASSUME NEW s \in Slots, Cancel(s) PROVE TypeOK'
  <2>1. Leave({s})
    BY <1>2 DEF Cancel
  <2>2. busy' \subseteq Slots /\ age' \in [Slots -> Nat]
    BY <2>1, LeaveType
  <2> QED
    BY <1>2, <2>2 DEF Cancel, TypeOK, laneVars, stepVars
<1>3. ASSUME Dispatch PROVE TypeOK'
  <2>1. mtp' \in [Slots -> Rows \cup {None}] /\ rp' \in [Slots -> Policy]
    BY <1>3, RearmType DEF Dispatch, DispatchShared, DispatchRefresh, DispatchSerial
  <2>2. Capable \subseteq Slots /\ Front \subseteq Slots
    BY DEF Capable, Due, Front, Eligible, TypeOK
  <2>3. todo' \subseteq Slots /\ batch' \subseteq Slots
    BY <1>3, <2>2 DEF Dispatch, DispatchShared, DispatchRefresh, DispatchSerial, TypeOK
  <2>4. arm' \in {"serial", "shared", "refresh"} /\ ridden' \in BOOLEAN
    BY <1>3 DEF Dispatch, DispatchShared, DispatchRefresh, DispatchSerial
  <2> QED
    BY <1>3, <2>1, <2>3, <2>4
       DEF Dispatch, DispatchShared, DispatchRefresh, DispatchSerial, TypeOK
<1>4. ASSUME NEW s \in Slots, PlainRound(s) PROVE TypeOK'
  <2>1. Emitted(s, 1)
    BY <1>4 DEF PlainRound
  <2>2. busy' \subseteq Slots /\ age' \in [Slots -> Nat] /\ credit' \in [Slots -> Nat]
    BY <2>1, EmittedType
  <2>3. Sampled(rp[s]) \in Policy /\ rp[s] \in Policy
    BY SmallSteps DEF TypeOK
  <2>4. rp' \in [Slots -> Policy]
    BY <1>4, <2>3 DEF PlainRound, TypeOK
  <2>5. mtp' \in [Slots -> Rows \cup {None}] /\ fresh' \in [Slots -> Rows \cup {None}]
    BY <1>0, <1>4 DEF PlainRound, TypeOK
  <2>6. hole' \in [Slots -> BOOLEAN] /\ force' \in [Slots -> BOOLEAN]
    BY <1>4 DEF PlainRound, Drafted, TypeOK
  <2> QED
    BY <1>4, <2>2, <2>4, <2>5, <2>6 DEF PlainRound, TypeOK
<1>5. ASSUME NEW s \in Slots, SpecRound(s) PROVE TypeOK'
  <2>1. PICK a \in 0 .. K, trips \in BOOLEAN :
          LET r == Counted(rp[s])
              v == Verdict(r, trips)
          IN  /\ rp' = [rp EXCEPT ![s] = Decided(r, v, a)]
              /\ force' = [force EXCEPT ![s] = v = "ConfirmControl"]
              /\ mtp' = [mtp EXCEPT ![s] = IF v \in {"Off", "ProbeFailed"} THEN None ELSE a]
              /\ fresh' = [fresh EXCEPT ![s] = a]
              /\ Drafted(s)
              /\ Emitted(s, a + 1)
    BY <1>5 DEF SpecRound
  <2>2. a \in Rows /\ a + 1 \in Nat
    BY <1>0
  <2>3. busy' \subseteq Slots /\ age' \in [Slots -> Nat] /\ credit' \in [Slots -> Nat]
    BY <2>1, <2>2, EmittedType
  <2>4. Decided(Counted(rp[s]), Verdict(Counted(rp[s]), trips), a) \in Policy
    BY <2>2, RoundDecides DEF TypeOK
  <2>5. rp' \in [Slots -> Policy]
    BY <2>1, <2>4 DEF TypeOK
  <2>6. mtp' \in [Slots -> Rows \cup {None}] /\ fresh' \in [Slots -> Rows \cup {None}]
    BY <2>1, <2>2 DEF TypeOK
  <2>7. hole' \in [Slots -> BOOLEAN] /\ force' \in [Slots -> BOOLEAN]
    BY <2>1 DEF Drafted, TypeOK
  <2> QED
    BY <1>5, <2>3, <2>5, <2>6, <2>7 DEF SpecRound, TypeOK
<1>6. ASSUME PlainBatch PROVE TypeOK'
  <2>1. PICK ended \in SUBSET batch : Leave(ended)
    BY <1>6 DEF PlainBatch
  <2>2. busy' \subseteq Slots /\ age' \in [Slots -> Nat]
    BY <2>1, LeaveType
  <2>3. \A s \in Slots : rp[s] \in Policy /\ Observed(rp[s]) \in Policy
    BY SmallSteps DEF TypeOK
  <2>4. rp' \in [Slots -> Policy]
    BY <1>6, <2>3 DEF PlainBatch
  <2>5. fresh' \in [Slots -> Rows \cup {None}]
    BY <1>0, <1>6 DEF PlainBatch, TypeOK
  <2>6. mtp' \in [Slots -> Rows \cup {None}]
    BY <1>0, <1>6 DEF PlainBatch, TypeOK
  <2>7. hole' \in [Slots -> BOOLEAN]
    BY <1>6 DEF PlainBatch, TypeOK
  <2> QED
    BY <1>6, <2>2, <2>4, <2>5, <2>6, <2>7 DEF PlainBatch, TypeOK
<1>7. CASE UNCHANGED vars
  BY <1>7 DEF vars, TypeOK
<1> QED
  BY <1>1, <1>2, <1>3, <1>4, <1>5, <1>6, <1>7 DEF Next, Step, Round

\* The types hold for any number of lanes and any depth.
THEOREM TypesHold == Spec => []TypeOK
  BY InitTypes, NextTypes, PTL DEF Spec

-----------------------------------------------------------------------------
(* A speculating lane's head is ready.  The strengthening follows a lane     *)
(* through its off: while it is off the policy's row is the row of the tap,  *)
(* row 0 from the first plain step on, which is what the re-arm assumes.     *)

HeadOK(s) ==
  /\ mtp[s] # None => rp[s].phase # "Off" /\ ~hole[s] /\ mtp[s] = fresh[s]
  /\ rp[s].phase = "Off" => /\ ~hole[s] /\ rp[s].prime_tap_row = fresh[s]
                            /\ rp[s].plain_steps > 0 => rp[s].prime_tap_row = 0

\* The lanes of the step under way are live, in one of its two parts, and those
\* whose round is to come speculate.
StepOK ==
  /\ todo \subseteq busy /\ batch \subseteq busy /\ todo \cap batch = {}
  /\ \A s \in todo : mtp[s] # None

HeadInv == TypeOK /\ StepOK /\ \A s \in busy : HeadOK(s)

\* The invariant gives the property.
LEMMA HeadEnough == HeadInv => HeadReady
  BY DEF HeadInv, HeadOK, HeadReady

\* The initial state satisfies the invariant.
LEMMA HeadInit == Init => HeadInv
  BY InitTypes DEF Init, HeadInv, StepOK

\* A lane that a step leaves alone stays as it was.
LEMMA HeadSame ==
  ASSUME NEW s, HeadOK(s),
         mtp'[s] = mtp[s], fresh'[s] = fresh[s], rp'[s] = rp[s],
         hole'[s] => hole[s]
  PROVE  HeadOK(s)'
  BY DEF HeadOK

\* A lane that is due goes on from the row its plain steps left.
LEMMA HeadRearm ==
  ASSUME HeadInv, Rearm, UNCHANGED <<fresh, hole>>, NEW s \in busy
  PROVE  HeadOK(s)' /\ (s \in Capable => mtp'[s] # None)
<1>0. s \in Slots /\ rp[s] \in Policy /\ None # 0
  BY SpecLanesAssumption DEF HeadInv, TypeOK
<1>1. CASE s \in Due
  <2>1. rp[s].phase = "Off" /\ rp[s].plain_steps >= MaxOf(rp[s].backoff, BackoffBase)
    BY <1>1 DEF Due, ProbeDue
  <2>2. rp[s].plain_steps > 0
    BY <2>1, <1>0, SpecLanesAssumption DEF MaxOf, Policy
  <2>3. ~hole[s] /\ fresh[s] = 0
    BY <2>1, <2>2 DEF HeadInv, HeadOK
  <2>4. mtp'[s] = 0 /\ rp'[s] = ArmedForProbe(rp[s])
    BY <1>0, <1>1 DEF Rearm
  <2>5. rp'[s].phase = "Probing"
    BY <2>4, <1>0 DEF ArmedForProbe, Policy
  <2> QED
    BY <2>3, <2>4, <2>5, <1>0 DEF HeadOK
<1>2. CASE s \notin Due
  <2>1. mtp'[s] = mtp[s] /\ rp'[s] = rp[s]
    BY <1>0, <1>2 DEF Rearm
  <2> QED
    BY <2>1, <1>2, HeadSame DEF HeadInv, Capable
<1> QED
  BY <1>1, <1>2

\* After a round the other lanes are as they were and no lane has joined.
LEMMA RoundOthers ==
  ASSUME HeadInv, NEW s \in Slots, Turn(s), NEW n, Emitted(s, n),
         NEW m, NEW f, NEW r, NEW h,
         mtp' = [mtp EXCEPT ![s] = m], fresh' = [fresh EXCEPT ![s] = f],
         rp' = [rp EXCEPT ![s] = r], hole' = [hole EXCEPT ![s] = h],
         todo' = todo \ {s}, batch' = batch
  PROVE  StepOK' /\ (\A t \in busy' : t # s => HeadOK(t)')
<1>1. busy' \subseteq busy /\ busy \ {s} \subseteq busy'
  BY DEF Emitted, Leave
<1>2. s \in todo /\ s \notin batch
  BY DEF Turn, HeadInv, StepOK
<1>3. ASSUME NEW t \in busy', t # s PROVE HeadOK(t)'
  <2>1. t \in busy /\ t \in Slots
    BY <1>1 DEF HeadInv, TypeOK
  <2> QED
    BY <1>3, <2>1, HeadSame DEF HeadInv, TypeOK
<1>4. todo' \subseteq busy' /\ batch' \subseteq busy' /\ todo' \cap batch' = {}
  BY <1>1, <1>2 DEF HeadInv, StepOK
<1>5. \A t \in todo' : mtp'[t] # None
  BY DEF HeadInv, StepOK, TypeOK
<1> QED
  BY <1>3, <1>4, <1>5 DEF StepOK

\* Every step keeps the invariant.
LEMMA HeadStep == HeadInv /\ [Next]_vars => HeadInv'
<1> SUFFICES ASSUME HeadInv, [Next]_vars PROVE HeadInv'
  OBVIOUS
<1>0. TypeOK' /\ TypeOK /\ StepOK
  BY NextTypes DEF HeadInv
<1>n. None \notin Rows /\ 0 \in Rows
  BY SpecLanesAssumption DEF Rows
<1>1. ASSUME NEW s \in Slots, Admit(s) PROVE HeadInv'
  <2>1. ASSUME NEW t \in busy' PROVE HeadOK(t)'
    <3>1. CASE t = s
      <4>1. rp'[s] = NewPolicy /\ hole'[s] = FALSE /\ mtp'[s] = fresh'[s]
        BY <1>1, <1>0 DEF Admit, TypeOK
      <4> QED
        BY <4>1, <3>1 DEF HeadOK, NewPolicy
    <3>2. CASE t # s
      <4>1. t \in busy /\ t \in Slots
        BY <3>2, <1>1, <2>1, <1>0 DEF Admit, TypeOK
      <4> QED
        BY <4>1, <3>2, <1>1, <1>0, HeadSame DEF HeadInv, Admit, TypeOK
    <3> QED
      BY <3>1, <3>2
  <2>2. StepOK'
    BY <1>1, <1>0 DEF Admit, Between, StepOK, stepVars
  <2> QED
    BY <1>0, <2>1, <2>2 DEF HeadInv
<1>2. ASSUME NEW s \in Slots, Cancel(s) PROVE HeadInv'
  <2>1. busy' \subseteq busy
    BY <1>2 DEF Cancel, Leave
  <2>2. \A t \in busy' : HeadOK(t)'
    BY <1>2, <2>1, HeadSame DEF HeadInv, Cancel, laneVars
  <2>3. StepOK'
    BY <1>2 DEF Cancel, Between, StepOK, stepVars
  <2> QED
    BY <1>0, <2>2, <2>3 DEF HeadInv
<1>3. ASSUME Dispatch PROVE HeadInv'
  <2>1. Rearm /\ UNCHANGED <<busy, fresh, hole>>
    BY <1>3 DEF Dispatch, DispatchShared, DispatchRefresh, DispatchSerial
  <2>2. \A s \in busy : HeadOK(s)' /\ (s \in Capable => mtp'[s] # None)
    BY <2>1, HeadRearm
  <2>3. Capable \subseteq busy /\ Front \subseteq Capable
    BY DEF Capable, Due, Front, Eligible
  <2>4. /\ todo' \subseteq Capable /\ batch' \subseteq busy
        /\ todo' = {} \/ batch' = {} \/ batch' = busy \ Capable
    BY <1>3, <2>3 DEF Dispatch, DispatchShared, DispatchRefresh, DispatchSerial
  <2>5. StepOK'
    BY <2>1, <2>2, <2>3, <2>4 DEF StepOK
  <2> QED
    BY <1>0, <2>1, <2>2, <2>5 DEF HeadInv
<1>4. ASSUME NEW s \in Slots, PlainRound(s) PROVE HeadInv'
  <2>1. PICK control \in BOOLEAN :
          rp' = [rp EXCEPT ![s] = IF control THEN Sampled(rp[s]) ELSE rp[s]]
    BY <1>4 DEF PlainRound
  <2>2. s \in busy /\ mtp[s] # None /\ HeadOK(s)
    BY <1>4 DEF PlainRound, Turn, HeadInv, StepOK
  <2>3. StepOK' /\ (\A t \in busy' : t # s => HeadOK(t)')
    <3>1. /\ mtp' = [mtp EXCEPT ![s] = 0] /\ fresh' = [fresh EXCEPT ![s] = 0]
          /\ hole' = [hole EXCEPT ![s] = hole[s] \/ mtp[s] # fresh[s]]
          /\ Emitted(s, 1) /\ Turn(s) /\ todo' = todo \ {s} /\ batch' = batch
      BY <1>4 DEF PlainRound, Drafted
    <3> QED
      BY <3>1, <2>1, RoundOthers
  <2>4. mtp'[s] = 0 /\ fresh'[s] = 0 /\ ~hole'[s]
    BY <1>4, <1>0, <2>2 DEF PlainRound, Drafted, TypeOK, HeadOK
  <2>5. rp[s] \in Policy /\ rp[s].phase # "Off"
        /\ rp'[s] = IF control THEN Sampled(rp[s]) ELSE rp[s]
    BY <2>1, <2>2, <1>0 DEF TypeOK, HeadOK
  <2>6. rp'[s].phase # "Off"
    BY <2>5 DEF Sampled, Policy
  <2>7. HeadOK(s)'
    BY <2>4, <2>6 DEF HeadOK
  <2> QED
    BY <1>0, <2>3, <2>7 DEF HeadInv
<1>5. ASSUME NEW s \in Slots, SpecRound(s) PROVE HeadInv'
  <2> DEFINE c == Counted(rp[s])
  <2>1. PICK a \in 0 .. K, trips \in BOOLEAN :
          /\ rp' = [rp EXCEPT ![s] = Decided(c, Verdict(c, trips), a)]
          /\ mtp' = [mtp EXCEPT ![s] = IF Verdict(c, trips) \in {"Off", "ProbeFailed"}
                                      THEN None ELSE a]
          /\ fresh' = [fresh EXCEPT ![s] = a]
          /\ Drafted(s)
          /\ Emitted(s, a + 1)
    BY <1>5 DEF SpecRound
  <2> DEFINE v == Verdict(c, trips)
             d == Decided(c, v, a)
  <2>2. s \in busy /\ mtp[s] # None /\ HeadOK(s)
    BY <1>5 DEF SpecRound, Turn, HeadInv, StepOK
  <2>3. rp[s] \in Policy /\ rp[s].phase # "Off" /\ a \in Rows
    BY <2>2, <1>0 DEF TypeOK, HeadOK, Rows
  <2>4. /\ v \in {"Off", "ProbeFailed"} <=> d.phase = "Off"
        /\ v \in {"Off", "ProbeFailed"} => d.prime_tap_row = a /\ d.plain_steps = 0
    BY <2>3, RoundDecides
  <2>5. StepOK' /\ (\A t \in busy' : t # s => HeadOK(t)')
    <3>1. /\ hole' = [hole EXCEPT ![s] = hole[s] \/ mtp[s] # fresh[s]]
          /\ Turn(s) /\ todo' = todo \ {s} /\ batch' = batch
      BY <1>5, <2>1 DEF SpecRound, Drafted
    <3> QED
      BY <3>1, <2>1, RoundOthers
  <2>6. /\ fresh'[s] = a /\ ~hole'[s] /\ rp'[s] = d
        /\ mtp'[s] = IF v \in {"Off", "ProbeFailed"} THEN None ELSE a
    BY <2>1, <2>2, <1>0 DEF Drafted, TypeOK, HeadOK
  <2> HIDE DEF d, v, c
  <2>7. HeadOK(s)'
    BY <2>4, <2>6 DEF HeadOK
  <2> QED
    BY <1>0, <2>5, <2>7 DEF HeadInv
<1>6. ASSUME PlainBatch PROVE HeadInv'
  <2>1. busy' \subseteq busy
    BY <1>6 DEF PlainBatch, Leave
  <2>2. StepOK'
    BY <1>6 DEF PlainBatch, StepOK
  <2>3. ASSUME NEW s \in busy' PROVE HeadOK(s)'
    <3>1. s \in busy /\ s \in Slots /\ HeadOK(s) /\ rp[s] \in Policy
      BY <2>1, <1>0 DEF HeadInv, TypeOK
    <3>2. /\ hole'[s] = (hole[s] \/ (s \in Primed /\ PrimeRow(s) # fresh[s]))
          /\ fresh'[s] = IF s \in Primed THEN 0 ELSE IF s \in batch THEN None ELSE fresh[s]
          /\ mtp'[s] = IF s \in batch /\ mtp[s] # None THEN 0 ELSE mtp[s]
          /\ rp'[s] = IF s \in batch /\ KeepPrimed(rp[s]) THEN Observed(rp[s]) ELSE rp[s]
      BY <1>6, <3>1 DEF PlainBatch
    <3>3. CASE s \notin batch
      <4>1. s \notin Primed
        BY <3>3 DEF Primed
      <4>2. hole'[s] => hole[s]
        BY <4>1, <3>2
      <4>3. mtp'[s] = mtp[s] /\ fresh'[s] = fresh[s] /\ rp'[s] = rp[s]
        BY <4>1, <3>2, <3>3
      <4> QED
        BY <3>1, <4>2, <4>3, HeadSame
    <3>4. CASE s \in batch /\ mtp[s] # None
      <4>1. rp[s].phase # "Off" /\ s \in Primed /\ PrimeRow(s) = fresh[s] /\ ~hole[s]
        BY <3>1, <3>4 DEF HeadOK, Primed, PrimeRow
      <4> QED
        BY <4>1, <3>2, <3>4 DEF HeadOK, KeepPrimed
    <3>5. CASE s \in batch /\ mtp[s] = None /\ rp[s].phase = "Off"
      <4>1. s \in Primed /\ PrimeRow(s) = fresh[s] /\ ~hole[s]
        BY <3>1, <3>5 DEF HeadOK, Primed, PrimeRow, KeepPrimed
      <4>2. rp'[s] = Observed(rp[s])
        BY <3>2, <3>5 DEF KeepPrimed
      <4>3. rp'[s].prime_tap_row = 0
        BY <4>2, <3>1 DEF Observed, Policy
      <4> QED
        BY <4>1, <4>3, <3>2, <3>5 DEF HeadOK
    <3>6. CASE s \in batch /\ mtp[s] = None /\ rp[s].phase # "Off"
      BY <3>2, <3>6 DEF HeadOK, KeepPrimed
    <3> QED
      BY <3>3, <3>4, <3>5, <3>6
  <2> QED
    BY <1>0, <2>2, <2>3 DEF HeadInv
<1>7. CASE UNCHANGED vars
  BY <1>7 DEF vars, HeadInv, HeadOK, StepOK, TypeOK, Policy
<1> QED
  BY <1>1, <1>2, <1>3, <1>4, <1>5, <1>6, <1>7 DEF Next, Step, Round

\* A lane that speculates does so from a head with no hole and from the tap of
\* its own last token, whatever offs, re-arms, controls and shared steps it has
\* been through, for any number of lanes and any depth.
THEOREM HeadReadyHolds == Spec => []HeadReady
  BY HeadInit, HeadStep, HeadEnough, PTL DEF Spec

-----------------------------------------------------------------------------
(* A first off is confirmed.  The strengthening: a confirm that was asked for *)
(* and has no sample forces the lane's next round to be the control.          *)

ConfirmInv == TypeOK /\ \A s \in Slots : rp[s].confirm = "asked" => force[s]

\* The initial state satisfies the invariant.
LEMMA ConfirmInit == Init => ConfirmInv
  BY InitTypes DEF Init, ConfirmInv, NewPolicy

\* Only a speculative round turns speculation off: every other step keeps a
\* lane's phase or moves it elsewhere.
LEMMA ConfirmStep ==
  ConfirmInv /\ [Next]_vars =>
    /\ ConfirmInv'
    /\ \A s \in Slots : rp[s].phase = "Armed" /\ rp'[s].phase = "Off"
                         => rp[s].confirm = "sampled"
<1> DEFINE Kept(s) == rp'[s].confirm = "asked" => force'[s]
           Confirmed(s) == rp[s].phase = "Armed" /\ rp'[s].phase = "Off"
                             => rp[s].confirm = "sampled"
<1> SUFFICES ASSUME ConfirmInv, [Next]_vars, NEW t \in Slots
             PROVE  Kept(t) /\ Confirmed(t)
  BY NextTypes DEF ConfirmInv
<1>0. rp[t] \in Policy /\ TypeOK /\ (rp[t].confirm = "asked" => force[t])
  BY DEF ConfirmInv, TypeOK
<1>1. CASE rp'[t] = rp[t] /\ force'[t] = force[t]
  BY <1>0, <1>1
<1>2. ASSUME NEW s \in Slots, Admit(s) PROVE Kept(t) /\ Confirmed(t)
  <2>1. CASE s = t
    <3>1. rp'[t] = NewPolicy
      BY <1>2, <2>1, <1>0 DEF Admit, TypeOK
    <3> QED
      BY <3>1 DEF NewPolicy
  <2>2. CASE s # t
    BY <1>1, <1>2, <2>2, <1>0 DEF Admit, TypeOK
  <2> QED
    BY <2>1, <2>2
<1>3. ASSUME NEW s \in Slots, Cancel(s) PROVE Kept(t) /\ Confirmed(t)
  BY <1>1, <1>3 DEF Cancel, laneVars
<1>4. ASSUME Dispatch PROVE Kept(t) /\ Confirmed(t)
  <2>1. Rearm /\ force' = force
    BY <1>4 DEF Dispatch, DispatchShared, DispatchRefresh, DispatchSerial
  <2>2. rp'[t] = IF t \in Due THEN ArmedForProbe(rp[t]) ELSE rp[t]
    BY <2>1 DEF Rearm
  <2>3. ArmedForProbe(rp[t]).confirm = rp[t].confirm /\ ArmedForProbe(rp[t]).phase = "Probing"
    BY <1>0 DEF ArmedForProbe, Policy
  <2> QED
    BY <1>0, <2>1, <2>2, <2>3
<1>5. ASSUME NEW s \in Slots, PlainRound(s) PROVE Kept(t) /\ Confirmed(t)
  <2>1. PICK control \in BOOLEAN :
          /\ force[s] => control
          /\ rp' = [rp EXCEPT ![s] = IF control THEN Sampled(rp[s]) ELSE rp[s]]
    BY <1>5 DEF PlainRound
  <2>2. CASE s = t
    <3>1. rp'[t] = IF control THEN Sampled(rp[t]) ELSE rp[t]
      BY <2>1, <2>2, <1>0 DEF TypeOK
    <3>2. Sampled(rp[t]).confirm # "asked" /\ Sampled(rp[t]).phase = rp[t].phase
      BY <1>0 DEF Sampled, Policy
    <3> QED
      BY <3>1, <3>2, <2>1, <2>2, <1>0
  <2>3. CASE s # t
    BY <1>1, <1>5, <2>1, <2>3, <1>0 DEF PlainRound, TypeOK
  <2> QED
    BY <2>2, <2>3
<1>6. ASSUME NEW s \in Slots, SpecRound(s) PROVE Kept(t) /\ Confirmed(t)
  <2> DEFINE c == Counted(rp[s])
  <2>1. PICK a \in 0 .. K, trips \in BOOLEAN :
          /\ rp' = [rp EXCEPT ![s] = Decided(c, Verdict(c, trips), a)]
          /\ force' = [force EXCEPT ![s] = Verdict(c, trips) = "ConfirmControl"]
    BY <1>6 DEF SpecRound
  <2> DEFINE v == Verdict(c, trips)
             d == Decided(c, v, a)
  <2>2. CASE s = t
    <3>1. ~force[t] /\ rp[t].confirm # "asked" /\ a \in Rows
      BY <1>6, <2>2, <1>0 DEF SpecRound, Rows
    <3>2. rp'[t] = d /\ force'[t] = (v = "ConfirmControl")
      BY <2>1, <2>2, <1>0 DEF TypeOK
    <3>3. /\ d.confirm = "asked" => v = "ConfirmControl"
          /\ rp[t].phase = "Armed" /\ d.phase = "Off" => rp[t].confirm # "none"
      BY <2>2, <3>1, <1>0, RoundDecides
    <3>4. rp[t].confirm \in {"none", "asked", "sampled"}
      BY <1>0 DEF Policy
    <3> HIDE DEF d, v, c
    <3>5. Kept(t)
      BY <3>2, <3>3, Zenon
    <3>6. Confirmed(t)
      BY <3>1, <3>2, <3>3, <3>4
    <3> QED
      BY <3>5, <3>6
  <2>3. CASE s # t
    BY <1>1, <2>1, <2>3, <1>0 DEF TypeOK
  <2> QED
    BY <2>2, <2>3
<1>7. ASSUME PlainBatch PROVE Kept(t) /\ Confirmed(t)
  <2>1. force' = force
        /\ rp'[t] = IF t \in batch /\ KeepPrimed(rp[t]) THEN Observed(rp[t]) ELSE rp[t]
    BY <1>7 DEF PlainBatch
  <2>2. Observed(rp[t]).confirm = rp[t].confirm /\ Observed(rp[t]).phase = rp[t].phase
    BY <1>0 DEF Observed, Policy
  <2> QED
    BY <2>1, <2>2, <1>0
<1>8. CASE UNCHANGED vars
  BY <1>1, <1>8 DEF vars
<1> QED
  BY <1>2, <1>3, <1>4, <1>5, <1>6, <1>7, <1>8 DEF Next, Step, Round

\* A lane's first off follows a control round that ran after the crossing, for
\* any number of lanes and whatever happens between the two.
THEOREM ConfirmedOffHolds == Spec => ConfirmedOff
<1>1. ConfirmInv /\ [Next]_vars =>
        [\A s \in Slots : rp[s].phase = "Armed" /\ rp'[s].phase = "Off"
                             => rp[s].confirm = "sampled"]_vars
  BY ConfirmStep
<1>2. ConfirmInv /\ [Next]_vars => ConfirmInv'
  BY ConfirmStep
<1> QED
  BY ConfirmInit, <1>1, <1>2, PTL DEF Spec, ConfirmedOff

-----------------------------------------------------------------------------
(* fcfs has a front.  The strengthening: between steps no lane is out of      *)
(* quantum, since the charge that reaches it resets it.                       *)

CreditInv == TypeOK /\ \A s \in Slots : credit[s] < Quantum

\* Of some lanes one is the oldest.
LEMMA Oldest ==
  ASSUME TypeOK, NEW S \in SUBSET Slots, S # {}
  PROVE  \E s \in S : \A t \in S : age[s] <= age[t]
<1> DEFINE ages == {age[s] : s \in S}
<1>1. ages \subseteq Nat /\ ages # {}
  BY DEF TypeOK
<1>2. PICK x \in ages : \A y \in ages : ~ (<<y, x>> \in OpToRel(<, Nat))
  <2> HIDE DEF ages
  <2> QED
    BY <1>1, NatLessThanWellFounded, WFMin
<1>3. PICK s \in S : x = age[s]
  OBVIOUS
<1>4. ASSUME NEW t \in S PROVE age[s] <= age[t]
  <2>1. age[s] \in Nat /\ age[t] \in Nat /\ age[t] \in ages
    BY DEF TypeOK
  <2>2. <<age[t], age[s]>> \notin OpToRel(<, Nat)
    BY <1>2, <1>3, <2>1
  <2>3. ~(age[t] < age[s])
    BY <2>1, <2>2 DEF OpToRel
  <2> QED
    BY <2>1, <2>3
<1> QED
  BY <1>4

\* With quantum left in every lane, fcfs_front finds one.
LEMMA CreditEnough == CreditInv => FrontExists
<1> SUFFICES ASSUME CreditInv, Capable # {} PROVE Front # {}
  BY DEF FrontExists
<1>1. Eligible = Capable /\ Eligible \in SUBSET Slots
  BY DEF Eligible, Capable, Due, CreditInv, TypeOK
<1> QED
  BY <1>1, Oldest DEF Front, CreditInv

\* A round's end leaves every lane with quantum.
LEMMA EmittedCredit ==
  ASSUME CreditInv, NEW s \in Slots, NEW n \in Nat, Emitted(s, n)
  PROVE  \A t \in Slots : credit'[t] < Quantum
<1>1. CASE credit' = [credit EXCEPT ![s] = 0]
  BY <1>1, SpecLanesAssumption DEF CreditInv, TypeOK
<1>2. CASE ~(credit[s] + n >= Quantum) /\ credit' = [credit EXCEPT ![s] = credit[s] + n]
  BY <1>2, SpecLanesAssumption DEF CreditInv, TypeOK
<1>3. CASE UNCHANGED credit
  BY <1>3 DEF CreditInv
<1> QED
  BY <1>1, <1>2, <1>3 DEF Emitted, Charge

\* Every step keeps the invariant.
LEMMA CreditStep == CreditInv /\ [Next]_vars => CreditInv'
<1> SUFFICES ASSUME CreditInv, [Next]_vars PROVE \A t \in Slots : credit'[t] < Quantum
  BY NextTypes DEF CreditInv
<1>1. ASSUME NEW s \in Slots, Admit(s) PROVE \A t \in Slots : credit'[t] < Quantum
  BY <1>1, SpecLanesAssumption DEF Admit, CreditInv, TypeOK
<1>2. ASSUME NEW s \in Slots, PlainRound(s) PROVE \A t \in Slots : credit'[t] < Quantum
  BY <1>2, EmittedCredit DEF PlainRound
<1>3. ASSUME NEW s \in Slots, SpecRound(s) PROVE \A t \in Slots : credit'[t] < Quantum
  <2>1. PICK a \in 0 .. K : Emitted(s, a + 1)
    BY <1>3 DEF SpecRound
  <2>2. a + 1 \in Nat
    BY SpecLanesAssumption
  <2> QED
    BY <2>1, <2>2, EmittedCredit
<1>4. CASE UNCHANGED credit
  BY <1>4 DEF CreditInv
<1>5. (\E s \in Slots : Cancel(s)) \/ Dispatch \/ PlainBatch \/ UNCHANGED vars
        => UNCHANGED credit
  BY DEF Cancel, Dispatch, DispatchShared, DispatchRefresh, DispatchSerial, PlainBatch, vars
<1> QED
  BY <1>1, <1>2, <1>3, <1>4, <1>5 DEF Next, Step, Round

\* The branch "Unreachable" of the fcfs dispatch is unreachable: while a lane
\* speculates fcfs_front finds one, for any quantum, depth and number of lanes.
THEOREM FrontExistsHolds == Spec => []FrontExists
<1>1. Init => CreditInv
  BY InitTypes, SpecLanesAssumption DEF Init, CreditInv
<1> QED
  BY <1>1, CreditStep, CreditEnough, PTL DEF Spec
=============================================================================
