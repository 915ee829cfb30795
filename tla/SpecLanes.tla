----------------------------- MODULE SpecLanes -----------------------------
(***************************************************************************)
(* Which busy lanes speculate in a decode step, and when a request's       *)
(* speculation goes off and comes back: the per-request policy of          *)
(* src/src/mtp_reprobe.rs, driven by step_rounds, step_mtp, step_plain,    *)
(* round_account and round_emit of src/src/exl3_serve.rs, with the two     *)
(* lane orders (rr, fcfs) and the shared plain arm.                        *)
(*                                                                         *)
(* The draft head of a lane continues from the TAP of the lane's last      *)
(* token, which sits in one row of the lane's window of taps_keep; lane.mtp *)
(* names the row, None is speculation off.  `fresh` is the row that really  *)
(* holds that tap, `hole` says that some position of the head's cache was   *)
(* skipped or written from another token's tap.  Positions and tokens are   *)
(* otherwise left out, so a lane may run for ever.                          *)
(*                                                                         *)
(* A cost that crosses the margin, a control round that falls due, the arm  *)
(* the load policy picks and the number of accepted drafts are any value.   *)
(* A packed pair runs the rounds of its two lanes one after the other and   *)
(* takes no lane whose round would be a control (lane_pack.rs, lane_block   *)
(* and pair_owes_control): it is two SpecRounds here.                       *)
(***************************************************************************)
EXTENDS Naturals, FiniteSets

CONSTANTS Slots,        \* lane numbers
          K,            \* draft depth: a round accepts up to K drafts
          Order,        \* --lane-order, "rr" or "fcfs"
          Quantum,      \* --lane-quantum, in tokens
          MinRounds, ProbeWarmup, ProbeWindow, BackoffBase, BackoffCap,
          None          \* no row

ASSUME SpecLanesAssumption ==
  /\ Slots \subseteq Nat /\ IsFiniteSet(Slots)
  /\ K \in Nat
  /\ Order \in {"rr", "fcfs"}
  /\ Quantum \in Nat \ {0}
  /\ MinRounds \in Nat /\ ProbeWarmup \in Nat /\ ProbeWindow \in Nat \ {0}
  /\ BackoffBase \in Nat \ {0} /\ BackoffCap \in Nat
  /\ None \notin Nat

VARIABLES busy,    \* slots with a live lane
          mtp,     \* lane.mtp of each slot
          fresh,   \* the row with the tap of the lane's last token
          hole,    \* the head's cache misses a position below the lane's
          rp,      \* lane.reprobe
          force,   \* lane.force_control
          age,     \* lane.admit_seq as a rank: how many busy lanes are older
          credit,  \* lane.fcfs_credit
          todo,    \* this step: slots whose speculative round is to come
          batch,   \* this step: slots of the plain batch that ends it
          arm,     \* this step's arm: "serial", "shared" or "refresh"
          ridden   \* a shared batch has run since the last refresh or serial step

laneVars == <<mtp, fresh, hole, rp, force>>
stepVars == <<todo, batch, arm, ridden>>
vars == <<busy, mtp, fresh, hole, rp, force, age, credit, todo, batch, arm,
          ridden>>

Rows == 0 .. K
MaxOf(a, b) == IF a >= b THEN a ELSE b
MinOf(a, b) == IF a <= b THEN a ELSE b

-----------------------------------------------------------------------------
(* mtp_reprobe.rs.  confirm is confirm_pending with confirm_plain: "asked" is *)
(* pending without a sample, "sampled" pending with one.  rounds is compared  *)
(* with MinRounds alone and stops counting there.                             *)

Policy == [phase : {"Armed", "Off", "Probing"}, rounds : 0 .. MinRounds,
           probe_rounds : 0 .. ProbeWindow - 1, plain_steps : Nat,
           backoff : Nat, confirm : {"none", "asked", "sampled"},
           prime_tap_row : Rows]

NewPolicy == [phase |-> "Armed", rounds |-> 0, probe_rounds |-> 0,
              plain_steps |-> 0, backoff |-> BackoffBase, confirm |-> "none",
              prime_tap_row |-> 0]

\* observe_round: the counters, in the phases that count.
Counted(r) ==
  [r EXCEPT !.rounds = MinOf(@ + 1, MinRounds),
            !.probe_rounds = IF r.phase = "Probing" THEN @ + 1 ELSE @]

\* observe_round: the verdict on a round already counted.
Verdict(r, trips) ==
  CASE r.phase = "Armed" ->
         IF r.rounds < MinRounds \/ ~trips THEN "Continue"
         ELSE IF r.confirm = "none" THEN "ConfirmControl" ELSE "Off"
    [] r.phase = "Probing" ->
         IF r.probe_rounds >= ProbeWindow THEN "ProbeSucceeded"
         ELSE IF r.probe_rounds >= ProbeWarmup /\ trips THEN "ProbeFailed"
         ELSE "Continue"
    [] OTHER -> "Continue"

\* Mutant: the row of the off's round is not kept.
WentOffRow0(r, row, fromProbe) ==
  [r EXCEPT !.phase = "Off", !.plain_steps = 0, !.probe_rounds = 0,
            !.confirm = "none", !.prime_tap_row = 0]

\* went_off.
WentOff(r, row, fromProbe) ==
  [r EXCEPT !.phase = "Off", !.plain_steps = 0, !.probe_rounds = 0,
            !.confirm = "none", !.prime_tap_row = row,
            !.backoff = IF fromProbe
                        THEN MaxOf(MinOf(2 * @, BackoffCap), BackoffBase)
                        ELSE BackoffBase]

\* probe_ok.
ProbeOk(r) ==
  [r EXCEPT !.phase = "Armed", !.probe_rounds = 0, !.backoff = BackoffBase]

\* What a verdict makes of the policy's state; row holds the round's tap.
Decided(r, v, row) ==
  CASE v = "Off" -> WentOff(r, row, FALSE)
    [] v = "ProbeFailed" -> WentOff(r, row, TRUE)
    [] v = "ProbeSucceeded" -> ProbeOk(r)
    [] v = "ConfirmControl" -> [r EXCEPT !.confirm = "asked"]
    [] OTHER -> IF r.phase = "Armed" THEN [r EXCEPT !.confirm = "none"] ELSE r

\* confirm_sample.
Sampled(r) == [r EXCEPT !.confirm = IF @ = "none" THEN @ ELSE "sampled"]

KeepPrimed(r) == r.phase = "Off"
ProbeDue(r) == r.phase = "Off" /\ r.plain_steps >= MaxOf(r.backoff, BackoffBase)

ArmedForProbe(r) ==
  [r EXCEPT !.phase = "Probing", !.rounds = 0, !.probe_rounds = 0,
            !.plain_steps = 0]

-----------------------------------------------------------------------------
(* Lanes come and go between steps. *)

Init ==
  /\ busy = {} /\ age = [s \in Slots |-> 0]
  /\ mtp = [s \in Slots |-> None] /\ fresh = [s \in Slots |-> None]
  /\ hole = [s \in Slots |-> FALSE]
  /\ rp = [s \in Slots |-> NewPolicy]
  /\ force = [s \in Slots |-> FALSE]
  /\ credit = [s \in Slots |-> 0]
  /\ todo = {} /\ batch = {} /\ arm = "serial" /\ ridden = FALSE

Between == todo = {} /\ batch = {}

\* The end of admit_req: the head is primed (row 0), or the prime failed and the
\* lane runs plain for its life.
Admit(s) ==
  /\ Between /\ s \notin busy
  /\ \E row \in {0, None} :
       /\ mtp' = [mtp EXCEPT ![s] = row]
       /\ fresh' = [fresh EXCEPT ![s] = row]
  /\ hole' = [hole EXCEPT ![s] = FALSE]
  /\ rp' = [rp EXCEPT ![s] = NewPolicy]
  /\ force' = [force EXCEPT ![s] = FALSE]
  /\ credit' = [credit EXCEPT ![s] = 0]
  /\ age' = [age EXCEPT ![s] = Cardinality(busy)]
  /\ busy' = busy \cup {s}
  /\ UNCHANGED stepVars

Older(s) == {t \in busy : age[t] < age[s]}

\* take_lane: the slots in gone are free, the others keep their order.
Leave(gone) ==
  /\ busy' = busy \ gone
  /\ age' = [s \in Slots |-> IF s \in busy \ gone THEN Cardinality(Older(s) \ gone)
                             ELSE 0]

\* The lane is stamped again, with the next admission number.
ToBack(s) ==
  age' = [t \in Slots |-> IF t = s THEN Cardinality(busy \ {s})
                         ELSE IF t \in busy THEN Cardinality(Older(t) \ {s}) ELSE 0]

\* The cancel sweep takes a lane whose client is gone.
Cancel(s) ==
  /\ Between /\ s \in busy
  /\ Leave({s})
  /\ UNCHANGED <<laneVars, credit, stepVars>>

-----------------------------------------------------------------------------
(* step_rounds. *)

\* The lanes that come back on before the dispatch.
Due == {s \in busy : mtp[s] = None /\ ProbeDue(rp[s])}

Capable == {s \in busy : mtp[s] # None} \cup Due

\* fcfs_front: the oldest capable lane that has quantum left.
Eligible == {s \in Capable : credit[s] < Quantum}
Front == {s \in Eligible : \A t \in Eligible : age[s] <= age[t]}

\* Due lanes are re-armed, whatever arm follows.
Rearm ==
  /\ mtp' = [s \in Slots |-> IF s \in Due THEN 0 ELSE mtp[s]]
  /\ rp' = [s \in Slots |-> IF s \in Due THEN ArmedForProbe(rp[s]) ELSE rp[s]]

\* Every lane shares one plain step.
DispatchShared ==
  /\ Between /\ Cardinality(busy) >= 2
  /\ Rearm
  /\ arm' = "shared" /\ todo' = {} /\ batch' = busy /\ ridden' = TRUE
  /\ UNCHANGED <<busy, fresh, hole, force, age, credit>>

\* Every so many shared steps one lane runs a round instead.
DispatchRefresh ==
  /\ Between /\ Cardinality(busy) >= 2 /\ ridden
  /\ Rearm
  /\ \E s \in Capable : todo' = {s}
  /\ arm' = "refresh" /\ batch' = {} /\ ridden' = FALSE
  /\ UNCHANGED <<busy, fresh, hole, force, age, credit>>

\* rr: a round for each capable lane; fcfs: for the front one.
DispatchSerial ==
  /\ Between /\ busy # {}
  /\ Rearm
  /\ arm' = "serial"
  /\ todo' = IF Order = "rr" THEN Capable ELSE Front
  /\ batch' = busy \ Capable
  /\ ridden' = FALSE
  /\ UNCHANGED <<busy, fresh, hole, force, age, credit>>

\* Mutant: the credit is not reset on rotation.
ChargeKept(s, tokens) ==
  IF Order = "rr" \/ arm # "serial" THEN UNCHANGED <<age, credit>>
  ELSE /\ credit' = [credit EXCEPT ![s] = MinOf(@ + tokens, Quantum)]
       /\ IF credit[s] + tokens >= Quantum THEN ToBack(s) ELSE UNCHANGED age

\* Mutant: the credit is not written back, so the front never rotates.
ChargeForgot(s, tokens) == UNCHANGED <<age, credit>>

\* fcfs_charge, in the fcfs arm alone: a lane that used its quantum goes to the
\* back of the order.
Charge(s, tokens) ==
  IF Order = "rr" \/ arm # "serial" THEN UNCHANGED <<age, credit>>
  ELSE IF credit[s] + tokens >= Quantum
       THEN credit' = [credit EXCEPT ![s] = 0] /\ ToBack(s)
       ELSE credit' = [credit EXCEPT ![s] = @ + tokens] /\ UNCHANGED age

\* round_emit: the lane goes on with the round's last token, or it has finished
\* and leaves its slot.
Emitted(s, tokens) ==
  \/ /\ Charge(s, tokens)
     /\ UNCHANGED busy
  \/ /\ Leave({s})
     /\ UNCHANGED credit

\* The lane whose turn it is: rounds run in slot order.
Turn(s) == s \in todo /\ \A t \in todo : s <= t

\* The round reads the tap in lane.mtp's row for the head's next position.
Drafted(s) == hole' = [hole EXCEPT ![s] = @ \/ mtp[s] # fresh[s]]

\* Mutant: the forced control is taken from the lane and not run.
PlainRoundUnforced(s) ==
  /\ Turn(s)
  /\ \E control \in BOOLEAN :
       rp' = [rp EXCEPT ![s] = IF control THEN Sampled(@) ELSE @]
  /\ force' = [force EXCEPT ![s] = FALSE]
  /\ Drafted(s)
  /\ mtp' = [mtp EXCEPT ![s] = 0] /\ fresh' = [fresh EXCEPT ![s] = 0]
  /\ Emitted(s, 1)
  /\ todo' = todo \ {s}
  /\ UNCHANGED <<batch, arm, ridden>>

\* step_mtp's plain step: a control round, by cadence or forced, or a round
\* whose depth is clamped to 0.  It primes the head's row and saves its own tap.
PlainRound(s) ==
  /\ Turn(s)
  /\ \E control \in BOOLEAN :
       /\ force[s] => control
       /\ rp' = [rp EXCEPT ![s] = IF control THEN Sampled(@) ELSE @]
  /\ force' = [force EXCEPT ![s] = FALSE]
  /\ Drafted(s)
  /\ mtp' = [mtp EXCEPT ![s] = 0] /\ fresh' = [fresh EXCEPT ![s] = 0]
  /\ Emitted(s, 1)
  /\ todo' = todo \ {s}
  /\ UNCHANGED <<batch, arm, ridden>>

\* step_mtp's speculative round with a accepted drafts: row a holds the tap of
\* the bonus token.  round_account decides on the cost, round_emit emits.
SpecRound(s) ==
  /\ Turn(s) /\ ~force[s]
  /\ \E a \in 0 .. K, trips \in BOOLEAN :
       LET r == Counted(rp[s])
           v == Verdict(r, trips)
       IN  /\ rp' = [rp EXCEPT ![s] = Decided(r, v, a)]
           /\ force' = [force EXCEPT ![s] = v = "ConfirmControl"]
           /\ mtp' = [mtp EXCEPT ![s] = IF v \in {"Off", "ProbeFailed"} THEN None ELSE a]
           /\ fresh' = [fresh EXCEPT ![s] = a]
           /\ Drafted(s)
           /\ Emitted(s, a + 1)
  /\ todo' = todo \ {s}
  /\ UNCHANGED <<batch, arm, ridden>>

\* Lanes whose head step_plain keeps in step, and the row each reads.
Primed == {s \in batch : mtp[s] # None \/ KeepPrimed(rp[s])}
PrimeRow(s) == IF mtp[s] # None THEN mtp[s] ELSE rp[s].prime_tap_row

\* Mutant: a lane's plain steps off are not counted.
ObservedUncounted(r) == [r EXCEPT !.prime_tap_row = 0]

\* observe_plain, with the snapshot's row.
Observed(r) == [r EXCEPT !.prime_tap_row = 0, !.plain_steps = @ + 1]

\* step_plain: one batched step; the heads are primed before it, the taps saved
\* in row 0 after it; any of the lanes may end.
PlainBatch ==
  /\ todo = {} /\ batch # {}
  /\ hole' = [s \in Slots |-> hole[s] \/ (s \in Primed /\ PrimeRow(s) # fresh[s])]
  /\ fresh' = [s \in Slots |-> IF s \in Primed THEN 0
                               ELSE IF s \in batch THEN None ELSE fresh[s]]
  /\ mtp' = [s \in Slots |-> IF s \in batch /\ mtp[s] # None THEN 0 ELSE mtp[s]]
  /\ rp' = [s \in Slots |-> IF s \in batch /\ KeepPrimed(rp[s]) THEN Observed(rp[s])
                            ELSE rp[s]]
  /\ \E ended \in SUBSET batch : Leave(ended)
  /\ batch' = {}
  /\ UNCHANGED <<force, credit, todo, arm, ridden>>

-----------------------------------------------------------------------------

Dispatch == DispatchShared \/ DispatchRefresh \/ DispatchSerial
Round(s) == PlainRound(s) \/ SpecRound(s)
Step == Dispatch \/ (\E s \in Slots : Round(s)) \/ PlainBatch

Next == (\E s \in Slots : Admit(s) \/ Cancel(s)) \/ Step

Spec == Init /\ [][Next]_vars

\* The scheduler thread steps for as long as a lane is busy.
FairSpec == Spec /\ WF_vars(Step)

-----------------------------------------------------------------------------
(* Properties. *)

\* The variables have their types.
TypeOK ==
  /\ busy \subseteq Slots
  /\ mtp \in [Slots -> Rows \cup {None}]
  /\ fresh \in [Slots -> Rows \cup {None}]
  /\ hole \in [Slots -> BOOLEAN]
  /\ rp \in [Slots -> Policy]
  /\ force \in [Slots -> BOOLEAN]
  /\ age \in [Slots -> Nat]
  /\ credit \in [Slots -> Nat]
  /\ todo \subseteq Slots /\ batch \subseteq Slots
  /\ arm \in {"serial", "shared", "refresh"} /\ ridden \in BOOLEAN

\* Whatever sequence of arms, offs, re-probes and controls a request goes
\* through, a lane that speculates does so from a head whose cache has no hole
\* and from the tap of its own last token: the "clean seam" the re-arm relies on
\* (exl3_serve.rs:2438-2442, 3693-3697).
HeadReady ==
  \A s \in busy :
    mtp[s] # None => ~hole[s] /\ mtp[s] = fresh[s]

\* A first off is never decided on a stale plain cost: a control round of this
\* lane has run between the round that crossed the margin and the one that
\* turns speculation off (mtp_reprobe.rs:16-20).
ConfirmedOff ==
  [][\A s \in Slots : rp[s].phase = "Armed" /\ rp'[s].phase = "Off"
                        => rp[s].confirm = "sampled"]_vars

\* The lane fcfs_front looks for exists: some capable lane always has quantum
\* left (exl3_serve.rs:2594-2597, "Unreachable").
FrontExists == Capable # {} => Front # {}

\* No busy lane is passed over for ever, whatever arms the load policy picks,
\* whoever joins, and however older lanes go off and come back before it.
EveryLaneServed == \A s \in Slots : []<>(s \notin busy \/ s \in todo \cup batch)

\* Off is not one-way (mtp_reprobe.rs:4-12): a request that keeps running comes
\* back to try speculation again.
OffComesBack ==
  \A s \in Slots : (s \in busy /\ rp[s].phase = "Off")
                     ~> (s \notin busy \/ rp[s].phase = "Probing")
=============================================================================
