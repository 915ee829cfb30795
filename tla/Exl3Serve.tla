----------------------------- MODULE Exl3Serve -----------------------------
(***************************************************************************)
(* The single-box EXL3 server: the HTTP handlers that hand requests over,  *)
(* the clients that leave, the clock, and the one scheduler thread         *)
(* (Exl3Scheduler::run, src/src/exl3_serve.rs) that admits requests into   *)
(* lanes, prefills them, steps the lanes and emits their tokens.           *)
(*                                                                         *)
(* The scheduler thread is sequential; what interleaves with it are the    *)
(* handlers (arrivals), the clients (a dropped receiver, seen only where   *)
(* the code looks at it) and time.  `pc` names the points between which    *)
(* those can make a difference.  A prompt is a conversation and a length;  *)
(* a prefix-cache snapshot is the prompt prefix it was taken at.           *)
(***************************************************************************)
EXTENDS SlotPick, SequencesExt

CONSTANTS
    Reqs,           \* request identities
    NoReq,          \* no request
    Prompt,         \* [Reqs -> [conv, len]]
    MaxNew,         \* [Reqs -> tokens the request may generate]
    Refused,        \* requests admit_req refuses before any prefill
    MayLeave,       \* requests whose client may disconnect
    MayStop,        \* requests whose reply may hit a stop string
    NestedSteps,    \* --prefill-interleave: steps between two prefill chunks
    ExitOnFatal,    \* --exit-on-fatal
    MaxChunks,      \* bound: prefill chunks of one request
    MaxFaults,      \* bound: failing device calls
    Slack           \* bound: clock ticks while no deadline is being awaited

Convs == {Prompt[r].conv : r \in Reqs}
Snapshots == [conv : Convs, len : Nat]

ASSUME ServeAssumption ==
    /\ NoReq \notin Reqs
    /\ \A r \in Reqs : Prompt[r].len \in Nat \ {0}
    /\ MaxNew \in [Reqs -> Nat \ {0}]
    /\ Refused \subseteq Reqs /\ MayLeave \subseteq Reqs /\ MayStop \subseteq Reqs
    /\ NestedSteps \in Nat /\ MaxChunks \in Nat /\ MaxFaults \in Nat /\ Slack \in Nat
    /\ ExitOnFatal \in BOOLEAN
    /\ NoSnap \notin Snapshots

VARIABLES
    now, slack,     \* the clock, and the ticks left outside an awaited deadline
    arrived,        \* received_at of each request, Never before it
    handed,         \* requests sent into the scheduler's channel or refused
    gone,           \* requests whose event receiver is dropped
    rx,             \* the unbounded channel into the scheduler
    waiting,        \* the scheduler's queue
    lanes,          \* per slot: the running request and the tokens it has left
    cache,          \* per slot: the prompt-end snapshot
    rel,            \* per slot: when the last lane was released, and how
    nextForced,     \* the limiter of forced takes
    until,          \* the deadline of the bounded wait
    pc, job,        \* the scheduler thread: where it is, the request it admits
    fatal, dead,    \* a sticky device error; the engine is marked DEAD
    faults,         \* device failures so far
    finish,         \* the Finish event each request got
    lastForced      \* history: when the last forced take was decided

clientVars == <<arrived, handed, gone>>
clockVars == <<now, slack>>
slotVars == <<lanes, cache, rel>>
planVars == <<nextForced, until, lastForced>>
engineVars == <<fatal, dead, faults>>
vars == <<clientVars, clockVars, rx, waiting, slotVars, planVars, engineVars, pc, job, finish>>

FreeLane == [req |-> NoReq, left |-> 0]
NoJob == [req |-> NoReq, slot |-> NoSlot, allowed |-> {}, kind |-> "none",
          left |-> 0, started |-> FALSE, quota |-> 0]

Busy == {s \in Slots : lanes[s] # FreeLane}
Idle == Slots \ Busy

SnapOf(r) == [conv |-> Prompt[r].conv, len |-> Prompt[r].len - 1]

\* Mutant: the snapshot lookup does not skip the running lanes.
HitsAnywhere(r, set) == {s \in Slots : ContinuedBy(cache[s], Prompt[r])}
\* The lanes of `set` whose snapshot the prompt continues; the longest of them.
Hits(r, set) == {s \in set : ContinuedBy(cache[s], Prompt[r])}
IsLongestHit(s, r, set) == IsLongest(s, Hits(r, set), cache)
OwnSlot(r) ==
    IF \E s \in Idle : IsLongestHit(s, r, Idle)
    THEN CHOOSE s \in Idle : IsLongestHit(s, r, Idle) ELSE NoSlot

Views == [s \in Slots |-> [busy |-> lanes[s] # FreeLane,
                           hasSnapshot |-> cache[s] # NoSnap,
                           releasedAt |-> rel[s].at,
                           normalFinish |-> rel[s].normal]]
Waits == [i \in DOMAIN waiting |->
            [arrivedAt |-> arrived[waiting[i]], own |-> OwnSlot(waiting[i])]]

-----------------------------------------------------------------------------
(* Handlers, clients, clock *)

\* A handler stamps received_at, then (later) sends the request.
Receive(r) ==
    /\ arrived[r] = Never /\ pc # "exited"
    /\ arrived' = [arrived EXCEPT ![r] = now]
    /\ UNCHANGED <<handed, gone, clockVars, rx, waiting, slotVars, planVars,
                   engineVars, pc, job, finish>>

\* The handler passed the engine_ok check and sends into the channel.
Enqueue(r) ==
    /\ arrived[r] # Never /\ r \notin handed /\ pc # "exited"
    /\ handed' = handed \cup {r}
    /\ rx' = Append(rx, r)
    /\ UNCHANGED <<arrived, gone, clockVars, waiting, slotVars, planVars,
                   engineVars, pc, job, finish>>

\* A DEAD engine: the handler answers 503 itself.
Refuse(r) ==
    /\ arrived[r] # Never /\ r \notin handed /\ dead /\ pc # "exited"
    /\ handed' = handed \cup {r}
    /\ finish' = [finish EXCEPT ![r] = "error"]
    /\ UNCHANGED <<arrived, gone, clockVars, rx, waiting, slotVars, planVars,
                   engineVars, pc, job>>

\* A client disconnects.  A stream cancelled for its unread backlog looks the same
\* to the scheduler from its next cancel sweep on.
Leave(r) ==
    /\ r \in MayLeave \cap handed /\ r \notin gone /\ finish[r] = "none"
    /\ gone' = gone \cup {r}
    /\ UNCHANGED <<arrived, handed, clockVars, rx, waiting, slotVars, planVars,
                   engineVars, pc, job, finish>>

\* The handler of a running request matches a stop string, ends the reply and
\* drops its receiver.
HitStopString(r) ==
    /\ r \in MayStop \ gone /\ \E s \in Slots : lanes[s].req = r
    /\ gone' = gone \cup {r}
    /\ UNCHANGED <<arrived, handed, clockVars, rx, waiting, slotVars, planVars,
                   engineVars, pc, job, finish>>

\* Time passes freely up to an awaited deadline, else within the slack.
Tick ==
    /\ now' = now + 1
    /\ IF pc = "poll" /\ now < until THEN slack' = slack
                                     ELSE slack > 0 /\ slack' = slack - 1
    /\ UNCHANGED <<clientVars, rx, waiting, slotVars, planVars, engineVars, pc, job, finish>>

-----------------------------------------------------------------------------
(* run: top of the loop *)

Goto(l) == pc' = l /\ job' = NoJob

TopFatal ==
    /\ pc = "top" /\ fatal
    /\ Goto("die")
    /\ UNCHANGED <<clientVars, clockVars, rx, waiting, slotVars, planVars, engineVars, finish>>

\* Nothing to do: block for a request.
TopIdle ==
    /\ pc = "top" /\ ~fatal /\ waiting = <<>> /\ Busy = {}
    /\ Goto("idle")
    /\ UNCHANGED <<clientVars, clockVars, rx, waiting, slotVars, planVars, engineVars, finish>>

\* Drain the channel (after a blocking receive when idle).
Drain ==
    /\ \/ pc = "top" /\ ~fatal /\ (waiting # <<>> \/ Busy # {})
       \/ pc = "idle" /\ rx # <<>>
    /\ waiting' = waiting \o rx
    /\ rx' = <<>>
    /\ Goto("admit")
    /\ UNCHANGED <<clientVars, clockVars, slotVars, planVars, engineVars, finish>>

-----------------------------------------------------------------------------
(* run: the admission loop *)

Admitting == pc = "admit" /\ ~fatal /\ Idle # {}

\* No lane to give (or a fatal error), or the FIFO queue is empty: to the step.
AdmitDone ==
    /\ pc = "admit"
    /\ fatal \/ Idle = {} \/ (Reserve = 0 /\ waiting = <<>>)
    /\ Goto("prestep")
    /\ UNCHANGED <<clientVars, clockVars, rx, waiting, slotVars, planVars, engineVars, finish>>

\* The i-th queued request goes to admission, into one of the allowed lanes.
Take(i, allowed, kind) ==
    /\ waiting' = RemoveAt(waiting, i)
    /\ job' = [NoJob EXCEPT !.req = waiting[i], !.allowed = allowed, !.kind = kind]
    /\ pc' = "picked"
    /\ UNCHANGED <<clientVars, clockVars, rx, slotVars, until, engineVars, finish>>

PopFront ==
    /\ Admitting /\ Reserve = 0 /\ waiting # <<>>
    /\ Take(1, Slots, "fifo")
    /\ UNCHANGED <<nextForced, lastForced>>

\* Before it plans, the reservation arm drains the channel ...
DrainAgain ==
    /\ Admitting /\ Reserve # 0 /\ rx # <<>>
    /\ waiting' = waiting \o rx
    /\ rx' = <<>>
    /\ UNCHANGED <<clientVars, clockVars, slotVars, planVars, engineVars, pc, job, finish>>

\* ... and drops the requests whose client hung up (as run does before every step).
AllPresent == ToSet(waiting) \cap gone = {}
DropGone ==
    /\ pc = "prestep" \/ (Admitting /\ Reserve # 0 /\ rx = <<>>)
    /\ \E i \in DOMAIN waiting :
        /\ waiting[i] \in gone
        /\ \A j \in 1..(i - 1) : waiting[j] \notin gone
        /\ waiting' = RemoveAt(waiting, i)
    /\ UNCHANGED <<clientVars, clockVars, rx, slotVars, planVars, engineVars, pc, job, finish>>

Planning == Admitting /\ Reserve # 0 /\ rx = <<>> /\ AllPresent

PlanOwn ==
    /\ Planning
    /\ OwnRule(Views, Waits)
    /\ \E i \in DOMAIN waiting :
        /\ IsOldest(i, Waits, OwnHolders(Views, Waits))
        /\ Take(i, {Waits[i].own}, "own")
    /\ UNCHANGED <<nextForced, lastForced>>

PlanUnreserved ==
    /\ Planning
    /\ UnreservedRule(Views, Waits, now)
    /\ Take(1, Unreserved(Views, now), "unreserved")
    /\ UNCHANGED <<nextForced, lastForced>>

\* Arms the limiter when it decides, before the request is known to be still there.
PlanForced ==
    /\ Planning
    /\ ForcedRule(Views, Waits, nextForced, now)
    /\ Take(1, Free(Views), "forced")
    /\ nextForced' = ArmLimiter(now)
    /\ lastForced' = now

\* Every free lane is reserved for someone else: step the running lanes, or, with
\* none running, wait for a request or the next deadline.
PlanWait ==
    /\ Planning
    /\ WaitRule(Views, Waits, nextForced, now)
    /\ LET ahead == Deadlines(Views, Waits, nextForced, now)
       IN  \E d \in ahead \cup {Never} : IsWaitUntil(d, ahead) /\ until' = d
    /\ Goto(IF Busy # {} THEN "prestep" ELSE "poll")
    /\ UNCHANGED <<clientVars, clockVars, rx, waiting, slotVars, nextForced, lastForced,
                   engineVars, finish>>

PollDeadline ==
    /\ pc = "poll" /\ until # Never /\ now >= until
    /\ Goto("admit")
    /\ UNCHANGED <<clientVars, clockVars, rx, waiting, slotVars, planVars, engineVars, finish>>

\* Mutant: the wait ends on a message and loses it.
PollRequestLost ==
    /\ pc = "poll" /\ (until = Never \/ now < until) /\ rx # <<>>
    /\ rx' = Tail(rx)
    /\ Goto("admit")
    /\ UNCHANGED <<clientVars, clockVars, waiting, slotVars, planVars, engineVars, finish>>

PollRequest ==
    /\ pc = "poll" /\ (until = Never \/ now < until) /\ rx # <<>>
    /\ waiting' = Append(waiting, Head(rx))
    /\ rx' = Tail(rx)
    /\ Goto("admit")
    /\ UNCHANGED <<clientVars, clockVars, slotVars, planVars, engineVars, finish>>

-----------------------------------------------------------------------------
(* admit_req *)

\* One failing device call, counted against the bound.
Fault == faults < MaxFaults /\ faults' = faults + 1

\* The client hung up between the queue and the admission.
PickedGone ==
    /\ pc = "picked" /\ job.req \in gone
    /\ Goto("admit")
    /\ UNCHANGED <<clientVars, clockVars, rx, waiting, slotVars, planVars, engineVars, finish>>

IsPick(s, deep) ==
    LET free == Idle \cap job.allowed
    IN  IsPickOf(s, Hits(job.req, free), free, cache, job.kind # "fifo", Views, deep)

\* A schema, an empty prompt or a bad image: refused, the slot is not touched.
PickedRefused ==
    /\ pc = "picked" /\ job.req \in Refused \ gone
    /\ finish' = [finish EXCEPT ![job.req] = "error"]
    /\ Goto("admit")
    /\ UNCHANGED <<clientVars, clockVars, rx, waiting, slotVars, planVars, engineVars>>

\* A device call before the slot changes owner fails: clearing its image state (always
\* fatal), restoring or resetting it.
PickedFault ==
    /\ pc = "picked" /\ job.req \notin gone \cup Refused
    /\ Fault
    /\ \E sticky \in BOOLEAN : fatal' = sticky
    /\ finish' = [finish EXCEPT ![job.req] = "error"]
    /\ Goto("admit")
    /\ UNCHANGED <<clientVars, clockVars, rx, waiting, slotVars, planVars, dead>>

\* prefill_cached up to its chunk loop: the slot changes owner, its snapshot is gone.
StartPrefill ==
    /\ pc = "picked" /\ job.req \notin gone \cup Refused
    /\ \E s \in Slots, deep \in SUBSET Slots, chunks \in 0..MaxChunks :
        /\ IsPick(s, deep)
        /\ job' = [job EXCEPT !.slot = s, !.left = chunks]
        /\ cache' = [cache EXCEPT ![s] = NoSnap]
    /\ pc' = "prefill"
    /\ UNCHANGED <<clientVars, clockVars, rx, waiting, lanes, rel, planVars, engineVars, finish>>

-----------------------------------------------------------------------------
(* prefill_range, between its chunks; then the seam step and the first token *)

\* No interleaved step is due, or no lane is left to step.
Prefilling == pc = "prefill" /\ (job.quota = 0 \/ Busy = {})

\* The client is gone at a chunk boundary: no snapshot, no lane, nobody to tell.
PrefillCancelled ==
    /\ Prefilling /\ job.left > 0 /\ job.started /\ job.req \in gone
    /\ Goto("admit")
    /\ UNCHANGED <<clientVars, clockVars, rx, waiting, slotVars, planVars, engineVars, finish>>

\* A chunk; after it, unless it was the last, the running lanes get their steps.
PrefillChunk ==
    /\ Prefilling /\ job.left > 0
    /\ ~(job.started /\ job.req \in gone)
    /\ job' = [job EXCEPT !.left = @ - 1, !.started = TRUE,
                          !.quota = IF job.left > 1 /\ Busy # {} THEN NestedSteps ELSE 0]
    /\ UNCHANGED <<clientVars, clockVars, rx, waiting, slotVars, planVars, engineVars, pc, finish>>

\* A device call of the prefill fails (no snapshot is left behind), or one after it
\* (the snapshot stays).
AdmitFault ==
    /\ Prefilling
    /\ Fault
    /\ \E sticky \in BOOLEAN : fatal' = sticky
    /\ \/ UNCHANGED cache
       \/ job.left = 0 /\ cache' = [cache EXCEPT ![job.slot] = SnapOf(job.req)]
    /\ finish' = [finish EXCEPT ![job.req] = "error"]
    /\ Goto("admit")
    /\ UNCHANGED <<clientVars, clockVars, rx, waiting, lanes, rel, planVars, dead>>

\* The prompt is prefilled: snapshot, first token.  The request ends with that token
\* (its client is gone; length; a stop token) or becomes a lane.
FirstToken ==
    /\ Prefilling /\ job.left = 0
    /\ cache' = [cache EXCEPT ![job.slot] = SnapOf(job.req)]
    /\ Goto("admit")
    /\ UNCHANGED <<clientVars, clockVars, rx, waiting, rel, planVars, dead>>

FirstTokenGone ==
    /\ FirstToken
    /\ job.req \in gone
    /\ UNCHANGED <<lanes, finish, fatal, faults>>

FirstTokenEnds ==
    /\ FirstToken
    /\ job.req \notin gone
    /\ finish' = [finish EXCEPT ![job.req] = "normal"]
    /\ UNCHANGED <<lanes, fatal, faults>>

\* Priming the draft head may fail: the lane runs without it, or the engine is poisoned.
FirstTokenLane ==
    /\ FirstToken
    /\ job.req \notin gone /\ MaxNew[job.req] > 1
    /\ lanes' = [lanes EXCEPT ![job.slot] = [req |-> job.req, left |-> MaxNew[job.req] - 1]]
    /\ \/ UNCHANGED <<fatal, faults>>
       \/ Fault /\ \E sticky \in BOOLEAN : fatal' = sticky
    /\ UNCHANGED finish

-----------------------------------------------------------------------------
(* step, from the loop (no job) or between two prefill chunks (job # NoJob) *)

\* The queue holds only clients still there; step only if a lane runs.
PreStep ==
    /\ pc = "prestep" /\ AllPresent
    /\ Goto(IF fatal \/ Busy = {} THEN "top" ELSE "sweep")
    /\ UNCHANGED <<clientVars, clockVars, rx, waiting, slotVars, planVars, engineVars, finish>>

NestedStep ==
    /\ pc = "prefill" /\ job.quota > 0 /\ Busy # {}
    /\ pc' = "sweep"
    /\ job' = [job EXCEPT !.quota = @ - 1]
    /\ UNCHANGED <<clientVars, clockVars, rx, waiting, slotVars, planVars, engineVars, finish>>

\* take_lane / release_lane: the stamp is kept only while the policy is on.
Stamp(s, normal) == IF Reserve = 0 THEN rel[s] ELSE [at |-> now, normal |-> normal]

Release(done, cancelled) ==
    rel' = [s \in Slots |-> IF s \in done \cup cancelled THEN Stamp(s, s \in done) ELSE rel[s]]

AfterStep ==
    /\ pc' = IF job = NoJob THEN "top" ELSE "prefill"
    /\ UNCHANGED job

\* The cancel sweep at the start of a step; the step ends when it frees the last lane.
Sweep ==
    /\ pc = "sweep"
    /\ LET swept == {s \in Busy : lanes[s].req \in gone}
       IN  /\ lanes' = [s \in Slots |-> IF s \in swept THEN FreeLane ELSE lanes[s]]
           /\ Release({}, swept)
           /\ IF swept = Busy THEN AfterStep ELSE pc' = "round" /\ UNCHANGED job
    /\ UNCHANGED <<clientVars, clockVars, rx, waiting, cache, planVars, engineVars, finish>>

\* The lanes at their last token: the length limit finishes them.
AtLimit(stepped) == {s \in stepped : lanes[s].left = 1}

\* A round steps some of the lanes (the lane order and the packing choose which, and
\* whether another round of the same step follows).  A stepped lane whose send fails is
\* cancelled; otherwise it may, and at its last token must, finish.
Round ==
    /\ pc = "round"
    /\ \E stepped \in (SUBSET Busy) \ {{}} :
       LET cancelled == {s \in stepped : lanes[s].req \in gone}
       IN \E done \in SUBSET (stepped \ cancelled) :
           /\ AtLimit(stepped \ cancelled) \subseteq done
           /\ lanes' = [s \in Slots |->
                            IF s \in done \cup cancelled THEN FreeLane
                            ELSE IF s \in stepped THEN [lanes[s] EXCEPT !.left = @ - 1]
                            ELSE lanes[s]]
           /\ finish' = [r \in Reqs |-> IF \E s \in done : lanes[s].req = r
                                        THEN "normal" ELSE finish[r]]
           /\ Release(done, cancelled)
           /\ \/ AfterStep
              \/ Busy # done \cup cancelled /\ UNCHANGED <<pc, job>>
    /\ UNCHANGED <<clientVars, clockVars, rx, waiting, cache, planVars, engineVars>>

\* fail_step: every lane fails, and with it the request whose prefill was interleaved.
RoundFault ==
    /\ pc = "round"
    /\ Fault
    /\ \E sticky \in BOOLEAN : fatal' = sticky
    /\ LET failed == {lanes[s].req : s \in Busy} \cup ({job.req} \ {NoReq})
       IN  finish' = [r \in Reqs |-> IF r \in failed THEN "error" ELSE finish[r]]
    /\ lanes' = [s \in Slots |-> FreeLane]
    /\ rel' = [s \in Slots |-> IF s \in Busy THEN Stamp(s, FALSE) ELSE rel[s]]
    /\ Goto(IF job = NoJob THEN "top" ELSE "admit")
    /\ UNCHANGED <<clientVars, clockVars, rx, waiting, cache, planVars, dead>>

-----------------------------------------------------------------------------
(* die *)

\* Mutant: the channel is closed without being drained.
HeldUndrained == {lanes[s].req : s \in Busy} \cup ToSet(waiting)
Held == {lanes[s].req : s \in Busy} \cup ToSet(waiting) \cup ToSet(rx)

Die ==
    /\ pc = "die"
    /\ dead' = TRUE
    /\ finish' = [r \in Reqs |-> IF r \in Held THEN "error" ELSE finish[r]]
    /\ lanes' = [s \in Slots |-> FreeLane]
    /\ waiting' = <<>> /\ rx' = <<>>
    /\ Goto(IF ExitOnFatal THEN "exited" ELSE "dead")
    /\ UNCHANGED <<clientVars, clockVars, cache, rel, planVars, fatal, faults>>

\* Without the exit, a request that slipped past the DEAD check is answered too.
DeadReply ==
    /\ pc = "dead" /\ rx # <<>>
    /\ finish' = [finish EXCEPT ![Head(rx)] = "error"]
    /\ rx' = Tail(rx)
    /\ UNCHANGED <<clientVars, clockVars, waiting, slotVars, planVars, engineVars, pc, job>>

-----------------------------------------------------------------------------

Init ==
    /\ now = 0 /\ slack = Slack
    /\ arrived = [r \in Reqs |-> Never]
    /\ handed = {} /\ gone = {}
    /\ rx = <<>> /\ waiting = <<>>
    /\ lanes = [s \in Slots |-> FreeLane]
    /\ cache = [s \in Slots |-> NoSnap]
    /\ rel = [s \in Slots |-> [at |-> Never, normal |-> FALSE]]
    /\ nextForced = Never /\ until = Never
    /\ pc = "top" /\ job = NoJob
    /\ fatal = FALSE /\ dead = FALSE /\ faults = 0
    /\ finish = [r \in Reqs |-> "none"]
    /\ lastForced = Never

Loop == TopFatal \/ TopIdle \/ Drain \/ AdmitDone \/ PopFront \/ DrainAgain \/ DropGone
Plan == PlanOwn \/ PlanUnreserved \/ PlanForced \/ PlanWait \/ PollDeadline \/ PollRequest
Admit == PickedGone \/ PickedRefused \/ PickedFault \/ StartPrefill
Prefill == PrefillCancelled \/ PrefillChunk \/ AdmitFault
           \/ FirstTokenGone \/ FirstTokenEnds \/ FirstTokenLane
Step == PreStep \/ NestedStep \/ Sweep \/ Round \/ RoundFault
Scheduler == Loop \/ Plan \/ Admit \/ Prefill \/ Step \/ Die \/ DeadReply

Environment ==
    \/ \E r \in Reqs : Receive(r) \/ Enqueue(r) \/ Refuse(r) \/ Leave(r) \/ HitStopString(r)
    \/ Tick

Next == Scheduler \/ Environment

Spec == Init /\ [][Next]_vars

\* The scheduler thread keeps running, and the clock with it.
FairSpec == Spec /\ WF_vars(Scheduler) /\ WF_vars(Tick)

-----------------------------------------------------------------------------
(* Types *)

Jobs == [req : Reqs \cup {NoReq}, slot : Slots \cup {NoSlot}, allowed : SUBSET Slots,
         kind : {"none", "fifo", "own", "unreserved", "forced"},
         left : Nat, started : BOOLEAN, quota : Nat]
Labels == {"top", "idle", "admit", "picked", "poll", "prefill", "prestep", "sweep",
           "round", "die", "dead", "exited"}

\* Every variable holds a value of its kind.
TypeOK ==
    /\ now \in Nat /\ slack \in Nat
    /\ arrived \in [Reqs -> Instants]
    /\ handed \subseteq Reqs /\ gone \subseteq Reqs
    /\ rx \in Seq(Reqs) /\ waiting \in Seq(Reqs)
    /\ lanes \in [Slots -> [req : Reqs \cup {NoReq}, left : Nat]]
    /\ cache \in [Slots -> Snapshots \cup {NoSnap}]
    /\ rel \in [Slots -> [at : Instants, normal : BOOLEAN]]
    /\ nextForced \in Instants /\ until \in Instants /\ lastForced \in Instants
    /\ pc \in Labels /\ job \in Jobs
    /\ fatal \in BOOLEAN /\ dead \in BOOLEAN /\ faults \in Nat
    /\ finish \in [Reqs -> {"none", "normal", "error"}]

-----------------------------------------------------------------------------
(* Safety *)

Running == {lanes[s].req : s \in Busy}
Queued == ToSet(rx) \cup ToSet(waiting)
InHand == Queued \cup Running \cup ({job.req} \ {NoReq})

\* A request is in one place at a time until it is answered, and one that is nowhere
\* any more was answered or its client had left: none is lost between the channel, the
\* queue, the admission and a lane, and none is answered while it still runs.
EachRequestOnce ==
    /\ IsInjective(waiting \o rx)
    /\ \A s, t \in Busy : lanes[s].req = lanes[t].req => s = t
    /\ Queued \cap Running = {}
    /\ job.req \notin Queued \cup Running
    /\ \A r \in InHand : r \in handed /\ finish[r] = "none"
    /\ \A r \in handed \ InHand : finish[r] # "none" \/ r \in gone

\* The slot of a prompt being prefilled belongs to nobody else, whatever the interleaved
\* steps do, and holds no snapshot; a running lane's slot holds the snapshot of its own
\* prompt.
SlotOwnership ==
    /\ job.slot # NoSlot => lanes[job.slot] = FreeLane /\ cache[job.slot] = NoSnap
    /\ \A s \in Busy : cache[s] = SnapOf(lanes[s].req)

\* A bounded wait is not slept through: until its deadline, no plan over the same queue
\* would admit anyone.
NoMissedWakeup ==
    pc = "poll" /\ (until = Never \/ now < until)
        => WaitRule(Views, Waits, nextForced, now)

\* A request that becomes a prefill in slot s.
HandsOver(s) == pc = "picked" /\ pc' = "prefill" /\ job'.slot = s

\* A reserved lane changes hands only by a forced take of a request past its patience,
\* or goes back to a request that continues its conversation.
ReservationHonoured ==
    [][\A s \in Slots :
          HandsOver(s) /\ Reserved(Views[s], now) /\ ~ContinuedBy(cache[s], Prompt[job.req])
            => job.kind = "forced" /\ now - arrived[job.req] >= Patience]_vars

\* No admission destroys a snapshot that a queued request continues, except one that
\* continues it as well.
QueuedKeepSnapshots ==
    [][\A s \in Slots, r \in ToSet(waiting) :
          Reserve # 0 /\ HandsOver(s) /\ ContinuedBy(cache[s], Prompt[r])
            => ContinuedBy(cache[s], Prompt[job.req])]_vars

\* Two forced takes are at least S apart.
ForcedSpacing ==
    [][pc = "admit" /\ pc' = "picked" /\ job'.kind = "forced" /\ lastForced # Never
            => now - lastForced >= Swap]_vars

\* Once the engine hit a sticky device error, nobody's reply ends as if it were complete.
FatalStopsService ==
    [][fatal => \A r \in Reqs : finish[r] = "none" => finish'[r] # "normal"]_vars

-----------------------------------------------------------------------------
(* What it implements *)

\* Where a request is, as its client may see it.
StateOf(r) ==
    IF finish[r] = "normal" THEN "done"
    ELSE IF finish[r] = "error" THEN "failed"
    ELSE IF r \notin handed THEN "new"
    ELSE IF r \in Running \/ (job.req = r /\ job.slot # NoSlot) THEN "running"
    ELSE IF r \in Queued \/ job.req = r THEN "queued"
    ELSE "dropped"

Service == INSTANCE LaneService
    WITH Lanes <- Cardinality(Slots), state <- [r \in Reqs |-> StateOf(r)], broken <- fatal

\* The scheduler implements the service: a request runs in one lane of the fixed number,
\* is answered once or dropped because its client left, and nothing completes after a
\* sticky device error.
ImplementsService == Service!Spec

-----------------------------------------------------------------------------
(* Liveness *)

\* Every request handed over is answered, unless its client left or the process exited:
\* a reservation, the limiter or a bounded wait never starves the queue.
Served == \A r \in Reqs : r \in handed ~> finish[r] # "none" \/ r \in gone \/ pc = "exited"
=============================================================================
