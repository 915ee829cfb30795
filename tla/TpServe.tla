------------------------------ MODULE TpServe ------------------------------
(***************************************************************************)
(* The tensor-parallel EXL3 server: rank 0, the head (run_tp_head), and    *)
(* its mirrors (run_tp_mirror), src/src/exl3_serve.rs.  Every rank keeps   *)
(* its own lane table, prefix-cache snapshots and release stamps and must  *)
(* take the same decisions from its own copy.                              *)
(*                                                                         *)
(* The head decides what a step does and ships it: cancels and admits in   *)
(* a Step frame on each mirror's TCP stream, a HeadFlag frame at each      *)
(* prefill chunk boundary.  Frames of a stream stay in order.  The ranks   *)
(* also meet over RDMA: at the step-go of a live engine, at the seam of a  *)
(* prefill and at every decode round; a meeting compares what the ranks    *)
(* bring (`Frame`) and fails on all of them if it differs.                 *)
(***************************************************************************)
EXTENDS SlotPick, Lists

CONSTANTS
    World,          \* number of ranks
    Policies,       \* may the head have been started with --lane-reserve on: FALSE, TRUE
    Reqs,           \* request identities
    NoReq,          \* no request
    Prompt,         \* [Reqs -> [conv, len]]
    MaxNew,         \* [Reqs -> tokens the request may generate]
    Boundaries,     \* [Reqs -> chunk boundaries of its full prefill]
    Resumed,        \* [Reqs -> chunk boundaries of its prefill behind a reused prefix]
    Deep,           \* [Reqs -> lanes whose WP16 checkpoints resume it deepest]
    Refused,        \* requests exl3_reject turns away
    MayLeave,       \* requests whose client may disconnect
    NestedSteps,    \* --prefill-interleave: steps between two prefill chunks
    FastCtl,        \* --exl3-tp-fastctl: step-go over RDMA while a lane is live
    MaxFaults       \* bound: failing device calls and killed processes

ASSUME TpAssumption ==
    /\ World \in Nat /\ World >= 2
    /\ NoReq \notin Reqs
    /\ \A r \in Reqs : Prompt[r].len \in Nat \ {0}
    /\ MaxNew \in [Reqs -> Nat \ {0}]
    /\ Boundaries \in [Reqs -> Nat] /\ Resumed \in [Reqs -> Nat]
    /\ Deep \in [Reqs -> SUBSET Slots]
    /\ Refused \subseteq Reqs /\ MayLeave \subseteq Reqs
    /\ NestedSteps \in Nat /\ MaxFaults \in Nat
    /\ FastCtl \in BOOLEAN
    /\ Policies \subseteq BOOLEAN

Ranks == 0 .. (World - 1)
Nodes == Ranks \ {0}
Snapshots == [conv : {Prompt[r].conv : r \in Reqs}, len : Nat]

VARIABLES
    scoped,         \* lane reservation is on; never changes
    handed,         \* requests sent into the head's channel
    gone,           \* requests whose event receiver is dropped
    finish,         \* the Finish event each request got
    rx,             \* the channel into the head's scheduler
    waiting,        \* the head's queue
    lanes,          \* per rank and slot: the request and the tokens it has left
    cache,          \* per rank and slot: the prompt-end snapshot
    rel,            \* per rank and slot: the last stamped release, its place in the rank's
                    \* order of releases
    released,       \* per rank: lanes released so far
    stepNo,         \* per rank: control steps begun
    agreed,         \* per rank: the lockstep counter
    todo,           \* per rank: events of the step not applied yet
    pc, job,        \* per rank: where it is, the request it admits
    ctl,            \* per mirror: the head's frames not read yet
    faults          \* failures so far

clientVars == <<scoped, handed, gone>>
tableVars == <<lanes, cache, rel, released>>
syncVars == <<stepNo, agreed, todo>>
vars == <<clientVars, finish, rx, waiting, tableVars, syncVars, pc, job, ctl, faults>>

FreeLane == [req |-> NoReq, left |-> 0]
NoJob == [req |-> NoReq, slot |-> NoSlot, reuse |-> 0, left |-> 0, quota |-> 0]

Busy(k) == {s \in Slots : lanes[k][s] # FreeLane}
Idle(k) == Slots \ Busy(k)
Live(k) == Busy(k) # {}
Stopped == {k \in Ranks : pc[k] \in {"stopped", "bailed", "dead", "over"}}

SnapOf(r) == [conv |-> Prompt[r].conv, len |-> Prompt[r].len - 1]
Hits(k, r, set) == {s \in set : ContinuedBy(cache[k][s], Prompt[r])}
Views(k) == [s \in Slots |-> [busy |-> s \in Busy(k),
                              hasSnapshot |-> cache[k][s] # NoSnap,
                              releasedAt |-> rel[k][s].at,
                              normalFinish |-> rel[k][s].normal]]

CancelEvent(s) == [type |-> "cancel", lane |-> s]
AdmitEvent(r, allowed) == [type |-> "admit", req |-> r, allowed |-> allowed]
StepFrame(n, events) == [type |-> "step", step |-> n, events |-> events]
FlagFrame(v) == [type |-> "flag", v |-> v]
ShutdownFrame == [type |-> "shutdown"]

\* The members of a set of slots in slot order.
InOrder(slots) ==
    CHOOSE q \in [1..Cardinality(slots) -> slots] : \A i, j \in DOMAIN q : i < j => q[i] < q[j]

-----------------------------------------------------------------------------
(* Clients *)

Submit(r) ==
    /\ r \notin handed /\ 0 \notin Stopped
    /\ handed' = handed \cup {r}
    /\ rx' = Append(rx, r)
    /\ UNCHANGED <<scoped, gone, finish, waiting, tableVars, syncVars, pc, job, ctl, faults>>

\* A client disconnects, or its handler drops the stream (stop string, backlog limit).
Leave(r) ==
    /\ r \in MayLeave \cap handed /\ r \notin gone /\ finish[r] = "none"
    /\ gone' = gone \cup {r}
    /\ UNCHANGED <<scoped, handed, finish, rx, waiting, tableVars, syncVars, pc, job, ctl, faults>>

-----------------------------------------------------------------------------
(* run_tp_head: the events of a step *)

Present == Reqs \ gone
Good == Reqs \ (gone \cup Refused)

\* The sweep: a Cancel for each lane whose client is gone, in slot order.
GoneLanes == {s \in Busy(0) : lanes[0][s].req \in gone}
Cancels ==
    LET order == InOrder(GoneLanes)
    IN  [i \in DOMAIN order |-> CancelEvent(order[i])]

\* Lanes the head may give away: the free ones and those it is about to cancel.
Room == Cardinality(Idle(0) \cup GoneLanes)

\* The FIFO arm pops until `Room` requests are admitted or the queue is empty.
Popped(queue) ==
    LET enough == {i \in 0..Len(queue) : Len(Only(SubSeq(queue, 1, i), Good)) = Room}
    IN  IF enough = {} THEN Len(queue) ELSE Min(enough)

\* Mutant: the order of the wire format's comment, Admits before Cancels.
AdmitsFirst(cancels, admits) == admits \o cancels
Events(cancels, admits) == cancels \o admits

\* Nothing to do and nothing running: look again.  Else begin a step: over step-go
\* when a lane is live, else over TCP.
Begin(events) ==
    IF events = <<>> /\ ~Live(0)
    THEN UNCHANGED <<stepNo, todo, pc>>
    ELSE /\ stepNo' = [stepNo EXCEPT ![0] = @ + 1]
         /\ todo' = [todo EXCEPT ![0] = events]
         /\ pc' = [pc EXCEPT ![0] = IF FastCtl /\ Live(0) THEN "go" ELSE "ship"]

\* Drain the channel (a blocking receive when there is nothing else to do), sweep, admit.
PlanFifo ==
    /\ pc[0] = "top" /\ ~scoped
    /\ waiting \o rx # <<>> \/ Live(0)
    /\ LET queue == waiting \o rx
           popped == SubSeq(queue, 1, Popped(queue))
           admits == Only(popped, Good)
       IN  /\ waiting' = Only(SubSeq(queue, Popped(queue) + 1, Len(queue)), Present)
           /\ finish' = [r \in Reqs |-> IF r \in (ToSet(popped) \cap Refused) \ gone
                                        THEN "error" ELSE finish[r]]
           /\ Begin(Events(Cancels, [i \in DOMAIN admits |-> AdmitEvent(admits[i], Slots)]))
    /\ rx' = <<>>
    /\ UNCHANGED <<clientVars, tableVars, agreed, job, ctl, faults>>

\* Reservation on, the plan holds admission (or there is nobody to admit).
PlanHold ==
    /\ pc[0] = "top" /\ scoped
    /\ waiting \o rx # <<>> \/ Live(0)
    /\ waiting' = Only(waiting \o rx, Present)
    /\ rx' = <<>>
    /\ Begin(Cancels)
    /\ UNCHANGED <<clientVars, finish, tableVars, agreed, job, ctl, faults>>

\* Mutant: the whole queue is admitted into what is free when the step is planned.
PlanScopedAll ==
    /\ pc[0] = "top" /\ scoped
    /\ LET queue == Only(waiting \o rx, Good)
       IN  \E allowed \in SUBSET Idle(0) \ {{}} :
            /\ queue # <<>>
            /\ Begin(Events(Cancels, [i \in DOMAIN queue |-> AdmitEvent(queue[i], allowed)]))
    /\ waiting' = <<>> /\ rx' = <<>>
    /\ UNCHANGED <<clientVars, finish, tableVars, agreed, job, ctl, faults>>

\* Reservation on: at most one request, in any place of the queue, into any lanes the
\* plan allows.  Those are free lanes now: a lane about to be cancelled is still busy.
PlanScoped ==
    /\ pc[0] = "top" /\ scoped
    /\ LET queue == Only(waiting \o rx, Present)
       IN  \E i \in DOMAIN queue, allowed \in SUBSET Idle(0) :
            /\ allowed # {}
            /\ waiting' = RemoveAt(queue, i)
            /\ IF queue[i] \in Refused
               THEN finish' = [finish EXCEPT ![queue[i]] = "error"] /\ Begin(Cancels)
               ELSE finish' = finish /\ Begin(Events(Cancels, <<AdmitEvent(queue[i], allowed)>>))
    /\ rx' = <<>>
    /\ UNCHANGED <<clientVars, tableVars, agreed, job, ctl, faults>>

\* The Step frame, to every mirror.
Ship ==
    /\ pc[0] = "ship"
    /\ ctl' = [n \in Nodes |-> Append(ctl[n], StepFrame(stepNo[0], todo[0]))]
    /\ pc' = [pc EXCEPT ![0] = "apply"]
    /\ UNCHANGED <<clientVars, finish, rx, waiting, tableVars, syncVars, job, faults>>

\* The server dropped its end of the channel: an idle head ends the session.
Shutdown ==
    /\ pc[0] = "top" /\ waiting \o rx = <<>> /\ ~Live(0)
    /\ ctl' = [n \in Nodes |-> Append(ctl[n], ShutdownFrame)]
    /\ pc' = [pc EXCEPT ![0] = "over"]
    /\ UNCHANGED <<clientVars, finish, rx, waiting, tableVars, syncVars, job, faults>>

\* run_tp_mirror: a live mirror first meets the head at step-go; else, or when the go
\* announced events, it reads the next frame, which must be the next step.
Reading(n) == pc[n] = "recv" \/ (pc[n] = "top" /\ ~(FastCtl /\ Live(n)))
Recv(n) ==
    /\ Reading(n) /\ ctl[n] # <<>>
    /\ LET m == Head(ctl[n])
       IN  IF m.type = "step" /\ m.step = stepNo[n] + 1
           THEN /\ stepNo' = [stepNo EXCEPT ![n] = m.step]
                /\ todo' = [todo EXCEPT ![n] = m.events]
                /\ pc' = [pc EXCEPT ![n] = "apply"]
           ELSE /\ pc' = [pc EXCEPT ![n] = IF m.type = "shutdown" THEN "over" ELSE "bailed"]
                /\ UNCHANGED <<stepNo, todo>>
    /\ ctl' = [ctl EXCEPT ![n] = Tail(@)]
    /\ UNCHANGED <<clientVars, finish, rx, waiting, tableVars, agreed, job, faults>>

\* The head's stream is closed: the session is over.
StreamClosed(n) ==
    /\ Reading(n) /\ ctl[n] = <<>> /\ 0 \in Stopped
    /\ pc' = [pc EXCEPT ![n] = "over"]
    /\ UNCHANGED <<clientVars, finish, rx, waiting, tableVars, syncVars, job, ctl, faults>>

-----------------------------------------------------------------------------
(* Applying the events, on every rank *)

\* Where a rank goes when its events are applied.
ApplyDone(k) ==
    /\ pc[k] = "apply" /\ todo[k] = <<>>
    /\ pc' = [pc EXCEPT ![k] = IF Live(k) THEN "round" ELSE "top"]
    /\ UNCHANGED <<clientVars, finish, rx, waiting, tableVars, syncVars, job, ctl, faults>>

\* The lane is taken; its release is not stamped.
ApplyCancel(k) ==
    /\ pc[k] = "apply" /\ todo[k] # <<>> /\ Head(todo[k]).type = "cancel"
    /\ lanes' = [lanes EXCEPT ![k][Head(todo[k]).lane] = FreeLane]
    /\ todo' = [todo EXCEPT ![k] = Tail(@)]
    /\ UNCHANGED <<clientVars, finish, rx, waiting, cache, rel, released, stepNo, agreed,
                   pc, job, ctl, faults>>

\* Mutant: the mirror picks among all its free lanes.
AllowedUnscoped(k, event) == IF k = 0 THEN event.allowed ELSE Slots
Allowed(k, event) == event.allowed

\* The next piece of the prefill of job j: its next chunk boundary, with the nested
\* steps before it, or its end, which takes the snapshot.
Prefill(k, j) ==
    /\ job' = [job EXCEPT ![k] = [j EXCEPT !.quota = NestedSteps]]
    /\ pc' = [pc EXCEPT ![k] = IF j.left = 0 THEN "seam"
                               ELSE IF NestedSteps > 0 /\ Live(k) THEN "round" ELSE "flag"]
    /\ cache' = [cache EXCEPT ![k][j.slot] = IF j.left = 0 THEN SnapOf(j.req) ELSE NoSnap]

\* A scoped admit whose lanes are taken is put back on the head and skipped on a mirror;
\* an unscoped one finds the server busy; else the prefill starts.
ApplyAdmit(k) ==
    /\ pc[k] = "apply" /\ todo[k] # <<>> /\ Head(todo[k]).type = "admit"
    /\ LET r == Head(todo[k]).req
           free == Idle(k) \cap Allowed(k, Head(todo[k]))
           hits == Hits(k, r, free)
       IN  IF free = {}
           THEN /\ waiting' = IF k = 0 /\ scoped THEN Append(waiting, r) ELSE waiting
                /\ finish' = IF k = 0 /\ ~scoped THEN [finish EXCEPT ![r] = "error"] ELSE finish
                /\ UNCHANGED <<cache, pc, job>>
           ELSE /\ \E s \in free :
                    /\ IsPickOf(s, hits, free, cache[k], scoped, Views(k), Deep[r])
                    /\ LET reuse == IF s \in hits THEN cache[k][s].len ELSE 0
                       IN  Prefill(k, [NoJob EXCEPT !.req = r, !.slot = s, !.reuse = reuse,
                                       !.left = IF reuse > 0 THEN Resumed[r] ELSE Boundaries[r]])
                /\ UNCHANGED <<finish, waiting>>
    /\ todo' = [todo EXCEPT ![k] = Tail(@)]
    /\ UNCHANGED <<clientVars, rx, lanes, rel, released, stepNo, agreed, ctl, faults>>

\* A chunk boundary: the head's view of the client decides for every rank.  A gone
\* client ends the prefill there; the slot stays free and without a snapshot.
AtBoundary(k, isGone) ==
    IF isGone
    THEN /\ job' = [job EXCEPT ![k] = NoJob]
         /\ pc' = [pc EXCEPT ![k] = "apply"]
         /\ cache' = cache
    ELSE Prefill(k, [job[k] EXCEPT !.left = @ - 1])

HeadFlag ==
    /\ pc[0] = "flag"
    /\ ctl' = [n \in Nodes |-> Append(ctl[n], FlagFrame(job[0].req \in gone))]
    /\ AtBoundary(0, job[0].req \in gone)
    /\ UNCHANGED <<clientVars, finish, rx, waiting, lanes, rel, released, syncVars, faults>>

\* Mutant: a mirror asks its own channel, which has no client to lose.
NodeFlagOwn(n) ==
    /\ pc[n] = "flag" /\ ctl[n] # <<>>
    /\ AtBoundary(n, FALSE)
    /\ ctl' = [ctl EXCEPT ![n] = Tail(@)]
    /\ UNCHANGED <<clientVars, finish, rx, waiting, lanes, rel, released, syncVars, faults>>

NodeFlag(n) ==
    /\ pc[n] = "flag" /\ ctl[n] # <<>>
    /\ LET m == Head(ctl[n])
       IN  IF m.type = "flag" THEN AtBoundary(n, m.v)
           ELSE pc' = [pc EXCEPT ![n] = "bailed"] /\ UNCHANGED <<cache, job>>
    /\ ctl' = [ctl EXCEPT ![n] = Tail(@)]
    /\ UNCHANGED <<clientVars, finish, rx, waiting, lanes, rel, released, syncVars, faults>>

-----------------------------------------------------------------------------
(* The meetings: step_go, tp_round("seam"), tp_round of a round *)

Point(k) ==
    IF pc[k] = "go" \/ (k # 0 /\ pc[k] = "top" /\ FastCtl /\ Live(k)) THEN "go"
    ELSE IF pc[k] \in {"seam", "round"} THEN pc[k] ELSE "none"

\* The requests of a rank's lanes in slot order: whose tokens a round hashes.
Running(k) ==
    LET order == InOrder(Busy(k)) IN [i \in DOMAIN order |-> lanes[k][order[i]].req]

\* What a rank brings: the point, its lockstep counter, and the words that point hashes.
Frame(k) ==
    [point |-> Point(k), step |-> agreed[k],
     words |-> CASE Point(k) = "seam" -> <<job[k].req, job[k].slot, job[k].reuse>>
                 [] Point(k) = "round" -> Running(k)
                 [] OTHER -> <<>>]

AllMeet == \A k \in Ranks : Point(k) # "none"
Agree == \A n \in Nodes : Frame(n) = Frame(0)
MeetAt(point) == AllMeet /\ Agree /\ Point(0) = point /\ agreed' = [k \in Ranks |-> agreed[k] + 1]

\* The mirrors learn the step's number and how many events it has; with none, it starts.
Go ==
    /\ MeetAt("go")
    /\ pc' = [k \in Ranks |->
                IF k = 0 THEN (IF todo[0] = <<>> THEN "round" ELSE "ship")
                ELSE IF stepNo[k] + 1 # stepNo[0] THEN "bailed"
                ELSE IF todo[0] = <<>> THEN "round" ELSE "recv"]
    /\ stepNo' = [k \in Ranks |-> IF todo[0] = <<>> THEN stepNo[0] ELSE stepNo[k]]
    /\ UNCHANGED <<clientVars, finish, rx, waiting, tableVars, todo, job, ctl, faults>>

\* The first token: it ends the request or makes it a lane, its client gone or not.
Seam ==
    /\ MeetAt("seam")
    /\ \E ends \in BOOLEAN :
        /\ MaxNew[job[0].req] = 1 => ends
        /\ lanes' = [k \in Ranks |->
                IF ends THEN lanes[k]
                ELSE [lanes[k] EXCEPT ![job[k].slot] =
                        [req |-> job[k].req, left |-> MaxNew[job[k].req] - 1]]]
        /\ finish' = IF ends THEN [finish EXCEPT ![job[0].req] = "done"] ELSE finish
    /\ job' = [k \in Ranks |-> NoJob]
    /\ pc' = [k \in Ranks |-> "apply"]
    /\ UNCHANGED <<clientVars, rx, waiting, cache, rel, released, stepNo, todo, ctl, faults>>

\* After a round: another one of the same step, the next nested step, the prefill's next
\* boundary, or the top of the loop.
AfterRound(k, stillLive, more) ==
    IF more /\ stillLive THEN "round"
    ELSE IF job[k] = NoJob THEN "top"
    ELSE IF job[k].quota > 1 /\ stillLive THEN "round" ELSE "flag"

Freed(k, s, over) == lanes[k][s].req \in over

\* One round: some lanes get tokens, those in `over` their last ones.  A failed send to
\* a gone client changes nothing here.
Round ==
    /\ MeetAt("round")
    /\ \E stepped \in SUBSET ToSet(Running(0)), more \in BOOLEAN :
       \E over \in SUBSET stepped :
        /\ stepped # {}
        /\ \A s \in Busy(0) : lanes[0][s].left = 1 /\ lanes[0][s].req \in stepped
                                => lanes[0][s].req \in over
        /\ LET out == [k \in Ranks |-> {s \in Busy(k) : Freed(k, s, over)}]
           IN  /\ lanes' = [k \in Ranks |-> [s \in Slots |->
                        IF s \in out[k] THEN FreeLane
                        ELSE IF lanes[k][s].req \in stepped
                             THEN [lanes[k][s] EXCEPT !.left = @ - 1] ELSE lanes[k][s]]]
               /\ rel' = [k \in Ranks |-> [s \in Slots |->
                        IF scoped /\ s \in out[k]
                        THEN [at |-> released[k] + Cardinality({t \in out[k] : t < s}),
                              normal |-> TRUE]
                        ELSE rel[k][s]]]
               /\ released' = [k \in Ranks |-> released[k] + Cardinality(out[k])]
               /\ pc' = [k \in Ranks |-> AfterRound(k, Busy(k) \ out[k] # {}, more)]
               /\ job' = [k \in Ranks |->
                        IF job[k] # NoJob /\ ~(more /\ Busy(k) \ out[k] # {})
                        THEN [job[k] EXCEPT !.quota = @ - 1] ELSE job[k]]
        /\ finish' = [r \in Reqs |-> IF r \in over THEN "done" ELSE finish[r]]
    /\ UNCHANGED <<clientVars, rx, waiting, cache, stepNo, todo, ctl, faults>>

-----------------------------------------------------------------------------
(* Failures *)

\* tp_fail: the head tells its lanes, its channel and its queue; the request being
\* admitted was told by admit_req.  The step's admits not applied yet are not told.
HeadHolds ==
    {lanes[0][s].req : s \in Busy(0)} \cup ToSet(waiting) \cup ToSet(rx) \cup {job[0].req}
HeadFails ==
    /\ finish' = [r \in Reqs |-> IF r \in HeadHolds /\ finish[r] = "none" THEN "error" ELSE finish[r]]
    /\ lanes' = [lanes EXCEPT ![0] = [s \in Slots |-> FreeLane]]
    /\ rx' = <<>> /\ waiting' = <<>>
    /\ job' = [job EXCEPT ![0] = NoJob]
    /\ pc' = [pc EXCEPT ![0] = "stopped"]

Fails(k) ==
    /\ IF k = 0 THEN HeadFails
                ELSE /\ pc' = [pc EXCEPT ![k] = "stopped"]
                     /\ UNCHANGED <<finish, lanes, rx, waiting, job>>
    /\ UNCHANGED <<clientVars, cache, rel, released, syncVars, ctl>>

\* A device call of a rank fails, in a prefill or in a round: no rank goes on after that.
DeviceFault(k) ==
    /\ pc[k] \in {"flag", "seam", "round"}
    /\ faults < MaxFaults
    /\ faults' = faults + 1
    /\ Fails(k)

\* A rank's process ends: nobody is told.
Crash(k) ==
    /\ k \notin Stopped
    /\ faults < MaxFaults
    /\ faults' = faults + 1
    /\ pc' = [pc EXCEPT ![k] = "dead"]
    /\ UNCHANGED <<clientVars, finish, rx, waiting, tableVars, syncVars, job, ctl>>

\* Mutant: the head has no deadline on its peers.
BrokenAtMirror(k) == k # 0 /\ Point(k) # "none" /\ Stopped # {}
\* A rank waits for one that stopped, at a meeting or (a mirror) for a HeadFlag, or the
\* head writes to it; or the ranks meet with different frames.
Broken(k) ==
    \/ Point(k) # "none" /\ (Stopped # {} \/ (AllMeet /\ ~Agree))
    \/ k # 0 /\ pc[k] = "flag" /\ ctl[k] = <<>> /\ 0 \in Stopped
    \/ k = 0 /\ pc[0] \in {"ship", "flag"} /\ Stopped # {}

LinkFails(k) ==
    /\ Broken(k)
    /\ Fails(k)
    /\ UNCHANGED faults

\* Mutant: the step's unapplied admits are kept with their senders.
UnappliedKept == {}
\* The requests whose admit the head shipped and has not applied.
Unapplied == {todo[0][i].req : i \in {j \in DOMAIN todo[0] : todo[0][j].type = "admit"}}

\* tp_fail does not know them; run_tp_head returns, their senders are dropped with it, and
\* each handler takes a channel closed without a Finish for an engine failure.
SenderDropped(r) ==
    /\ pc[0] = "stopped" /\ r \in Unapplied /\ finish[r] = "none"
    /\ finish' = [finish EXCEPT ![r] = "error"]
    /\ UNCHANGED <<clientVars, rx, waiting, tableVars, syncVars, pc, job, ctl, faults>>

-----------------------------------------------------------------------------
Init ==
    /\ scoped \in Policies
    /\ handed = {} /\ gone = {}
    /\ finish = [r \in Reqs |-> "none"]
    /\ rx = <<>> /\ waiting = <<>>
    /\ lanes = [k \in Ranks |-> [s \in Slots |-> FreeLane]]
    /\ cache = [k \in Ranks |-> [s \in Slots |-> NoSnap]]
    /\ rel = [k \in Ranks |-> [s \in Slots |-> [at |-> Never, normal |-> FALSE]]]
    /\ released = [k \in Ranks |-> 0]
    /\ stepNo = [k \in Ranks |-> 0]
    /\ agreed = [k \in Ranks |-> 0]
    /\ todo = [k \in Ranks |-> <<>>]
    /\ pc = [k \in Ranks |-> "top"]
    /\ job = [k \in Ranks |-> NoJob]
    /\ ctl = [n \in Nodes |-> <<>>]
    /\ faults = 0

Client == \E r \in Reqs : Submit(r) \/ Leave(r)
Plan == PlanFifo \/ PlanHold \/ PlanScoped
Apply(k) == ApplyDone(k) \/ ApplyCancel(k) \/ ApplyAdmit(k)
HeadStep == Plan \/ Ship \/ HeadFlag \/ Apply(0)
NodeStep(n) == Recv(n) \/ StreamClosed(n) \/ NodeFlag(n) \/ Apply(n)
Meeting == Go \/ Seam \/ Round

Next ==
    \/ Client
    \/ HeadStep
    \/ \E n \in Nodes : NodeStep(n)
    \/ Meeting
    \/ Shutdown
    \/ \E r \in Reqs : SenderDropped(r)
    \/ \E k \in Ranks : DeviceFault(k) \/ Crash(k) \/ LinkFails(k)

Spec == Init /\ [][Next]_vars

\* Every rank's thread and handler runs on, and a wait for a stopped rank ends at its deadline.
FairSpec ==
    /\ Spec
    /\ WF_vars(HeadStep) /\ WF_vars(Meeting)
    /\ \A n \in Nodes : WF_vars(NodeStep(n))
    /\ \A k \in Ranks : WF_vars(LinkFails(k))
    /\ \A r \in Reqs : WF_vars(SenderDropped(r))

-----------------------------------------------------------------------------
(* Properties *)

StepEvents == [type : {"cancel"}, lane : Slots] \cup
           [type : {"admit"}, req : Reqs, allowed : SUBSET Slots]

\* Every variable keeps its type.
TypeOK ==
    /\ scoped \in BOOLEAN
    /\ handed \subseteq Reqs /\ gone \subseteq handed
    /\ finish \in [Reqs -> {"none", "done", "error"}]
    /\ rx \in Seq(Reqs) /\ waiting \in Seq(Reqs)
    /\ lanes \in [Ranks -> [Slots -> [req : Reqs \cup {NoReq}, left : Nat]]]
    /\ cache \in [Ranks -> [Slots -> Snapshots \cup {NoSnap}]]
    /\ rel \in [Ranks -> [Slots -> [at : Instants, normal : BOOLEAN]]]
    /\ released \in [Ranks -> Nat] /\ stepNo \in [Ranks -> Nat] /\ agreed \in [Ranks -> Nat]
    /\ todo \in [Ranks -> Seq(StepEvents)]
    /\ pc \in [Ranks -> {"top", "go", "ship", "recv", "apply", "flag", "seam", "round",
                         "stopped", "bailed", "dead", "over"}]
    /\ job \in [Ranks -> [req : Reqs \cup {NoReq}, slot : Slots \cup {NoSlot}, reuse : Nat,
                          left : Nat, quota : Int]]
    /\ ctl \in [Nodes -> Seq([type : {"step"}, step : Nat, events : Seq(StepEvents)] \cup
                             [type : {"flag"}, v : BOOLEAN] \cup [type : {"shutdown"}])]
    /\ faults \in 0 .. MaxFaults

\* No rank ever reads a frame it does not expect, meets the others at another point or
\* with another count, or begins a step out of turn ("TP mirror: head step ... after
\* local step ...", "TP control plane out of step", "ranks diverged").
Lockstep ==
    /\ \A k \in Ranks : pc[k] # "bailed"
    /\ AllMeet => Agree

\* Whenever the ranks meet, their lane tables, snapshots, release orders and the
\* admission in progress are the same, although each computed its own.
SameTables ==
    AllMeet => \A n \in Nodes :
        lanes[n] = lanes[0] /\ cache[n] = cache[0] /\ rel[n] = rel[0] /\ job[n] = job[0]

\* A shipped admit finds one of its lanes free on every rank when it is applied, after
\* the events before it and the steps nested in them: no request is refused or put back
\* for a lane the head counted as free.
AdmitFindsLane ==
    \A k \in Ranks :
        pc[k] = "apply" /\ todo[k] # <<>> /\ Head(todo[k]).type = "admit"
            => Idle(k) \cap Head(todo[k]).allowed # {}

\* Where a request is on the head, as its client may see it.
StateOf(r) ==
    IF finish[r] = "done" THEN "done"
    ELSE IF finish[r] = "error" THEN "failed"
    ELSE IF r \notin handed THEN "new"
    ELSE IF job[0].req = r \/ \E s \in Busy(0) : lanes[0][s].req = r THEN "running"
    ELSE IF r \in ToSet(rx) \cup ToSet(waiting) \cup Unapplied THEN "queued"
    ELSE "dropped"

Service == INSTANCE LaneService
    WITH Lanes <- Cardinality(Slots), state <- [r \in Reqs |-> StateOf(r)], broken <- 0 \in Stopped

\* The head implements the same service as the single box: what it plans, ships and
\* applies later adds nothing a client could see, and a cancel only hits a request whose
\* client left.
ImplementsService == Service!Spec

\* Every request handed over is answered, unless its client leaves or the head's process
\* is killed: also when a rank fails in the middle of a step, with some of the step's
\* admits applied and the others still in its event list.
Answered ==
    \A r \in Reqs : r \in handed ~> (finish[r] # "none" \/ r \in gone \/ pc[0] = "dead")

\* A rank that stops takes the others with it as soon as there is work: a head with
\* lanes or requests does not stay up without its mirrors.
StopsTogether ==
    Stopped \ {0} # {} /\ (Live(0) \/ waiting # <<>>) ~>
        (0 \in Stopped \/ (~Live(0) /\ waiting = <<>>))
=============================================================================
