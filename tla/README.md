# veloGB10 in TLA+

A verification development of [veloGB10](../src/README.md), the GB10 inference
server: TLA+ models of its serving core, the TLC runs that check them on small
instances, and TLAPS proofs of what holds for every instance.  Paths below are
relative to `src/` (the Rust sources are in `src/src/`).

The server does three things: it runs model kernels on a GPU (numerics, out of
scope here), it parses and renders HTTP, and in between it *schedules*: it
decides which request runs in which lane, when a lane changes hands, what
happens when a client leaves, a call fails or a peer box stops.  The third part
is small, concurrent, stateful and hard to test without the hardware.  It is
what this development models, with the machinery that part leans on: the prefix
cache and its disk tier, the lockstep of the ranks, the speculation policy, the
log queue, and the text side of a streamed reply.

## 1. Inventory

### The system's parts

| Part | State it keeps | Operations | Talks to |
|---|---|---|---|
| **EXL3 scheduler** `exl3_serve.rs` | lanes, queue, prefix-cache snapshots, release stamps, limiter, sticky `fatal` error, checkpoints | `run`, `admit_req`, `prefill_cached`, `prefill_range`, `interleave_steps`, `step_rounds`, `fail_step`, `die` | HTTP handlers over a channel in and one event channel per request out; `ENGINE_STATE`; metrics |
| **Lane reservation** `lane_reserve.rs` | `next_forced` | `plan`, `victim`, `reserved`, `allowed_free` | pure; called by the scheduler |
| **HTTP handlers** `server.rs` | one task per request: decoder, stop strings, tool parsing | `chat_completions`, `completions`, SSE stream, keep-alive | scheduler channel, `ENGINE_STATE`, metrics |
| **Tensor-parallel serving** `exl3_serve.rs` `run_tp_head` / `run_tp_mirror`, `tp_serve.rs`, `tp_lockstep.rs` | a replica of the lane table per rank, step counters, lockstep counter | Step frames over TCP, step-go / pre-verify / round agreement over RDMA, HeadFlag | `net.rs`, `cluster.rs` |
| **MTP re-probe** `mtp_reprobe.rs` | per lane: phase, counters, confirm, backoff, prime row | `observe_round`, `observe_plain`, `went_off`, `armed_for_probe` | scheduler rounds |
| **Lane packing** `lane_pack.rs`, lane order (`fcfs_front`, `fcfs_charge`) | rotation counter, quantum credit | `plan`, `pair`, staging | scheduler rounds |
| **KV spill** `kv_spill.rs` | LRU index, cost model, writer thread and queue | `lookup`, `capture`, `restore`, `spill_agree` | scheduler admission, disk |
| **WP16 checkpoints** `exl3_forward/wp16.rs` | per-slot checkpoint lists, pool with a cap | `begin_*`, `acquire`, `insert`, `resume_point` | `prefill_cached` |
| **NVFP4 scheduler** `batch.rs` | the same duties for the other weight formats | `decode_step`, `run_tp_head`, `run_tp_mirror` | handlers, `tp_serve` |
| **Line log** `logq.rs` | bounded queue, drop counter, writer thread | `try_line`, writer loop, `flush_and_exit` | every thread |
| **Loop detector** `loop_detect.rs` | token window, streaks, wake heap | `feed` | emission |
| **Transport** `net.rs`, `tp_xport.rs`, `native/tp_doorbell.h` | epoch rings, agree tokens, exchange slots | `agree`, `exchange`, `hub_all`, all-reduce | GPU, NIC |
| **Cluster bring-up** `cluster.rs`, `tp.rs` | discovery, model sync, boot agreement | `run_head_session`, `run_node` | TCP, UDP |
| **Memory watchdog** `memwatch.rs`, **metrics** `metrics.rs`, **telemetry** `tel.rs`, `otel.rs` | gauges, counters, lock-free ring | sample, publish | every part |
| **Engines and kernels** `engine.rs`, `exl3_forward*`, `gpu.rs`, `naive/`, `dflash2/`, `dspark/`, `dsv4_*`, `kernels/` | device state | forward passes | schedulers |
| **Text side** `tokenizer.rs`, `tools*`, `tool_scrub.rs`, `json_schema.rs`, `opts*.rs` | none worth a model | parse, render, decode | handlers |

### What is hard here

* The scheduler is **one thread**, so its own steps do not race; what
  interleaves with them is everybody else: a client drops its receiver at any
  time, a handler stamps a request long before it sends it, the clock passes a
  deadline, a device call fails.  The code looks at those in *chosen* places
  (`tx.is_closed()` in six of them), and every place must leave the request in
  exactly one home.
* **State that outlives its owner.**  Snapshots, release stamps and the limiter
  belong to a slot, not to the request that ran there; requests that end
  without ever becoming a lane do not touch them all.
* **Re-entry.**  `--prefill-interleave` runs whole decode steps inside an
  admission.
* **Two boxes, one state.**  Under tensor parallelism each rank keeps its own
  lane table and must make the same decision from its own copy, and its own
  disk, whose failures the others must not notice.
* **A name and what it names.**  A snapshot, a checkpoint and a file are known
  by the tokens of their prefix; the rows behind them are overwritten in place
  by whoever uses the slot next.
* **A frame that arrives in pieces.**  An RDMA frame is there when its last word
  is; a tag or a stop string is there when its last token is.
* **Counters two threads keep.**  The log queue's count is taken after the send.

### What makes each part correct

| Part | Properties |
|---|---|
| scheduler and policy | each request in one place and answered once; the joining prompt's slot is its own; a dead engine completes nothing; no snapshot that a queued request continues is evicted; reservations hold; forced takes are spaced; nobody waits for ever |
| tensor-parallel serving | frames read in turn; equal tables; the same service as one box; a failure anywhere answers everybody |
| prefix tiers | what a snapshot, a checkpoint or a file says it holds is what it holds; a resumed prefill computes what a fresh one would |
| chunk grid | no chunk outgrows its buffers; wanted boundaries survive merging and folding |
| spill agreement | equal policies on unequal disks; a bad disk costs a snapshot, not a round |
| lockstep exchange | no frame overwritten or mistaken; nobody parked |
| speculation policy, lane order | a speculating lane's head is whole; off is confirmed and not for ever; no lane starves |
| line log | no line lost in silence; a stalled reader holds nobody; an exit loses a bounded number of lines |
| streamed reply | says what the JSON reply says; nothing sent twice; nothing dropped |

## 2. Modules

| Module | Models | Code |
|---|---|---|
| `LaneService` | the abstract service: a request is queued, runs in one of N lanes, is answered once, is dropped only when its client left; nothing completes on a broken engine | what `Exl3Serve` and `TpServe` both promise |
| `LaneReserve` | the reservation policy: each rule of `plan` a predicate, the victim order, the limiter, the deadlines | `lane_reserve.rs` |
| `SlotPick` | the choice of a lane for an admitted prompt | the pick of `admit_req` |
| `Exl3Serve` | the single-box server: scheduler thread, handlers, clients, clock, device failures | `exl3_serve.rs` 1915-2101, 2118-2220, 2378-2480, 3575-3640, 3848-4064, 4283-4645; `server.rs` hand-over |
| `TpServe` | the tensor-parallel server: head, any number of mirrors, their frames and meetings | `exl3_serve.rs` 4698-5085, `head_flag`, `step_go`, `tp_round`; `tp_serve.rs`, `tp_lockstep.rs` |
| `SpillTp` | the disk tier under tensor parallelism: one policy per rank, unequal disks, the agreement | `spill_capture_slot`, `spill_restore_slot`, `spill_agree`; `kv_spill.rs` |
| `Meeting`, `HubLockstep` | what a lockstep point promises; how three or more ranks exchange their words through control rings | `hub_all` (`net.rs`), `net_exchange_one` (`native/net_shim.c`), `hub_fail` |
| `PrefixTiers` | snapshot, checkpoints and disk of a single box, and the resume decision | `prefill_cached`, `prefill_range`; `wp16.rs` `CkptStore`; `kv_spill.rs` |
| `ChunkRules`, `ChunkGrid` | where a prefill is cut: the rules as operators on sets, `absorb_grid`'s loop as a machine | `wp16.rs` 33-225 |
| `SpecLanes` | which lanes speculate, when speculation goes off and comes back, lane order | `mtp_reprobe.rs`; `step_rounds`, `step_mtp`, `step_plain`, `round_account` |
| `LogQ` | the bounded line log and the flush before an exit | `logq.rs` |
| `ChatStream` | the text of a streamed chat reply, beside the JSON reply | `chat_sse_stream`, `hold_back_end`, `held_tail`, `split_think_in` (`server.rs`) |
| `Lists` | what `retain` and `remove` leave of a list, as recursive functions a proof can use | `run_tp_head`'s queue; `Policy::remove` |
| `MC*` | instances for TLC | |
| `Exl3ServeProofs`, `TpServeProofs`, `HubLockstepProofs`, `SpillTpProofs`, `PrefixProofs` (the chunk grid and the prefix tiers), `SpecLanesProofs`, `LogQProofs`, `ChatStreamProofs` | theorems (section 5) | |

Composition: `SlotPick` EXTENDS `LaneReserve` (a scoped pick ends in the
policy's victim); `Exl3Serve` and `TpServe` both EXTEND `SlotPick`, share the
pick as the code does, and are both shown to implement `LaneService` by a
refinement mapping (`StateOf`, per request).  `HubLockstep` implements `Meeting`,
which is what `TpServe` and `SpillTp` take a lockstep point to be: one action of
all ranks.  `PrefixTiers` and `ChunkGrid` share `ChunkRules`; `Exl3Serve` takes
from `PrefixTiers` only which lanes resume a prompt deepest (any set, at each
pick), and from `SpecLanes` only which lanes a round steps (any set).

### The single-box server

`pc` is where the scheduler thread stands; only the points between which another
party can make a difference are separate.

| pc | In the code | Actions from there |
|---|---|---|
| `top` | head of `run`'s loop (3918) | `TopFatal`, `TopIdle`, `Drain` |
| `idle` | `rx.blocking_recv()` (3937) | `Drain` once a request is there |
| `admit` | the admission `while` (3953) | FIFO: `PopFront`; reservation: `DrainAgain`, `DropGone`, then one of `PlanOwn`, `PlanUnreserved`, `PlanForced`, `PlanWait`; `AdmitDone` |
| `poll` | the bounded 20 ms wait (3993) | `PollRequest`, `PollDeadline` |
| `picked` | `admit_req` before the slot changes owner | `PickedGone`, `PickedRefused`, `PickedFault`, `StartPrefill` |
| `prefill` | `prefill_range` at a chunk boundary, then the seam step | `PrefillCancelled`, `PrefillChunk`, `NestedStep`, `AdmitFault`, `FirstTokenGone`, `FirstTokenEnds`, `FirstTokenLane` |
| `prestep` | the `retain` and the checks before a step (4018) | `DropGone`, `PreStep` |
| `sweep` | the cancel sweep of `step_rounds` (2407) | `Sweep` |
| `round` | the rounds of a step and their emission | `Round`, `RoundFault` |
| `die`, `dead`, `exited` | `die` (4034) | `Die`, `DeadReply` |

`job` is the request being admitted (the locals of `admit_req` and
`prefill_range`).  It stays set while a nested step runs, which tells a step
called from `run` from one called from `interleave_steps`.  `lanes[s]` holds the
request and a bound on its remaining rounds; `cache[s]` the prompt-end snapshot;
`rel[s]` the release stamp; `nextForced` the limiter.  `gone` are the requests
whose receiver is dropped: a client that disconnected (`Leave`) or a handler that
matched a stop string (`HitStopString`).  `finish[r]` is the Finish event the
handler got.  `lastForced` is a history variable; no guard reads it.

### The tensor-parallel server

Every table is indexed by the rank (`lanes[k][s]`, `cache[k][s]`, `rel[k][s]`):
nothing makes the copies equal but the protocol.  Rank 0 is the head.

| pc | Head (`run_tp_head`) | Mirror (`run_tp_mirror`) | Actions |
|---|---|---|---|
| `top` | head of the loop: drain, sweep, admit | step-go when live, else the next frame | `PlanFifo`, `PlanHold`, `PlanScoped`, `Shutdown`; `Recv`, `StreamClosed` |
| `go` | in `step_go` | (at `top`, live) | `Go` |
| `ship` | `tp_ship` of the Step | | `Ship` |
| `recv` | | a go announced events | `Recv` |
| `apply` | the events in turn | the same | `ApplyCancel`, `ApplyAdmit`, `ApplyDone` |
| `flag` | a chunk boundary: sends `HeadFlag` | waits for it | `HeadFlag`, `NodeFlag` |
| `seam`, `round` | `tp_round` | the same | `Seam`, `Round` |
| `stopped`, `dead`, `bailed`, `over` | `tp_fail`; killed; -; channel closed | error; killed; frame out of turn; session over | `DeviceFault`, `LinkFails`, `Crash` |

`ctl[n]` is the TCP stream to mirror `n`: ordered, nothing lost, unread frames
stay.  A meeting is one action of all ranks, enabled when all stand at one and
`Frame` - the point, the lockstep counter and the words hashed there - is the
same on all; when it is not, or a rank has stopped, `LinkFails`.  A round's
outcome is drawn once, at its meeting (the ranks run the same deterministic
kernels and the meeting compares their tokens).  A *scoped* plan (reservation on)
admits any queued request into any free lanes, or nobody, so every outcome of
`plan` is covered and clocks, which differ between boxes, play no part.
`Unapplied` are the admits of the head's current step that it has not applied:
`tp_fail` does not see them, and `SenderDropped` is their handlers noticing that
the head let go of their channel.

### The prefix tiers

`cache[s]`, `toks[s]` and `lru` are what the host believes (tokens); `snap[s]`,
`rows[s]`, `ckpts[i].st` and `files[k]` are what the device and the disk hold,
each as the tokens it was computed from.  Every property is a relation between a
belief and a content.  `pc`: `idle`, then per prefill `capture` of the evicted
prompt (`CaptureNothing`, `Capture`), `restore` (`RestoreNothing`,
`RestoreUnreadable`, `RestoreFails`, `Restore`), `resume` (`ResumeSnapshot`,
`ResumeCheckpoint`, `ResumeFresh`), `chunks` (`Chunk`, `ChunkFails`, `Cancel`)
and `Snapshot`.  `Writer` is the disk thread behind its queue `jobs`; `Restart` is a new process over the old files.  `SpillTp` keeps the
host's side only, once per rank, and adds the agreement.

### The exchange

`ring[k, p]` are the slots at rank `k` that rank `p` writes, as words; a frame
is there when its last word is not zero (`Come`, `Post`, `Take`).  Rank 0 runs the
exchange with every node in two legs (`hub_all`).  `Expires` and `GiveUp` are the
deadline and the abort word; `Reject` is `hub_fail` on words that differ; `FanOut`
the abort passed on by the proxy thread; `Skip` a rank that passes by a point.

### The line log, speculation, the streamed reply

`LogQ`: a line is (thread, number); the two halves of a send (`TrySend`,
`CountSent`) and of a write (`Emit`, `CountWritten`) are separate steps.
`SpecLanes`: a lane's draft head goes on from a *row* of taps; `mtp` is the row
the lane believes in, `fresh` the row that holds its last token's tap, `hole`
whether the head's cache skipped a position.  A step is a dispatch (`serial`,
`shared`, `refresh`) followed by its rounds.  `ChatStream`: a text is a sequence
of symbols, a marker two of them, and a token's text any piece; `said[i]` is what
symbol `i` was sent as, `Json` what the other mode returns for the whole text.  A
request keeps three conditions apart, as the code does: `thinks` is
`stream_starts_in_reasoning` (the prompt's tail, or hy_v3's low or high effort), which
the stream and `split_think_in` go by; `opened` is the tail alone and `unclosed` the
option `--unclosed-think`, which the JSON goes by when no close tag came
(`UnclosedThink`).

### Abstractions

* A prompt is a conversation and a length; `ContinuedBy` is the code's prefix
  test on those.  `PrefixTiers` uses real token sequences, one row per token.
* A round of `Exl3Serve` steps any non-empty set of the running lanes, and a step
  is any number of rounds: round robin, fcfs, packed pairs, shared plain steps
  and speculative rounds without their arithmetic.
* Time is an integer clock; `Slack` bounds the ticks that pass while nothing is
  awaited.  Ticks up to an awaited deadline are free.
* `Enqueue` does not look at `dead`: the handler's check precedes the send by any
  amount of time.
* In `PrefixTiers` no chunk is ragged (folding is `ChunkGrid`'s), a hit is always
  worth its restore (the cost model turns hits into misses), a device error
  behind a restore is sticky.
* `SpecLanes`: whether a cost crosses the margin is any value.  Ages are ranks
  among the busy lanes.  `HubLockstep`: the frames of pre-verify, identity and
  allocation points differ from `go` in their words only.
* `TpServe`: how many chunk boundaries a prefill has is `Boundaries` for a whole prompt
  and `Resumed` behind a reused prefix, whatever its length; every rank has the same
  number, since the grid is a function of what they agree on.
* `ChatStream`: which markup parses as a call is "a closed block that holds a
  letter"; prose after a call is left out of both modes.

## 3. Runs

All but `spec` run without TLC's deadlock check: a server whose clients are all
done, or that exited, a prompt that is cut, a reply that is finished, really
stop.  Every property has a mutant of the code that breaks it in its run, and
between them the runs fire every action.

| Run | Instance | Shows |
|---|---|---|
| `fifo` | 4 requests (a turn, its next turn, two others), 2 lanes, reservation off; 2 device faults, nested steps, a refusal, two clients that may leave, a stop string, exit on a sticky error | `SlotOwnership`; `ImplementsService` |
| `reserve` | the same requests, R=3, P=2, S=2; one client may leave, one fault; fair scheduler and clock | `NoMissedWakeup`, `EachRequestOnce`, `QueuedKeepSnapshots`, `ReservationHonoured`, `ForcedSpacing`, `Served` |
| `tp` | head and mirror, 3 requests, 2 lanes, reservation off and on; a chunk boundary in every prefill, fresh or resumed; one client may leave, one failure anywhere; fair ranks | `Lockstep`, `SameTables`, `AdmitFindsLane`, `ImplementsService`, `Answered`, `StopsTogether` |
| `spill_tp` | 3 ranks, 3 snapshots of two sizes, a store for three units, 3 admissions, one failing call of four kinds, deletes late | `RanksAgree`, `DiskNeverFailsTheRound`, `NoOrphans`, `AllGetThrough` |
| `hub` | 3 ranks, points of two kinds and frame sizes, 4 ring slots, one fault of four kinds | `NoClobber`, `ImplementsMeeting`, `NobodyParks` |
| `prefix_alone` | two turns of a conversation and a branch of it, 2 slots; either 2 checkpoint buffers with each tail mode, or a disk for 3 or 6 rows; one fault or crash | `SnapshotExact`, `CheckpointRows`, `ResumeExact`, `StoreMatchesPolicy` |
| `grid` | every prompt to 15 tokens, every resume point, widths 2 to 5, all modes | `ChunksFit`, `BoundariesKept`, `RaggedOnlyIfForced`, `ResumedGridIsFresh` |
| `spec` | 2 lanes, fcfs, depth 2, short windows | `HeadReady`, `ConfirmedOff`, `FrontExists`, `EveryLaneServed`, `OffComesBack` |
| `log_lines` | 2 threads, 3 lines each, a channel of 2, a reader that stalls | `EachLineOnce`, `FlushLoss`, `NobodyHeld`, `DropsReported` |
| `chat` | every reply to 7 symbols, cut anywhere, 13 kinds of request: prompt open (either `--unclosed-think`), closed, or closed beside hy_v3's effort; tools or not; five stop strings | `ModesAgree`, `NothingLost` |
| `prefix_both`, `log_flush` | small instances | two disagreements (section 6) |

**Why the bounds are enough.**  Two lanes make every choice of lane a choice and
four requests let a stranger queue ahead of a turn while both lanes are held; all
four roles of the rules occur (holder, next turn, stranger, forced).  R, P and S
are small, and each of them is the earliest deadline in some state.  `MaxChunks = 2`
gives a boundary before and after a nested step, `MaxFaults = 2` lets a failure
hit the recovery from a failure.  In `tp` a reply of three rounds outlives its
first step and can be cancelled in it; the mirrors do not talk to each other, so
a second mirror only repeats the first (a third rank matters where it can be
between the two legs of an exchange, and `hub` and `spill_tp` have it).  In `hub`
three points make a slot come round again with frames of both sizes.  In
`prefix_alone` the long prompt has two checkpoints and a tail, the pool two
buffers, so eviction, freeze and reuse occur; `MaxPending = 4` lets one write and
any deletes be queued, which is enough for a write, a read and a delete of one
key to race.  Fifteen tokens hold three chunks of the widest width and a tail, so
the lead and the tail merge meet.  Seven symbols hold a closed think block with
text on both sides, or a call with a letter and text behind it, and every cut of
them; markers are two symbols, so each has a proper prefix that all share.

Some properties are those of a design decision that the code records and a change
could undo: one scoped admit per step (4804), cancels before admits (the wire
format's comment has them the other way round), no rank-local release on a failed
send (3602), the head's word at a chunk boundary (1954), four ring slots (two
would violate `NoClobber` once a deadline has expired).

## 4. Fairness

* `Exl3Serve`: the scheduler as a whole, and the clock.  It is a dedicated OS
  thread that blocks only in `blocking_recv` (when it has nothing to do) and
  sleeps 20 ms at a time in the bounded wait.  No client is assumed to do
  anything.  `Served` says nothing of a process that exited; its clients see a
  closed connection.
* `TpServe`: the head, each mirror, the meetings (a rank at one polls until the
  others arrive), `LinkFails` (the lockstep timeout, the hub's deadline and a
  closed TCP stream end every wait for a rank that stopped) and `SenderDropped`
  (a handler's task runs).  `Answered` excludes a killed head.
* `SpillTp`: the ranks, the agreement and `OutOfStep` together; the writer
  threads need not run.
* `HubLockstep`: a rank that is up goes on inside a point and notices an expired
  wait.  Nobody need come to the next point, recover, or hear of an abort.
* `SpecLanes`: the scheduler steps while a lane is busy.
* `LogQ`: threads and the writer run on.  A thread need not flush, the reader need
  neither stall nor resume.  `Emit` and `ReportDrops` are strongly fair: a reader
  that stalls and resumes for ever disables them again and again, and a blocked
  `write` is taken up whenever it reads.
* `PrefixTiers`, `ChunkGrid`, `ChatStream` check safety only.

## 5. Proofs

Each for every value of the constants that its module's assumptions allow.  Every
safety property of a passing run is the conclusion of a theorem; what is left to
TLC alone is liveness.  Recursive functions over lists (`Lists`, the sums of sizes, the
stepwise choices of a plan, what a stream says) are reasoned about by a least
counterexample, so no lemma needs an induction principle that takes an operator.

**The single box** (any set of requests and lanes, any reply lengths, any R, P, S).

* `IInv` (`Exl3ServeProofs`) = `TypeOK` and two shape facts: `LaneShape` (a
  running lane holds a request with a positive count) and `JobShape` (which
  fields of `job` are set at which `pc`).  From it `TypeCorrect`.  `SlotsOwned`
  proves `SlotOwnership` inductive on top of it: nested steps need to know where a
  job can be, and the picks that the slot was free when chosen.
* `FatalStops`: a fatal error confines `pc` to where no round can run.
  `ForcedApart`: an armed limiter is at least `Swap` after the last forced take.
* `ReservationKept` adds `AdmissionInv`: the lanes a plan allowed, the kind it
  decided and the request's age are still what they were when the pick is made,
  because nothing but the clock and the clients moves in between.
* `QueuedKeep` adds `StrangerInv`: a request admitted by any rule but "own" was
  chosen while *no* queued request had its snapshot in a free lane, and the queue
  cannot grow between the plan and the prefill.
* `WakesInTime` (`NoMissedWakeup`).  `SleepInv`: while the thread sleeps, its plan is
  the one of an earlier instant and `until` the earliest of that plan's deadlines.
  Lemma `WaitLasts` is the reason for the deadlines: a plan that admits nobody admits
  nobody at any later instant before the earliest of them, because every rule that
  reads the clock has its own.
* `RequestsOnce`: `OnceInv` = `EachRequestOnce` and "nobody is
  answered before he asked".  Most steps only let requests go; lemma `Dropping`
  says what such a step must show: whoever is dropped has his answer or left.
* `ServiceImplemented`: a step of a handler or client is
  a Submit, a Leave or a stutter; any step of the scheduler is a Serve, because of
  the few things it does to a request (`Handled`) and because the map from running
  requests to slots is an injection (`LanesEnough`).  `EndInv`: only a fatal
  error leads to the end.

**The chunk grid**, for prompts, widths and strides of any size.  The grids are
sets, so a merge or a fold removes one boundary; lemma `DropFits` carries the row
cap through all of them.  `GridInv` = types, `PlanOK` (what `prefill_range` may
ask for), the properties, and `Scanned`: what the loop left behind it stays
settled, which is why one pass is enough.  All properties of the run are proved.

**The tensor-parallel server**, for any number of mirrors, lanes and requests, and a
failure anywhere.

* `IInv` (`TpServeProofs`) = `ClientTypes`, `LinkTypes` and `RankInv`, whose heart is
  `Sync`.  Equal tables are not inductive by themselves: between two meetings the head
  is ahead by what it shipped, and once it has stopped a mirror lives on frames nobody
  follows up.  A rank's *view* is its tables, the events it has still to apply and its
  place; `Leads(v, frames, w)` says that a rank at v which reads these frames arrives
  at w.  `Sync`: each mirror, fed with its stream, arrives at the head's view, or,
  its stream empty, is ahead of the head by steps that need no frame; under a head
  that stopped it arrives at some view.  Each local step takes
  one frame or none off the front of that path, and a step of the head adds one to its
  end.  At a meeting the streams are empty and the views equal, which gives
  `LockstepHolds` and `SameTablesHold`.
* `AdmitFindsLaneHolds` rests on `Planned`: the events left to apply fit the head's
  table in their order, cancels free lanes before admits take them, and nested steps
  only free lanes.  `Sync` carries it to the mirrors.
* `ServiceImplemented` adds `HeadInv`, about the head alone.  `Apart`: a request is in
  one place, once - the queue, an admit not yet applied, the prefill, a lane.  `Owed`:
  what the head holds is not answered yet, and what was handed over and is held no
  more was answered or its client left.  `CancelsOk`: until a cancel is applied its
  lane is free or still belongs to a client that left, and no prefill runs.  `Handles`
  says what any step of the head does to the requests it holds; each action is shown to
  be such a step, and such a step to be a Serve of `LaneService`.  `OneLaneEach` maps
  the running requests one to one into the lanes.  TLC checked `HeadInv` on the `tp`
  instance before it was proved.

**The lockstep exchange**, for three or more ranks, frames of any size and any number
of faults; the ring has more than two slots (`HubAssumption`; the code's has four).  `HubInv`
numbers the frames of each link: what has been sent and what has been read differ by at
most three places in the course of an exchange, and a slot holds a frame between these
two or nothing.  `NoClobberHolds`: a frame lands in an empty slot, also after the head
gave up exchanges that its nodes complete later.  `MeetingImplemented`: leaving an
exchange is the abstract meeting, everything else stutters or fails, whatever the
faults.

**The spill agreement**, for any number of ranks, files and faults.  `SameInv`:
while no copy off a device has failed, all policies are equal (`OnePolicy`), and a
rank's place is a function of the policy and the admission up to how far it has
got (`Captures`, `Passed`, `Restores`, `Sits`); so ranks that meet ask the same
question and the shared verdict leaves them with one policy again.
`NoFileLeftBehind`: a file belongs to a key that its rank's policy names, that waits
to be deleted, that is bigger than the store, or that the capture under way brought
(`TidyInv`); at a seam no capture is under way.

**The prefix tiers**, for any prompts, slots, tiers, budgets, failures and restarts.

* `TypesHold`: types, and `Deep`: no checkpoint is deeper than the prefix its slot
  keeps, and a prefill that takes checkpoints keeps that prefix up to where it is.
* `StoreMatchesPolicyHolds`: the queue of the writer makes policy and disk differ at
  any instant, so the invariant (`Agrees`) is about what will be: of the jobs queued
  for a key the last one decides, and that one agrees with the policy.
* `SnapshotExactHolds`, `CheckpointRowsHolds`, `ResumeExactHolds`: rows, snapshots,
  checkpoints, queued writes and files hold what their tokens say; what a prefill found
  to resume at is what its slot holds of the prompt.  They have two hypotheses.
  `OneTier`: not both checkpoints and a disk - with both, `ResumeExact` is false, and
  `prefix_both` shows it.  `NoTwin`: with a disk, no prompt is another one less its last
  token, since `Policy::lookup` would return it whole (section 6) and a prefill that
  starts behind its end is not modelled.  The instances of `prefix_alone` satisfy both.

**The line log**, for any number of threads and any capacity.  `LogInv` = types
and `Accounting` (QUEUED is off by exactly the sends between `try_send` and
`fetch_add`), which bounds what a flush leaves (`FlushLossBounded`); `OnceInv` over
the `Trail` (stdout, the line in hand, the channel) gives `EachLineOnce`.

**Speculation**, for any number of lanes, any depth, both lane orders.  `HeadInv`
(`HeadOK` per lane and `StepOK` for the step under way) gives `HeadReady`;
`ConfirmInv` (a confirm that was asked for has its control forced) gives
`ConfirmedOff`; `CreditInv` and the existence of an oldest lane (`Oldest`) give
`FrontExists`.  TLC runs fcfs only.

**The streamed reply**, for texts of any length, cut into tokens anywhere, and any
stop string.  Both theorems turn on what has *begun* and is not complete (`Begun`): a
token is judged from a cursor on, which is right only if no marker that matters has
begun before it.

* `BufferedIsInvariant`: types, and the buffer is the text before its first stop string.
* `NothingLostIsInvariant` (`Flow`), whatever the model writes, tags out of place
  included: nothing behind the cursor (`Emitted`) is still held but think tags and
  white space behind a close tag (`Skipped`), and nothing ahead of it was sent, so a
  cursor that never goes back is all it takes (`InOrder`).  `Quiet` is what keeps it
  from going back: in the content that was sent no tag has begun, so a tag that a later
  token completes lies behind the cursor.  Hypothesis `~TwoTags`, as in the run: section 6
  says what a token with two think tags does.
* `ModesAgreeIsInvariant` needs to know as *what* each symbol was sent.  `Ordinary` is a
  property of finished texts and not of their beginnings, so the invariant `Modes` is
  stated of `Usual` texts, those that may still become ordinary: such a stream is in one
  of three modes (`Mute`: no think block; `Reasons`: in the block; `Answering`: behind
  it), each with the one stretch of reasoning and the one of content that were sent
  (`Told`).  A stop string may cut the buffer at any later token, so `HeldStop` says what
  has begun of it among what was sent: nothing, but where a tag or the start of the
  content follows - the stop strings that `Overlaps`, and the property, leave out.
  `Ended` gives the shape of a finished reply; lemmas `SaysIs`, `TrimPart` and
  `BoundaryUsual` bring both sides to the same part of the buffer.  Where the modes
  name an unclosed block apart (`NamedApart`, section 6), the theorem says that the JSON's
  content is the stream's reasoning and content in one (`PartsJoin`), and that the calls
  are the same.  No hypothesis on the constants but `ChatStreamAssumption`.

Only model-checked: liveness (`Served`, `Answered`, `StopsTogether`, `AllGetThrough`,
`NobodyParks`, `NobodyHeld`, `DropsReported`, `EveryLaneServed`, `OffComesBack`), which is
out of the prover's reach.

## 6. Where the code and its documents disagree

With a run:

* `prefix_both` - with checkpoints and the disk tier on, a restore overwrites a
  slot's rows without telling the checkpoint store; a later prompt may resume at a
  checkpoint whose rows are another prompt's.
* `log_flush` - a flush that did not time out may leave the flushing thread's own
  line unwritten, because the count is taken after the send; the comment promises
  "every queued line has been WRITTEN".  `FlushLoss` bounds the loss.

Read in the code, without a run of their own:

* A stop-string end reaches the scheduler as a closed channel and is released as a
  cancel (exl3_serve.rs:2413-2419), so it reserves nothing; opts_table.rs:968 and
  the comment at 4313 list it among the normal finishes.
* With reservations on, the bounded wait (3993) can be entered with an empty queue
  and `scheduler_busy` still 1; docs/OPERATIONS.md:90-91 defines 0 as idle-waiting
  and alerts on busy with a high age.
* Under tensor parallelism a Cancel (4931, 5038) does not restamp the lane, so the
  earlier finish's reservation lives on for the cancelled request's snapshot;
  lane_reserve.rs:114 says cancels never reserve.  On a single box the early
  returns of `admit_req` leave the earlier stamp in force too.
* A capture that fails on one rank returns before `spill_agree` (4138-4142): the
  others meet it at another point and the round fails on all, where the comments
  at 4111 and 4121 promise a lost snapshot.  `RanksAgree` therefore excludes it and
  `AllGetThrough` shows that nobody hangs.  A SpillFlag carries no identity of the
  operation it is about.
* The hold-off after a re-arm is only `probe_warmup` (16) rounds when the probe fails
  (mtp_reprobe.rs:284-289), not the `min_rounds` its comments give (142-144, 245-250).
* `Policy::lookup` accepts a stored prompt one token longer than the rows it can
  use (`n == prompt.len()`); the instances exclude such prompts.
* Files of an earlier boot, or of another model, stay readable after a write that
  failed; a snapshot bigger than the whole store leaves a file that no entry names;
  kv_spill.rs:65 gives the directory as `/tmp/gb10_kv_spill_<port>`, the code (77)
  and the option's help as `/tmp/gb10_kv_spill`;
  under tensor parallelism a full store is never emptied by the capture gate;
  `put_sync` races an earlier queued Delete of its own key; with two ranks the
  allocation of checkpoint buffers is not agreed.
* `tp_fail` says it fails every pending request and does not reach the admits of
  the step it stops in, whose handlers answer by themselves; tp_serve.rs:96
  describes a step as Admits then Cancels while the head ships Cancels first (with
  the comment's order `ImplementsService` fails); the help of `--lane-reserve` says
  the policy is inactive under tensor parallelism.
* Speculation: with two busy lanes on the serial arm and an even control period
  one lane may never get a cadence control of its own; a confirm's sample may be
  old when shared steps intervene.
* The streamed reply.  A token that closes a think block and opens another
  (`TwoTags = TRUE`; no served tokenizer has one) makes the close branch (1633-1651)
  send the open tag as content and the next piece send the text again as
  reasoning.  Where `Ordinary` is false the modes differ: a `<think>` after text or a
  stray `</think>` in content mode, second think blocks, a close tag inside a call
  in a model-opened block (half of the call is sent as reasoning, and the call as
  well, against the comment at 1655-1669).  Prose after a parsed call is in the
  JSON only (a test pins it); several stop strings may cut the two modes apart.
  The comment at server.rs:1617-1631 says that the reply differs from the
  non-streaming one for a stop string that overlaps a tag "and only for such a one".
  Two more cases differ, which `ModesAgree` leaves out (`StopInBlanks`,
  `BlockSwallowed`).  A stop string that begins in the white space behind the close tag
  is not held back there, since the region starts behind the white space (1640-1645):
  of `</think> aa` in the pieces `</think> a` and `a`, with the stop string ` aa`, the
  first `a` is streamed.  And a reply whose last token opens and closes its think block
  with a complete call behind it takes the branch of the open tag only (1696-1702); the
  end of the stream finds the call and holds the tail back, so the reasoning is in the
  JSON alone.  That takes ten symbols, more than the run has.
* A reply without a close tag may be reasoning in the stream and content in the JSON.
  The stream goes by `stream_starts_in_reasoning` (875-878), the JSON by the prompt's
  tail, "never the effort arm" (2394-2401), and by `--unclosed-think`.  So with hy_v3,
  effort low or high and a prompt that ends in a closed block, the answer is streamed
  as `reasoning_content` and returned as `content`, though the comment at 2394-2399
  says of such an answer that "it is content"; with `--unclosed-think content` it
  is the option's documented effect.  `ModesAgree` states the two cases as they are:
  the same text under the other name, and the same calls.

## 7. Not modelled

* **Numerics**: `gpu.rs`, `exl3_forward*`, `naive/`, `dflash2/`, `dspark/`, `dsv4_*`,
  `kernels/`, quantisation and vision, and the programs that test them.  They are
  most of the repository's lines, and what is correct about them is arithmetic on
  tensors: there is no control flow a model checker would explore.  For this reason
  the share of the source the models stand for is small, however much of the
  serving core they cover.
* **Scheduler**: image requests and `--prefix-cache off` (they skip snapshots or
  change the key), the waiting-request limit, gauges, the plan of `lane_pack.rs` (a
  packed pair is two rounds), DFlash2 rounds, the sentinel row of `--a-ctrl=old`.
* **Tensor parallelism**: `Df2Draft`, `pre_verify`, image payloads, the boot
  messages; the all-reduce rings and the pairwise exchange of two ranks (epoch rings
  written by kernels need a memory model of the device); a torn frame on the abort
  path; a deadline of 0, which at boot would park on a hung rank.  A rank may adopt
  an operation while the head fails in the second leg: `HubLockstep` has it,
  `TpServe`'s atomic meeting does not.
* **`batch.rs`**, the scheduler of the other weight formats: the same duties without
  reservation, disk or checkpoints.
* **Log**: relaxed memory of its counters, direct prints, a writer that is gone.
* **Handlers**: the Completions and Responses streams, tool argument repair, the
  scrubber, telemetry, options, bring-up.  Parsers are pure functions with large
  test tables of their own.

## 8. Plan

Left, in order: `lane_pack.rs`'s plan as a function against a reference; the loop
detector; `batch.rs`'s tensor-parallel loops against `LaneService`; the Responses
stream; the DFlash2 draft ring.
