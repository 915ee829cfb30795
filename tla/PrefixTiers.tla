---------------------------- MODULE PrefixTiers ----------------------------
(***************************************************************************)
(* What a single-box server keeps of a prompt it has prefilled, and how    *)
(* the next prompt in the slot resumes from it (prefill_cached and         *)
(* prefill_range, src/src/exl3_serve.rs): the prompt-end snapshot of the   *)
(* slot, the intermediate checkpoints of all slots in one pool (CkptStore, *)
(* src/src/exl3_forward/wp16.rs), and the snapshots of evicted prompts on  *)
(* disk behind a writer thread (src/src/kv_spill.rs).                      *)
(*                                                                         *)
(* The host knows a snapshot by its tokens, the device by what it computed *)
(* them from: row i of a slot holds the tokens it was computed under, the  *)
(* recurrent state the tokens it has seen.  They must never disagree.      *)
(***************************************************************************)
EXTENDS ChunkRules, Lists

CONSTANTS
    Slots, NoSlot,  \* batch slots, and none of them
    Prompts,        \* token sequences
    MaxLen,         \* rows of a slot (--max-seq-len): no prompt is longer
    Boundary,       \* [Prompts -> message boundary of the prompt, ckpt_at]
    C,              \* --prefill-chunk
    Tiers,          \* possible configurations: [ckpt, spill, tail], see TierAssumption
    MaxPending,     \* bytes the writer's queue may hold
    MaxFaults       \* bound: failing device calls, allocations and writes, crashes

\* A configuration: checkpoint buffers (0 = off), disk cap in rows (0 = off), tail mode.
ASSUME TierAssumption ==
    /\ NoSlot \notin Slots
    /\ MaxLen \in Nat
    /\ \A p \in Prompts : p \in Seq(Nat \ {0}) /\ Len(p) > 1 /\ Len(p) <= MaxLen
    /\ Boundary \in [Prompts -> Nat]
    /\ C \in Nat \ {0}
    /\ Tiers \subseteq [ckpt : Nat, spill : Nat, tail : 0..2]
    /\ MaxPending \in Nat /\ MaxFaults \in Nat

VARIABLES
    tier,           \* the configuration; fixed
    cache,          \* per slot: the tokens of its prompt-end snapshot, None without one
    snap,           \* per slot: what the snapshot's recurrent state has seen
    rows,           \* per slot: what the KV rows were computed from
    live,           \* what the live recurrent state of the slot in prefill has seen
    toks,           \* per slot: the prefix its checkpoints describe
    ckpts,          \* the live checkpoints, least recently used first
    pool,           \* checkpoint buffers: allocated, free, and whether an allocation failed
    lru,            \* the disk policy: keys, least recently put first
    jobs,           \* the writer thread's queue
    files,          \* the files: key -> content
    lost,           \* history: keys whose last write failed
    leftover,       \* history: files of an earlier process
    pc, job, faults

deviceVars == <<cache, snap, rows, live>>
ckptVars == <<toks, ckpts, pool>>
spillVars == <<lru, jobs, files, lost, leftover>>
vars == <<tier, deviceVars, ckptVars, spillVars, pc, job, faults>>

None == <<>>
Junk == <<0>>
Prefix(t, n) == SubSeq(t, 1, n)
NoJob == [slot |-> NoSlot, prompt |-> None, pos |-> 0, grid |-> {},
          tracked |-> FALSE, tail |-> NoTail]

\* Rows 1..Len(t) hold what a prefill of t computes.
RowsOf(content, t) == \A i \in 1..Len(t) : content[i] = Prefix(t, i)

End == Len(job.prompt) - 1
Fault == faults < MaxFaults /\ faults' = faults + 1
\* The live state is not resumed from as it is.
Idle == pc' = "idle" /\ job' = NoJob /\ live' = Junk

\* Mutant: the length of the snapshot is compared, its tokens are not.
ExtendsLonger(t, p) == t # None /\ Len(t) <= Len(p) - 1
\* The snapshot of tokens t resumes prompt p.
Extends(t, p) == t # None /\ Len(t) <= Len(p) - 1 /\ IsPrefix(t, p)

-----------------------------------------------------------------------------
(* A request is given a slot; the decode of the one before wrote beyond its prompt *)

Pick(s, p) ==
    /\ pc = "idle"
    /\ job' = [NoJob EXCEPT !.slot = s, !.prompt = p]
    /\ pc' = "capture"
    /\ UNCHANGED <<tier, deviceVars, ckptVars, spillVars, faults>>

-----------------------------------------------------------------------------
(* spill_capture_slot: the evicted prompt's snapshot goes to the disk tier *)

Bytes(key) == Len(key)
Total(keys) ==
    LET sum[n \in 0..Len(keys)] == IF n = 0 THEN 0 ELSE sum[n - 1] + Bytes(keys[n])
    IN  sum[Len(keys)]
Pending == Total([i \in DOMAIN jobs |-> IF jobs[i].type = "write" THEN jobs[i].key ELSE None])

WriteJob(key, content) == [type |-> "write", key |-> key, content |-> content]
DeleteJob(key) == [type |-> "delete", key |-> key, content |-> None]

\* Policy::put: how many of the least recently put keys go for the new one to fit.
Shifted(key) ==
    LET rest == Without(lru, key)
        Fits(n) == Total(SubSeq(rest, n + 1, Len(rest))) + Bytes(key) <= tier.spill
    IN  CHOOSE n \in 0..Len(rest) : Fits(n) /\ \A m \in 0..(n - 1) : ~Fits(m)

\* Mutant: the keys shifted out keep their files.
PutLeaky(key, content) ==
    /\ jobs' = Append(jobs, WriteJob(key, content))
    /\ lru' = IF Bytes(key) > tier.spill THEN lru
              ELSE LET rest == Without(lru, key)
                   IN  Append(SubSeq(rest, Shifted(key) + 1, Len(rest)), key)
\* Policy::put and Store::put_prebuilt.  A snapshot above the whole cap is written and
\* not entered.
Put(key, content) ==
    LET rest == Without(lru, key)
        n == Shifted(key)
    IN  IF Bytes(key) > tier.spill
        THEN jobs' = Append(jobs, WriteJob(key, content)) /\ UNCHANGED lru
        ELSE /\ lru' = Append(SubSeq(rest, n + 1, Len(rest)), key)
             /\ jobs' = Append(jobs, WriteJob(key, content))
                        \o [i \in 1..n |-> DeleteJob(rest[i])]

Evicts == tier.spill > 0 /\ cache[job.slot] # None /\ ~Extends(cache[job.slot], job.prompt)

\* Nothing to capture, the queue is over its budget, or the capture fails: no snapshot
\* reaches the disk, and the prefill goes on.
CaptureNothing ==
    /\ pc = "capture"
    /\ \/ ~Evicts /\ UNCHANGED faults
       \/ Pending + Bytes(cache[job.slot]) > MaxPending /\ UNCHANGED faults
       \/ Evicts /\ Fault
    /\ pc' = "restore"
    /\ UNCHANGED <<tier, deviceVars, ckptVars, spillVars, job>>

Capture ==
    LET key == cache[job.slot]
        content == [rows |-> [i \in 1..Len(key) |-> rows[job.slot][i]], st |-> snap[job.slot]]
    IN  /\ pc = "capture"
        /\ Evicts /\ Pending + Bytes(key) <= MaxPending
        /\ Put(key, content)
        /\ lost' = lost \ {key}
        /\ pc' = "restore"
        /\ UNCHANGED <<tier, deviceVars, ckptVars, files, leftover, job, faults>>

-----------------------------------------------------------------------------
(* spill_restore_slot *)

\* The most recently put key that the whole prompt starts with (the cost model, which
\* only turns hits into misses, is left out).
IsHit(i) == i \in DOMAIN lru /\ IsPrefix(lru[i], job.prompt)
                /\ \A j \in DOMAIN lru : j > i => ~IsPrefix(lru[j], job.prompt)

OwnHit == Extends(cache[job.slot], job.prompt)
Drop(key) ==
    /\ lru' = Without(lru, key)
    /\ jobs' = Append(jobs, DeleteJob(key))

\* The slot resumes from its own snapshot, or the disk has nothing for it.
RestoreNothing ==
    /\ pc = "restore"
    /\ OwnHit \/ ~\E i \in DOMAIN lru : IsHit(i)
    /\ pc' = "resume"
    /\ job' = [job EXCEPT !.pos = IF OwnHit THEN Len(cache[job.slot]) ELSE 0]
    /\ UNCHANGED <<tier, deviceVars, ckptVars, spillVars, faults>>

\* The file is not there yet, or never was: the key is dropped.
RestoreUnreadable ==
    /\ pc = "restore" /\ ~OwnHit
    /\ \E i \in DOMAIN lru :
        /\ IsHit(i) /\ lru[i] \notin DOMAIN files
        /\ Drop(lru[i])
    /\ pc' = "resume"
    /\ UNCHANGED <<tier, deviceVars, ckptVars, files, lost, leftover, job, faults>>

\* No staging memory: the key stays, nothing was copied.
RestoreFails ==
    /\ pc = "restore" /\ ~OwnHit
    /\ \E i \in DOMAIN lru : IsHit(i) /\ lru[i] \in DOMAIN files
    /\ Fault
    /\ pc' = "resume"
    /\ UNCHANGED <<tier, deviceVars, ckptVars, spillVars, job>>

\* The file's rows go into the slot, its state into the slot's snapshot.
Restore ==
    /\ pc = "restore" /\ ~OwnHit
    /\ \E i \in DOMAIN lru :
        /\ IsHit(i) /\ lru[i] \in DOMAIN files
        /\ LET key == lru[i]
           IN  /\ rows' = [rows EXCEPT ![job.slot] =
                              [n \in 1..MaxLen |-> IF n <= Len(key) THEN files[key].rows[n] ELSE @[n]]]
               /\ snap' = [snap EXCEPT ![job.slot] = files[key].st]
               /\ job' = [job EXCEPT !.pos = Len(key)]
               /\ Drop(key)
    /\ pc' = "resume"
    /\ UNCHANGED <<tier, cache, live, ckptVars, files, lost, leftover, faults>>

-----------------------------------------------------------------------------
(* CkptStore *)

Of(s) == {i \in DOMAIN ckpts : ckpts[i].slot = s}
KeepTo(q) == Only(ckpts, {k \in ToSet(ckpts) : k.slot # job.slot \/ k.pos <= q})

\* Mutant: the checkpoints above the resume point stay.
BeginUndropped(q) ==
    /\ UNCHANGED <<ckpts, pool>>
    /\ toks' = [toks EXCEPT ![job.slot] = Prefix(@, IF q <= Len(@) THEN q ELSE 0)]
\* begin_aligned, and begin_unaligned when it cuts the prefix: the rows from q on are
\* about to be rewritten.
Begin(q) ==
    LET kept == KeepTo(IF q <= Len(toks[job.slot]) THEN q ELSE 0)
    IN  /\ ckpts' = kept
        /\ pool' = [pool EXCEPT !.free = @ + Len(ckpts) - Len(kept)]
        /\ toks' = [toks EXCEPT ![job.slot] = Prefix(@, IF q <= Len(@) THEN q ELSE 0)]

BeginUnaligned(q) ==
    /\ ckpts' = KeepTo(q)
    /\ pool' = [pool EXCEPT !.free = @ + Len(ckpts) - Len(KeepTo(q))]
    /\ toks' = [toks EXCEPT ![job.slot] = Prefix(@, IF q <= Len(@) THEN q ELSE Len(@))]

\* Mutant: the deepest checkpoint below the prompt's end, whatever its tokens.
DeepestAny(i) ==
    /\ i \in Of(job.slot) /\ ckpts[i].pos <= End
    /\ \A j \in Of(job.slot) : ckpts[j].pos <= End => ckpts[j].pos <= ckpts[i].pos
\* resume_point: the deepest checkpoint the prompt shares.
Shared(k) == k.pos <= End /\ IsPrefix(Prefix(toks[job.slot], k.pos), job.prompt)
Deepest(i) ==
    /\ i \in Of(job.slot) /\ Shared(ckpts[i])
    /\ \A j \in Of(job.slot) : Shared(ckpts[j]) => ckpts[j].pos <= ckpts[i].pos

\* acquire: a free buffer, a new one, or the least recently used checkpoint's; a failed
\* allocation freezes the cap.  The ways it can go: the checkpoints and the pool it leaves,
\* whether there is a buffer, whether the allocation failed.
Taken(p) == [kept |-> ckpts, pool |-> p, got |-> TRUE, failing |-> FALSE]
Evicted(p, failing) ==
    [kept |-> IF ckpts = <<>> THEN ckpts ELSE Tail(ckpts), pool |-> p,
     got |-> ckpts # <<>>, failing |-> failing]
Buffers ==
    IF pool.free > 0 THEN {Taken([pool EXCEPT !.free = @ - 1])}
    ELSE IF pool.alloc < tier.ckpt /\ ~pool.failed
    THEN {Taken([pool EXCEPT !.alloc = @ + 1]), Evicted([pool EXCEPT !.failed = TRUE], TRUE)}
    ELSE {Evicted(pool, FALSE)}

\* insert: the newest; it replaces one already at its place.
Inserted(kept, k) ==
    Append(Only(kept, {x \in ToSet(kept) : x.slot # k.slot \/ x.pos # k.pos}), k)

-----------------------------------------------------------------------------
(* prefill_cached: from where the prompt resumes *)

TailOn == tier.ckpt > 0 /\ tier.tail # 0

\* The grid of the run from `from` (no chunk is ragged at this scale: see ChunkGrid).
StartRun(from, tracked) ==
    LET realign == TailOn /\ tracked
        tail == IF realign THEN TailPoint(Boundary[job.prompt], from, End, C, tier.tail) ELSE NoTail
    IN  /\ job' = [job EXCEPT !.pos = from, !.tracked = tracked, !.tail = tail,
                     !.grid = StartGrid([from |-> from, n |-> End, c |-> C, realign |-> realign,
                                         tail |-> tail, cap |-> PscRows(C, FALSE, tier.tail)])]
        /\ cache' = [cache EXCEPT ![job.slot] = None]
        /\ pc' = "chunks"

\* prefix_ok: the checkpoints describe exactly the resumed rows.
PrefixOk(q) == Len(toks[job.slot]) >= q /\ Prefix(toks[job.slot], q) = Prefix(job.prompt, q)

ResumeSnapshot ==
    /\ pc = "resume" /\ job.pos > 0
    /\ live' = snap[job.slot]
    /\ IF tier.ckpt = 0 THEN UNCHANGED ckptVars /\ StartRun(job.pos, FALSE)
       ELSE IF TailOn /\ PrefixOk(job.pos) THEN Begin(job.pos) /\ StartRun(job.pos, TRUE)
       ELSE BeginUnaligned(job.pos) /\ StartRun(job.pos, FALSE)
    /\ UNCHANGED <<tier, snap, rows, spillVars, faults>>

\* The checkpoint is now the most recently used one.
ResumeCheckpoint ==
    /\ pc = "resume" /\ job.pos = 0
    /\ \E i \in DOMAIN ckpts :
        /\ Deepest(i)
        /\ LET k == ckpts[i]
               kept == KeepTo(k.pos)
           IN  /\ live' = k.st
               /\ toks' = [toks EXCEPT ![job.slot] = Prefix(@, k.pos)]
               /\ ckpts' = Append(Without(kept, k), k)
               /\ pool' = [pool EXCEPT !.free = @ + Len(ckpts) - Len(kept)]
               /\ StartRun(k.pos, TRUE)
    /\ UNCHANGED <<tier, snap, rows, spillVars, faults>>

ResumeFresh ==
    /\ pc = "resume" /\ job.pos = 0
    /\ ~\E i \in DOMAIN ckpts : Deepest(i)
    /\ live' = None
    /\ IF tier.ckpt = 0 THEN UNCHANGED ckptVars ELSE Begin(0)
    /\ StartRun(0, tier.ckpt > 0)
    /\ UNCHANGED <<tier, snap, rows, spillVars, faults>>

-----------------------------------------------------------------------------
(* prefill_range: chunk by chunk *)

\* The next chunk end.
ChunkEnd(e) == e \in job.grid /\ e > job.pos /\ \A x \in job.grid : x > job.pos => e <= x

\* What a sweep over (pos, e] computes from the state and the rows it finds.
Sound == live = Prefix(job.prompt, job.pos) /\ RowsOf(rows[job.slot], Prefix(job.prompt, job.pos))
Swept(e) == [i \in 1..MaxLen |->
                IF i <= job.pos \/ i > e THEN rows[job.slot][i]
                ELSE IF Sound THEN Prefix(job.prompt, i) ELSE Junk]

Due(e) == job.tracked /\ (Wp16Due(e, End, C) \/ e = job.tail)

Chunk ==
    /\ pc = "chunks"
    /\ \E e \in job.grid :
        /\ ChunkEnd(e)
        /\ rows' = [rows EXCEPT ![job.slot] = Swept(e)]
        /\ live' = IF Sound THEN Prefix(job.prompt, e) ELSE Junk
        /\ toks' = IF job.tracked
                   THEN [toks EXCEPT ![job.slot] = @ \o SubSeq(job.prompt, job.pos + 1, e)] ELSE toks
        /\ IF ~Due(e) THEN UNCHANGED <<ckpts, pool, faults>>
           ELSE \E b \in Buffers :
                LET now == Inserted(b.kept, [slot |-> job.slot, pos |-> e, st |-> live'])
                IN  /\ IF b.failing THEN Fault ELSE UNCHANGED faults
                    /\ ckpts' = IF b.got THEN now ELSE b.kept
                    /\ pool' = IF b.got THEN [b.pool EXCEPT !.free = @ + Len(b.kept) + 1 - Len(now)]
                               ELSE b.pool
        /\ job' = [job EXCEPT !.pos = e]
    /\ UNCHANGED <<tier, cache, snap, spillVars, pc>>

\* The client is gone at a boundary: no snapshot; the checkpoints taken so far stay.
Cancel ==
    /\ pc = "chunks" /\ job.pos \in job.grid \ {End}
    /\ Idle
    /\ UNCHANGED <<tier, cache, snap, rows, ckptVars, spillVars, faults>>

\* clear_slot, with the checkpoints `kept` of all slots and the pool `p` left before it.
ClearSlot(kept, p) ==
    LET left == Only(kept, {k \in ToSet(kept) : k.slot # job.slot})
    IN  /\ ckpts' = left
        /\ pool' = [p EXCEPT !.free = @ + Len(kept) - Len(left)]
        /\ toks' = [toks EXCEPT ![job.slot] = None]

\* A chunk fails half-way, or the copy of a checkpoint into its buffer: the slot's state
\* is unknown.
ChunkFails ==
    /\ pc = "chunks"
    /\ Fault
    /\ \E e \in job.grid :
        /\ ChunkEnd(e)
        /\ rows' = [rows EXCEPT ![job.slot] =
                       [i \in 1..MaxLen |-> IF i <= job.pos \/ i > e THEN @[i] ELSE Junk]]
        /\ \/ ClearSlot(ckpts, pool)
           \/ Due(e) /\ \E b \in Buffers :
                b.got /\ ~b.failing /\ ClearSlot(b.kept, [b.pool EXCEPT !.free = @ + 1])
    /\ Idle
    /\ UNCHANGED <<tier, cache, snap, spillVars>>

\* The prompt-end snapshot; then the lane decodes into the rows after it.
Snapshot ==
    /\ pc = "chunks" /\ \A e \in job.grid : e <= job.pos
    /\ snap' = [snap EXCEPT ![job.slot] = live]
    /\ cache' = [cache EXCEPT ![job.slot] = Prefix(job.prompt, End)]
    /\ rows' = [rows EXCEPT ![job.slot] = [i \in 1..MaxLen |-> IF i <= End THEN @[i] ELSE Junk]]
    /\ Idle
    /\ UNCHANGED <<tier, ckptVars, spillVars, faults>>

-----------------------------------------------------------------------------
(* The writer thread, and the process *)

Writer ==
    /\ jobs # <<>>
    /\ jobs' = Tail(jobs)
    /\ LET j == Head(jobs)
       IN  \/ /\ j.type = "write"
              /\ files' = [k \in DOMAIN files \cup {j.key} |-> IF k = j.key THEN j.content ELSE files[k]]
              /\ UNCHANGED <<lost, faults>>
           \/ /\ j.type = "write" /\ Fault
              /\ lost' = lost \cup {j.key}
              /\ UNCHANGED files
           \/ /\ j.type = "delete"
              /\ files' = [k \in DOMAIN files \ {j.key} |-> files[k]]
              /\ UNCHANGED <<lost, faults>>
    /\ UNCHANGED <<tier, deviceVars, ckptVars, lru, leftover, pc, job>>

\* The process ends and is started again: the files are all that is left.
Restart ==
    /\ Fault
    /\ cache' = [s \in Slots |-> None] /\ snap' = [s \in Slots |-> None]
    /\ rows' = [s \in Slots |-> [i \in 1..MaxLen |-> Junk]]
    /\ toks' = [s \in Slots |-> None] /\ ckpts' = <<>>
    /\ pool' = [alloc |-> 0, free |-> 0, failed |-> FALSE]
    /\ lru' = <<>> /\ jobs' = <<>> /\ lost' = {} /\ leftover' = DOMAIN files
    /\ Idle
    /\ UNCHANGED <<tier, files>>

-----------------------------------------------------------------------------

Init ==
    /\ tier \in Tiers
    /\ cache = [s \in Slots |-> None] /\ snap = [s \in Slots |-> None]
    /\ rows = [s \in Slots |-> [i \in 1..MaxLen |-> Junk]] /\ live = Junk
    /\ toks = [s \in Slots |-> None] /\ ckpts = <<>>
    /\ pool = [alloc |-> 0, free |-> 0, failed |-> FALSE]
    /\ lru = <<>> /\ jobs = <<>> /\ files = [k \in {} |-> None] /\ lost = {} /\ leftover = {}
    /\ pc = "idle" /\ job = NoJob /\ faults = 0

Spill == CaptureNothing \/ Capture \/ RestoreNothing \/ RestoreUnreadable \/ RestoreFails \/ Restore
Prefill == ResumeSnapshot \/ ResumeCheckpoint \/ ResumeFresh
           \/ Chunk \/ Cancel \/ ChunkFails \/ Snapshot

Next == (\E s \in Slots, p \in Prompts : Pick(s, p)) \/ Spill \/ Prefill \/ Writer \/ Restart
Spec == Init /\ [][Next]_vars

-----------------------------------------------------------------------------
(* Properties *)

\* Every snapshot holds what its tokens say, in a slot, in the writer's queue or in a
\* file, of this process or of one before it.  (A slot that is being resumed from a file
\* still goes by its old tokens for one step.)
ContentOf(c, key) == c.st = key /\ RowsOf(c.rows, key)
SnapshotExact ==
    /\ \A s \in Slots : cache[s] # None /\ ~(pc = "resume" /\ s = job.slot) =>
            snap[s] = cache[s] /\ RowsOf(rows[s], cache[s])
    /\ \A k \in DOMAIN files : ContentOf(files[k], k)
    /\ \A i \in DOMAIN jobs : jobs[i].type = "write" => ContentOf(jobs[i].content, jobs[i].key)

\* A slot's rows are those of the prefix its checkpoints describe, and not overwritten
\* since; every checkpoint has seen exactly its part of that prefix.
CheckpointRows ==
    /\ \A s \in Slots : toks[s] # None => RowsOf(rows[s], toks[s])
    /\ \A i \in DOMAIN ckpts :
        /\ ckpts[i].pos <= Len(toks[ckpts[i].slot])
        /\ ckpts[i].st = Prefix(toks[ckpts[i].slot], ckpts[i].pos)

\* Wherever a prompt resumes from, its prefill continues what a fresh one would have
\* computed, and the request's decode starts from it.
ResumeExact == pc = "chunks" => Sound

\* What the files will be once the writer has caught up.
LastJob(k) == {i \in DOMAIN jobs : jobs[i].key = k /\ \A j \in DOMAIN jobs : jobs[j].key = k => j <= i}
WillExist(k) == IF LastJob(k) = {} THEN k \in DOMAIN files
                ELSE \E i \in LastJob(k) : jobs[i].type = "write"

\* The policy and the disk agree: each key has its file unless the write failed, and each
\* file its key, unless it is bigger than the whole store or an earlier process left it.
StoreMatchesPolicy ==
    /\ IsInjective(lru) /\ Total(lru) <= tier.spill
    /\ \A k \in ToSet(lru) \ lost : WillExist(k)
    /\ \A k \in DOMAIN files \cup {jobs[i].key : i \in DOMAIN jobs} :
        WillExist(k) => k \in ToSet(lru) \/ Bytes(k) > tier.spill \/ k \in leftover
=============================================================================
