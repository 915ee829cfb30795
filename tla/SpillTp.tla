------------------------------ MODULE SpillTp ------------------------------
(***************************************************************************)
(* The disk tier of the prefix cache under tensor parallelism              *)
(* (spill_capture_slot, spill_restore_slot and TpSync::spill_agree,        *)
(* src/src/exl3_serve.rs; src/src/tp_lockstep.rs; src/src/kv_spill.rs).    *)
(* Every rank keeps its own policy and its own disk; all of them run the   *)
(* same admissions.  What a rank's disk did is agreed before anyone acts   *)
(* on it; a flag carries the outcome and not what it is the outcome of.    *)
(* Deletes go through the rank's writer thread, captures do not.           *)
(***************************************************************************)
EXTENDS Lists, FiniteSets

CONSTANTS
    World,          \* number of ranks
    Keys, NoKey,    \* snapshot keys, and none
    Size,           \* [Keys -> bytes of the file]
    Est,            \* [Keys -> the bytes the budget gate estimates]
    Cap,            \* --kv-spill-gb
    FaultKinds,     \* which calls may fail: "capture", "write", "read", "restore"
    MaxFaults,      \* bound: failing calls
    MaxAdmissions   \* bound: admissions

ASSUME SpillAssumption ==
    /\ World \in Nat /\ World > 1
    /\ NoKey \notin Keys
    /\ Size \in [Keys -> Nat \ {0}] /\ Est \in [Keys -> Nat \ {0}]
    /\ Cap \in Nat /\ MaxFaults \in Nat /\ MaxAdmissions \in Nat
    /\ FaultKinds \subseteq {"capture", "write", "read", "restore"}

Ranks == 0..(World - 1)

VARIABLES
    adm,            \* the admission under way: the evicted snapshot, the one the prompt extends
    left,           \* admissions left
    lru,            \* per rank: the policy, least recently put first
    files,          \* per rank: the keys with a file
    dels,           \* per rank: deletes its writer thread has not done yet
    pc,             \* per rank: "capture", "restore", "agree", "seam" or "bailed"
    op,             \* per rank: what it agrees on
    ok,             \* per rank: how its own disk call went
    got,            \* per rank: the key restored in this admission
    faults,
    device          \* device calls that failed on a rank: "capture", "restore"

vars == <<adm, left, lru, files, dels, pc, op, ok, got, faults, device>>

\* Bytes of the policy's entries.
Total(keys) ==
    LET sum[n \in 0..Len(keys)] == IF n = 0 THEN 0 ELSE sum[n - 1] + Size[keys[n]]
    IN  sum[Len(keys)]

May(kind) == kind \in FaultKinds /\ faults < MaxFaults /\ faults' = faults + 1

\* The key the prompt extends, if the policy has it.
Wanted(k) == IF adm.wants \in ToSet(lru[k]) THEN adm.wants ELSE NoKey

Goto(k, l) == pc' = [pc EXCEPT ![k] = l]
Bring(k, what, outcome) ==
    /\ Goto(k, "agree")
    /\ op' = [op EXCEPT ![k] = what]
    /\ ok' = [ok EXCEPT ![k] = outcome]

-----------------------------------------------------------------------------
(* spill_capture_slot *)

Gated(k) == adm.evict # NoKey /\ Total(lru[k]) + Est[adm.evict] > Cap

\* Nothing is evicted, or the policy is over its budget.
CaptureSkip(k) ==
    /\ pc[k] = "capture"
    /\ adm.evict = NoKey \/ Gated(k)
    /\ Goto(k, "restore")
    /\ UNCHANGED <<adm, left, lru, files, dels, op, ok, got, faults, device>>

\* The copy off the device fails: the snapshot is dropped, by this rank alone.
CaptureFails(k) ==
    /\ pc[k] = "capture" /\ adm.evict # NoKey /\ ~Gated(k)
    /\ May("capture") /\ device' = device \cup {"capture"}
    /\ Goto(k, "restore")
    /\ UNCHANGED <<adm, left, lru, files, dels, op, ok, got>>

\* put_sync; a failed write leaves the file as it was.
CaptureWrite(k) ==
    /\ pc[k] = "capture" /\ adm.evict # NoKey /\ ~Gated(k)
    /\ \/ /\ files' = [files EXCEPT ![k] = @ \cup {adm.evict}]
          /\ Bring(k, "capture", TRUE)
          /\ UNCHANGED faults
       \/ /\ May("write")
          /\ Bring(k, "capture", FALSE)
          /\ UNCHANGED files
    /\ UNCHANGED <<adm, left, lru, dels, got, device>>

-----------------------------------------------------------------------------
(* spill_restore_slot *)

RestoreSkip(k) ==
    /\ pc[k] = "restore" /\ Wanted(k) = NoKey
    /\ Goto(k, "seam")
    /\ UNCHANGED <<adm, left, lru, files, dels, op, ok, got, faults, device>>

\* Mutant: a rank that cannot read its file goes on alone.
RestoreReadAlone(k) ==
    /\ pc[k] = "restore" /\ Wanted(k) # NoKey
    /\ \/ Wanted(k) \in files[k] /\ Bring(k, "restore", TRUE) /\ UNCHANGED faults
       \/ Wanted(k) \notin files[k] /\ Goto(k, "seam") /\ UNCHANGED <<op, ok, faults>>
       \/ May("read") /\ Goto(k, "seam") /\ UNCHANGED <<op, ok>>
    /\ UNCHANGED <<adm, left, lru, files, dels, got, device>>

\* Read and check the file; it may be gone, unreadable or of another build.
RestoreRead(k) ==
    /\ pc[k] = "restore" /\ Wanted(k) # NoKey
    /\ \/ Bring(k, "restore", Wanted(k) \in files[k]) /\ UNCHANGED faults
       \/ May("read") /\ Bring(k, "restore", FALSE)
    /\ UNCHANGED <<adm, left, lru, files, dels, got, device>>

-----------------------------------------------------------------------------
(* spill_agree *)

\* Mutant: each rank goes by its own outcome.
VerdictOwn(k) == ok[k]
\* spill_verdict: the AND of all ranks' outcomes.
Verdict(k) == \A j \in Ranks : ok[j]

\* What a rank does with the verdict on its own capture or restore.
Shifted(k, key) ==
    LET rest == Without(lru[k], key)
        Fits(n) == Total(SubSeq(rest, n + 1, Len(rest))) + Size[key] <= Cap
    IN  CHOOSE n \in 0..Len(rest) : Fits(n) /\ \A m \in 0..(n - 1) : ~Fits(m)

LruAfter(k) ==
    LET rest == Without(lru[k], adm.evict)
    IN  IF op[k] = "restore" THEN Without(lru[k], Wanted(k))
        ELSE IF ~Verdict(k) \/ Size[adm.evict] > Cap THEN lru[k]
        ELSE Append(SubSeq(rest, Shifted(k, adm.evict) + 1, Len(rest)), adm.evict)

\* Mutant: a rank that wrote its file keeps it when another rank could not.
DroppedIfMine(k) ==
    IF op[k] = "restore" THEN <<Wanted(k)>>
    ELSE IF ~Verdict(k) THEN IF ok[k] THEN <<>> ELSE <<adm.evict>>
    ELSE IF Size[adm.evict] > Cap THEN <<>>
    ELSE SubSeq(Without(lru[k], adm.evict), 1, Shifted(k, adm.evict))
\* The files that go: what was restored, could not be written everywhere, or is shifted out.
Dropped(k) ==
    IF op[k] = "restore" THEN <<Wanted(k)>>
    ELSE IF ~Verdict(k) THEN <<adm.evict>>
    ELSE IF Size[adm.evict] > Cap THEN <<>>
    ELSE SubSeq(Without(lru[k], adm.evict), 1, Shifted(k, adm.evict))

\* All ranks bring a flag.  A restore that was agreed to may still fail on one of them.
Agree ==
    /\ \A k \in Ranks : pc[k] = "agree"
    /\ \E failed \in SUBSET {k \in Ranks : op[k] = "restore" /\ Verdict(k)} :
        /\ IF failed = {} THEN UNCHANGED <<faults, device>>
           ELSE Cardinality(failed) = 1 /\ May("restore")
                /\ device' = device \cup {"restore"}
        /\ pc' = [k \in Ranks |-> IF k \in failed THEN "bailed"
                                  ELSE IF op[k] = "capture" THEN "restore" ELSE "seam"]
        /\ got' = [k \in Ranks |-> IF op[k] = "restore" /\ Verdict(k) /\ k \notin failed
                                   THEN Wanted(k) ELSE got[k]]
        /\ lru' = [k \in Ranks |-> IF k \in failed THEN lru[k] ELSE LruAfter(k)]
        /\ dels' = [k \in Ranks |-> IF k \in failed THEN dels[k] ELSE dels[k] \o Dropped(k)]
    /\ UNCHANGED <<adm, left, files, op, ok>>

\* Mutant: a rank waits for a peer that is gone without a deadline.
OutOfStepWaits == FALSE /\ UNCHANGED vars
\* The ranks meet in different places, or one does not come: the link is aborted.
OutOfStep ==
    /\ \A k \in Ranks : pc[k] \in {"agree", "seam", "bailed"}
    /\ \E j, k \in Ranks : pc[j] # pc[k]
    /\ pc' = [k \in Ranks |-> "bailed"]
    /\ UNCHANGED <<adm, left, lru, files, dels, op, ok, got, faults, device>>

-----------------------------------------------------------------------------

\* The seam step of the admission, where all ranks meet; then the next admission.
NextAdmission ==
    /\ \A k \in Ranks : pc[k] = "seam"
    /\ left > 0 /\ left' = left - 1
    /\ adm' \in [evict : Keys \cup {NoKey}, wants : Keys \cup {NoKey}]
    /\ adm'.evict # adm'.wants
    /\ pc' = [k \in Ranks |-> "capture"]
    /\ got' = [k \in Ranks |-> NoKey]
    /\ UNCHANGED <<lru, files, dels, op, ok, faults, device>>

\* A rank's writer thread does one delete.
Writer(k) ==
    /\ dels[k] # <<>>
    /\ files' = [files EXCEPT ![k] = @ \ {Head(dels[k])}]
    /\ dels' = [dels EXCEPT ![k] = Tail(@)]
    /\ UNCHANGED <<adm, left, lru, pc, op, ok, got, faults, device>>

Init ==
    /\ adm = [evict |-> NoKey, wants |-> NoKey] /\ left = MaxAdmissions
    /\ lru = [k \in Ranks |-> <<>>] /\ files = [k \in Ranks |-> {}]
    /\ dels = [k \in Ranks |-> <<>>]
    /\ pc = [k \in Ranks |-> "seam"]
    /\ op = [k \in Ranks |-> "capture"] /\ ok = [k \in Ranks |-> TRUE]
    /\ got = [k \in Ranks |-> NoKey]
    /\ faults = 0 /\ device = {}

Rank(k) == CaptureSkip(k) \/ CaptureFails(k) \/ CaptureWrite(k)
           \/ RestoreSkip(k) \/ RestoreRead(k)
Next == (\E k \in Ranks : Rank(k) \/ Writer(k)) \/ Agree \/ OutOfStep \/ NextAdmission
Spec == Init /\ [][Next]_vars

\* Every rank and the link make progress; the writer threads need not.
FairSpec == Spec /\ WF_vars((\E k \in Ranks : Rank(k)) \/ Agree \/ OutOfStep)

-----------------------------------------------------------------------------
(* Properties *)

Met == \A k \in Ranks : pc[k] = "seam"

\* At the end of an admission all ranks hold the same policy and restored the same
\* snapshot, however their disks differ and however far their deletes are behind; unless
\* a copy off the device failed on one of them.
RanksAgree ==
    Met /\ "capture" \notin device => \A j, k \in Ranks : lru[j] = lru[k] /\ got[j] = got[k]

\* Once its deletes are done, a rank's disk holds only what the policy knows, a snapshot
\* bigger than the whole store aside: the cap bounds the disk.
NoOrphans ==
    Met => \A k \in Ranks : \A key \in files[k] :
        key \in ToSet(lru[k]) \cup ToSet(dels[k]) \/ Size[key] > Cap

AllInStep == \A k \in Ranks : pc[k] # "bailed"

\* A failing disk never fails a request: a write or a read that fails on one rank costs
\* a recompute and nothing else.
DiskNeverFailsTheRound == device = {} => AllInStep

\* Every admission gets through the disk tier on all ranks, or stops on all of them.
AllGetThrough ==
    (\E k \in Ranks : pc[k] = "capture") ~>
        (Met \/ \A k \in Ranks : pc[k] = "bailed")
=============================================================================
