---------------------------- MODULE HubLockstep ----------------------------
(***************************************************************************)
(* A lockstep point of three or more ranks: hub_all (src/src/net.rs) over  *)
(* net_exchange_one (src/src/native/net_shim.c).  Every rank sends its     *)
(* words to the head, the head sends all of them back.  An exchange writes *)
(* the frame into a ring slot of the peer and waits for the peer's frame   *)
(* of the same number; what tells that it is there is one word at the end  *)
(* of the frame, and frames of several sizes share the slots.              *)
(***************************************************************************)
EXTENDS Integers, Sequences, FiniteSets

CONSTANTS
    World,          \* number of ranks
    Program,        \* the lockstep points of a run, each "go" or "spill"
    Wire,           \* [kind -> words of a frame]
    Ring,           \* TP_CTRL_RING; two slots are not enough for a head that gives up an exchange
    Deadline,       \* --tp-lockstep-timeout-ms is not 0
    Faults,         \* which faults there are: "hang", "crash", "skip", "link"
    MaxFaults       \* bound: faults

ASSUME HubAssumption ==
    /\ World \in Nat /\ World > 2
    /\ Program \in Seq({"go", "spill"})
    /\ Wire \in [{"go", "spill"} -> Nat \ {0}]
    /\ Ring \in Nat /\ Ring > 2
    /\ Deadline \in BOOLEAN /\ MaxFaults \in Nat
    /\ Faults \subseteq {"hang", "crash", "skip", "link"}

Ranks == 0..(World - 1)
Nodes == 1..(World - 1)
Links == ({0} \X Nodes) \cup (Nodes \X {0})

VARIABLES
    said, met,      \* per rank: what it brought to its lockstep points, and left them with
    at,             \* per rank: its place in Program
    leg,            \* per rank: exchanges done at this point
    posted,         \* per rank: its frame of the exchange under way is out
    heard,          \* per rank: the words it has of this point
    lost,           \* per rank: an exchange of this point failed (the head goes on)
    ring,           \* per rank and sender: the rank's control slots
    aborted,        \* per rank: the abort word of its link
    mode,           \* per rank: "up", "hung", "failed" or "dead"
    faults

frameVars == <<leg, posted, heard, lost, ring>>
vars == <<said, met, at, frameVars, aborted, mode, faults>>

Sizes == {Wire[c] : c \in {"go", "spill"}} \cup {World * Wire[c] : c \in {"go", "spill"}}
Zero == [kind |-> "zero", count |-> 0, rest |-> 0]
Empty == [tails |-> [o \in Sizes |-> 0], body |-> Zero]
Nothing == [r \in Ranks |-> Zero]

-----------------------------------------------------------------------------
(* tp_lockstep.rs: the frames and their verdicts *)

\* What a rank says at a lockstep point.  A step-go frame carries the count of the rank's
\* earlier ones; what else a frame says no verdict compares: told apart by where it was said.
Words == [kind : {"go", "spill"}, count : 0..Len(Program), rest : DOMAIN Program]
Counted(k) == Cardinality({i \in DOMAIN said[k] : said[k][i].kind = "go"})
Frame(k) ==
    LET kind == Program[at[k]]
    IN  [kind |-> kind, count |-> IF kind = "go" THEN Counted(k) ELSE 0, rest |-> at[k]]

Accepts(words) ==
    \A r \in Ranks : /\ words[r] # Zero /\ words[r].kind = words[0].kind
                     /\ words[r].count = words[0].count

-----------------------------------------------------------------------------
(* hub_all *)

In(k) == Len(said[k]) > Len(met[k])
Legs(k) == IF k = 0 THEN 2 * (World - 1) ELSE 2
Exchanging(k) == mode[k] = "up" /\ In(k) /\ leg[k] < Legs(k)
Peer(k) == IF k = 0 THEN (leg[0] % (World - 1)) + 1 ELSE 0
Round(k) == IF k = 0 THEN (leg[0] \div (World - 1)) + 1 ELSE leg[k] + 1
Said(k) == said[k][Len(said[k])]
Size(k) == (IF Round(k) = 1 THEN 1 ELSE World) * Wire[Said(k).kind]
Body(k) == IF Round(k) = 1 THEN Said(k) ELSE IF k = 0 THEN heard[0] ELSE Zero

\* The number of the exchange with the peer, two at each point.
Gen(k) == 2 * (Len(said[k]) - 1) + Round(k)
\* Mutant: one slot per sender.
SlotOne(g) == 0
\* ctrl_recv_slot: where a rank finds the frame of an exchange.
SlotOf(g) == g % Ring

\* Mutant: the head's words of an earlier point are not cleared.
HeardStale(k, w) == [heard[k] EXCEPT ![k] = w]
Heard(k, w) == [Nothing EXCEPT ![k] = w]

Come(k) ==
    /\ mode[k] = "up" /\ ~In(k) /\ at[k] <= Len(Program)
    /\ said' = [said EXCEPT ![k] = Append(@, Frame(k))]
    /\ heard' = [heard EXCEPT ![k] = Heard(k, Frame(k))]
    /\ at' = [at EXCEPT ![k] = @ + 1]
    /\ leg' = [leg EXCEPT ![k] = 0]
    /\ UNCHANGED <<met, posted, lost, ring, aborted, mode, faults>>

\* The frame lands in the peer's slot.  Where a shorter frame would end its words may look
\* like the end of a frame that is still to come: the worst case.
Post(k) ==
    /\ Exchanging(k) /\ ~posted[k]
    /\ ring' = [ring EXCEPT ![<<Peer(k), k>>][SlotOf(Gen(k))] =
                    [tails |-> [o \in Sizes |-> IF o = Size(k) THEN Gen(k)
                                                ELSE IF o < Size(k) THEN Gen(k) + Ring
                                                ELSE @.tails[o]],
                     body |-> Body(k)]]
    /\ posted' = [posted EXCEPT ![k] = TRUE]
    /\ UNCHANGED <<said, met, at, leg, heard, lost, aborted, mode, faults>>

\* A frame that was read is zeroed.
Retired(slot, size) ==
    [tails |-> [o \in Sizes |-> IF o <= size THEN 0 ELSE slot.tails[o]], body |-> Zero]

Take(k) ==
    LET p == Peer(k)
        i == SlotOf(Gen(k))
        frame == ring[<<k, p>>][i]
    IN  /\ Exchanging(k) /\ posted[k]
        /\ frame.tails[Size(k)] = Gen(k)
        /\ ring' = [ring EXCEPT ![<<k, p>>][i] = Retired(frame, Size(k))]
        /\ heard' = IF Round(k) = 1 /\ k = 0 THEN [heard EXCEPT ![0][p] = frame.body]
                    ELSE IF Round(k) = 2 /\ k # 0 THEN [heard EXCEPT ![k] = frame.body]
                    ELSE heard
        /\ leg' = [leg EXCEPT ![k] = @ + 1]
        /\ posted' = [posted EXCEPT ![k] = FALSE]
        /\ UNCHANGED <<said, met, at, lost, aborted, mode, faults>>

\* Mutant: a wait has no deadline.
ExpiresNever(k) == FALSE
\* A peer that answers probes may be slow, stuck, or never come: the deadline cannot tell.
Expires(k) == Deadline

\* The exchange fails and takes the link down.  A node gives up; the head, whose other
\* nodes are on their way into round 2, goes on.
GiveUp(k) ==
    /\ Exchanging(k) /\ posted[k]
    /\ aborted[k] \/ mode[Peer(k)] = "dead" \/ Expires(k)
    /\ aborted' = [aborted EXCEPT ![k] = TRUE]
    /\ posted' = [posted EXCEPT ![k] = FALSE]
    /\ lost' = [lost EXCEPT ![k] = TRUE]
    /\ IF k = 0 THEN leg' = [leg EXCEPT ![k] = @ + 1] /\ UNCHANGED mode
       ELSE mode' = [mode EXCEPT ![k] = "failed"] /\ UNCHANGED leg
    /\ UNCHANGED <<said, met, at, heard, ring, faults>>

Through(k) == mode[k] = "up" /\ In(k) /\ leg[k] = Legs(k)
Good(k) == ~lost[k] /\ Accepts(heard[k]) /\ heard[k][k] = Said(k)

Adopt(k) ==
    /\ Through(k) /\ Good(k)
    /\ met' = [met EXCEPT ![k] = Append(@, heard[k])]
    /\ UNCHANGED <<said, at, frameVars, aborted, mode, faults>>

Reject(k) ==
    /\ Through(k) /\ ~Good(k)
    /\ aborted' = [aborted EXCEPT ![k] = TRUE]
    /\ mode' = [mode EXCEPT ![k] = "failed"]
    /\ UNCHANGED <<said, met, at, frameVars, faults>>

-----------------------------------------------------------------------------
(* The link and the faults *)

\* The proxy thread of p sees the abort word of k, as long as both processes are there.
FanOut(k, p) ==
    /\ aborted[k] /\ mode[k] # "dead" /\ mode[p] # "dead" /\ ~aborted[p]
    /\ aborted' = [aborted EXCEPT ![p] = TRUE]
    /\ UNCHANGED <<said, met, at, frameVars, mode, faults>>

Fault(kind) == kind \in Faults /\ faults < MaxFaults /\ faults' = faults + 1

\* A rank's thread stops in a device call, perhaps for ever; its process answers probes.
Hang(k) ==
    /\ mode[k] = "up" /\ Fault("hang")
    /\ mode' = [mode EXCEPT ![k] = "hung"]
    /\ UNCHANGED <<said, met, at, frameVars, aborted>>

Resume(k) ==
    /\ mode[k] = "hung"
    /\ mode' = [mode EXCEPT ![k] = "up"]
    /\ UNCHANGED <<said, met, at, frameVars, aborted, faults>>

Crash(k) ==
    /\ mode[k] # "dead" /\ Fault("crash")
    /\ mode' = [mode EXCEPT ![k] = "dead"]
    /\ UNCHANGED <<said, met, at, frameVars, aborted>>

\* A rank passes by a point that the others come to.
Skip(k) ==
    /\ mode[k] = "up" /\ ~In(k) /\ at[k] <= Len(Program) /\ Fault("skip")
    /\ at' = [at EXCEPT ![k] = @ + 1]
    /\ UNCHANGED <<said, met, frameVars, aborted, mode>>

\* A kernel or the proxy takes the link down.
LinkError(k) ==
    /\ mode[k] # "dead" /\ ~aborted[k] /\ Fault("link")
    /\ aborted' = [aborted EXCEPT ![k] = TRUE]
    /\ UNCHANGED <<said, met, at, frameVars, mode>>

-----------------------------------------------------------------------------

Init ==
    /\ said = [k \in Ranks |-> <<>>] /\ met = [k \in Ranks |-> <<>>]
    /\ at = [k \in Ranks |-> 1]
    /\ leg = [k \in Ranks |-> 0] /\ posted = [k \in Ranks |-> FALSE]
    /\ heard = [k \in Ranks |-> Nothing] /\ lost = [k \in Ranks |-> FALSE]
    /\ ring = [l \in Links |-> [i \in 0..(Ring - 1) |-> Empty]]
    /\ aborted = [k \in Ranks |-> FALSE] /\ mode = [k \in Ranks |-> "up"]
    /\ faults = 0

HubAll(k) == Post(k) \/ Take(k) \/ GiveUp(k) \/ Adopt(k) \/ Reject(k)
Failing(k) == Hang(k) \/ Resume(k) \/ Crash(k) \/ Skip(k) \/ LinkError(k)

Next ==
    \/ \E k \in Ranks : Come(k) \/ HubAll(k) \/ Failing(k)
    \/ \E k, p \in Ranks : FanOut(k, p)

Spec == Init /\ [][Next]_vars

\* A rank that is up makes progress, and an expired wait is noticed; nobody need recover,
\* come to the next point, or hear of an abort.
FairSpec == Spec /\ \A k \in Ranks : WF_vars(HubAll(k))

-----------------------------------------------------------------------------
(* Properties *)

\* A frame lands only in a slot that is all zero: its reader has read the slot's last frame,
\* however late, and left no word of it that could look like the end of another.
NoClobber ==
    \A k \in Ranks : Exchanging(k) /\ ~posted[k] =>
        ring[<<Peer(k), k>>][SlotOf(Gen(k))] = Empty

\* Whatever fails, a rank leaves a lockstep point only with the words that all ranks
\* brought to this very point: never a frame of an earlier one, a part of one, or a zero.
Lockstep == INSTANCE Meeting
ImplementsMeeting == Lockstep!Spec

\* No rank stays in a lockstep point for ever, unless its own thread hangs: a rank that is gone,
\* hangs, or comes to another point costs the others the link and not their progress.
NobodyParks == \A k \in Ranks : []<>(~In(k) \/ mode[k] # "up")
=============================================================================
