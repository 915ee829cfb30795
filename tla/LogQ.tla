-------------------------------- MODULE LogQ --------------------------------
(***************************************************************************)
(* The bounded log queue of src/src/logq.rs: any thread hands a line to    *)
(* one writer thread without blocking, lines that find the queue full are  *)
(* dropped and counted, and an exit path waits for the queue to be written *)
(* before it ends the process.                                             *)
(*                                                                         *)
(* A line is <<sender, number>>.  QUEUED is counted by the sender AFTER    *)
(* its try_send, and uncounted by the writer after the write, so the two   *)
(* halves of a send are two steps here.  Stdout is the sequence `written`; *)
(* its reader may stall, which blocks the writer inside the write.         *)
(***************************************************************************)
EXTENDS Naturals, Integers, Sequences, FiniteSets

CONSTANTS Senders,   \* threads that log and may end the process
          CAP,       \* capacity of the channel, in lines
          MaxLines,  \* bound: lines a sender logs in its life
          NoLine     \* the writer holds no line

ASSUME LogQAssumption ==
  /\ IsFiniteSet(Senders)
  /\ CAP \in Nat \ {0}
  /\ MaxLines \in Nat

VARIABLES channel,   \* the sync_channel: lines sent and not received
          written,   \* the lines on stdout / stderr, in order
          lost,      \* the lines try_send refused
          DROPPED,   \* the counter of refused lines
          QUEUED,    \* the counter flush() waits on
          reported,  \* the writer's local: drops it has told the operator of
          wpc,       \* the writer: "recv", "emit", "count", "report"
          wline,     \* the line the writer holds
          spc,       \* each thread: see SenderPc
          sent,      \* lines each thread has tried to send
          stalled,   \* the reader of stdout has stopped reading
          exited     \* process::exit has been called

vars == <<channel, written, lost, DROPPED, QUEUED, reported, wpc, wline,
          spc, sent, stalled, exited>>

Lines == Senders \X (1 .. MaxLines)

\* "run": outside this module; "sent": in try_line, past a try_send that took
\* the line and before the count; "flush": in flush's loop; "flushed": the loop
\* saw an empty count; "late": the loop ran out of time.
SenderPc == {"run", "sent", "flush", "flushed", "late"}

Init ==
  /\ channel = <<>> /\ written = <<>> /\ lost = {}
  /\ DROPPED = 0 /\ QUEUED = 0 /\ reported = 0
  /\ wpc = "recv" /\ wline = NoLine
  /\ spc = [s \in Senders |-> "run"]
  /\ sent = [s \in Senders |-> 0]
  /\ stalled = FALSE /\ exited = FALSE

NextLine(s) == <<s, sent[s] + 1>>

-----------------------------------------------------------------------------
(* The sending threads. *)

\* try_line, first half: the channel has room and takes the line.
TrySend(s) ==
  /\ ~exited /\ spc[s] = "run" /\ sent[s] < MaxLines
  /\ Len(channel) < CAP
  /\ channel' = Append(channel, NextLine(s))
  /\ sent' = [sent EXCEPT ![s] = @ + 1]
  /\ spc' = [spc EXCEPT ![s] = "sent"]
  /\ UNCHANGED <<written, lost, DROPPED, QUEUED, reported, wpc, wline,
                 stalled, exited>>

\* try_line, second half: QUEUED.fetch_add.
CountSent(s) ==
  /\ ~exited /\ spc[s] = "sent"
  /\ QUEUED' = QUEUED + 1
  /\ spc' = [spc EXCEPT ![s] = "run"]
  /\ UNCHANGED <<channel, written, lost, DROPPED, reported, wpc, wline, sent,
                 stalled, exited>>

\* Mutant: a blocking send, which waits for room.
TrySendFullWaits(s) == FALSE

\* try_line on a full channel: the line is dropped and counted.
TrySendFull(s) ==
  /\ ~exited /\ spc[s] = "run" /\ sent[s] < MaxLines
  /\ Len(channel) = CAP
  /\ lost' = lost \cup {NextLine(s)}
  /\ DROPPED' = DROPPED + 1
  /\ sent' = [sent EXCEPT ![s] = @ + 1]
  /\ UNCHANGED <<channel, written, QUEUED, reported, wpc, wline, spc,
                 stalled, exited>>

\* flush_and_exit is entered.
FlushBegin(s) ==
  /\ ~exited /\ spc[s] = "run"
  /\ spc' = [spc EXCEPT ![s] = "flush"]
  /\ UNCHANGED <<channel, written, lost, DROPPED, QUEUED, reported, wpc, wline,
                 sent, stalled, exited>>

\* Mutant: flush takes one line for none.
FlushSeesOne(s) ==
  /\ ~exited /\ spc[s] = "flush" /\ QUEUED <= 1
  /\ spc' = [spc EXCEPT ![s] = "flushed"]
  /\ UNCHANGED <<channel, written, lost, DROPPED, QUEUED, reported, wpc, wline,
                 sent, stalled, exited>>

\* flush: the count is not positive, so the wait is over.
FlushSeesNone(s) ==
  /\ ~exited /\ spc[s] = "flush" /\ QUEUED <= 0
  /\ spc' = [spc EXCEPT ![s] = "flushed"]
  /\ UNCHANGED <<channel, written, lost, DROPPED, QUEUED, reported, wpc, wline,
                 sent, stalled, exited>>

\* flush: lines are counted still, and the timeout has passed.
FlushTimeout(s) ==
  /\ ~exited /\ spc[s] = "flush" /\ QUEUED > 0
  /\ spc' = [spc EXCEPT ![s] = "late"]
  /\ UNCHANGED <<channel, written, lost, DROPPED, QUEUED, reported, wpc, wline,
                 sent, stalled, exited>>

\* process::exit: every thread, the writer with them, stops where it is.
Exit(s) ==
  /\ ~exited /\ spc[s] \in {"flushed", "late"}
  /\ exited' = TRUE
  /\ UNCHANGED <<channel, written, lost, DROPPED, QUEUED, reported, wpc, wline,
                 spc, sent, stalled>>

-----------------------------------------------------------------------------
(* The writer thread. *)

\* Mutant: the line is looked at and not taken.
RecvPeeks ==
  /\ ~exited /\ wpc = "recv" /\ channel # <<>>
  /\ wline' = Head(channel)
  /\ wpc' = "emit"
  /\ UNCHANGED <<channel, written, lost, DROPPED, QUEUED, reported, spc, sent,
                 stalled, exited>>

Recv ==
  /\ ~exited /\ wpc = "recv" /\ channel # <<>>
  /\ wline' = Head(channel)
  /\ channel' = Tail(channel)
  /\ wpc' = "emit"
  /\ UNCHANGED <<written, lost, DROPPED, QUEUED, reported, spc, sent, stalled,
                 exited>>

\* emit_line: the blocking write.
Emit ==
  /\ ~exited /\ wpc = "emit" /\ ~stalled
  /\ written' = Append(written, wline)
  /\ wpc' = "count"
  /\ UNCHANGED <<channel, lost, DROPPED, QUEUED, reported, wline, spc, sent,
                 stalled, exited>>

\* emit_line: QUEUED.fetch_sub.
CountWritten ==
  /\ ~exited /\ wpc = "count"
  /\ QUEUED' = QUEUED - 1
  /\ wpc' = "report"
  /\ wline' = NoLine
  /\ UNCHANGED <<channel, written, lost, DROPPED, reported, spc, sent, stalled,
                 exited>>

\* Mutant: reported is not brought up to date.
ReportForgets ==
  /\ ~exited /\ wpc = "report"
  /\ reported' = reported
  /\ wpc' = "recv"
  /\ UNCHANGED <<channel, written, lost, DROPPED, QUEUED, wline, spc, sent,
                 stalled, exited>>

\* report_drops, after a line ("report") or after 500 ms without one ("recv").
\* Its own write to stderr can block on a stalled reader too.
ReportDrops ==
  /\ ~exited
  /\ \/ wpc = "report"
     \/ wpc = "recv" /\ channel = <<>>
  /\ DROPPED > reported => ~stalled
  /\ reported' = DROPPED
  /\ wpc' = "recv"
  /\ UNCHANGED <<channel, written, lost, DROPPED, QUEUED, wline, spc, sent,
                 stalled, exited>>

\* The reader of stdout stops, and starts again.
ReaderToggles ==
  /\ ~exited
  /\ stalled' = ~stalled
  /\ UNCHANGED <<channel, written, lost, DROPPED, QUEUED, reported, wpc, wline,
                 spc, sent, exited>>

-----------------------------------------------------------------------------

TryLine(s) == TrySend(s) \/ CountSent(s) \/ TrySendFull(s)
Flush(s) == FlushBegin(s) \/ FlushSeesNone(s) \/ FlushTimeout(s) \/ Exit(s)
Writer == Recv \/ Emit \/ CountWritten \/ ReportDrops

Next ==
  \/ \E s \in Senders : TryLine(s) \/ Flush(s)
  \/ Writer
  \/ ReaderToggles

Spec == Init /\ [][Next]_vars

\* Threads run on: a send in progress, a flush in progress and the writer make
\* progress whenever they can.  A thread is not obliged to begin a flush, the
\* reader is not obliged to stop or to resume.  Emit and ReportDrops need SF
\* because the reader may stall and resume for ever.
FairSpec ==
  /\ Spec
  /\ \A s \in Senders :
       /\ WF_vars(TryLine(s))
       /\ WF_vars(FlushSeesNone(s) \/ FlushTimeout(s))
       /\ WF_vars(Exit(s))
  /\ WF_vars(Recv) /\ SF_vars(Emit) /\ WF_vars(CountWritten)
  /\ SF_vars(ReportDrops)

-----------------------------------------------------------------------------
(* Properties. *)

\* The variables have their types.
TypeOK ==
  /\ channel \in Seq(Lines) /\ Len(channel) <= CAP
  /\ written \in Seq(Lines)
  /\ lost \subseteq Lines
  /\ DROPPED \in Nat /\ QUEUED \in Int /\ reported \in Nat
  /\ wpc \in {"recv", "emit", "count", "report"}
  /\ wline \in IF wpc \in {"emit", "count"} THEN Lines ELSE {NoLine}
  /\ spc \in [Senders -> SenderPc]
  /\ sent \in [Senders -> 0 .. MaxLines]
  /\ stalled \in BOOLEAN /\ exited \in BOOLEAN

\* The threads that have sent a line and not counted it yet.
Uncounted == {s \in Senders : spc[s] = "sent"}

\* Lines on their way to stdout: in the channel or in the writer's hand.
InHand == IF wpc \in {"emit", "count"} THEN 1 ELSE 0

\* The lines of s that were not refused and are not on stdout yet.
Unwritten(s) ==
  {n \in 1 .. sent[s] :
     <<s, n>> \notin lost /\ \A i \in 1 .. Len(written) : written[i] # <<s, n>>}

\* QUEUED is off by exactly the sends that are between try_send and fetch_add:
\* it may go below the truth, even below zero, and it never drifts, which a
\* flush minutes later would pay for with its full wait or with lost lines.
Accounting == QUEUED = Len(channel) + InHand - Cardinality(Uncounted)

\* A flush that ends before its timeout leaves at most as many lines unwritten
\* as there are threads caught between sending a line and counting it.
FlushLoss ==
  [][\A s \in Senders :
       spc[s] = "flush" /\ spc'[s] = "flushed"
         => Len(channel) + InHand <= Cardinality(Uncounted)]_vars

\* Every line taken by try_send, oldest first: those on stdout, the one the
\* writer is about to write, those in the channel.
Trail == written \o (IF wpc = "emit" THEN <<wline>> ELSE <<>>) \o channel

\* Lines among themselves keep FIFO order (logq.rs:22), so that a thread's lines
\* come out in the order it logged them and none twice, and each line a thread
\* logged is either refused or on its way, never both and never neither.
EachLineOnce ==
  /\ \A i, j \in 1 .. Len(Trail) :
       i < j /\ Trail[i][1] = Trail[j][1] => Trail[i][2] < Trail[j][2]
  /\ \A s \in Senders : \A n \in 1 .. sent[s] :
       <<s, n>> \in lost <=> \A i \in 1 .. Len(Trail) : Trail[i] # <<s, n>>

\* LR-1: a stalled reader holds up neither a thread that logs nor an exit.  Every thread
\* comes out of try_line with all its lines sent or dropped, unless a flush ends the
\* process first, and a flush ends it, whatever the reader does.
NobodyHeld ==
  /\ <>(exited \/ \A s \in Senders : spc[s] = "run" /\ sent[s] = MaxLines)
  /\ \A s \in Senders : spc[s] = "flush" ~> exited

\* Every dropped line is reported to the operator in the end, provided the
\* reader comes back and the process goes on.
DropsReported ==
  []<>~stalled => [](DROPPED > reported => <>(exited \/ reported = DROPPED))

\* What flush's comment promises (logq.rs:141-142): it waits "until every queued
\* line has been WRITTEN (not merely dequeued)".  Read as weakly as possible: a
\* flush that did not time out has the flushing thread's own lines written.
FlushedIsWritten ==
  \A s \in Senders : spc[s] = "flushed" => Unwritten(s) = {}
=============================================================================
