----------------------------- MODULE LogQProofs -----------------------------
(***************************************************************************)
(* Proofs about LogQ for any number of threads, any capacity and any       *)
(* number of lines: the types, the accounting of QUEUED, and the bound on  *)
(* what a flush that did not time out can leave behind.                    *)
(***************************************************************************)
EXTENDS LogQ, FiniteSetTheorems, SequenceTheorems, TLAPS

LogInv == TypeOK /\ Accounting

\* The threads between a send and its count are finitely many.
LEMMA UncountedFinite == IsFiniteSet(Uncounted) /\ Cardinality(Uncounted) \in Nat
  BY LogQAssumption, FS_Subset, FS_CardinalityType DEF Uncounted

\* A thread that has sent and not counted adds one to their number.
LEMMA OneMore ==
  ASSUME NEW s \in Senders, s \notin Uncounted, Uncounted' = Uncounted \cup {s}
  PROVE  Cardinality(Uncounted)' = Cardinality(Uncounted) + 1
  BY UncountedFinite, FS_AddElement

\* A thread that counts its line takes one from their number.
LEMMA OneLess ==
  ASSUME NEW s \in Senders, s \in Uncounted, Uncounted' = Uncounted \ {s}
  PROVE  Cardinality(Uncounted)' = Cardinality(Uncounted) - 1
  BY UncountedFinite, FS_RemoveElement

\* The initial state satisfies the invariant.
LEMMA LogInit == Init => LogInv
<1> SUFFICES ASSUME Init PROVE LogInv
  OBVIOUS
<1>1. TypeOK
  <2>1. <<>> \in Seq(Lines) /\ Len(<<>>) = 0
    OBVIOUS
  <2>2. 0 \in 0 .. MaxLines /\ 0 <= CAP
    BY LogQAssumption
  <2>3. channel \in Seq(Lines) /\ Len(channel) <= CAP /\ written \in Seq(Lines)
    BY <2>1, <2>2 DEF Init
  <2>4. spc \in [Senders -> SenderPc] /\ sent \in [Senders -> 0 .. MaxLines]
    BY <2>2 DEF Init, SenderPc
  <2>5. lost \subseteq Lines /\ DROPPED \in Nat /\ QUEUED \in Int /\ reported \in Nat
    BY DEF Init
  <2>6. wpc \in {"recv", "emit", "count", "report"}
        /\ wline \in (IF wpc \in {"emit", "count"} THEN Lines ELSE {NoLine})
    BY DEF Init
  <2>7. stalled \in BOOLEAN /\ exited \in BOOLEAN
    BY DEF Init
  <2> QED
    BY <2>3, <2>4, <2>5, <2>6, <2>7 DEF TypeOK
<1>2. Uncounted = {}
  BY DEF Init, Uncounted
<1>3. Cardinality(Uncounted) = 0
  BY <1>2, FS_EmptySet
<1> QED
  BY <1>1, <1>3 DEF Init, LogInv, Accounting, InHand

\* The types are kept by every step.
LEMMA LogTypes == TypeOK /\ [Next]_vars => TypeOK'
<1> SUFFICES ASSUME TypeOK, [Next]_vars PROVE TypeOK'
  OBVIOUS
<1> USE LogQAssumption DEF TypeOK, SenderPc
<1>1. ASSUME NEW s \in Senders, TrySend(s) PROVE TypeOK'
  <2>1. NextLine(s) \in Lines /\ sent[s] + 1 \in 0 .. MaxLines
    BY <1>1 DEF TrySend, NextLine, Lines
  <2> QED
    BY <1>1, <2>1 DEF TrySend
<1>2. ASSUME NEW s \in Senders, CountSent(s) PROVE TypeOK'
  BY <1>2 DEF CountSent
<1>3. ASSUME NEW s \in Senders, TrySendFull(s) PROVE TypeOK'
  <2>1. NextLine(s) \in Lines /\ sent[s] + 1 \in 0 .. MaxLines
    BY <1>3 DEF TrySendFull, NextLine, Lines
  <2> QED
    BY <1>3, <2>1 DEF TrySendFull
<1>4. ASSUME NEW s \in Senders, Flush(s) PROVE TypeOK'
  BY <1>4 DEF Flush, FlushBegin, FlushSeesNone, FlushTimeout, Exit
<1>5. CASE Recv
  <2>1. Head(channel) \in Lines /\ Tail(channel) \in Seq(Lines)
        /\ Len(Tail(channel)) <= CAP
    BY <1>5 DEF Recv
  <2> QED
    BY <1>5, <2>1 DEF Recv
<1>6. CASE Emit
  <2>1. wline \in Lines
    BY <1>6 DEF Emit
  <2>2. Append(written, wline) \in Seq(Lines)
    BY <2>1
  <2> QED
    BY <1>6, <2>1, <2>2 DEF Emit
<1>7. CASE CountWritten
  BY <1>7 DEF CountWritten
<1>8. CASE ReportDrops
  BY <1>8 DEF ReportDrops
<1>9. CASE ReaderToggles
  BY <1>9 DEF ReaderToggles
<1>10. CASE UNCHANGED vars
  BY <1>10 DEF vars
<1> QED
  BY <1>1, <1>2, <1>3, <1>4, <1>5, <1>6, <1>7, <1>8, <1>9, <1>10
     DEF Next, TryLine, Writer

\* QUEUED stays exact up to the sends that are not counted yet.
LEMMA LogAccounting == LogInv /\ [Next]_vars => Accounting'
<1> SUFFICES ASSUME LogInv, [Next]_vars PROVE Accounting'
  OBVIOUS
<1> USE DEF LogInv, Accounting, InHand
<1>0. Cardinality(Uncounted) \in Nat /\ Len(channel) \in Nat /\ QUEUED \in Int
  BY UncountedFinite DEF TypeOK
<1>1. ASSUME NEW s \in Senders, TrySend(s) PROVE Accounting'
  <2>1. s \notin Uncounted /\ Uncounted' = Uncounted \cup {s}
    BY <1>1 DEF TrySend, Uncounted, TypeOK
  <2>2. Cardinality(Uncounted)' = Cardinality(Uncounted) + 1
    BY <2>1, OneMore
  <2>3. Len(channel') = Len(channel) + 1
    BY <1>1 DEF TrySend, TypeOK
  <2>4. QUEUED' = QUEUED /\ wpc' = wpc
    BY <1>1 DEF TrySend
  <2> QED
    BY <1>0, <2>2, <2>3, <2>4
<1>2. ASSUME NEW s \in Senders, CountSent(s) PROVE Accounting'
  <2>1. s \in Uncounted /\ Uncounted' = Uncounted \ {s}
    BY <1>2 DEF CountSent, Uncounted, TypeOK
  <2>2. Cardinality(Uncounted)' = Cardinality(Uncounted) - 1
    BY <2>1, OneLess
  <2>3. QUEUED' = QUEUED + 1 /\ wpc' = wpc /\ channel' = channel
    BY <1>2 DEF CountSent
  <2> QED
    BY <1>0, <2>2, <2>3
<1>3. ASSUME Uncounted' = Uncounted, UNCHANGED <<channel, QUEUED, wpc>>
      PROVE  Accounting'
  BY <1>3
<1>4. ASSUME NEW s \in Senders, TrySendFull(s) \/ Flush(s) PROVE Accounting'
  <2>1. Uncounted' = Uncounted
    BY <1>4 DEF TrySendFull, Flush, FlushBegin, FlushSeesNone, FlushTimeout,
                Exit, Uncounted, TypeOK
  <2>2. UNCHANGED <<channel, QUEUED, wpc>>
    BY <1>4 DEF TrySendFull, Flush, FlushBegin, FlushSeesNone, FlushTimeout, Exit
  <2> QED
    BY <1>3, <2>1, <2>2
<1>5. CASE Recv
  <2>1. Uncounted' = Uncounted /\ QUEUED' = QUEUED
    BY <1>5 DEF Recv, Uncounted
  <2>2. Len(channel') = Len(channel) - 1 /\ wpc = "recv" /\ wpc' = "emit"
    BY <1>5 DEF Recv, TypeOK
  <2> QED
    BY <1>0, <2>1, <2>2
<1>6. CASE Emit
  BY <1>6 DEF Emit, Uncounted
<1>7. CASE CountWritten
  <2>1. Uncounted' = Uncounted /\ channel' = channel
    BY <1>7 DEF CountWritten, Uncounted
  <2>2. QUEUED' = QUEUED - 1 /\ wpc = "count" /\ wpc' = "report"
    BY <1>7 DEF CountWritten
  <2> QED
    BY <1>0, <2>1, <2>2
<1>8. CASE ReportDrops
  BY <1>8 DEF ReportDrops, Uncounted
<1>9. CASE ReaderToggles \/ UNCHANGED vars
  BY <1>9 DEF ReaderToggles, vars, Uncounted
<1> QED
  BY <1>1, <1>2, <1>4, <1>5, <1>6, <1>7, <1>8, <1>9 DEF Next, TryLine, Writer

\* The invariant holds in every state.
LEMMA LogInvariant == Spec => []LogInv
<1>1. LogInv /\ [Next]_vars => LogInv'
  BY LogTypes, LogAccounting DEF LogInv
<1> QED
  BY LogInit, <1>1, PTL DEF Spec

\* The variables have their types for any number of threads.
THEOREM TypesHold == Spec => []TypeOK
<1>1. LogInv => TypeOK
  BY DEF LogInv
<1> QED
  BY <1>1, LogInvariant, PTL

\* QUEUED (logq.rs:32, 54, 81) never drifts: it is the lines not yet written
\* less the sends not yet counted, for any number of threads.
THEOREM QueuedNeverDrifts == Spec => []Accounting
<1>1. LogInv => Accounting
  BY DEF LogInv
<1> QED
  BY <1>1, LogInvariant, PTL

\* flush (logq.rs:143-148), when it does not time out, leaves at most one line
\* unwritten for each thread caught between its send and its count.
THEOREM FlushLossBounded == Spec => FlushLoss
<1> DEFINE Step == \A s \in Senders :
             spc[s] = "flush" /\ spc'[s] = "flushed"
               => Len(channel) + InHand <= Cardinality(Uncounted)
<1>1. LogInv /\ [Next]_vars => [Step]_vars
  <2> SUFFICES ASSUME LogInv, Next,
                      NEW s \in Senders, spc[s] = "flush", spc'[s] = "flushed"
               PROVE  Len(channel) + InHand <= Cardinality(Uncounted)
    OBVIOUS
  <2>1. QUEUED <= 0
    <3>1. ASSUME NEW t \in Senders, TryLine(t) PROVE FALSE
      BY <3>1 DEF TryLine, TrySend, CountSent, TrySendFull, LogInv, TypeOK
    <3>2. ASSUME NEW t \in Senders, Flush(t) PROVE QUEUED <= 0
      BY <3>2 DEF Flush, FlushBegin, FlushSeesNone, FlushTimeout, Exit, LogInv,
                  TypeOK
    <3>3. ASSUME Writer \/ ReaderToggles PROVE FALSE
      BY <3>3 DEF Writer, Recv, Emit, CountWritten, ReportDrops, ReaderToggles
    <3> QED
      BY <3>1, <3>2, <3>3 DEF Next
  <2>2. Cardinality(Uncounted) \in Nat /\ Len(channel) \in Nat /\ QUEUED \in Int
    BY UncountedFinite DEF LogInv, TypeOK
  <2>3. InHand \in Nat
    BY DEF InHand
  <2> QED
    BY <2>1, <2>2, <2>3 DEF LogInv, Accounting
<1>2. []LogInv /\ [][Next]_vars => [][Step]_vars
  BY <1>1, PTL
<1> QED
  BY <1>2, LogInvariant DEF Spec, FlushLoss
-----------------------------------------------------------------------------
(* Order and completeness.  A step appends a new number to the trail, adds it *)
(* to the refused lines, or moves a line along the trail, which leaves the    *)
(* trail as it was.                                                           *)

\* Nothing on the trail, and nothing refused, is newer than its thread's count.
Numbered ==
  /\ \A i \in 1 .. Len(Trail) : Trail[i][2] <= sent[Trail[i][1]]
  /\ \A l \in lost : l[2] <= sent[l[1]]

OnceInv == TypeOK /\ EachLineOnce /\ Numbered

\* What the writer is about to write, as a sequence.
Hand == IF wpc = "emit" THEN <<wline>> ELSE <<>>

\* The trail is a sequence of lines.
LEMMA TrailType == TypeOK => /\ Hand \in Seq(Lines)
                             /\ Trail = (written \o Hand) \o channel
                             /\ Trail = written \o (Hand \o channel)
                             /\ Trail \in Seq(Lines)
<1> SUFFICES ASSUME TypeOK
             PROVE  /\ Hand \in Seq(Lines)
                    /\ Trail = (written \o Hand) \o channel
                    /\ Trail = written \o (Hand \o channel)
                    /\ Trail \in Seq(Lines)
  OBVIOUS
<1>1. written \in Seq(Lines) /\ channel \in Seq(Lines)
  BY DEF TypeOK
<1>2. Hand \in Seq(Lines)
  <2>1. CASE wpc = "emit"
    <3>1. wline \in Lines
      BY <2>1 DEF TypeOK
    <3> QED
      BY <2>1, <3>1 DEF Hand
  <2>2. CASE wpc # "emit"
    BY <2>2 DEF Hand
  <2> QED
    BY <2>1, <2>2
<1>3. Trail = (written \o Hand) \o channel
  BY DEF Trail, Hand
<1>4. (written \o Hand) \o channel = written \o (Hand \o channel)
  BY <1>1, <1>2, ConcatAssociative
<1>5. (written \o Hand) \o channel \in Seq(Lines)
  BY <1>1, <1>2, ConcatProperties
<1> QED
  BY <1>2, <1>3, <1>4, <1>5

\* Sending a line appends it to the trail.
LEMMA TrailSend ==
  ASSUME TypeOK, TypeOK', NEW s \in Senders, TrySend(s)
  PROVE  /\ NextLine(s) \in Lines
         /\ Trail' = Append(Trail, NextLine(s))
<1>1. NextLine(s) \in Lines
  BY DEF TrySend, NextLine, Lines, TypeOK
<1>2. channel \in Seq(Lines) /\ written \in Seq(Lines) /\ Hand \in Seq(Lines)
      /\ Trail \in Seq(Lines) /\ Trail = (written \o Hand) \o channel
  BY TrailType DEF TypeOK
<1>3. channel' = channel \o <<NextLine(s)>>
  BY <1>1, <1>2, AppendIsConcat DEF TrySend
<1>4. Trail' = (written \o Hand) \o (channel \o <<NextLine(s)>>)
  BY <1>3 DEF Trail, Hand, TrySend
<1>5. written \o Hand \in Seq(Lines) /\ <<NextLine(s)>> \in Seq(Lines)
  BY <1>1, <1>2, ConcatProperties
<1>6. Trail' = Trail \o <<NextLine(s)>>
  BY <1>2, <1>4, <1>5, ConcatAssociative
<1> QED
  BY <1>1, <1>2, <1>6, AppendIsConcat

\* Receiving a line moves it from the channel to the writer's hand.
LEMMA TrailRecv == TypeOK /\ TypeOK' /\ Recv => Trail' = Trail
<1> SUFFICES ASSUME TypeOK, TypeOK', Recv PROVE Trail' = Trail
  OBVIOUS
<1>1. channel \in Seq(Lines) /\ channel # <<>> /\ written \in Seq(Lines)
  BY DEF Recv, TypeOK
<1>2. Head(channel) \in Lines /\ Tail(channel) \in Seq(Lines)
  BY <1>1, HeadTailProperties
<1>3. channel = <<Head(channel)>> \o Tail(channel)
  BY <1>1, <1>2
<1>4. Hand = <<>> /\ Hand' = <<Head(channel)>> /\ channel' = Tail(channel)
      /\ written' = written
  BY DEF Hand, Recv
<1>5. Trail = written \o channel
  BY <1>1, <1>4, ConcatEmptySeq DEF Trail, Hand
<1>6. Trail' = written \o (<<Head(channel)>> \o Tail(channel))
  <2>1. Trail' = (written \o <<Head(channel)>>) \o Tail(channel)
    BY <1>4 DEF Trail, Hand
  <2> QED
    BY <1>1, <1>2, <2>1, ConcatAssociative
<1> QED
  BY <1>3, <1>5, <1>6

\* Writing a line moves it from the writer's hand to stdout.
LEMMA TrailEmit == TypeOK /\ TypeOK' /\ Emit => Trail' = Trail
<1> SUFFICES ASSUME TypeOK, TypeOK', Emit PROVE Trail' = Trail
  OBVIOUS
<1>1. wline \in Lines /\ written \in Seq(Lines) /\ channel \in Seq(Lines)
  BY DEF Emit, TypeOK
<1>2. Hand = <<wline>> /\ Hand' = <<>> /\ channel' = channel
      /\ written' = written \o <<wline>>
  BY <1>1, AppendIsConcat DEF Hand, Emit
<1>3. Trail = (written \o <<wline>>) \o channel
  BY <1>2 DEF Trail, Hand
<1>4. written \o <<wline>> \in Seq(Lines)
  BY <1>1, ConcatProperties
<1>5. Trail' = ((written \o <<wline>>) \o <<>>) \o channel
  BY <1>2 DEF Trail, Hand
<1> QED
  BY <1>3, <1>4, <1>5, ConcatEmptySeq

\* The initial state satisfies the invariant.
LEMMA OnceInit == Init => OnceInv
<1> SUFFICES ASSUME Init PROVE OnceInv
  OBVIOUS
<1>1. TypeOK
  BY LogInit DEF LogInv
<1>2. Trail = <<>>
  BY ConcatEmptySeq DEF Init, Trail
<1>3. Len(Trail) = 0 /\ lost = {} /\ \A s \in Senders : sent[s] = 0
  BY <1>2 DEF Init
<1> QED
  BY <1>1, <1>3 DEF OnceInv, EachLineOnce, Numbered

\* Every step keeps the order and loses nothing.
LEMMA OnceStep == OnceInv /\ [Next]_vars => OnceInv'
<1> SUFFICES ASSUME OnceInv, [Next]_vars PROVE OnceInv'
  OBVIOUS
<1>0. TypeOK /\ TypeOK' /\ Trail \in Seq(Lines) /\ Len(Trail) \in Nat
  BY LogTypes, TrailType DEF OnceInv
<1>1. ASSUME Trail' = Trail, lost' = lost, sent' = sent PROVE OnceInv'
  BY <1>0, <1>1 DEF OnceInv, EachLineOnce, Numbered
<1>2. ASSUME NEW s \in Senders, TrySend(s) PROVE OnceInv'
  <2> DEFINE new == NextLine(s)
  <2>1. /\ new \in Lines /\ new[1] = s /\ new[2] = sent[s] + 1
        /\ Trail' = Append(Trail, new)
    BY <1>0, <1>2, TrailSend DEF NextLine
  <2>2. /\ lost' = lost /\ sent[s] \in Nat /\ sent'[s] = sent[s] + 1
        /\ \A t \in Senders : t # s => sent'[t] = sent[t]
    BY <1>0, <1>2 DEF TrySend, TypeOK
  <2>3. /\ Len(Trail') = Len(Trail) + 1
        /\ Trail'[Len(Trail) + 1] = new
        /\ \A i \in 1 .. Len(Trail) : Trail'[i] = Trail[i]
    BY <1>0, <2>1
  <2>4. \A i \in 1 .. Len(Trail) : Trail[i] \in Lines
    BY <1>0
  <2>5. \A t \in Senders : sent[t] \in Nat
    BY <1>0 DEF TypeOK
  <2> HIDE DEF new
  <2>6. Numbered'
    <3>1. ASSUME NEW i \in 1 .. Len(Trail') PROVE Trail'[i][2] <= sent'[Trail'[i][1]]
      <4>1. CASE i = Len(Trail) + 1
        BY <2>1, <2>2, <2>3, <4>1
      <4>2. CASE i # Len(Trail) + 1
        <5>1. i \in 1 .. Len(Trail) /\ Trail'[i] = Trail[i]
          BY <1>0, <2>3, <4>2
        <5>2. Trail[i][1] \in Senders /\ Trail[i][2] \in Nat
          BY <2>4, <5>1 DEF Lines
        <5>3. Trail[i][2] <= sent[Trail[i][1]]
          BY <5>1 DEF OnceInv, Numbered
        <5> QED
          BY <2>2, <2>5, <5>1, <5>2, <5>3
      <4> QED
        BY <4>1, <4>2
    <3>2. ASSUME NEW l \in lost PROVE l[2] <= sent'[l[1]]
      <4>1. l[1] \in Senders /\ l[2] \in Nat /\ l[2] <= sent[l[1]]
        BY <1>0 DEF TypeOK, Lines, OnceInv, Numbered
      <4> QED
        BY <2>2, <2>5, <4>1
    <3> QED
      BY <2>2, <3>1, <3>2 DEF Numbered
  <2>7. ASSUME NEW i \in 1 .. Len(Trail'), NEW j \in 1 .. Len(Trail'),
               i < j, Trail'[i][1] = Trail'[j][1]
        PROVE  Trail'[i][2] < Trail'[j][2]
    <3>1. i \in 1 .. Len(Trail) /\ Trail'[i] = Trail[i]
      BY <1>0, <2>3, <2>7
    <3>2. CASE j \in 1 .. Len(Trail)
      BY <2>3, <2>7, <3>1, <3>2 DEF OnceInv, EachLineOnce
    <3>3. CASE j = Len(Trail) + 1
      <4>1. Trail[i][2] <= sent[s] /\ Trail[i][2] \in Nat
        BY <2>1, <2>3, <2>4, <2>7, <3>1, <3>3 DEF OnceInv, Numbered, Lines
      <4> QED
        BY <2>1, <2>2, <2>3, <3>1, <3>3, <4>1
    <3> QED
      BY <1>0, <2>3, <3>2, <3>3
  <2>8. ASSUME NEW t \in Senders, NEW n \in 1 .. sent'[t]
        PROVE  <<t, n>> \in lost <=> \A i \in 1 .. Len(Trail') : Trail'[i] # <<t, n>>
    <3>1. CASE t = s /\ n = sent[s] + 1
      <4>1. Trail'[Len(Trail) + 1] = <<t, n>>
        BY <2>3, <3>1 DEF new, NextLine
      <4>2. <<t, n>> \notin lost
        BY <2>2, <3>1 DEF OnceInv, Numbered
      <4> QED
        BY <1>0, <2>3, <4>1, <4>2
    <3>2. CASE ~(t = s /\ n = sent[s] + 1)
      <4>1. n \in 1 .. sent[t]
        BY <2>2, <2>5, <3>2
      <4>2. <<t, n>> # new
        BY <3>2 DEF new, NextLine
      <4>3. (\A i \in 1 .. Len(Trail') : Trail'[i] # <<t, n>>)
              <=> \A i \in 1 .. Len(Trail) : Trail[i] # <<t, n>>
        <5>1. 1 .. Len(Trail') = (1 .. Len(Trail)) \cup {Len(Trail) + 1}
          BY <1>0, <2>3
        <5> QED
          BY <2>3, <4>2, <5>1
      <4> QED
        BY <4>1, <4>3 DEF OnceInv, EachLineOnce
    <3> QED
      BY <3>1, <3>2
  <2> QED
    BY <1>0, <2>2, <2>6, <2>7, <2>8 DEF OnceInv, EachLineOnce
<1>3. ASSUME NEW s \in Senders, TrySendFull(s) PROVE OnceInv'
  <2>1. Trail' = Trail /\ lost' = lost \cup {<<s, sent[s] + 1>>}
    BY <1>3 DEF TrySendFull, Trail, NextLine
  <2>2. /\ sent[s] \in Nat /\ sent'[s] = sent[s] + 1
        /\ \A t \in Senders : t # s => sent'[t] = sent[t]
        /\ \A t \in Senders : sent[t] \in Nat
    BY <1>0, <1>3 DEF TrySendFull, TypeOK
  <2>3. \A i \in 1 .. Len(Trail) : Trail[i] \in Lines
    BY <1>0
  <2>4. Numbered'
    <3>1. ASSUME NEW i \in 1 .. Len(Trail) PROVE Trail[i][2] <= sent'[Trail[i][1]]
      <4>1. Trail[i][1] \in Senders /\ Trail[i][2] \in Nat
            /\ Trail[i][2] <= sent[Trail[i][1]]
        BY <2>3 DEF Lines, OnceInv, Numbered
      <4> QED
        BY <2>2, <4>1
    <3>2. ASSUME NEW l \in lost PROVE l[2] <= sent'[l[1]]
      <4>1. l[1] \in Senders /\ l[2] \in Nat /\ l[2] <= sent[l[1]]
        BY <1>0 DEF TypeOK, Lines, OnceInv, Numbered
      <4> QED
        BY <2>2, <4>1
    <3> QED
      BY <2>1, <2>2, <3>1, <3>2 DEF Numbered
  <2>5. ASSUME NEW t \in Senders, NEW n \in 1 .. sent'[t]
        PROVE  <<t, n>> \in lost' <=> \A i \in 1 .. Len(Trail) : Trail[i] # <<t, n>>
    <3>1. CASE t = s /\ n = sent[s] + 1
      <4>1. \A i \in 1 .. Len(Trail) : Trail[i] # <<t, n>>
        BY <2>2, <3>1 DEF OnceInv, Numbered
      <4> QED
        BY <2>1, <3>1, <4>1
    <3>2. CASE ~(t = s /\ n = sent[s] + 1)
      <4>1. n \in 1 .. sent[t] /\ <<t, n>> # <<s, sent[s] + 1>>
        BY <2>2, <3>2
      <4> QED
        BY <2>1, <4>1 DEF OnceInv, EachLineOnce
    <3> QED
      BY <3>1, <3>2
  <2> QED
    BY <1>0, <2>1, <2>4, <2>5 DEF OnceInv, EachLineOnce
<1>4. ASSUME NEW s \in Senders, CountSent(s) \/ Flush(s) PROVE OnceInv'
  <2>1. UNCHANGED <<written, wpc, wline, channel, lost, sent>>
    BY <1>4 DEF CountSent, Flush, FlushBegin, FlushSeesNone, FlushTimeout, Exit
  <2> QED
    BY <1>1, <2>1 DEF Trail
<1>5. CASE Recv
  BY <1>0, <1>1, <1>5, TrailRecv DEF Recv
<1>6. CASE Emit
  BY <1>0, <1>1, <1>6, TrailEmit DEF Emit
<1>7. CASE CountWritten
  <2>1. Trail' = Trail
    BY <1>7 DEF CountWritten, Trail
  <2> QED
    BY <1>1, <1>7, <2>1 DEF CountWritten
<1>8. CASE ReportDrops
  <2>1. Trail' = Trail
    BY <1>8 DEF ReportDrops, Trail
  <2> QED
    BY <1>1, <1>8, <2>1 DEF ReportDrops
<1>9. CASE ReaderToggles \/ UNCHANGED vars
  BY <1>1, <1>9 DEF ReaderToggles, vars, Trail
<1> QED
  BY <1>2, <1>3, <1>4, <1>5, <1>6, <1>7, <1>8, <1>9 DEF Next, TryLine, Writer

\* For any number of threads, each line is refused or written once and in its
\* thread's order (logq.rs:22).
THEOREM EachLineOnceHolds == Spec => []EachLineOnce
<1>1. OnceInv => EachLineOnce
  BY DEF OnceInv
<1> QED
  BY <1>1, OnceInit, OnceStep, PTL DEF Spec
=============================================================================
