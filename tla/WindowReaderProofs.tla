------------------------- MODULE WindowReaderProofs -------------------------
(***************************************************************************)
(* Proofs about WindowReader for every table, every clock bound and every  *)
(* setting that satisfies ReaderAssumption.                                *)
(***************************************************************************)
EXTENDS WindowReader, SequenceTheorems, TLAPS

-----------------------------------------------------------------------------
(* The inductive invariant. *)

\* Writers have met every deadline before the current second.
DueInv == \A r \in Punctual : StartTime[r] + read_waiting < now => r \in table

\* The window is open, no longer than max_call_time, and has slid by one
\* window exactly when startTime_ has caught up with stopTime_.
SpanInv ==
    /\ Start <= startTime_
    /\ startTime_ <= stopTime_
    /\ stopTime_ <= startTime_ + max_call_time
    /\ pc = "slide" => startTime_ = stopTime_

\* Once a younger row has been waited for, the window's deadline is past.
SettledInv ==
    pc \in {"paused", "select"} =>
        /\ stopTime_ + read_waiting < now
        /\ \E r \in table : StartTime[r] > stopTime_

\* The batch is what is left of the current window.
BatchInv ==
    /\ pc # "put" => batch = {}
    /\ \A r \in batch : StartTime[r] > startTime_ /\ StartTime[r] <= stopTime_ /\ reads[r] = 0

\* What has been enqueued is not ahead of the window being read.
ReadInv ==
    \A r \in Rows :
        /\ reads[r] <= 1
        /\ reads[r] > 0 => StartTime[r] <= IF pc = "put" THEN stopTime_ ELSE startTime_

\* Nothing punctual is missing behind startTime_, or in the window being put.
CompleteInv ==
    \A r \in Punctual :
        /\ StartTime[r] > Start /\ StartTime[r] <= startTime_ => reads[r] > 0
        /\ pc = "put" /\ StartTime[r] > startTime_ /\ StartTime[r] <= stopTime_
              => r \in batch \/ reads[r] > 0

IInv == TypeOK /\ DueInv /\ SpanInv /\ SettledInv /\ BatchInv /\ ReadInv /\ CompleteInv
-----------------------------------------------------------------------------
\* A bulk dequeue leaves a queue of rows, and a shorter one.
LEMMA DequeueType ==
    ASSUME NEW S, NEW q \in Seq(S), NEW n \in 1..Len(q)
    PROVE  /\ SubSeq(q, n + 1, Len(q)) \in Seq(S)
           /\ Len(SubSeq(q, n + 1, Len(q))) <= Len(q)
  <1>1. \A i \in n + 1 .. Len(q) : q[i] \in S
    BY LenProperties, ElementOfSeq
  <1>2. n + 1 \in Int /\ Len(q) \in Int
    BY LenProperties
  <1> QED BY <1>1, <1>2, SubSeqProperties, LenProperties

-----------------------------------------------------------------------------
\* The invariant holds when setStart has run and the thread starts.
LEMMA InitIInv == Init => IInv
  <1> SUFFICES ASSUME Init PROVE IInv
    OBVIOUS
  <1> USE ReaderAssumption
  <1>1. TypeOK
    <2>1. queue \in Seq(Rows) /\ Len(queue) = 0
      BY DEF Init
    <2>2. table \subseteq Rows /\ now \in 0..MaxTime
      BY DEF Init
    <2>3. startTime_ \in Nat /\ stopTime_ \in Nat /\ startTime_ <= stopTime_
      BY DEF Init
    <2>4. batch \subseteq Rows /\ pc \in Locations /\ reads \in [Rows -> Nat]
      BY DEF Init, Locations
    <2>5. running \in BOOLEAN /\ paused_ \in BOOLEAN
      BY DEF Init
    <2>6. Len(queue) <= max_queue_size
      BY <2>1
    <2> QED BY <2>1, <2>2, <2>3, <2>4, <2>5, <2>6 DEF TypeOK
  <1>2. DueInv
    BY DEF Init, DueInv, Due
  <1>3. SpanInv /\ SettledInv /\ BatchInv
    BY DEF Init, SpanInv, SettledInv, BatchInv
  <1>4. ReadInv /\ CompleteInv
    BY DEF Init, ReadInv, CompleteInv
  <1> QED BY <1>1, <1>2, <1>3, <1>4 DEF IInv

\* Every step of the thread, its owner, the clock and the table's writers keeps
\* the invariant.
LEMMA StepIInv == IInv /\ [Next]_vars => IInv'
  <1> SUFFICES ASSUME IInv, [Next]_vars PROVE IInv'
    OBVIOUS
  <1> USE ReaderAssumption
  <1> USE DEF IInv, TypeOK, SpanInv, Locations, env, members
  <1>1. CASE Tick
    BY <1>1 DEF Tick, Due, DueInv, SettledInv, BatchInv, ReadInv, CompleteInv
  <1>2. ASSUME NEW r \in Rows, Insert(r) PROVE IInv'
    BY <1>2 DEF Insert, DueInv, SettledInv, BatchInv, ReadInv, CompleteInv
  <1>3. CASE Loop
    BY <1>3 DEF Loop, Goto, DueInv, SettledInv, BatchInv, ReadInv, CompleteInv
  <1>4. CASE Quit
    BY <1>4 DEF Quit, Goto, DueInv, SettledInv, BatchInv, ReadInv, CompleteInv
  <1>5. CASE AwaitThreshold
    BY <1>5 DEF AwaitThreshold, Goto, DueInv, SettledInv, BatchInv, ReadInv, CompleteInv
  <1>6. CASE AwaitLaterRow
    BY <1>6 DEF AwaitLaterRow, Exists, Goto, DueInv, SettledInv, BatchInv, ReadInv, CompleteInv
  <1>7. CASE AwaitResume
    BY <1>7 DEF AwaitResume, Goto, DueInv, SettledInv, BatchInv, ReadInv, CompleteInv
  <1>8. CASE Select
    <2>1. /\ pc = "select" /\ pc' = "put"
          /\ batch' = {r \in table : StartTime[r] > startTime_ /\ StartTime[r] <= stopTime_}
          /\ UNCHANGED <<now, table, running, startTime_, stopTime_, paused_, queue, reads>>
      BY <1>8 DEF Select, InWindow, Goto
    <2>2. TypeOK' /\ DueInv' /\ SpanInv' /\ SettledInv'
      BY <2>1 DEF DueInv, SettledInv
    <2>3. \A r \in Rows : reads[r] > 0 => StartTime[r] <= startTime_
      BY <2>1 DEF ReadInv
    <2>4. BatchInv'
      <3> SUFFICES ASSUME NEW r \in batch'
                   PROVE  StartTime[r] > startTime_ /\ StartTime[r] <= stopTime_ /\ reads[r] = 0
        BY <2>1 DEF BatchInv
      <3>1. r \in Rows /\ StartTime[r] > startTime_ /\ StartTime[r] <= stopTime_
        BY <2>1
      <3>2. reads[r] \in Nat /\ ~(reads[r] > 0)
        BY <2>3, <3>1
      <3> QED BY <3>1, <3>2
    <2>5. ReadInv'
      BY <2>1, <2>3 DEF ReadInv
    <2>6. \A r \in Punctual : StartTime[r] <= stopTime_ => r \in table
      BY <2>1 DEF DueInv, SettledInv
    <2>7. CompleteInv'
      BY <2>1, <2>6 DEF CompleteInv
    <2> QED BY <2>2, <2>4, <2>5, <2>7
  <1>9. CASE Enqueue
    <2>1. PICK r \in Lowest(batch) :
             /\ batch' = batch \ {r}
             /\ queue' = Append(queue, r)
             /\ reads' = [reads EXCEPT ![r] = @ + 1]
      BY <1>9 DEF Enqueue
    <2>2. r \in batch /\ r \in Rows
      BY <2>1 DEF Lowest
    <2>3. queue' \in Seq(Rows) /\ Len(queue') <= max_queue_size
      BY <1>9, <2>1, <2>2, AppendProperties DEF Enqueue
    <2> QED
      BY <1>9, <2>1, <2>2, <2>3 DEF Enqueue, DueInv, SettledInv, BatchInv, ReadInv, CompleteInv
  <1>10. CASE Advance
    BY <1>10 DEF Advance, Goto, DueInv, SettledInv, BatchInv, ReadInv, CompleteInv
  <1>11. CASE Slide
    BY <1>11 DEF Slide, Goto, DueInv, SettledInv, BatchInv, ReadInv, CompleteInv
  <1>12. CASE DequeueSome
    <2>1. PICK n \in 1..Len(queue) : Dequeue(n)
      BY <1>12 DEF DequeueSome
    <2>2. queue' \in Seq(Rows) /\ Len(queue') <= max_queue_size
      BY <2>1, DequeueType, LenProperties DEF Dequeue
    <2> QED
      BY <2>1, <2>2 DEF Dequeue, DueInv, SettledInv, BatchInv, ReadInv, CompleteInv
  <1>13. ASSUME NEW b \in BOOLEAN, SetPaused(b) PROVE IInv'
    BY <1>13 DEF SetPaused, DueInv, SettledInv, BatchInv, ReadInv, CompleteInv
  <1>14. CASE Stop
    BY <1>14 DEF Stop, DueInv, SettledInv, BatchInv, ReadInv, CompleteInv
  <1>15. CASE UNCHANGED vars
    BY <1>15 DEF vars, DueInv, SettledInv, BatchInv, ReadInv, CompleteInv
  <1> QED
    BY <1>1, <1>2, <1>3, <1>4, <1>5, <1>6, <1>7, <1>8, <1>9, <1>10, <1>11, <1>12, <1>13,
       <1>14, <1>15 DEF Next, Thread

-----------------------------------------------------------------------------
\* The reader keeps the inductive invariant for ever.
THEOREM ReaderInvariant == Spec => []IInv
  BY InitIInv, StepIInv, PTL DEF Spec

\* Every member of ReadCallLeg keeps its type, the queue its bound.
THEOREM ReaderTypeOK == Spec => []TypeOK
  BY ReaderInvariant, PTL DEF IInv

\* For any table, any lateness and any settings, ReadCallLeg::getSQLData never
\* enqueues a row twice.
THEOREM ReaderAtMostOnce == Spec => []AtMostOnce
  <1>1. IInv => AtMostOnce
    BY DEF IInv, ReadInv, AtMostOnce
  <1> QED BY <1>1, ReaderInvariant, PTL

\* ReadCallLeg::getTime() is a watermark for the rows that are written within
\* read_waiting of their start.
THEOREM ReaderWatermark == Spec => []WatermarkComplete
  <1>1. IInv => WatermarkComplete
    BY DEF IInv, CompleteInv, WatermarkComplete
  <1> QED BY <1>1, ReaderInvariant, PTL

\* A stopped ReadCallLeg stopped between two windows.
THEOREM ReaderWholeWindows == Spec => []WholeWindows
  <1>1. IInv => WholeWindows
    BY DEF IInv, ReadInv, WholeWindows
  <1> QED BY <1>1, ReaderInvariant, PTL

\* No row leaves ReadCallLeg after a row max_call_time younger.
THEOREM ReaderDisorder == Spec => DisorderBelowMaxCallTime
  <1> DEFINE Near == \A r, q \in Rows :
                        reads'[r] # reads[r] /\ reads[q] > 0
                           => StartTime[q] < StartTime[r] + max_call_time
  <1>1. IInv /\ [Next]_vars => [Near]_vars
    <2> SUFFICES ASSUME IInv, Next PROVE Near
      OBVIOUS
    <2> USE DEF env, members
    <2>1. CASE Enqueue
      <3>1. PICK e \in Lowest(batch) : reads' = [reads EXCEPT ![e] = @ + 1]
        BY <2>1 DEF Enqueue
      <3>2. e \in batch /\ e \in Rows /\ StartTime[e] > startTime_
        BY <3>1 DEF Lowest, IInv, BatchInv, TypeOK
      <3>3. \A q \in Rows : reads[q] > 0 => StartTime[q] <= startTime_ + max_call_time
        <4>1. \A q \in Rows : reads[q] > 0 => StartTime[q] <= stopTime_
          BY <2>1 DEF Enqueue, IInv, ReadInv
        <4>2. stopTime_ <= startTime_ + max_call_time
          BY DEF IInv, SpanInv
        <4> QED BY <4>1, <4>2, ReaderAssumption DEF IInv, TypeOK
      <3>4. \A r \in Rows : reads'[r] # reads[r] => r = e
        BY <3>1, <3>2 DEF IInv, TypeOK
      <3> QED
        <4> SUFFICES ASSUME NEW r \in Rows, NEW q \in Rows, reads'[r] # reads[r], reads[q] > 0
                     PROVE  StartTime[q] < StartTime[r] + max_call_time
          OBVIOUS
        <4>1. r = e /\ StartTime[q] <= startTime_ + max_call_time
          BY <3>3, <3>4
        <4> QED BY <3>2, <4>1, ReaderAssumption DEF IInv, TypeOK
    <2>2. CASE ~Enqueue
      <3>1. reads' = reads
        BY <2>2 DEF Next, Thread, Tick, Insert, Loop, Quit, AwaitThreshold, AwaitLaterRow,
                    AwaitResume, Select, Advance, Slide, DequeueSome, Dequeue, SetPaused, Stop
      <3> QED BY <3>1
    <2> QED BY <2>1, <2>2
  <1> QED BY <1>1, ReaderInvariant, PTL DEF Spec, DisorderBelowMaxCallTime
-----------------------------------------------------------------------------
\* The detailed reader implements the abstract one: clock, polling and a
\* growing table are invisible to the thread that drains the queue.
THEOREM ReaderImplementsFeed == Spec => ImplementsFeed
  <1> USE ReaderAssumption DEF env, members
  <1>1. Init => Feed!Init
    BY DEF Init, Feed!Init
  <1>2. IInv /\ [Next]_vars => [Feed!Next]_Feed!vars
    <2> SUFFICES ASSUME IInv, [Next]_vars PROVE [Feed!Next]_Feed!vars
      OBVIOUS
    <2>1. CASE Tick \/ (\E r \in Rows : Insert(r)) \/ Stop \/ UNCHANGED vars
      BY <2>1 DEF Tick, Insert, Stop, vars, Feed!vars
    <2>2. CASE Loop \/ AwaitThreshold \/ AwaitLaterRow
      BY <2>2 DEF Loop, AwaitThreshold, AwaitLaterRow, Goto, Feed!vars
    <2>3. CASE Quit
      BY <2>3 DEF Quit, Goto, Feed!Quit, Feed!Reader, Feed!Next
    <2>4. CASE AwaitResume
      <3>1. \E r \in Rows : StartTime[r] > stopTime_
        BY <2>4 DEF AwaitResume, Goto, IInv, SettledInv, TypeOK
      <3> QED
        BY <2>4, <3>1 DEF AwaitResume, Goto, Feed!Admit, Feed!Reader, Feed!Next
    <2>5. CASE Select
      <3> DEFINE W    == Feed!Window(startTime_, stopTime_)
                 late == batch' \ Punctual
      <3>1. \A r \in Punctual : StartTime[r] <= stopTime_ => r \in table
        BY <2>5 DEF Select, Goto, IInv, DueInv, SettledInv, TypeOK
      <3>2. batch' = {r \in table : StartTime[r] > startTime_ /\ StartTime[r] <= stopTime_}
        BY <2>5 DEF Select, InWindow
      <3>3. late \in SUBSET (W \ Punctual) /\ batch' = (W \cap Punctual) \cup late
        BY <3>1, <3>2 DEF Feed!Window, IInv, TypeOK
      <3>4. Feed!Select
        BY <2>5, <3>3 DEF Select, Goto, Feed!Select
      <3> QED BY <3>4 DEF Feed!Reader, Feed!Next
    <2>6. CASE Enqueue
      BY <2>6 DEF Enqueue, Lowest, Feed!Lowest, Feed!Put, Feed!Reader, Feed!Next
    <2>7. CASE Advance
      BY <2>7 DEF Advance, Goto, Feed!Advance, Feed!Reader, Feed!Next
    <2>8. CASE Slide
      <3>1. Exists(stopTime_ + max_call_time, now - read_waiting)
               => \E r \in Rows : StartTime[r] > stopTime_ + max_call_time
        BY DEF Exists, IInv, TypeOK
      <3> QED
        BY <2>8, <3>1 DEF Slide, Goto, Feed!Slide, Feed!Reader, Feed!Next
    <2>9. CASE DequeueSome
      BY <2>9 DEF DequeueSome, Dequeue, Feed!Dequeue, Feed!Next
    <2>10. CASE \E b \in BOOLEAN : SetPaused(b)
      BY <2>10 DEF SetPaused, Feed!SetPaused, Feed!Next
    <2> QED
      BY <2>1, <2>2, <2>3, <2>4, <2>5, <2>6, <2>7, <2>8, <2>9, <2>10 DEF Next, Thread
  <1> QED
    BY <1>1, <1>2, ReaderInvariant, PTL DEF Spec, Feed!Spec, ImplementsFeed
=============================================================================
