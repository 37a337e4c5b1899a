-------------------------- MODULE WindowFeedProofs --------------------------
(***************************************************************************)
(* What follows from the promise of a reader alone.  MergeContainerProofs  *)
(* uses these facts twice, for call_leg and for call_leg_link.             *)
(***************************************************************************)
EXTENDS WindowFeed, TLAPS

\* The part of the assumptions on the settings and the table that is needed.
FeedConstants ==
    /\ StartTime \in [Rows -> Nat]
    /\ Punctual \subseteq Rows
    /\ Start \in Nat
    /\ read_threshold \in Nat /\ max_call_time \in Nat /\ read_threshold <= max_call_time

FeedTypes ==
    /\ startTime_ \in Nat /\ stopTime_ \in Nat
    /\ batch \in SUBSET Rows
    /\ queue \in Seq(Rows)
    /\ reads \in [Rows -> {0, 1}]

\* The window never turns round and is never longer than max_call_time.
SpanInv ==
    /\ Start <= startTime_ /\ startTime_ <= stopTime_
    /\ stopTime_ <= startTime_ + max_call_time
    /\ phase = "slide" => startTime_ = stopTime_

\* What is still to be put lies in the window and has not been put before.
BatchInv ==
    /\ phase # "put" => batch = {}
    /\ \A r \in batch : reads[r] = 0 /\ startTime_ < StartTime[r] /\ StartTime[r] <= stopTime_

\* Nothing beyond the window has been put, and inside it only while it is put.
ReadInv ==
    \A r \in Rows : reads[r] = 1 =>
        /\ Start < StartTime[r] /\ StartTime[r] <= stopTime_
        /\ StartTime[r] > startTime_ => phase = "put"

\* Nothing punctual is missing behind the window.
CompleteInv ==
    \A r \in Punctual :
        /\ Start < StartTime[r] /\ StartTime[r] <= startTime_ => reads[r] = 1
        /\ phase = "put" /\ startTime_ < StartTime[r] /\ StartTime[r] <= stopTime_
              => r \in batch \/ reads[r] = 1

FeedInv == FeedTypes /\ SpanInv /\ BatchInv /\ ReadInv /\ CompleteInv

LEMMA FeedInit == ASSUME FeedConstants, Init PROVE FeedInv
BY DEF FeedConstants, Init, FeedInv, FeedTypes, SpanInv, BatchInv, ReadInv, CompleteInv

\* The drainer may do to queue and flag what it likes.
LEMMA FeedDrained ==
    ASSUME FeedInv, UNCHANGED <<startTime_, stopTime_, phase, batch, reads>>, queue' \in Seq(Rows)
    PROVE  FeedInv'
BY DEF FeedInv, FeedTypes, SpanInv, BatchInv, ReadInv, CompleteInv

LEMMA FeedStep == ASSUME FeedConstants, FeedInv, Reader PROVE FeedInv'
<1> USE DEF FeedConstants, FeedInv
<1>1. CASE Admit
  BY <1>1 DEF Admit, FeedTypes, SpanInv, BatchInv, ReadInv, CompleteInv
<1>2. CASE Select
  <2>1. /\ phase = "select" /\ phase' = "put" /\ batch = {}
        /\ UNCHANGED <<startTime_, stopTime_, queue, reads>>
        /\ batch' \subseteq Window(startTime_, stopTime_)
        /\ Window(startTime_, stopTime_) \cap Punctual \subseteq batch'
    BY <1>2 DEF Select, BatchInv
  <2>2. \A r \in batch' : r \in Rows /\ startTime_ < StartTime[r] /\ StartTime[r] <= stopTime_
    BY <2>1 DEF Window
  <2>3. FeedTypes' /\ SpanInv'
    BY <2>1, <2>2 DEF FeedTypes, SpanInv
  <2>4. BatchInv'
    BY <2>1, <2>2 DEF BatchInv, ReadInv, FeedTypes
  <2>5. ReadInv'
    BY <2>1 DEF ReadInv
  <2>6. CompleteInv'
    BY <2>1 DEF CompleteInv, Window
  <2> QED
    BY <2>3, <2>4, <2>5, <2>6
<1>3. CASE Put
  <2>1. PICK r \in batch : /\ batch' = batch \ {r} /\ queue' = Append(queue, r)
                           /\ reads' = [reads EXCEPT ![r] = @ + 1]
    BY <1>3 DEF Put, Lowest
  <2>2. phase = "put" /\ UNCHANGED <<startTime_, stopTime_, phase>>
    BY <1>3 DEF Put
  <2>3. r \in Rows /\ reads[r] = 0 /\ startTime_ < StartTime[r] /\ StartTime[r] <= stopTime_
    BY DEF FeedTypes, BatchInv
  <2>4. reads' = [reads EXCEPT ![r] = 1]
    BY <2>1, <2>3
  <2>5. FeedTypes' /\ SpanInv'
    BY <2>1, <2>2, <2>3, <2>4 DEF FeedTypes, SpanInv
  <2>6. BatchInv' /\ ReadInv' /\ CompleteInv'
    BY <2>1, <2>2, <2>3, <2>4 DEF FeedTypes, SpanInv, BatchInv, ReadInv, CompleteInv
  <2> QED
    BY <2>5, <2>6
<1>4. CASE Advance
  BY <1>4 DEF Advance, FeedTypes, SpanInv, BatchInv, ReadInv, CompleteInv
<1>5. CASE Slide
  <2>1. /\ phase = "slide" /\ phase' = "wait"
        /\ stopTime_' \in Nat /\ stopTime_ <= stopTime_' /\ stopTime_' <= stopTime_ + max_call_time
        /\ UNCHANGED <<startTime_, batch, queue, reads>>
    BY <1>5 DEF Slide, FeedTypes
  <2> QED
    BY <2>1 DEF FeedTypes, SpanInv, BatchInv, ReadInv, CompleteInv
<1>6. CASE Quit
  BY <1>6 DEF Quit, FeedTypes, SpanInv, BatchInv, ReadInv, CompleteInv
<1> QED
  BY <1>1, <1>2, <1>3, <1>4, <1>5, <1>6 DEF Reader

\* What the drainer sees of a step of the reader: nothing, or one new row at
\* the end of the queue, of a start time inside the window.
LEMMA FeedPuts ==
    ASSUME FeedConstants, FeedInv, Reader
    PROVE  /\ startTime_' >= startTime_ /\ stopTime_' >= stopTime_ /\ paused_' = paused_
           /\ \/ UNCHANGED <<queue, reads>>
              \/ /\ UNCHANGED <<startTime_, stopTime_>>
                 /\ \E r \in Rows : /\ reads[r] = 0
                                    /\ startTime_ < StartTime[r] /\ StartTime[r] <= stopTime_
                                    /\ queue' = Append(queue, r)
                                    /\ reads' = [reads EXCEPT ![r] = 1]
<1> USE DEF FeedConstants, FeedInv, FeedTypes
<1>1. CASE Admit \/ Select \/ Quit
  BY <1>1 DEF Admit, Select, Quit
<1>2. CASE Put
  <2>1. PICK r \in batch : /\ queue' = Append(queue, r)
                           /\ reads' = [reads EXCEPT ![r] = @ + 1]
    BY <1>2 DEF Put, Lowest
  <2>2. r \in Rows /\ reads[r] = 0 /\ startTime_ < StartTime[r] /\ StartTime[r] <= stopTime_
    BY DEF BatchInv
  <2>3. reads' = [reads EXCEPT ![r] = 1]
    BY <2>1, <2>2
  <2>4. UNCHANGED <<startTime_, stopTime_, paused_>>
    BY <1>2 DEF Put
  <2>5. \E q \in Rows : /\ reads[q] = 0
                        /\ startTime_ < StartTime[q] /\ StartTime[q] <= stopTime_
                        /\ queue' = Append(queue, q)
                        /\ reads' = [reads EXCEPT ![q] = 1]
    BY <2>1, <2>2, <2>3, Zenon
  <2>6. startTime_' >= startTime_ /\ stopTime_' >= stopTime_ /\ paused_' = paused_
    BY <2>4
  <2> QED
    BY <2>4, <2>5, <2>6, Zenon
<1>3. CASE Advance
  BY <1>3 DEF Advance, SpanInv
<1>4. CASE Slide
  BY <1>4 DEF Slide
<1> QED
  BY <1>1, <1>2, <1>3, <1>4 DEF Reader

\* Whoever drains the queue of a reader that keeps its promise: a row is read
\* at most once, and every punctual row up to startTime_ has been read.
THEOREM FeedSafe == FeedConstants /\ Spec => []FeedInv
<1> SUFFICES ASSUME FeedConstants PROVE Spec => []FeedInv
  OBVIOUS
<1>1. Init => FeedInv
  BY FeedInit
<1>2. FeedInv /\ [Next]_vars => FeedInv'
  <2> SUFFICES ASSUME FeedInv, [Next]_vars PROVE FeedInv'
    OBVIOUS
  <2>1. CASE Reader
    BY <2>1, FeedStep
  <2>2. CASE \E n \in 1..Len(queue) : Dequeue(n)
    <3>1. PICK n \in 1..Len(queue) : Dequeue(n)
      BY <2>2
    <3>2. queue' \in Seq(Rows)
      BY <3>1 DEF Dequeue, FeedInv, FeedTypes
    <3> QED
      BY <3>1, <3>2, FeedDrained DEF Dequeue
  <2>3. CASE \E b \in BOOLEAN : SetPaused(b)
    BY <2>3, FeedDrained DEF SetPaused, FeedInv, FeedTypes
  <2>4. CASE UNCHANGED vars
    BY <2>4, FeedDrained DEF vars, FeedInv, FeedTypes
  <2> QED
    BY <2>1, <2>2, <2>3, <2>4 DEF Next
<1> QED
  BY <1>1, <1>2, PTL DEF Spec
=============================================================================
