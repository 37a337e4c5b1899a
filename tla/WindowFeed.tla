----------------------------- MODULE WindowFeed -----------------------------
(***************************************************************************)
(* What a table reader of call45aggr promises to the thread that drains    *)
(* its queue, without the clock and the SQL polling by which it keeps the  *)
(* promise.  Time is cut into windows (startTime_, stopTime_]; a window's  *)
(* rows are put on the queue in id order; startTime_ moves only when the   *)
(* window is exhausted, so it is a watermark: what has been read.          *)
(*                                                                         *)
(* WindowReader implements this module.  MergeContainer composes two       *)
(* instances of it, one for call_leg and one for call_leg_link.            *)
(***************************************************************************)
EXTENDS Integers, Sequences

CONSTANTS
    Rows,             \* every row the source table ever holds
    StartTime,        \* start_time of a row
    Id,               \* the select's order; call_leg_id repeats across servers
    Punctual,         \* the rows written at most read_waiting after their start
    Start,            \* argument of setStart
    read_threshold,   \* length of a window near real time
    max_call_time,    \* length of a window while catching up
    max_queue_size

VARIABLES
    startTime_,       \* everything up to here has been put on the queue
    stopTime_,        \* end of the current window
    paused_,          \* set and cleared by the draining thread
    phase,            \* where the reader is in its loop
    batch,            \* rows of the current window still to be put
    queue,            \* the moodycamel queue between reader and drainer
    reads             \* history: how often each row was put on the queue

vars == <<startTime_, stopTime_, paused_, phase, batch, queue, reads>>

-----------------------------------------------------------------------------
\* The rows of the half-open interval the select statement names.
Window(from, to) == {r \in Rows : StartTime[r] > from /\ StartTime[r] <= to}

\* The window is read in id order, not in time order.
Lowest(S) == {r \in S : \A q \in S : Id[r] <= Id[q]}

Init ==
    /\ startTime_ = Start
    /\ stopTime_ = Start + read_threshold
    /\ paused_ = FALSE
    /\ phase = "wait"
    /\ batch = {}
    /\ queue = <<>>
    /\ reads = [r \in Rows |-> 0]

\* A window is entered only when some row is younger than its end.
Admit ==
    /\ phase = "wait"
    /\ ~paused_
    /\ \E r \in Rows : StartTime[r] > stopTime_
    /\ phase' = "select"
    /\ UNCHANGED <<startTime_, stopTime_, paused_, batch, queue, reads>>

\* The select returns every punctual row of the window; of the others, any.
Select ==
    /\ phase = "select"
    /\ \E late \in SUBSET (Window(startTime_, stopTime_) \ Punctual) :
          batch' = (Window(startTime_, stopTime_) \cap Punctual) \cup late
    /\ phase' = "put"
    /\ UNCHANGED <<startTime_, stopTime_, paused_, queue, reads>>

Put ==
    /\ phase = "put"
    /\ Len(queue) < max_queue_size
    /\ \E r \in Lowest(batch) :
          /\ batch' = batch \ {r}
          /\ queue' = Append(queue, r)
          /\ reads' = [reads EXCEPT ![r] = @ + 1]
    /\ UNCHANGED <<startTime_, stopTime_, paused_, phase>>

Advance ==
    /\ phase = "put"
    /\ batch = {}
    /\ startTime_' = stopTime_
    /\ phase' = "slide"
    /\ UNCHANGED <<stopTime_, paused_, batch, queue, reads>>

\* A window of max_call_time only when some row lies beyond it.
Slide ==
    /\ phase = "slide"
    /\ \/ stopTime_' = stopTime_ + read_threshold
       \/ /\ \E r \in Rows : StartTime[r] > stopTime_ + max_call_time
          /\ stopTime_' = stopTime_ + max_call_time
    /\ phase' = "wait"
    /\ UNCHANGED <<startTime_, paused_, batch, queue, reads>>

\* The reader leaves its loop between two windows.
Quit ==
    /\ phase = "wait"
    /\ phase' = "done"
    /\ UNCHANGED <<startTime_, stopTime_, paused_, batch, queue, reads>>

Reader == Admit \/ Select \/ Put \/ Advance \/ Slide \/ Quit

-----------------------------------------------------------------------------
\* The draining thread: a bulk dequeue of any non-empty prefix, and the flag.
Dequeue(n) ==
    /\ n \in 1..Len(queue)
    /\ queue' = SubSeq(queue, n + 1, Len(queue))
    /\ UNCHANGED <<startTime_, stopTime_, paused_, phase, batch, reads>>

SetPaused(b) ==
    /\ paused_' = b
    /\ UNCHANGED <<startTime_, stopTime_, phase, batch, queue, reads>>

Next ==
    \/ Reader
    \/ \E n \in 1..Len(queue) : Dequeue(n)
    \/ \E b \in BOOLEAN : SetPaused(b)

Spec == Init /\ [][Next]_vars
=============================================================================
