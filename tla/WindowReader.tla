---------------------------- MODULE WindowReader ----------------------------
(***************************************************************************)
(* ReadCallLeg::run and getSQLData: the thread that copies the source      *)
(* table call_leg, window by window, to the queue of MergeContainer.       *)
(* ReadCallLegLink::run is the same loop over call_leg_link; what it adds  *)
(* (waiting for calls that are online) is in module ReadCallLegLink.       *)
(*                                                                         *)
(* The source table grows while it is read and a row appears some time     *)
(* after the start_time it carries.  Seconds are clock ticks.  One action  *)
(* is one access to something another thread or the database can change.   *)
(***************************************************************************)
EXTENDS Integers, Sequences

CONSTANTS
    Rows, StartTime, Id, Punctual, Start,
    read_threshold, max_call_time, max_queue_size,
    read_waiting,     \* a window is read this long after a younger row began
    MaxTime           \* bound on the clock

ASSUME ReaderAssumption ==
    /\ StartTime \in [Rows -> Nat]
    /\ Id \in [Rows -> Nat]
    /\ Punctual \subseteq Rows
    /\ Start \in Nat \ {0}
    /\ read_threshold \in Nat \ {0}
    /\ max_call_time \in Nat
    /\ read_threshold <= max_call_time
    /\ max_queue_size \in Nat \ {0}
    /\ read_waiting \in Nat
    /\ MaxTime \in Nat

VARIABLES
    now,              \* time(NULL)
    table,            \* rows the source table holds now
    running,          \* app::running() and status RUNNING
    startTime_, stopTime_, paused_,
    pc,               \* line of run/getSQLData the thread is at
    batch,            \* rows of the select not yet enqueued
    queue,            \* output_
    reads             \* history: how often each row was enqueued

env     == <<now, table, running>>
members == <<startTime_, stopTime_>>
vars    == <<now, table, running, startTime_, stopTime_, paused_, pc, batch, queue, reads>>

Locations == {"loop", "threshold", "later", "paused", "select", "put", "slide", "done"}

-----------------------------------------------------------------------------
(* The source database. *)

\* Punctual rows that would be late after this instant.
Due(t) == {r \in Punctual : StartTime[r] + read_waiting <= t}

\* select 1 from call_leg where start_time > from and start_time <= to limit 1
Exists(from, to) == \E r \in table : StartTime[r] > from /\ StartTime[r] <= to

\* Mutant: both ends of the window included.
InWindow_Closed(start, stop) == {r \in table : StartTime[r] >= start /\ StartTime[r] <= stop}

\* where start_time > start and start_time <= stop
InWindow(start, stop) == {r \in table : StartTime[r] > start /\ StartTime[r] <= stop}

\* order by call_leg_id
Lowest(S) == {r \in S : \A q \in S : Id[r] <= Id[q]}

\* The writers of the table: a row appears after its start_time, a punctual
\* one before read_waiting is over.
Insert(r) ==
    /\ r \in Rows \ table
    /\ StartTime[r] <= now
    /\ table' = table \cup {r}
    /\ UNCHANGED <<now, running, members, paused_, pc, batch, queue, reads>>

Tick ==
    /\ now < MaxTime
    /\ Due(now) \subseteq table
    /\ now' = now + 1
    /\ UNCHANGED <<table, running, members, paused_, pc, batch, queue, reads>>

-----------------------------------------------------------------------------
(* The thread. *)

\* setStart has run before the thread starts; the table may already be long.
Init ==
    /\ now \in Start..MaxTime
    /\ table \in SUBSET {r \in Rows : StartTime[r] <= now}
    /\ Due(now - 1) \subseteq table
    /\ running = TRUE
    /\ startTime_ = Start
    /\ stopTime_ = Start + read_threshold
    /\ paused_ = FALSE
    /\ pc = "loop"
    /\ batch = {}
    /\ queue = <<>>
    /\ reads = [r \in Rows |-> 0]

Goto(from, to) == pc = from /\ pc' = to

\* The loop test is the only place where a request to stop is noticed.
Loop ==
    /\ running
    /\ Goto("loop", "threshold")
    /\ UNCHANGED <<env, members, paused_, batch, queue, reads>>

Quit ==
    /\ ~running
    /\ Goto("loop", "done")
    /\ UNCHANGED <<env, members, paused_, batch, queue, reads>>

\* while (stopTime_ > time(NULL) - read_threshold) sleep
AwaitThreshold ==
    /\ stopTime_ <= now - read_threshold
    /\ Goto("threshold", "later")
    /\ UNCHANGED <<env, members, paused_, batch, queue, reads>>

\* Mutant: read_waiting forgotten.
AwaitLaterRow_NoWaiting ==
    /\ Exists(stopTime_, now)
    /\ Goto("later", "paused")
    /\ UNCHANGED <<env, members, paused_, batch, queue, reads>>

\* Mutant: a row is awaited beyond the longest window, not beyond this one.
AwaitLaterRow_TooFar ==
    /\ Exists(stopTime_ + max_call_time, now - read_waiting)
    /\ Goto("later", "paused")
    /\ UNCHANGED <<env, members, paused_, batch, queue, reads>>

\* while (no row in (stopTime_, time(NULL) - read_waiting]) sleep
AwaitLaterRow ==
    /\ Exists(stopTime_, now - read_waiting)
    /\ Goto("later", "paused")
    /\ UNCHANGED <<env, members, paused_, batch, queue, reads>>

\* Mutant: the pause flag is not looked at.
AwaitResume_Ignored ==
    /\ Goto("paused", "select")
    /\ UNCHANGED <<env, members, paused_, batch, queue, reads>>

\* while (paused_) sleep
AwaitResume ==
    /\ ~paused_
    /\ Goto("paused", "select")
    /\ UNCHANGED <<env, members, paused_, batch, queue, reads>>

Select ==
    /\ batch' = InWindow(startTime_, stopTime_)
    /\ Goto("select", "put")
    /\ UNCHANGED <<env, members, paused_, queue, reads>>

\* while (size_approx() >= max_queue_size) sleep; enqueue(leg)
Enqueue ==
    /\ pc = "put"
    /\ Len(queue) < max_queue_size
    /\ \E r \in Lowest(batch) :
          /\ batch' = batch \ {r}
          /\ queue' = Append(queue, r)
          /\ reads' = [reads EXCEPT ![r] = @ + 1]
    /\ UNCHANGED <<env, members, paused_, pc>>

\* row.next() is false: startTime_ = stopTime_
Advance ==
    /\ batch = {}
    /\ Goto("put", "slide")
    /\ startTime_' = stopTime_
    /\ UNCHANGED <<env, stopTime_, paused_, batch, queue, reads>>

\* Mutant: catching up adds the longest window to the usual one.
Slide_TooLong ==
    /\ Goto("slide", "loop")
    /\ stopTime_' = stopTime_ + read_threshold +
          IF Exists(stopTime_ + max_call_time, now - read_waiting)
          THEN max_call_time ELSE 0
    /\ UNCHANGED <<env, startTime_, paused_, batch, queue, reads>>

Slide ==
    /\ Goto("slide", "loop")
    /\ stopTime_' = stopTime_ +
          IF Exists(stopTime_ + max_call_time, now - read_waiting)
          THEN max_call_time ELSE read_threshold
    /\ UNCHANGED <<env, startTime_, paused_, batch, queue, reads>>

Thread == Loop \/ Quit \/ AwaitThreshold \/ AwaitLaterRow \/ AwaitResume
          \/ Select \/ Enqueue \/ Advance \/ Slide

-----------------------------------------------------------------------------
(* The thread that owns the reader: MergeContainer. *)

\* try_dequeue_bulk: some non-empty prefix
Dequeue(n) ==
    /\ n \in 1..Len(queue)
    /\ queue' = SubSeq(queue, n + 1, Len(queue))
    /\ UNCHANGED <<env, members, paused_, pc, batch, reads>>

\* pause() and resume()
SetPaused(b) ==
    /\ paused_ # b
    /\ paused_' = b
    /\ UNCHANGED <<env, members, pc, batch, queue, reads>>

\* Thread::stop, or app::running() turned false
Stop ==
    /\ running
    /\ running' = FALSE
    /\ UNCHANGED <<now, table, members, paused_, pc, batch, queue, reads>>

DequeueSome == \E n \in 1..Len(queue) : Dequeue(n)

Next ==
    \/ Tick
    \/ \E r \in Rows : Insert(r)
    \/ Thread
    \/ DequeueSome
    \/ \E b \in BOOLEAN : SetPaused(b)
    \/ Stop

Spec == Init /\ [][Next]_vars

\* The clock advances, writers meet their deadline, the reader polls forever
\* and the container keeps draining.  Nothing forces a pause to end.
Fairness ==
    /\ WF_vars(Tick)
    /\ \A r \in Punctual : WF_vars(Insert(r))
    /\ WF_vars(Thread)
    /\ WF_vars(DequeueSome)

FairSpec == Spec /\ Fairness

-----------------------------------------------------------------------------
(* Properties. *)

\* Type invariant of the reader; the queue never exceeds its configured size.
TypeOK ==
    /\ now \in 0..MaxTime
    /\ table \subseteq Rows
    /\ running \in BOOLEAN
    /\ startTime_ \in Nat
    /\ stopTime_ \in Nat
    /\ startTime_ <= stopTime_
    /\ paused_ \in BOOLEAN
    /\ pc \in Locations
    /\ batch \subseteq Rows
    /\ queue \in Seq(Rows)
    /\ Len(queue) <= max_queue_size
    /\ reads \in [Rows -> Nat]

\* Windows never overlap: no row of call_leg is enqueued twice, whatever the
\* length of the windows and however late rows appear.
AtMostOnce == \A r \in Rows : reads[r] <= 1

\* getTime() is a watermark: every row that was written within read_waiting
\* of its start and lies between setStart and getTime() has been enqueued.
\* MergeContainer emits and expires records on the strength of this.
WatermarkComplete ==
    \A r \in Punctual :
        StartTime[r] > Start /\ StartTime[r] <= startTime_ => reads[r] > 0

\* A reader that was stopped stopped between two windows: nothing younger
\* than getTime() has been enqueued.
WholeWindows ==
    pc = "done" => \A r \in Rows : reads[r] > 0 => StartTime[r] <= startTime_

\* Rows leave in id order, so not in time order; but no row is enqueued once
\* a row max_call_time younger has been.  MergeContainer's expiry by
\* maxLegTime_ - max_call_time needs this.
DisorderBelowMaxCallTime ==
    [][\A r, q \in Rows :
          reads'[r] # reads[r] /\ reads[q] > 0
             => StartTime[q] < StartTime[r] + max_call_time]_vars

\* A punctual row is enqueued once some row is read_threshold younger, if the
\* reader is not stopped and not paused for ever.  (The last read_threshold
\* of the table is not read until more rows come.)
EventuallyRead ==
    [](running) /\ <>[](~paused_) =>
        \A r, s \in Punctual :
            /\ StartTime[r] > Start
            /\ StartTime[s] >= StartTime[r] + read_threshold
            /\ StartTime[s] + read_waiting + read_threshold <= MaxTime
            => <>(reads[r] > 0)

\* The reader implements WindowFeed: the clock, the polling and the growing
\* table are not visible to the thread that drains the queue.
Feed == INSTANCE WindowFeed WITH
            phase <- IF pc \in {"loop", "threshold", "later", "paused"} THEN "wait" ELSE pc
ImplementsFeed == Feed!Spec
=============================================================================
