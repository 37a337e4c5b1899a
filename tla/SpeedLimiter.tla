---------------------------- MODULE SpeedLimiter ----------------------------
(***************************************************************************)
(* SpeedLimiter: a copy reports every chunk, and is put to sleep when the  *)
(* bytes between the first and the last of the points kept needed too      *)
(* little time.  SharedSpeedLimiter holds its mutex during the call, so    *)
(* that several copies are one sequence of chunks.  A byte takes one unit  *)
(* of time at the limit, and nanosleep lasts as long as it was asked to.   *)
(***************************************************************************)
EXTENDS Integers, FiniteSetsExt

CONSTANTS
    QueueSize,        \* max_queue_size: 128
    MinGap,           \* min_seconds_between_reper_points
    Chunks, Pauses,   \* bytes of a chunk, time between two
    MaxChunks         \* bound on the chunks

\* A copy reports what one row or one read has brought, which is bounded.
ASSUME LimiterAssumption ==
    /\ QueueSize \in Nat \ {0, 1} /\ MinGap \in Nat /\ Pauses \subseteq Nat /\ MaxChunks \in Nat
    /\ Chunks \subseteq Nat /\ \E m \in Chunks : \A c \in Chunks : m >= c

Slots == 0..(QueueSize - 1)
Wrapped(i) == i % QueueSize     \* & index_wrap_mask

VARIABLES
    clock,            \* when the last call returned
    queue,            \* slot -> [time, total]
    queue_size, tail_index, total_bytes_read,
    chunks,           \* history: chunks reported
    origin             \* history: <<>>, or <<the first point>>

limiterVars == <<clock, queue, queue_size, tail_index, total_bytes_read, chunks, origin>>

LimiterInit ==
    /\ clock = 0 /\ queue_size = 0 /\ tail_index = 0 /\ total_bytes_read = 0 /\ chunks = 0
    /\ queue = [s \in Slots |-> [time |-> 0, total |-> 0]]
    /\ origin = <<>>

\* first(), penult(), last()
FirstPoint(size, tail) == Wrapped(tail - size + 1)
Penult == queue[Wrapped(tail_index - 1)]
LastPoint == queue[tail_index]

\* Mutant: the oldest point but one.
remaining_time_Short(q, size, tail) ==
    LET f == q[Wrapped(tail - size + 2)] IN (q[tail].total - f.total) - (q[tail].time - f.time)

\* remaining_time(first(), last())
remaining_time(q, size, tail) ==
    LET f == q[FirstPoint(size, tail)] IN (q[tail].total - f.total) - (q[tail].time - f.time)

\* A chunk of `bytes', `pause' after the last call returned.  The last point is
\* overwritten when it is too near to the one before it.
on_progress_updated(bytes, pause) ==
    LET overrides == queue_size > 1 /\ LastPoint.time - Penult.time < MinGap
        size == IF overrides THEN queue_size ELSE IF queue_size < QueueSize THEN queue_size + 1 ELSE QueueSize
        tail == IF overrides THEN tail_index ELSE Wrapped(tail_index + 1)
        point == [time |-> clock + pause, total |-> total_bytes_read + bytes]
        q == [queue EXCEPT ![tail] = point]
        sleep == IF size <= 1 THEN 0 ELSE remaining_time(q, size, tail)
    IN  /\ chunks < MaxChunks /\ chunks' = chunks + 1
        /\ total_bytes_read' = total_bytes_read + bytes
        /\ queue_size' = size /\ tail_index' = tail /\ queue' = q
        /\ clock' = clock + pause + (IF sleep > 0 THEN sleep ELSE 0)
        /\ origin' = IF origin = <<>> THEN <<point>> ELSE origin

LimiterNext == \E bytes \in Chunks, pause \in Pauses : on_progress_updated(bytes, pause)
-----------------------------------------------------------------------------
(* Properties. *)

\* What was copied since the first report runs ahead of the limit by at most
\* one chunk for every QueueSize - 1 reports, as often as the ring is filled
\* once more: points are noted before the sleep, which their successors
\* therefore count again.
PaceKept ==
    origin # <<>> =>
        total_bytes_read - origin[1].total
          <= (clock - origin[1].time) + Max(Chunks) * (chunks \div (QueueSize - 1))
=============================================================================
