-------------------------------- MODULE Sync --------------------------------
(***************************************************************************)
(* A PullWorker: the manager's thread enqueues events, the worker's thread *)
(* takes them one by one and pulls each (module Puller).  An exception of  *)
(* a pull is kept in the holder of the thread that enqueued it.  The       *)
(* number of waiting events is an atomic of CountBits bits, changed apart  *)
(* from the queue; working() tells the manager whether to leave the        *)
(* events of the worker alone.  The moodycamel queue (external) is         *)
(* lock-free and FIFO for one producer.                                    *)
(***************************************************************************)
EXTENDS Puller

CONSTANTS
    CountBits,        \* std::atomic_size_t
    Requests,         \* the lists of ids an event may come with
    _only_full_pull_is_supported

\* A queue of pointers cannot hold as many tasks as a size_t counts.  An event
\* has at least one id.
ASSUME CountAssumption ==
    /\ CountBits \in Nat \ {0, 1} /\ MaxPulls < 2^CountBits
    /\ Requests \subseteq Seq(Nat) \ {<<>>}
    /\ _only_full_pull_is_supported \in BOOLEAN

VARIABLES
    running,          \* app::running()
    blocked_queue_,   \* the ids of each task
    tasks_count_,
    adding,           \* enqueue() is between the queue and the counter
    worker,           \* wait: in wait_dequeue; took: not yet subtracted; run; ended
    task,             \* the ids of the worker's task
    exception_,       \* the manager's ExceptionHolder has one
    enqueued,         \* history: events enqueued
    returned, served, \* history: pulls that returned, and what they pulled
    timer,            \* Timer::state of the table that is pulled
    nDoneMeasurements,
    pull_count_errors, pull_count_full, pull_count_partial,
    stopped           \* the exception in flight is "Application stopped"

syncVars == <<running, blocked_queue_, tasks_count_, adding, worker, task, exception_,
              enqueued, returned, served>>
counts == <<pull_count_errors, pull_count_full, pull_count_partial>>
infoVars == <<timer, nDoneMeasurements, counts, stopped>>
allVars == <<vars, syncVars, infoVars>>

SyncInit ==
    /\ Init
    /\ running = TRUE /\ blocked_queue_ = <<>> /\ tasks_count_ = 0 /\ adding = FALSE
    /\ worker = "wait" /\ task = <<>> /\ exception_ = FALSE
    /\ enqueued = 0 /\ returned = 0 /\ served = 0
    /\ timer = "STOPPED" /\ nDoneMeasurements = 0
    /\ pull_count_errors = 0 /\ pull_count_full = 0 /\ pull_count_partial = 0
    /\ stopped = FALSE

\* The routine of ~PullWorker does nothing; it has no ids.
StopTask == <<>>

\* Puller::is_full_pull_required: an id of 0 stands for every row.
is_full_pull_required(ids) ==
    _only_full_pull_is_supported \/ \E i \in DOMAIN ids : ids[i] = 0

\* std::atomic_size_t wraps.
Wrap(n) == n % 2^CountBits

\* PullWorker::enqueue: the task is in the queue, the counter follows.
Enqueue ==
    /\ running /\ ~adding /\ enqueued < MaxPulls
    /\ \E ids \in Requests : blocked_queue_' = Append(blocked_queue_, ids)
    /\ adding' = TRUE /\ enqueued' = enqueued + 1
    /\ UNCHANGED <<vars, infoVars, running, tasks_count_, worker, task, exception_, returned, served>>

\* Mutant: a counter that stops at zero and therefore counts the event twice.
EnqueueCounts_Clamped ==
    /\ adding
    /\ tasks_count_' = IF tasks_count_ = 2^CountBits - 1 THEN 1 ELSE tasks_count_ + 1
    /\ adding' = FALSE
    /\ UNCHANGED <<vars, infoVars, running, blocked_queue_, worker, task, exception_,
                   enqueued, returned, served>>

EnqueueCounts ==
    /\ adding
    /\ tasks_count_' = Wrap(tasks_count_ + 1)
    /\ adding' = FALSE
    /\ UNCHANGED <<vars, infoVars, running, blocked_queue_, worker, task, exception_,
                   enqueued, returned, served>>

\* ExceptionHolder::try_rethrow in the manager's thread: thrown once.
try_rethrow ==
    /\ running /\ exception_
    /\ exception_' = FALSE
    /\ UNCHANGED <<vars, infoVars, running, blocked_queue_, tasks_count_, adding, worker, task,
                   enqueued, returned, served>>

\* TimerScopeGuarded around the transaction: start(), and stop() when pull
\* leaves the scope, thrown or not.  start() throws unless the timer is
\* STOPPED, which it always is (CountersSettle).
TimerStart == timer' = "STARTED" /\ UNCHANGED nDoneMeasurements
TimerStop == timer' = "STOPPED" /\ nDoneMeasurements' = nDoneMeasurements + 1

\* The counters of the page: a full pull counts once, a partial one by its
\* ids, and only an Exception is an error.
PullCounted ==
    LET full == is_full_pull_required(task) IN
    /\ pull_count_full' = pull_count_full + (IF pc' = "ok" /\ full THEN 1 ELSE 0)
    /\ pull_count_partial' = pull_count_partial + (IF pc' = "ok" /\ ~full THEN Len(task) ELSE 0)
    /\ pull_count_errors' = pull_count_errors + (IF pc' = "failed" /\ ~stopped' THEN 1 ELSE 0)

\* Mutant: a pull that throws does not stop the timer.
PullLeaves_NoStop ==
    /\ IF pc' = "failed" THEN UNCHANGED <<timer, nDoneMeasurements>> ELSE TimerStop
    /\ PullCounted

\* Mutant: a pull is counted whether it returns or throws.
PullLeaves_CountsAll ==
    /\ TimerStop
    /\ pull_count_full' = pull_count_full + (IF is_full_pull_required(task) THEN 1 ELSE 0)
    /\ pull_count_partial' = pull_count_partial + (IF is_full_pull_required(task) THEN 0 ELSE Len(task))
    /\ pull_count_errors' = pull_count_errors + (IF pc' = "failed" /\ ~stopped' THEN 1 ELSE 0)

PullLeaves == TimerStop /\ PullCounted

\* A step of pull.  Once the daemon stops, the callback of the copy throws a
\* std::runtime_error, which is no Exception.
PullStep ==
    /\ worker = "run" /\ Pull
    /\ stopped' = IF pc = "copy" /\ pc' # "COMMIT" THEN ~running /\ broken' = broken ELSE stopped
    /\ IF pc' \in Done THEN PullLeaves ELSE UNCHANGED <<timer, nDoneMeasurements, counts>>
    /\ UNCHANGED syncVars

\* working_loop: a task is taken from the queue ...
Dequeue ==
    /\ worker = "wait" /\ blocked_queue_ # <<>>
    /\ task' = Head(blocked_queue_)
    /\ blocked_queue_' = Tail(blocked_queue_)
    /\ worker' = "took"
    /\ UNCHANGED <<vars, infoVars, running, tasks_count_, adding, exception_, enqueued, returned, served>>

\* ... subtracted from the counter, and runs.
DequeueCounts ==
    /\ worker = "took"
    /\ tasks_count_' = Wrap(tasks_count_ - 1)
    /\ IF task # StopTask
       THEN Begin /\ TimerStart /\ worker' = "run" /\ stopped' = FALSE /\ UNCHANGED counts
       ELSE worker' = (IF running THEN "wait" ELSE "ended") /\ UNCHANGED <<vars, infoVars>>
    /\ UNCHANGED <<running, blocked_queue_, adding, task, exception_, enqueued, returned, served>>

\* What a pull of these ids counts for when it returns.
Worth(ids) == IF is_full_pull_required(ids) THEN 1 ELSE Len(ids)

Returns ==
    /\ returned' = returned + (IF pc = "ok" THEN 1 ELSE 0)
    /\ served' = served + (IF pc = "ok" THEN Worth(task) ELSE 0)

\* Mutant: an exception of the pull leaves the loop.
TaskEnds_Leaves ==
    /\ worker = "run" /\ pc \in Done
    /\ worker' = IF running /\ pc = "ok" THEN "wait" ELSE "ended"
    /\ Returns
    /\ UNCHANGED <<vars, infoVars, running, blocked_queue_, tasks_count_, adding, task, exception_, enqueued>>

\* The pull has returned or thrown; the loop looks at app::running().
TaskEnds ==
    /\ worker = "run" /\ pc \in Done
    /\ exception_' = (exception_ \/ pc = "failed")
    /\ worker' = IF running THEN "wait" ELSE "ended"
    /\ Returns
    /\ UNCHANGED <<vars, infoVars, running, blocked_queue_, tasks_count_, adding, task, enqueued>>

\* The daemon stops ...
Stop ==
    /\ running
    /\ running' = FALSE
    /\ UNCHANGED <<vars, infoVars, blocked_queue_, tasks_count_, adding, worker, task, exception_,
                   enqueued, returned, served>>

\* Mutant: only a worker that runs is sent the empty task.
Destroy_NoTask ==
    /\ ~running /\ ~adding /\ \A i \in DOMAIN blocked_queue_ : blocked_queue_[i] # StopTask
    /\ worker = "run"
    /\ blocked_queue_' = Append(blocked_queue_, StopTask)
    /\ UNCHANGED <<vars, infoVars, running, tasks_count_, adding, worker, task, exception_,
                   enqueued, returned, served>>

\* ... and ~PullWorker enqueues an empty task, which is not counted, and
\* joins the thread.
Destroy ==
    /\ ~running /\ ~adding /\ \A i \in DOMAIN blocked_queue_ : blocked_queue_[i] # StopTask
    /\ worker # "ended" /\ ~(worker = "took" /\ task = StopTask)
    /\ blocked_queue_' = Append(blocked_queue_, StopTask)
    /\ UNCHANGED <<vars, infoVars, running, tasks_count_, adding, worker, task, exception_,
                   enqueued, returned, served>>

Worker == Dequeue \/ DequeueCounts \/ TaskEnds \/ PullStep

SyncNext ==
    \/ Enqueue \/ EnqueueCounts \/ try_rethrow \/ Worker \/ Stop \/ Destroy
    \/ Breaks /\ UNCHANGED <<syncVars, infoVars>>

\* Both threads go on; the static manager is destroyed when the daemon ends.
SyncSpec ==
    /\ SyncInit /\ [][SyncNext]_allVars
    /\ WF_allVars(Worker) /\ WF_allVars(EnqueueCounts) /\ WF_allVars(Destroy)
-----------------------------------------------------------------------------
(* Properties. *)

\* However the two threads change places between queue and counter, and
\* though the counter may run below zero for a moment, it comes to rest at
\* the number of events in the queue, and the one just taken (working() is
\* not wrong for ever).  Every pull, thrown or not, is measured once, so that
\* the timer never refuses the next; what the page adds up over full and
\* partial pulls is what the pulls that returned were asked for, and every
\* other pull is an error.
CountersSettle ==
    /\ running /\ ~adding =>
          tasks_count_ = Len(blocked_queue_) + (IF worker = "took" THEN 1 ELSE 0)
    /\ worker # "run" => /\ timer = "STOPPED" /\ nDoneMeasurements = pull
                         /\ pull_count_full + pull_count_partial = served
    /\ worker # "run" /\ running => returned + pull_count_errors = pull

\* Every event that was enqueued is pulled, the ones after a pull that has
\* failed too, unless the daemon stops.
EveryEventPulled == running /\ pull < enqueued ~> pull = enqueued \/ ~running

\* The thread of the worker can be joined, wherever the stop meets it.
WorkerEnds == ~running ~> worker = "ended"
=============================================================================
