---------------------------- MODULE Application ----------------------------
(***************************************************************************)
(* The life of the daemon: app::run on the main thread, the initial load   *)
(* of data posted to the io threads, the merge thread, and the handler of  *)
(* SIGTERM and SIGINT, which stops everything from an io thread.           *)
(*                                                                         *)
(* Routines registered with the life-span macros run at four events.  The  *)
(* cyclic tasks are one step here; module CyclicTask looks inside.         *)
(* Module Web composes these steps with the web interface.                 *)
(***************************************************************************)
EXTENDS Naturals, Sequences

CONSTANT MaxRetries   \* bound on failing attempts to load the data

ASSUME RetryAssumption == MaxRetries \in Nat

\* enum class life_span_event
START == 1
INIT_APP == 2
INIT_DB == 3
STOP == 4

VARIABLES
    main,             \* where the main thread is
    daemon_running,
    instance_,        \* application::instance_ is set
    log,              \* log_instance::instance_ is set
    io,               \* the io threads: none, run, stopped
    stopper,          \* the io thread that handles the signal
    load,             \* start_init_data: none, posted, timer, done
    retries,
    merge,            \* the merge thread: none, start, loop, ended
    applied,          \* history: life-span events applied, in order
    calls,            \* history: application::instance() found instance_ set
    logged            \* history: so did every Log call with the log

vars == <<main, daemon_running, instance_, log, io, stopper, load, retries, merge, applied, calls, logged>>

Init ==
    /\ main = "run" /\ daemon_running = TRUE
    /\ instance_ = FALSE /\ log = FALSE
    /\ io = "none" /\ stopper = "none" /\ load = "none" /\ retries = 0
    /\ merge = "none"
    /\ applied = <<>> /\ calls = TRUE /\ logged = TRUE

\* apply_life_span_events: noexcept, a routine that throws is only reported.
apply(event) == applied' = Append(applied, event)

-----------------------------------------------------------------------------
(* The main thread. *)

Run ==
    /\ main = "run"
    /\ apply(START)
    /\ main' = "start"
    /\ UNCHANGED <<daemon_running, instance_, log, io, stopper, load, retries, merge, calls, logged>>

\* application::start up to make_shared: the log comes first.
Start ==
    /\ main = "start"
    /\ daemon_running' = TRUE /\ log' = TRUE /\ instance_' = TRUE
    /\ main' = "init"
    /\ UNCHANGED <<io, stopper, load, retries, merge, applied, calls, logged>>

\* application::init: signals, listeners, io threads
InitIo ==
    /\ main = "init"
    /\ io' = "run"
    /\ main' = "init_tasks"
    /\ UNCHANGED <<daemon_running, instance_, log, stopper, load, retries, merge, applied, calls, logged>>

\* The port is taken: run() reports the exception and main returns.  The
\* flag is still set, so the log thread never ends and is joined for ever.
InitFails ==
    /\ main = "init"
    /\ logged' = (logged /\ log)
    /\ main' = "failed"
    /\ UNCHANGED <<daemon_running, instance_, log, io, stopper, load, retries, merge, applied, calls>>

\* ... the loader, the cleaners of the pools, the merge thread; and, back in
\* start, the tasks of the log
InitTasks ==
    /\ main = "init_tasks"
    /\ merge' = "start"
    /\ main' = "init_app"
    /\ UNCHANGED <<daemon_running, instance_, log, io, stopper, load, retries, applied, calls, logged>>

\* Mutant: the initial load is posted before the INIT_APP routines have run.
InitApp_LoadFirst ==
    \/ /\ main = "init_app" /\ load = "none"
       /\ load' = "posted"
       /\ UNCHANGED <<main, daemon_running, instance_, log, io, stopper, retries, merge, applied, calls, logged>>
    \/ /\ main = "init_app" /\ load # "none"
       /\ apply(INIT_APP)
       /\ main' = "wait"
       /\ UNCHANGED <<daemon_running, instance_, log, io, stopper, load, retries, merge, calls, logged>>

InitApp ==
    /\ main = "init_app"
    /\ apply(INIT_APP)
    /\ main' = "load"
    /\ UNCHANGED <<daemon_running, instance_, log, io, stopper, load, retries, merge, calls, logged>>

\* start_init_data(): application::instance().io_context().post(task)
Load ==
    /\ main = "load"
    /\ load' = "posted"
    /\ calls' = (calls /\ instance_)
    /\ main' = "wait"
    /\ UNCHANGED <<daemon_running, instance_, log, io, stopper, retries, merge, applied, logged>>

\* wait_asio: run() returns when io_context is stopped, and the io threads
\* are joined, the one that stops the daemon included.
WaitAsio ==
    /\ main = "wait"
    /\ io = "stopped" /\ stopper = "done"
    /\ main' = "reset"
    /\ UNCHANGED <<daemon_running, instance_, log, io, stopper, load, retries, merge, applied, calls, logged>>

\* instance_.reset(): the pointer is null from here on ...
Reset ==
    /\ main = "reset"
    /\ instance_' = FALSE
    /\ main' = "destroy"
    /\ UNCHANGED <<daemon_running, log, io, stopper, load, retries, merge, applied, calls, logged>>

\* ... and the members are destroyed: MergeService with its threads, then
\* merge_service_thread_, which nobody joins: std::terminate.
Destroy ==
    /\ main = "destroy"
    /\ main' = "terminated"
    /\ UNCHANGED <<daemon_running, instance_, log, io, stopper, load, retries, merge, applied, calls, logged>>

\* The process is there: neither terminated nor killed by the null pointer
\* that instance() of the log or of the application returns.
Up == main # "terminated" /\ calls /\ logged
-----------------------------------------------------------------------------
(* The task of start_init_data on an io thread. *)

\* Mutant: a routine of INIT_DB that throws is taken for a failing load.
LoadOk_Retried ==
    /\ load = "posted" /\ io = "run"
    /\ apply(INIT_DB)
    /\ \/ load' = "done" /\ UNCHANGED retries
       \/ retries < MaxRetries /\ load' = "timer" /\ retries' = retries + 1
    /\ UNCHANGED <<main, daemon_running, instance_, log, io, stopper, merge, calls, logged>>

\* The INIT_DB routines register tasks: application::instance() again.
LoadOk ==
    /\ load = "posted" /\ io = "run"
    /\ apply(INIT_DB)
    /\ calls' = (calls /\ instance_)
    /\ load' = "done"
    /\ UNCHANGED <<main, daemon_running, instance_, log, io, stopper, retries, merge, logged>>

\* The exception is logged and the task set up again after 250 ms.
LoadFails ==
    /\ load = "posted" /\ io = "run"
    /\ retries < MaxRetries
    /\ retries' = retries + 1
    /\ load' = "timer"
    /\ logged' = (logged /\ log)
    /\ calls' = (calls /\ instance_)
    /\ UNCHANGED <<main, daemon_running, instance_, log, io, stopper, merge, applied>>

LoadTimer ==
    /\ load = "timer" /\ io = "run"
    /\ load' = "posted"
    /\ UNCHANGED <<main, daemon_running, instance_, log, io, stopper, retries, merge, applied, calls, logged>>
-----------------------------------------------------------------------------
(* The merge thread and the readers it starts. *)

\* MergeService::run up to data_.start(): it asks for connections, and logs.
MergeStart ==
    /\ merge = "start"
    /\ calls' = (calls /\ instance_)
    /\ logged' = (logged /\ log)
    /\ merge' = "loop"
    /\ UNCHANGED <<main, daemon_running, instance_, log, io, stopper, load, retries, applied>>

\* A database is away: the DbException leaves the function of the thread.
MergeStartThrows ==
    /\ merge = "start"
    /\ calls' = (calls /\ instance_)
    /\ main' = "terminated"
    /\ UNCHANGED <<daemon_running, instance_, log, io, stopper, load, retries, merge, applied, logged>>

\* A reader asks for a connection, whatever the state of the daemon: its
\* inner waits do not look at app::running() ...
MergeQuery ==
    /\ merge = "loop"
    /\ calls' = (calls /\ instance_)
    /\ UNCHANGED <<main, daemon_running, instance_, log, io, stopper, load, retries, merge, applied, logged>>

\* ... and logs the window it has read, as MergeService logs its records.
MergeLogs ==
    /\ merge = "loop"
    /\ logged' = (logged /\ log)
    /\ UNCHANGED <<main, daemon_running, instance_, log, io, stopper, load, retries, merge, applied, calls>>

MergeEnd ==
    /\ merge = "loop" /\ ~daemon_running
    /\ merge' = "ended"
    /\ UNCHANGED <<main, daemon_running, instance_, log, io, stopper, load, retries, applied, calls, logged>>
-----------------------------------------------------------------------------
(* The signal handler: application::stop, not app::stop. *)

\* The signal arrives; it is waited for only once.
Signal ==
    /\ io = "run" /\ stopper = "none"
    /\ stopper' = "flag"
    /\ UNCHANGED <<main, daemon_running, instance_, log, io, load, retries, merge, applied, calls, logged>>

StopFlag ==
    /\ stopper = "flag"
    /\ daemon_running' = FALSE
    /\ stopper' = "tasks"
    /\ UNCHANGED <<main, instance_, log, io, load, retries, merge, applied, calls, logged>>

\* "stopping" is logged, stop_all_cyclic_tasks
StopTasks ==
    /\ stopper = "tasks"
    /\ stopper' = "asio"
    /\ UNCHANGED <<main, daemon_running, instance_, log, io, load, retries, merge, applied, calls, logged>>

\* Mutant: the context is left running.
StopAsio_Runs ==
    /\ stopper = "asio"
    /\ stopper' = "log"
    /\ UNCHANGED <<main, daemon_running, instance_, log, io, load, retries, merge, applied, calls, logged>>

StopAsio ==
    /\ stopper = "asio"
    /\ io' = "stopped"
    /\ stopper' = "log"
    /\ UNCHANGED <<main, daemon_running, instance_, log, load, retries, merge, applied, calls, logged>>

StopLog ==
    /\ stopper = "log"
    /\ log' = FALSE
    /\ stopper' = "done"
    /\ UNCHANGED <<main, daemon_running, instance_, io, load, retries, merge, applied, calls, logged>>

-----------------------------------------------------------------------------
(* Properties. *)

\* The routines of an event run once and in the order of the events, however
\* often the load is retried and whenever the signal comes.
EventsInOrder == \A i, j \in DOMAIN applied : i < j => applied[i] < applied[j]
=============================================================================
