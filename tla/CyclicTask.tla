----------------------------- MODULE CyclicTask -----------------------------
(***************************************************************************)
(* Cyclic tasks: a task is armed with a timer, runs its routine on one of  *)
(* the io threads when the timer fires, and arms itself again, whether the *)
(* routine returned or threw.  The application keeps them in a registry    *)
(* under a mutex; deletion cancels the timer, and the stop of the daemon   *)
(* cancels every task and runs its routine once more.                      *)
(*                                                                         *)
(* The timer (boost::asio, external) calls its handler once: with success  *)
(* after it expired, with operation_aborted after a cancel.  A cancel that *)
(* comes after the expiry changes nothing.                                 *)
(***************************************************************************)
EXTENDS Integers, Sequences, SequencesExt, FiniteSetsExt

CONSTANTS
    Names,            \* names of tasks
    Texts,            \* texts of the exceptions of routines
    Threads,          \* io threads
    ErrorsKept,       \* capacity of errors_: 10
    MaxTasks,         \* bound on the task objects made
    MaxErrors         \* bound on exceptions

ASSUME TaskAssumption ==
    /\ Threads \in Nat \ {0} /\ ErrorsKept \in Nat \ {0}
    /\ MaxTasks \in Nat /\ MaxErrors \in Nat

Tasks == 1..MaxTasks

VARIABLES
    made,             \* number of task objects made so far
    cyclic_tasks_,    \* the registry: name -> task
    waiting, ready, aborted, \* per task: handlers of a running timer, of one
                      \* that expired, of one that was cancelled
    running,          \* per task: io threads inside its routine
    errors_,          \* per task: the ring of error_info, oldest first
    errors_count_,    \* per task
    stopper,          \* stop_all_cyclic_tasks and what follows it
    todo, cur,        \* tasks it still has to stop; the one it runs
    thrown,           \* history: per task, the texts its handler has caught
    quiet             \* history: tasks cancelled while their timer was running

pending == <<waiting, ready, aborted, running>>
stopping == <<stopper, todo, cur>>
log == <<errors_, errors_count_, thrown>>
vars == <<made, cyclic_tasks_, pending, log, stopping, quiet>>

None == [t \in Tasks |-> 0]

Init ==
    /\ made = 0
    /\ cyclic_tasks_ = [n \in {} |-> 0]
    /\ waiting = None /\ ready = None /\ aborted = None /\ running = None
    /\ errors_ = [t \in Tasks |-> <<>>]
    /\ errors_count_ = None
    /\ stopper = "idle" /\ todo = {} /\ cur = 0
    /\ thrown = [t \in Tasks |-> <<>>]
    /\ quiet = {}

Registered == {cyclic_tasks_[n] : n \in DOMAIN cyclic_tasks_}

\* cyclic_task_mutex_ is held while all tasks are stopped.
Unlocked == stopper \notin {"iterate", "routine"}

\* Handlers run until io_context::stop, or until an exception leaves run().
IoRuns == stopper \notin {"stopped", "threw"}

\* A thread is free to run a handler; the stop itself is one.
Free == SumFunction(running) + (IF stopper = "idle" THEN 0 ELSE 1) < Threads
-----------------------------------------------------------------------------
(* The registry. *)

\* register_cyclic_task and arm().  app::register_cyclic_task deletes the
\* name first, and the application's own names are distinct.
register_cyclic_task(n) ==
    /\ Unlocked /\ IoRuns
    /\ made < MaxTasks
    /\ n \notin DOMAIN cyclic_tasks_
    /\ made' = made + 1
    /\ cyclic_tasks_' = [m \in DOMAIN cyclic_tasks_ \cup {n} |->
                            IF m = n THEN made' ELSE cyclic_tasks_[m]]
    /\ waiting' = [waiting EXCEPT ![made'] = @ + 1]
    /\ UNCHANGED <<ready, aborted, running, log, stopping, quiet>>

\* stop(): timer_->cancel() reaches a handler that still waits, no other.
cancel(t) ==
    /\ aborted' = [aborted EXCEPT ![t] = @ + waiting[t]]
    /\ waiting' = [waiting EXCEPT ![t] = 0]
    /\ quiet' = IF waiting[t] > 0 THEN quiet \cup {t} ELSE quiet

delete_cyclic_task(n) ==
    /\ Unlocked
    /\ n \in DOMAIN cyclic_tasks_
    /\ cancel(cyclic_tasks_[n])
    /\ cyclic_tasks_' = [m \in DOMAIN cyclic_tasks_ \ {n} |-> cyclic_tasks_[m]]
    /\ UNCHANGED <<made, ready, running, log, stopping>>
-----------------------------------------------------------------------------
(* cyclic_task::handler *)

Expire(t) ==
    /\ waiting[t] > 0
    /\ waiting' = [waiting EXCEPT ![t] = @ - 1]
    /\ ready' = [ready EXCEPT ![t] = @ + 1]
    /\ UNCHANGED <<made, cyclic_tasks_, aborted, running, log, stopping, quiet>>

\* Mutant: operation_aborted is not looked at.
HandleAborted_Runs(t) ==
    /\ aborted[t] > 0 /\ IoRuns /\ Free
    /\ aborted' = [aborted EXCEPT ![t] = @ - 1]
    /\ running' = [running EXCEPT ![t] = @ + 1]
    /\ UNCHANGED <<made, cyclic_tasks_, waiting, ready, log, stopping, quiet>>

\* operation_aborted: the timer is let go, the chain of this task ends.
HandleAborted(t) ==
    /\ aborted[t] > 0 /\ IoRuns /\ Free
    /\ aborted' = [aborted EXCEPT ![t] = @ - 1]
    /\ UNCHANGED <<made, cyclic_tasks_, waiting, ready, running, log, stopping, quiet>>

\* Mutant: the task is armed before its routine is called.
Begin_Armed(t) ==
    /\ ready[t] > 0 /\ IoRuns /\ Free
    /\ ready' = [ready EXCEPT ![t] = @ - 1]
    /\ running' = [running EXCEPT ![t] = @ + 1]
    /\ waiting' = [waiting EXCEPT ![t] = @ + 1]
    /\ UNCHANGED <<made, cyclic_tasks_, aborted, log, stopping, quiet>>

\* The routine is called ...
Begin(t) ==
    /\ ready[t] > 0 /\ IoRuns /\ Free
    /\ ready' = [ready EXCEPT ![t] = @ - 1]
    /\ running' = [running EXCEPT ![t] = @ + 1]
    /\ UNCHANGED <<made, cyclic_tasks_, waiting, aborted, log, stopping, quiet>>

\* ... and has returned: arm(), whoever deleted the task meanwhile.
Finish(t) ==
    /\ running[t] > 0 /\ stopper # "threw"
    /\ running' = [running EXCEPT ![t] = @ - 1]
    /\ waiting' = [waiting EXCEPT ![t] = @ + 1]
    /\ UNCHANGED <<made, cyclic_tasks_, ready, aborted, log, stopping, quiet>>

\* Mutant: an exception of another text is counted for the last entry.
save_error_Merges(t, text) ==
    LET errors == errors_[t] IN
    /\ errors_' = [errors_ EXCEPT ![t] =
         IF errors # <<>> THEN [errors EXCEPT ![Len(errors)].count = @ + 1]
         ELSE <<[message |-> text, count |-> 1]>>]
    /\ errors_count_' = [errors_count_ EXCEPT ![t] = IF errors = <<>> THEN 1 ELSE @]

\* A text that repeats is counted in the last entry, another one is pushed;
\* the ring drops its oldest entry when it is full (module LastPushed).
\* health_register::error(name_, text) is an action of HealthRegister.
save_error(t, text) ==
    LET errors == errors_[t]
        repeats == errors # <<>> /\ errors[Len(errors)].message = text
        kept == IF Len(errors) = ErrorsKept THEN Tail(errors) ELSE errors
    IN
    /\ errors_' = [errors_ EXCEPT ![t] =
         IF repeats THEN [errors EXCEPT ![Len(errors)].count = @ + 1]
         ELSE Append(kept, [message |-> text, count |-> 1])]
    /\ errors_count_' = [errors_count_ EXCEPT ![t] = IF repeats THEN @ ELSE @ + 1]

current_errors(t) == Reverse(errors_[t])

\* The page of a task: its error count and its error log, a repeated text with
\* its number.  (Runs and their times, which the page shows too, are left out.)
dump_html(t) == [errors |-> errors_count_[t], log |-> current_errors(t)]

\* Exceptions so far, for the bound MaxErrors.
Failures == MapThenSumSet(LAMBDA t : Len(thrown[t]), Tasks)

\* Mutant: a task that failed is not armed again.
Fail_Dies(t, text) ==
    /\ running[t] > 0 /\ stopper # "threw"
    /\ Failures < MaxErrors
    /\ save_error(t, text)
    /\ thrown' = [thrown EXCEPT ![t] = Append(@, text)]
    /\ running' = [running EXCEPT ![t] = @ - 1]
    /\ UNCHANGED <<made, cyclic_tasks_, waiting, ready, aborted, stopping, quiet>>

\* ... or has thrown: save_error, then arm() all the same.
Fail(t, text) ==
    /\ running[t] > 0 /\ stopper # "threw"
    /\ Failures < MaxErrors
    /\ save_error(t, text)
    /\ thrown' = [thrown EXCEPT ![t] = Append(@, text)]
    /\ running' = [running EXCEPT ![t] = @ - 1]
    /\ waiting' = [waiting EXCEPT ![t] = @ + 1]
    /\ UNCHANGED <<made, cyclic_tasks_, ready, aborted, stopping, quiet>>
-----------------------------------------------------------------------------
(* application::stop, called once by the signal handler on an io thread. *)

StopBegin ==
    /\ stopper = "idle" /\ SumFunction(running) < Threads
    /\ stopper' = "iterate"
    /\ todo' = Registered
    /\ UNCHANGED <<made, cyclic_tasks_, pending, log, cur, quiet>>

\* nt.second->stop(); nt.second->routine_();
StopTask(t) ==
    /\ stopper = "iterate" /\ t \in todo
    /\ cancel(t)
    /\ stopper' = "routine" /\ cur' = t
    /\ UNCHANGED <<made, cyclic_tasks_, ready, running, log, todo>>

StopRoutineReturns ==
    /\ stopper = "routine"
    /\ stopper' = "iterate"
    /\ todo' = todo \ {cur}
    /\ UNCHANGED <<made, cyclic_tasks_, pending, log, cur, quiet>>

\* Nothing catches an exception here: it leaves io_context::run and with it
\* the function of the thread, and the process terminates.
StopRoutineThrows ==
    /\ stopper = "routine" /\ Texts # {}
    /\ stopper' = "threw"
    /\ UNCHANGED <<made, cyclic_tasks_, pending, log, todo, cur, quiet>>

StopClear ==
    /\ stopper = "iterate" /\ todo = {}
    /\ cyclic_tasks_' = [n \in {} |-> 0]
    /\ stopper' = "cleared"
    /\ UNCHANGED <<made, pending, log, todo, cur, quiet>>

stop_asio ==
    /\ stopper = "cleared"
    /\ stopper' = "stopped"
    /\ UNCHANGED <<made, cyclic_tasks_, pending, log, todo, cur, quiet>>
-----------------------------------------------------------------------------
Next ==
    \/ \E n \in Names : register_cyclic_task(n) \/ delete_cyclic_task(n)
    \/ \E t \in Tasks :
          \/ Expire(t) \/ HandleAborted(t) \/ Begin(t) \/ Finish(t) \/ StopTask(t)
          \/ \E text \in Texts : Fail(t, text)
    \/ StopBegin \/ StopRoutineReturns \/ StopRoutineThrows \/ StopClear \/ stop_asio

Spec == Init /\ [][Next]_vars

\* Timers expire, routines end, and the io threads take the handlers in the
\* order in which they became ready, so a ready one is not passed over for
\* ever though a thread is not always free.
Fairness ==
    \A t \in Tasks :
        /\ WF_vars(Expire(t))
        /\ SF_vars(Begin(t))
        /\ WF_vars(Finish(t) \/ \E text \in Texts : Fail(t, text))

FairSpec == Spec /\ Fairness
-----------------------------------------------------------------------------
(* Properties. *)

Alive(t) == waiting[t] + ready[t] + running[t]

\* A task is one chain of arm, wait and run: its handler never runs on two io
\* threads at once, and as long as the daemon is not being stopped a
\* registered task has its handler pending or running, even after failures.
OneChain ==
    /\ \A t \in Tasks : Alive(t) + aborted[t] <= 1
    /\ stopper = "idle" => \A t \in Registered : Alive(t) = 1

\* The handler of a task that was deleted, or stopped with the daemon, while
\* its timer was running never runs again.
DeletedInTimeStaysQuiet == \A t \in quiet : Alive(t) = 0

\* The indices at which another text than before was thrown.
Changes(s) == {i \in DOMAIN s : i = 1 \/ s[i] # s[i - 1]}

\* The page of a task shows, the newest first, the last ErrorsKept runs of
\* equal texts with their true counts, and the number of all such runs.
ErrorLogFaithful ==
    \A t \in Tasks :
        LET page == dump_html(t)
            s == thrown[t]
            starts == Changes(s)
            shown == {i \in starts : Cardinality({j \in starts : j > i}) < ErrorsKept}
            end(i) == Min({j \in starts : j > i} \cup {Len(s) + 1})
        IN  /\ page.errors = Cardinality(starts)
            /\ Len(page.log) = Cardinality(shown)
            /\ \A i \in shown :
                  page.log[Cardinality({j \in shown : j >= i})]
                     = [message |-> s[i], count |-> end(i) - i]

\* A registered task runs again and again, unless it is deleted or the daemon
\* stops: neither exceptions nor other tasks end its chain.
Recurs ==
    \A t \in Tasks :
        t \in Registered ~> (running[t] > 0 \/ t \notin Registered \/ stopper # "idle")
=============================================================================
