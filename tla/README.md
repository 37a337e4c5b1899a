# Verification of call45aggr

call45aggr is a daemon that joins the call legs and the links between legs
which several telephony servers write to a source database into call records.
This directory holds TLA+ models of it, TLC runs over small instances, and
proofs checked by TLAPS. Paths below are relative to the repository.

## 1. The system

```
 call_leg ───────► ReadCallLeg ──queueLeg_──┐
                      ▲ pause/resume        ▼
                      └──────────────── MergeContainer ──output_──► MergeService
                      ┌──────────────── getTime()▲
                      ▼ pause/resume        │
 call_leg_link ──► ReadCallLegLink ─queueLink_┘
                      │ checkUniqueIdOrig/Term
                      ▼
 call_leg_link_online (one per server) ──► MergeOnline: one OnlineWatcher each
```

| component | state | operations | hard behaviour |
|---|---|---|---|
| `ReadCallLeg` (`service/ReadCallLeg.cpp`) | `startTime_`, `stopTime_`, `paused_` | `run`, `getSQLData`, `pause`, `resume`, `setStart`, `getTime` | the table grows while it is read, rows appear late, the queue is bounded, the request to stop is seen in one place only |
| `ReadCallLegLink` (`service/ReadCallLegLink.cpp`) | the same, and the link that is waited for | the same, with a wait for calls that are online | one link that waits holds up all behind it |
| `MergeContainer` (`service/MergeContainer.cpp`) | `data_`, `legs_`, `links_`, `maxLegTime_`, `maxLinkTime_` | one pass: dequeue, absorb, pause or resume a reader, attach, emit, expire | decisions about what is complete are made from how far two other threads have come |
| `MergeOnline` (`service/MergeOnline.cpp`) | per server `data_`, `ready_` | reload of the table, LISTEN/NOTIFY, two lookups | lost connections, lost and doubled notifications |
| `MergeService` (`service/MergeService.cpp`) | the output queue | choose the start, drain records, order legs and links | SQL output is commented out in the source |
| `health_register` (`daemon/health_register.cpp`) | last trouble per item | `warning`, `error`, `critical`, `clear`, `states` | called from every thread; expiry and levels interact |
| `log_instance` (`log/log_instance.cpp`) | queue, delay counters, buffer | send, flush, clean up, stop | timestamps out of order, suppressed messages, join of a sleeping thread |
| `Thread`, `application`, `daemon`, `cyclic_task` (`daemon/`) | thread status, task registry, io threads | start, stop, timers, signals | shutdown order, a task deleted while it runs |
| `settings` (`daemon/settings.cpp`) | the instance in force, the log level | read over defaults, dump | a file that is missing or partly wrong, a reload by path |
| `DbPool`, `BDb`, `BDbTransaction`, `BDbResult`, `ParamQuery`, `SpeedLimiter` (`db/`) | pooled connections, session, result, rows, points | get/back/expire, reconnect and retry, COPY, cursor, sleep | a retry on a new session inside a transaction; an iterator used after erase; two returns in one second |
| `PullManager`, `PullWorker`, `Puller` (`data/sync/`) | task queues and counters | enqueue, work, copy a table | never fed in this build: `PullManager::pull` is commented out |
| data lists, counters, loader (`data/`) | loaded tables, versions, counter objects | load, swap, update | state, list and version are stored one after the other and without a lock, counters are replaced or written in place; most tasks are commented out |
| reports (`service/format/`) | one row per call | shape a record, build, dump | which leg and which link decide; the calls are commented out |
| web server and pages (`web/`) | HTTP sessions | accept, read, respond | pages run before the merge service exists and while the daemon stops; they read merge state without its locks |
| helpers (`common.cpp`, `systems/`) | none | split, URL, Base64, numbers, dates | boundaries of types, months and escapes |

What makes each correct: a reader's `getTime()` is a watermark and no row is
read twice; the container loses and shares nothing and decides only on what has
been read; a watcher never forgets a call that goes on and converges to the
table; a link is released when its call is over, and always eventually; the log
accounts for every send; a connection is in one hand; a pull is atomic or its
session broke; a page finds what it reads and every request is answered; what a
helper writes its counterpart reads back.

PROJECT.json lists every component, what is not modelled and why, the hazards
by source line, and the lines each definition models.

## 2. Modules

| module | models | composed with |
|---|---|---|
| `WindowFeed` | the promise of a reader to the thread that drains it: windows, id order within a window, a watermark | |
| `WindowReader` | `ReadCallLeg::run` and `getSQLData` in full: clock, growing table, polling, pause, bounded queue, stop | implements `WindowFeed` |
| `MergeContainer` | `MergeContainer::run` | two instances of `WindowFeed`, MergeService's draining |
| `MergeOnline` | `OnlineWatcher::run` for every server, with the database's notifications | |
| `ReadCallLegLink` | `ReadCallLegLink::getSQLData` row by row and the two lookups | extends `MergeOnline` |
| `Report` | how `MergeService::run` shapes a record, and the rows of the two reports | |
| `HealthRegister` | `health_register` | |
| `LogInstance` | `log_instance`: queue, delays, counts, clean-up, and the stop from the flag to the destructor that joins the log thread | |
| `Journal` | `start_log`, levels and arguments of a log call, the four files and graylog, with the cases in which they drop what they are given | |
| `CyclicTask` | `cyclic_task`, its error page, and the registry of tasks in `application` | |
| `Thread` | `Thread`: start, body, stop and join, with an unlocked status that the constructor leaves uninitialised | |
| `Settings` | `settings`: options, types, defaults, masks, dump, and the level of the log that follows them | |
| `Application` | `app::run`, `application::start`, `init`, `stop` and `wait`, the initial load, the signal handler, the merge thread as far as it uses them | |
| `Web` | listener, sessions, the choice of a page and what each page reads and answers | extends `Application`: both share the io threads |
| `LastPushed` | the promise of a ring buffer: the last values pushed | |
| `RingBuffer` | `RingBuffer` with its two indices and its size | implements `LastPushed` |
| `BDb` | one database connection: `exec` with its second attempt, `ping`, `connect`, `copy_ex`, and the server's session | |
| `Puller` | `Puller::pull` with `BDbTransaction` | extends `BDb` |
| `Sync` | `PullWorker`: queue, counter, exception holder, timer, page counters of full and partial pulls, destructor | extends `Puller` |
| `DbPool` | the pool, its handles and its cleaner | |
| `Statements` | `ParamQuery` and `exec` of its rows, the results of libpq and their owners, the statements of a pull, `query_reduce_select` | |
| `DataLists` | the getters of a row, the four lists and their indices, `BaseDataImpl` with its `LoadingTransaction`, `CountersLoader` | |
| `SpeedLimiter` | `on_progress_updated` with its points and its sleep | |
| `Text`, `Calendar` | the helpers of texts, numbers and dates of `common.cpp` and `systems/` | |
| `Helpers` | one call of a helper, or any sequence of calls of one of the small objects above | `Text`, `Calendar`, `Settings`, `DbPool`, `Thread`, `Statements`, `SpeedLimiter`, `Journal`, `DataLists`, `Report` |
| `*Proofs` | the proofs, see section 4; `LinkReleaseProofs` is about `MergeOnline` and `ReadCallLegLink`, `PullerProofs` also about `Sync`, `DaemonProofs` about `Web` and `LogInstance`, `LibraryProofs` about the objects of `Helpers`, its pulls and its calendar, and about `RingBuffer` | |

`MC*` modules hold the concrete inputs of the runs. Operators whose names end
in a suffix after `_` and whose comment begins with "Mutant" are deliberately
wrong variants of the definition that follows them; substituted for it they
make the property named in PROJECT.json fail.

Steps. An action is the stretch of code between two accesses to something
another thread, the database or the clock can change. In `WindowReader` every
polling loop is one action that is enabled when the loop would end; sleeping is
stuttering. In `MergeContainer` absorbing is one action per row, which touches
only the thread's own containers, followed by one that sets the pause flags; the
scan is one action per record because it asks `linkReader_.getTime()` for each,
the wait for room in the output queue is a separate action, and so is each leg
of the expiry loop, which asks `getTime()` again. `try_dequeue_bulk` takes everything: its limit is
`max_queue_size`, which the readers' own wait enforces. In `LogInstance` a send
is two steps, because a message is stamped before it is enqueued; so is the stop,
the flag and the end of the log; a message taken from the queue is dealt with in
one, as only the log thread takes messages and touches what it keeps. In
`CyclicTask` a handler is two steps, the call of the routine and what follows
its return, and the stop of all tasks is one step per task and one per routine,
as the mutex it holds does not keep handlers from running. In `BDb` a step is
one attempt of `exec`; the `ping()` that follows a failed attempt belongs to it.
In `Sync` the queue and the counter beside it change in two steps, of `enqueue`
and of the worker's loop. In `Application` the steps of `application::stop` are those another
thread can see: the flag, the tasks, the io context, the log. In `Web` a session
is one step per handler, and a page that is running holds an io thread. In
`Thread` every assignment and every test of `status_` is a step. In `DbPool` an
operation is one step, as it holds the mutex, except that the cleaner reads the
clock before. In `DataLists` a `LoadingTransaction` stores state, list and version in
steps of their own, the replacement of the pointer to the list begins and ends,
and a reader asks for version and list in two calls, in either order; a load of
counters takes the old object, queries, compares, and then either copies and
replaces the object or writes row after row in place. In `Settings` a reading
puts the settings in force and sets the log level in two steps.

Data. Times are small numbers, uniqueids numbers, rows model values; the columns
that no decision reads are left out. `legs_` is a set in which a leg replaces
one with the same uniqueid; `links_` maps a uniqueid to a sequence, and the
empty sequence stands for no entry. Links of a record form a set. A text is a
sequence of bytes where its bytes matter (`Text`), else a name. Integers have
`IntBits` and `LongBits` bits where a conversion can overflow, the counter of
`Sync` has `CountBits`.

Undefined behaviour. What `++it` does after `erase(it)` in `DbPool`
(`DbPool.cpp:48`), the uninitialised fields of a report, and `front()` of an empty
list are nondeterministic choices; nothing is claimed of what follows a step into
freed memory. `status_` of a `Thread`, which `thread.hpp:13` leaves uninitialised,
reads as anything until the thread first writes it, so that `stop()` can take an
unstarted thread for a running one. In `LegsAggrRawReport.cpp:18-29` `b.front()` of
a call without second leg is whatever is there; `CallReported` says what the
report contains otherwise. The shared pointer of a `BaseDataImpl`
(`BaseDataImpl.hpp:92`) is replaced without synchronisation: once it is copied or
replaced while it is being replaced (`raced`), the model of the list ends and
nothing is claimed.

External. The writers of the tables, PostgreSQL's NOTIFY, the telephony server
and the clock are modelled from how the code uses them: a row appears at or
after its start time; a row is *punctual* if it appears within `read_waiting`
seconds; a notification reaches the sessions that have committed LISTEN; a lost
connection loses what was queued for it. Times are whole seconds. A PostgreSQL
session has one transaction, which ends with it; a statement whose answer is
lost may or may not have been carried out; BEGIN in a transaction and COMMIT
outside one are answered with a warning. A boost timer calls its handler once,
with `operation_aborted` if it was cancelled before it expired. The moodycamel
queue is FIFO for one producer; jsoncpp refuses a number that does not fit.

## 3. Runs

| run | shows | instance |
|---|---|---|
| `reader_windows` | `AtMostOnce`, `WatermarkComplete`, `DisorderBelowMaxCallTime`, `ImplementsFeed`, `EventuallyRead` | six rows: one on the start stamp, two in reverse id order, a late one, one that triggers catching up; queue of 2, clock to 13 |
| `merge_join` | nothing lost or shared (`OnePlace`), nothing emitted or dropped too early (`NothingLeavesEarly`), emitted records final (`EmittedIsFinal`) | two calls, a transfer, a leg overtaking by id, rows that close the windows |
| `merge_complete` | finding: a record leaves without enqueued links | the same |
| `merge_progress` | `EveryCallEmitted`, `PauseEnds` | one call and enough rows after it; either reader can get paused |
| `link_release` | the copies of the online tables (`NoFlicker`, `CopyConverges`) and the links that wait for them (`HeldUntilOver`, `EveryLinkReleased`) | two links of one channel on two servers, one without terminating channel, calls that come to an end or go on for ever, one lost connection |
| `health_priority` | finding: a milder message overwrites a more severe entry | two items, three levels, entries of age 2 |
| `log_counts` | `NoSendLost`, `EverySendWritten`, `LogThreadEnds` | two threads, three sends, before and after the flag of the stop, a delay of 1 and a clean-up age of 2 |
| `ring_buffer` | `ImplementsLastPushed` | three slots, three values |
| `cyclic_tasks` | `OneChain`, `DeletedInTimeStaysQuiet`, `ErrorLogFaithful`, `Recurs` | two tasks, two io threads, four exceptions of two texts, an error log of two entries |
| `app_web` | `EventsInOrder`, `PageFindsItsObjects`, `SignalEndsRun`, `EveryRequestAnswered` | two clients, one io thread beside the main thread, a failing load, a signal at any moment; pages that read the merge service, throw, or reset the health register, and a path without a slash |
| `sync` | `PullSafe` (never mixed, atomic on an unbroken session unless the COMMIT was refused, returned clean), `CountersSettle`, `EveryEventPulled`, `WorkerEnds` | two events, each for two rows or for all, connections lost and statements refused at any moment, the COMMIT too, a counter of three bits, a stop at any moment |
| `library` | `HelpersExact`, `StatementsExact`, `CallReported` (pure algorithms against definitions of their own); `WholeForReaders`, `OneHandEach`, `ClosedWhenIdle`, `StopWaits`, `ResultsOwned`, `PaceKept`, `EachInItsFile` (objects under every sequence of calls) | see below |

The instance of `library`: all texts of up to five characters over the
characters a helper treats differently; numbers around the limits of a five-bit
int and an eight-bit long; seconds around the ends of months, leap years and
years in three time zones; files with an option of every type given as every
type; all parameter rows of up to seven arguments; all joins of up to three
legs and three links; three threads on the pool, which allows two to return in
one second while the third takes one; six chunks against a ring of four points;
two loaders and three loads, of two counters; two result objects and three
queries; three log calls, with and without a path for the main log and an address
of graylog, and flushes that can open all files or all but one.

`WholeForReaders` joins the three claims on what is replaced while others read it:
`LevelFollows` (settings), `ListWhole` (a list and its version) and `CountersKept`.

Bounds. `MaxTime` and `MaxSecond` bound clocks, `MaxSends` and `MaxLogged` log
messages, `MaxDrops` lost connections, `MaxTasks` the task objects, `MaxErrors`
their exceptions, `MaxRetries` failing loads, `MaxPulls` events, `MaxConnections`
connections made, `MaxResults` queries, `MaxChunks` chunks, `MaxLoads` loads; a
cyclic task of the log is not run again before its last message was taken.
Connections of a pull may be lost without bound: the attempts are bounded by the
code. Clients may come and ask without bound. The tables are fixed but appear
row by row (`WindowReader`) or are read at any speed (`MergeContainer`). They are
as small as lets each branch happen: a row on every side of a window boundary,
both window lengths, a full queue, a pause of either reader, an expiry of each
kind, an error log that drops entries, a pull that finds the leftovers of a
failed one, a counter that runs below zero, a full ring of points.

Deadlock is checked except where the model really ends: when the bounded clock
of `WindowReader` has run out, when the log thread of `LogInstance` has been
joined, when the io context of `CyclicTask` is stopped, when the process of
`Application` has ended, when the worker of `Sync` has ended, and when a helper
has returned.

Fairness. Every thread is weakly fair: each is a loop that only sleeps. The
clock goes on and punctual writers meet their deadline. No call has to end:
`CopyConverges` also speaks of a call that goes on for ever, whose notification
may be lost; `EveryLinkReleased` assumes, in its statement, that each call is again
and again not online. Nothing forces a pause to end in `WindowReader`, so
`EventuallyRead` assumes it; `MergeContainer` shows under which tables it does.
In `LogInstance` each sender's part of the queue is served: the cyclic tasks
post twice a second or rarer and the log thread drains the queue in between. The
two tasks recur while the daemon runs, and `application::stop` gets to its end. In
`CyclicTask` the start of a ready handler is strongly fair, because
`io_context` runs handlers in the order in which they became ready, while a
thread is free only now and then; for the same reason the handlers of an accept
and of a request are strongly fair in `Web`, and pages return. `Application`
assumes that the main thread and the thread in the signal handler get on, and no
signal and no client. In `Sync` the worker's thread and an `enqueue` that has
begun go on, and the manager is destroyed when the daemon stops; nothing is
assumed of connections.

### What the code does not guarantee

The merge:

* A row written later than `read_waiting` after its start, once a younger row
  has closed the window, is never read. The model lets such rows appear;
  `WatermarkComplete` speaks of punctual rows only.
* A row that carries exactly the time given to `setStart` is not read: windows
  are open on the left. The newest `read_threshold` seconds wait for more rows.
* A second terminating leg with the uniqueid of one still held replaces it.
* A group of links expires by its first link: one that names a call and is older
  than its leg takes the links of the call with it. `LinkKeptForItsCall` speaks
  of calls without such a link (`Orderly`).
* If one reader overtakes the paused one by more than `2 * max_call_time` in one
  pass, the pause does not end. `merge_progress` uses tables that stay closer.
* A reader waiting in one of its inner loops does not notice that it is asked to
  stop. `Thread::join` tests `RUNNING | STOPPING`, which is the value of
  `STOPPING`; a thread that has ended by itself is never joined.

The databases:

* `exec` repeats a statement on a new session although the transaction was lost
  with the old one: the rest of the pull is then not atomic, and a COMMIT
  repeated there is answered like a successful one, so a pull can report success
  though its work is lost. A refused statement has the same effect, because
  `ping()` fails in the failed transaction and replaces the session.
  `AtomicIfUnbroken` says when a pull is atomic, `NeverMixed` what holds always.
* A refused COMMIT (a deferred constraint) leaves no transaction and a session that
  answers the ping (`BDb.cpp:223-229`). The repeated COMMIT is answered with a
  warning, so that the pull reports success although nothing was committed.
  `AtomicIfUnbroken` says that the table is unchanged then, and not that the pull
  throws.
* The number of waiting events is wrong between the queue and the counter, on
  either side, and can be seen below zero, as the largest `size_t`.
* Of two connections returned within one second one is closed. The cleaner of
  the pool goes on with the iterator it has erased.
* A pull that ends because the daemon stops throws a `std::runtime_error` and is
  not counted as an error.
* `SpeedLimiter` notes a point before it sleeps, so that a copy can run ahead of
  the limit by a chunk each time the ring has been filled once more; `PaceKept`
  has this allowance.
* `LoadingTransaction` sets the state before the list: `ready()` can be true
  while `get()` is null. A reader who gets the list before the version can take an
  old list for the new version, and the replacement of the pointer is a data race.
* `CountersLoader::load` copies the object that was there when it began: of two
  loads that overlap one undoes the other. Values written in place change under
  readers, who see some of the rows of a load and not others.

The daemon:

* `Thread() {}` leaves `status_` uninitialised until the new thread writes it. A
  `stop()` before that can take the garbage for RUNNING: it then throws, if the
  thread was never started, or waits, or returns although `run` is still to come.
  `StopWaits` speaks of a RUNNING that the thread has written.
* Between `settings.cpp:371` and `372` the new settings are in force with the old
  level of the log.
* A task whose handler is running when it is deleted, or when all tasks are
  stopped, is armed once more. `application.hpp:63` says that
  `stop_all_cyclic_tasks` deletes all tasks; this holds for tasks whose timer is
  running (`DeletedInTimeStaysQuiet`).
* The routines of the STOP event never run: the signal handler calls
  `application::stop`, and nothing calls `app::stop`, which applies the event.
* The daemon does not end in an orderly way: the merge thread is a
  `std::thread` that nobody joins, so its destructor terminates the process,
  unless a merge thread has asked `application::instance()` or the log after
  they were reset; the assertion at `application.cpp:158` then fails. In the
  model this is the end of the process (`Up`).
* A page asked for between the start of the io threads and the creation of the
  merge service reads a null pointer. `PageFindsItsObjects` says that this is
  the only such moment.
* The config page always answers 500: its mask is applied to an array. Numbers
  in quotes are refused although `settings.cpp:117` has a branch for them, which
  is not reached. `conf/call45aggr.json` says `instance_id` and `instance_name`,
  the code reads `instanceId` and `instanceName`.
* ERROR ranks below WARNING, so that the level WARNING drops errors.
* The writers of the log drop messages without a word: the one of the main file
  when the path is empty, which is the default (`settings.cpp:26`); every one when
  its file cannot be opened, as the stream is not tested; graylog without a host or
  a port. `EachInItsFile` says what holds then: nothing goes into a wrong file or
  out of order. What is buffered or queued when the log thread leaves its loop is
  never written.
* A path without a slash (`aggregated.cpp:28-31`) makes the aggregated page throw;
  the client gets a 500.
* `LegsAggrRawReport` reads `b.front()` of every call, also of one without a second
  leg.
* `DataVoipRecordReport` leaves `account_id_2` and `supplement_service_id`
  uninitialised.

### Findings

1. `MergeContainer.cpp:168` says a record is removed when everything connected
   with it has been read. The test that follows asks how far the link *reader*
   is; links it enqueued after the pass took its batch are still in `queueLink_`
   (run `merge_complete`). What does hold is `NothingLeavesEarly`.
2. `health_register.cpp:19` says an entry of greater priority is not
   overwritten; the comparison does the opposite (run `health_priority`). No
   item of this build is reported at two levels, so the effect is latent.

## 4. Proofs

| module | theorem | for every value of |
|---|---|---|
| `WindowReaderProofs` | `ReaderAtMostOnce`, `ReaderWatermark`, `ReaderWholeWindows`, `ReaderTypeOK`, `ReaderDisorder`; `ReaderImplementsFeed` (refinement) | table, late rows, settings |
| `WindowFeedProofs` | `FeedSafe` | the same, and anything that drains the feed |
| `MergeContainerProofs` | `NothingLost`, `NothingEarly`, `EmittedOnce` from `JoinSafe`; `NeverBothPaused` | both tables, settings |
| `LinkReleaseProofs` | `OnlineNeverFlickers`, `LinkHeldUntilOver` | servers, calls, rows, lost connections |
| `CyclicTaskProofs` | `TaskOneChain`, `TaskStaysQuiet`, `TaskLogFaithful` | tasks, names, io threads, texts, exceptions, length of the ring |
| `PullerProofs` | `PullerSafe` from its parts, `PullerTypes`; `SyncImplementsPuller` (refinement), `SyncPullSafe`, `SyncCounters`, `SyncStopHeard` | pulls, loads, lost connections, refused statements |
| `DaemonProofs` | `WebEventsInOrder`, `WebPagesFindTheirObjects`; `LogNoSendLost`, `LogWakeUpPending` | clients, io threads, paths, failing loads; threads that log, texts, delays |
| `LibraryProofs` | `ThreadStopWaits`, `PoolOneHandEach`, `PoolClosedWhenIdle`, `ResultsOwnedOnce`, `LimiterPaceKept`, `ReplacedWhole`, `JournalEachInItsFile`; `PullsExactly`, `ReducingTwice`, `TimesExact`; `RingCorrect`, `RingImplementsLastPushed` (refinement) | threads, threshold, result objects, sizes of the rings, chunks, loaders, counters, log calls; tables, ids, moments, time zones |

All bounds that only keep TLC's runs finite (`MaxDrops`, `MaxTasks`, ...) are
arbitrary natural numbers in the proofs. The assumptions on constants are the
named `ASSUME`s of the modules. Those that are more than types:
`read_threshold` is positive and at most `max_call_time` (both readers);
`Legs` and `Links` are disjoint sets of rows; a link has the same uniqueids in
`call_leg_link` and in `call_leg_link_online`; fewer events are queued than a
`size_t` counts (`CountAssumption`); the limiter's ring has at least two slots
and a chunk has a largest size (`LimiterAssumption`); finitely many threads log,
and time starts later than any delay, as the first message of a text is
compared with 0 (`LogAssumption`); the calendar covers years from 1900 to 4900,
the ones `string_time` writes (`CalendarAssumption`), and the helpers are asked
for moments whose year and the next are in it (`MomentsAssumption`).

### The readers

`WindowReaderProofs` rests on `ReaderAssumption` alone. `ReaderDisorder` is an
action property; `ReaderImplementsFeed` is what allows `MergeContainer` to be
composed with two instances of `WindowFeed` instead of two readers. None of the
invariants is inductive. `IInv` adds to the types:

* `DueInv`: writers have met every deadline that is past. Without it a punctual
  row could appear behind the watermark.
* `SpanInv`: where the window is, and that it is never longer than
  `max_call_time`; the bound on the disorder comes from this.
* `SettledInv`: after the wait for a younger row the deadline of the whole
  window is past. This is the heart of the argument: `AwaitLaterRow` sees a row
  younger than `stopTime_` that began at least `read_waiting` ago, so every
  punctual row up to `stopTime_` is in the table when it is selected.
* `BatchInv`, `ReadInv`: what is in the batch lies in the window and was never
  read; what was read lies behind it. Windows therefore cannot overlap.
* `CompleteInv`: nothing punctual is missing behind the window, and inside it
  everything is in the batch or read.

`StepIInv` has one step per action. The refinement maps the program counter to
`WindowFeed`'s phase and needs `SettledInv` for `Admit` and `DueInv` for
`Select`.

`WindowFeedProofs` shows the same of the abstract feed, where `SpanInv`,
`BatchInv`, `ReadInv` and `CompleteInv` suffice. Its drainer is arbitrary:
nothing is assumed of what happens to the queue and the flag. The module is
instantiated twice in the proof of the join.

### The join

`MergeContainerProofs` proves three properties of the run `merge_join` from one
invariant, `IInv`: `FeedInv` of both readers and

* `RecordInv`, `OrigInv`: a call has at most one record, open or emitted, and its
  leg is either on the way or has opened it;
* `GroupInv`, `LinkPlaceInv`, `LinkShareInv` and the same for legs: pairwise, the
  places a row can be in exclude each other, and one that was read is in one of
  them. `OnePlace` counts these places; the count is 1 because each place
  contributes at most one element and at most one place any (`NothingLost`).
* `ScanInv`: the records behind the cursor have no links left in `links_`. This
  is why `ExpireLinks`, which follows the scan, drops no link of an open record.
* `PassedInv`: what was emitted or dropped began more than `max_call_time` before
  `linkReader_.getTime()`, which never goes back; with the watermark of the feed
  its links have been enqueued.
* `OrderInv`: a leg still to be absorbed is less than `max_call_time` older than
  any absorbed before it. A link that expires by `maxLegTime_ - max_call_time` is
  therefore older than every leg to come, so the leg that would claim it is in a
  record, and by `ScanInv` the record has left.

`LinkKeptForItsCall` needs a hypothesis that the proof brought to light: no link
of the call is older than the call's leg (`Orderly`). `ExpireLinks` looks only at
the first link of a group and drops the group with it; a link that carries the
call's uniqueid and an earlier time would take the call's own links along.

`NeverBothPaused` says what the container promises its readers (`OneReaderRuns`):
never both paused, and after a pass one of them paused exactly when they are
`Apart`. It is the safety part of `PauseEnds`. `PauseInv` adds that the times are
integers, so that one reader is ahead. While rows are absorbed the times move and
the flags do not, which is why the second half excepts that phase.

### Links and online calls

`LinkReleaseProofs`: `NoFlicker` is not a property of single steps without an
invariant. `EventsInv` says what a queued notification may claim (a deletion
only of a call that is over), `CopyInv` that the result of a select which is
about to replace the copy has every known call that still goes on. With
`KeepsKnown` from these, `HeldInv` (a held call is known until it is over) and
`OverInv` (once the call's own watcher has said no, it is over, and the reader
gets past a check only when all have) are inductive. `HeldUntilOver` is about
links with a uniqueid (`HasUid`): one with two empty ones is never held.

### Cyclic tasks

`ChainInv` adds to `OneChain` and `DeletedInTimeStaysQuiet` that two names never
stand for one task object, that an object not made yet has no handler, and that a
silenced task has left the registry. `TaskLogFaithful` compares the ring of
errors with the history of all exceptions of a task, cut into runs of equal
texts. `LogInv` numbers the runs from the newest (`Rank`) and says that the entry
at each rank is that run. The steps of `save_error` either lengthen the newest
run or start one, which moves every rank by one; runs are found by least
elements, in place of an induction over the history.

### Pulls

`PullerSafe` rests on `PullAssumption`. `refused` remembers that
the COMMIT of the pull was refused. The inductive invariant `IInv` adds

* `TxnInv`: a transaction is open only between BEGIN and the end of the pull, a
  failed one can only be rolled back, and a statement that `exec` has given up
  on has met the end of its session. The last part is why a connection whose
  ROLLBACK failed is clean all the same.
* `RoomInv`: what a copy is about to fill is empty: the transaction's view, or
  the table itself when the statement that cleared it ran outside. `NeverMixed`
  rests on it.
* `UnbrokenInv`: in its own session the pull still has its transaction, and what
  COMMIT will publish is this pull's load; after a refused COMMIT there is no
  transaction, so that the second one publishes nothing.

`SyncImplementsPuller` shows that the worker adds nothing to a pull: each of its
steps is one of `Puller`'s or leaves `Puller`'s variables alone. So `SyncPullSafe`
needs no invariant of its own. `SyncCounters` does: `QueueInv` compares
the counter with the tasks in the queue and the one the worker has taken and not
subtracted; it lags behind by the one task `enqueue` has added and not counted,
and stands at the largest `size_t` if the worker was faster. `TimerInv` says that
the timer runs exactly while a pull is under way, and that the page's full and
partial figures are what the pulls that returned were asked for. `SyncStopHeard` follows
from `QueueInv`, too: the empty task of the destructor is in the queue only when
the daemon has stopped, so a worker that takes it ends and does not go back to
wait. It is the safety part of `WorkerEnds`.

### The library

* `ThreadStopWaits`: when a `stop()` that found the thread RUNNING returns, the
  body is over, in every interleaving and whatever the uninitialised status reads
  as; only a stop that took the garbage itself for RUNNING (`early`) is left out.
  `StopInv` adds what the owner knows at each of its steps: RUNNING is seen only
  while the body is in `run`, and between the owner's write of STOPPING and its
  test in `join` only the body's last assignment can replace it, so that the test
  fails only for a body that has ended.
* `PoolOneHandEach`: `OneHandEach` with the types and the finiteness that
  cardinalities need. That there are never more connections than threads rests
  on `get`, which makes one only when none is idle: all others are then in the
  hands of other threads. The oldest entry exists because the keys are natural
  numbers (`MinIn`). The proof covers every outcome of the cleaner's loop short
  of a step into freed memory. `PoolClosedWhenIdle` is an action property; it
  needs that the cleaner's clock is not ahead (`ClockInv`).
* `ResultsOwnedOnce`: `OwnerInv` states the ownership without cardinalities: a
  result is held and uncleared, or cleared once and held by nobody, and two
  objects never hold the same.
* `LimiterPaceKept`: `PointsInv` bounds every point in the ring by what was
  allowed when it was noted, and one chunk: the oldest point of a full ring is
  `QueueSize - 1` reports old, which is where the allowance grows.
* `ReplacedWhole` has an invariant for each of the three. `SettingsInv`: outside a
  reading the level is that of the settings. `ListInv`: a list is parsed before it
  is stored, no version is given twice, and a version that a reader has seen is
  that of the list in force until another is stored. `CountersInv`: writing
  in place takes no id from an object (`HeldInv`, with loads that overlap); while
  loads do not overlap, a load writes in place only if the database had a row for
  each id it asked for (`AllFound`) and knows them all, so that no object that was
  got changes its ids (`KeptExactly`), and what is still to be copied or written
  leads to what was found (`AloneInv`).
* `RingCorrect`, from `CapacityAssumption`: the indices stay in the array and
  `m_back` is where front and size say. The lemmas replace `%` by comparisons,
  as an index wraps at most twice. `RingImplementsLastPushed`: the mapping reads
  the slots from `m_front` on; each operation moves one end of it, and `push`
  into a full buffer both.
* `JournalEachInItsFile`: what a file takes of the messages is a subsequence,
  written as a recursive function (`Picked`) whose value for a concatenation is
  the concatenation of the values. This is shown for all lengths without an
  induction theorem, by the least length for which it would fail. `JournalInv`
  adds that the numbers of the messages in each file, in what was sent to graylog
  and in what waits grow and are behind one another (`Numbered`); that nothing is
  missing from a file is claimed of those that could be opened at every flush.
* `PullsExactly`: `PullInv` says that a pull that has returned is one of
  `PullCalls` with the result of its statements; what they leave is then followed
  for each key, with and without a list of ids.
* `ReducingTwice` is about the operators alone. A row that is among the first `n`
  of the union is among the first `n` of every select that has it. Conversely, a
  row below one that survives was not reduced away: the least that its select
  reduced away has `n` rows before it, which were kept.
* `TimesExact`: a day lies in exactly one month of one year, as `YearDay` and
  `DaysBefore` grow and every month ends where the next begins; `gmtime` is
  therefore the inverse of `timegm`. The same lemmas, for the first of a month and
  for the midnight of a zone, give the days and months.

### The daemon

* `WebEventsInOrder`: `EventsInv` ties the events applied so far to where the
  main thread and the load are;
* `WebPagesFindTheirObjects`: `PagesInv` says that no handler runs before the io
  threads are started or after the main thread has joined them, and that the
  application exists from the one moment to the other.
* `LogNoSendLost`: the sends of a text that are on their way, delayed, buffered
  or written are counted as units, the pairs of a message and one of the sends it
  stands for (`Units`), so that sums become cardinalities and one message more or
  less is a disjoint union. `LogInv` adds to the types that a message which may
  still be delayed stands for one send (`Singles`), as `HandleText` counts it as
  one, and that the delays are a finite map (`Delays`), over which the clean-up
  goes entry by entry.
* `LogWakeUpPending`: once the log is gone the log thread has left its loop, has
  not begun it, or finds a message in the queue. It is the safety part of
  `LogThreadEnds`.

### Model-checked only

Liveness (`EventuallyRead`, `EveryCallEmitted`, `PauseEnds`, `CopyConverges`,
`EveryLinkReleased`, `EverySendWritten`, `LogThreadEnds`, `Recurs`,
`SignalEndsRun`, `EveryRequestAnswered`, `EveryEventPulled`, `WorkerEnds`) needs
fairness and is out of the prover's reach. Of the pure algorithms, `HelpersExact`
is proved in the parts `StampReadBack` and `PeriodsTile`, `StatementsExact` in the
part `PulledExactly` and in the step that unites selects. Their other parts are
about folds over texts, rows and options of any length: splitting and joining, the
query of a URL, Base64, numbers and their limits, units of time, the dump of the
settings, the rows of a `ParamQuery`, the indices of a list, the conditions of a
reducing select. So is `CallReported`. What a fold returns for every input is an
induction over data, which these provers do not do; TLC checks them on all inputs
of the bounds above.

## 5. Not modelled

* `PullersList.cpp`, `PullManager::pull` and most of `Loader.cpp` are commented
  out in the source: no table is pulled and no list is loaded in this build.
  `PullWorker`, `Puller`, `BaseDataImpl` and `CountersLoader` are modelled as
  they would run, although no list and no loader of counters is instantiated; there
  is nothing to translate in the rest.
* Code without users: `timed_vector`, `array_view`, `transform`, `BlockedQueue`,
  the trace trees of the log, the database mocks, `BDb::rel_exists` and
  `query_fastcalc_last_id`, `BDbResult::previous`, `set`, `get_t`, `get_d`,
  `fill_cs` and `force_free` (which would leave count and index of a result that is
  gone), `DbPool::set_connection_string`, the copy constructor and the move
  assignment of `reusable_object` (its handles are only made and moved into place;
  a copy would give a connection back twice), `Thread(std::string)`,
  `application::run_async_task`.
* `DataVoipRecordReport_old.cpp` is not built and `PstnRecordReport` builds
  nothing.
* HTML, the layout of log lines, the text of error messages, uptime and thread
  names: output that no decision reads. Execution times of cyclic tasks.
* Vendored code: the queues of moodycamel, jsoncpp, boost.
* Three data races and misuses whose effect is below the models: `PQsocket` of a
  connection that is not open yet (`MergeOnline.cpp:140`), the web page that
  iterates over `links_` while the container changes it
  (`MergeContainer.cpp:126`), and a routine that throws out of
  `stop_all_cyclic_tasks` (`application.cpp:183`).

## 6. What could follow

1. `ReadCallLegLink`'s own window loop as an instance of the reader's refinement.
2. `CyclicTask` composed with `HealthRegister`, which `save_error` calls, and
   with the cleaner of `DbPool`.
