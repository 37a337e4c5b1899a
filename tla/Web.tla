-------------------------------- MODULE Web ---------------------------------
(***************************************************************************)
(* The web interface while the daemon starts, runs and stops.  The         *)
(* listener and the sessions live on the io threads of Application, which  *)
(* start before the merge service is made.  A session reads a request,     *)
(* calls the page and writes its answer, one after the other (a strand);   *)
(* every io thread can take the next handler that is ready.                *)
(***************************************************************************)
EXTENDS Application, FiniteSets, SequencesExt

CONSTANTS
    Clients,
    Paths,            \* paths asked for, as the components behind each '/'
    Threads           \* threads_count, without the main thread

VARIABLES
    accepting,        \* async_accept is under way
    session,          \* per client
    path,             \* per client: path_ of the request
    found,            \* history: every page has found the objects it asks for
    health            \* health_register has an entry

webVars == <<accepting, session, path, found, health>>
allVars == <<vars, webVars>>

WebInit ==
    /\ Init
    /\ accepting = FALSE /\ found = TRUE /\ health = FALSE
    /\ session = [c \in Clients |-> "none"]
    /\ path = [c \in Clients |-> <<>>]

\* What a page does beside writing text: the codes it can end with, where an
\* exception is 500, and the objects it reads.  The config page always throws
\* (see Settings), cyclic_task throws without a name, records when the
\* database is away.
View(codes, reads) == [codes |-> codes, reads |-> reads]

favicon_view == View({200}, {})
config_view == View({500}, {})
health_view == View({200}, {})
root_view == View({301}, {})
log_view == View({200}, {"log"})
sync_view == View({200}, {})
state_view == View({200}, {"application"})
data_view == View({200}, {})
cyclic_task_view == View({200, 500}, {"application"})
online_view == View({200}, {"service"})
time_view == View({200}, {"service"})
merge_view == View({200}, {"service"})
leg_view == View({200}, {"service"})
link_view == View({200}, {"service"})
records_view == View({200, 500}, {"application"})
not_found == View({404}, {})
server_error == View({500}, {})

\* create_default_handler; the path "/" is the one component "".
views_ ==
    <<"favicon.ico">> :> favicon_view @@ <<"config">> :> config_view @@ <<"health">> :> health_view
    @@ <<"">> :> root_view @@ <<"log">> :> log_view @@ <<"sync">> :> sync_view
    @@ <<"state">> :> state_view @@ <<"data">> :> data_view @@ <<"cyclic_task">> :> cyclic_task_view
    @@ <<"online">> :> online_view @@ <<"time">> :> time_view @@ <<"merge">> :> merge_view
    @@ <<"leg">> :> leg_view @@ <<"records">> :> records_view @@ <<"link">> :> link_view

\* canonize_url cuts the last component.  It is called for every url, and a url
\* without a '/', here the empty sequence, makes it copy up to a place before
\* its beginning, at which std::string throws.
canonize_url(url) == Front(url)

\* The url itself, or the url it is below.
aggregated(url) ==
    IF url = <<>> THEN server_error
    ELSE IF url \in DOMAIN views_ THEN views_[url]
    ELSE IF canonize_url(url) \in DOMAIN views_ THEN views_[canonize_url(url)] ELSE not_found

\* getMergeService: set by application::init after the io threads have been
\* started.
ServiceThere == instance_ /\ main \notin {"run", "start", "init", "init_tasks"}

\* Io threads that are not in a handler; the main thread helps once it waits.
FreeThread ==
    Cardinality({c \in Clients : session[c] = "handle"})
      + (IF stopper \in {"flag", "tasks", "asio", "log"} THEN 1 ELSE 0)
    < Threads + (IF main = "wait" THEN 1 ELSE 0)

CanRun == io = "run" /\ FreeThread
-----------------------------------------------------------------------------
(* The listener. *)

\* A client connects: the kernel queues it while the acceptor is open.
Connect(c) ==
    /\ io = "run" /\ session[c] = "none"
    /\ session' = [session EXCEPT ![c] = "pending"]
    /\ UNCHANGED <<accepting, path, found, health>>

\* on_accept: a session for the client, and the next accept
on_accept(c) ==
    /\ CanRun /\ accepting /\ session[c] = "pending"
    /\ session' = [session EXCEPT ![c] = "read"]
    /\ UNCHANGED <<accepting, path, found, health>>

\* Mutant: an accept that fails is the last one.
on_accept_fails_Ends ==
    /\ CanRun /\ accepting /\ \E c \in Clients : session[c] = "pending"
    /\ accepting' = FALSE
    /\ session' = [c \in Clients |-> IF session[c] = "pending" THEN "none" ELSE session[c]]
    /\ UNCHANGED <<path, found, health>>

\* It fails (no descriptor, the client is gone), which is reported on stderr;
\* the next accept follows all the same.
on_accept_fails ==
    /\ CanRun /\ accepting /\ \E c \in Clients : session[c] = "pending"
    /\ session' = [c \in Clients |-> IF session[c] = "pending" THEN "none" ELSE session[c]]
    /\ UNCHANGED <<accepting, path, found, health>>
-----------------------------------------------------------------------------
(* A session. *)

\* The request arrives, or the stream ends or breaks: do_close or fail.
Request(c) ==
    /\ io = "run" /\ session[c] = "read"
    /\ \E p \in Paths : path' = [path EXCEPT ![c] = p]
    /\ session' = [session EXCEPT ![c] = "request"]
    /\ UNCHANGED <<accepting, found, health>>

StreamEnds(c) ==
    /\ CanRun /\ session[c] = "read"
    /\ session' = [session EXCEPT ![c] = "none"]
    /\ UNCHANGED <<accepting, path, found, health>>

\* handle_request up to the page
on_read(c) ==
    /\ CanRun /\ session[c] = "request"
    /\ session' = [session EXCEPT ![c] = "handle"]
    /\ UNCHANGED <<accepting, path, found, health>>

\* Mutant: only the exceptions of the standard library are caught.
Handle_Uncaught(c) ==
    /\ session[c] = "handle"
    /\ 500 \notin aggregated(path[c]).codes
    /\ session' = [session EXCEPT ![c] = "write"]
    /\ UNCHANGED <<vars, accepting, path, found, health>>

\* The page runs, and its answer is written whatever it is: aggregated::handle
\* catches every exception, and logs it like a page it has not found.  The
\* state page may have been sent action=do_reset.
Handle(c) ==
    /\ session[c] = "handle"
    /\ LET page == aggregated(path[c])
       IN  /\ found' = (found /\ ("service" \in page.reads => ServiceThere)
                              /\ ("application" \in page.reads => instance_))
           /\ \E code \in page.codes :
                 /\ session' = [session EXCEPT ![c] = "write"]
                 /\ logged' = (logged /\ (code \in {404, 500} \/ "log" \in page.reads => log))
           /\ health' \in (IF page = state_view THEN {health, FALSE} ELSE {health})
    /\ UNCHANGED <<accepting, path, main, daemon_running, instance_, log, io, stopper, load, retries, merge, applied, calls>>

\* on_write: read again, or do_close; an error ends the session.
on_write(c) ==
    /\ CanRun /\ session[c] = "write"
    /\ session' \in {[session EXCEPT ![c] = s] : s \in {"read", "none"}}
    /\ path' = [path EXCEPT ![c] = <<>>]
    /\ UNCHANGED <<accepting, found, health>>

\* A cyclic task or a life-span routine fails.
Trouble ==
    /\ io = "run" /\ ~health
    /\ health' = TRUE
    /\ UNCHANGED <<accepting, session, path, found>>
-----------------------------------------------------------------------------
(* The daemon with its web interface. *)

\* listener::run, then the io threads
InitIoListens == InitIo /\ accepting' = TRUE /\ UNCHANGED <<session, path, found, health>>

\* listener::stop, io_context_.stop
StopAsioCloses == StopAsio /\ accepting' = FALSE /\ UNCHANGED <<session, path, found, health>>

\* Mutant: the io threads are not joined.
WaitAsioJoins_Not == WaitAsio /\ UNCHANGED webVars

\* The io threads are joined: no handler runs any more.
WaitAsioJoins ==
    /\ WaitAsio /\ \A c \in Clients : session[c] # "handle"
    /\ UNCHANGED webVars

MainStep ==
    \/ InitIoListens \/ WaitAsioJoins
    \/ /\ Run \/ Start \/ InitFails \/ InitTasks \/ InitApp \/ Load \/ Reset \/ Destroy
       /\ UNCHANGED webVars

StopperStep ==
    \/ StopAsioCloses
    \/ (StopFlag \/ StopTasks \/ StopLog) /\ UNCHANGED webVars

OtherStep ==
    /\ \/ LoadOk \/ LoadFails \/ LoadTimer \/ Signal
       \/ MergeStart \/ MergeStartThrows \/ MergeQuery \/ MergeLogs \/ MergeEnd
    /\ UNCHANGED webVars

Session(c) == Connect(c) \/ on_accept(c) \/ Request(c) \/ StreamEnds(c) \/ on_read(c) \/ on_write(c)

WebNext ==
    /\ Up /\ found
    /\ \/ MainStep \/ StopperStep \/ OtherStep
       \/ \E c \in Clients : Handle(c)
       \/ /\ Trouble \/ on_accept_fails \/ \E c \in Clients : Session(c)
          /\ UNCHANGED vars

\* The io threads take their handlers in the order they became ready, so none
\* is passed over for ever; pages return.
WebFairness ==
    /\ WF_allVars(Up /\ found /\ MainStep) /\ WF_allVars(Up /\ found /\ StopperStep)
    /\ \A c \in Clients :
          /\ SF_allVars(Up /\ found /\ on_accept(c) /\ UNCHANGED vars)
          /\ SF_allVars(Up /\ found /\ on_read(c) /\ UNCHANGED vars)
          /\ WF_allVars(Up /\ found /\ Handle(c))

WebSpec == WebInit /\ [][WebNext]_allVars /\ WebFairness
-----------------------------------------------------------------------------
(* Properties. *)

\* After a signal the main thread gets out of wait_asio, even when the signal
\* came before it had finished starting, and with requests under way.
SignalEndsRun ==
    stopper # "none" ~> (main \in {"reset", "destroy", "terminated"} \/ ~(Up /\ found))

\* A page finds the application and the merge service whenever it runs, also
\* while the daemon stops; only in the moments of the start between the io
\* threads and the merge service it would not.
PageFindsItsObjects == ~found => main = "init_tasks"

\* Who connects gets a session, and who asks gets an answer, after failing
\* accepts and whatever the page throws, unless the daemon stops or the
\* connection fails.
EveryRequestAnswered ==
    \A c \in Clients : session[c] \in {"pending", "request", "handle"}
                         ~> (session[c] \in {"read", "write", "none"} \/ io = "stopped" \/ ~(Up /\ found))
=============================================================================
