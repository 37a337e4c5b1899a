------------------------------- MODULE Thread -------------------------------
(***************************************************************************)
(* Thread: the base of the readers, the watchers and the merge container.  *)
(* status_ is a plain field written by the owner and by the thread itself, *)
(* so their steps interleave; run() of a derived class ends when it sees   *)
(* that status_ is no longer RUNNING, or by itself.  The derived classes   *)
(* all use Thread(), which leaves status_ uninitialised.                   *)
(***************************************************************************)
EXTENDS Naturals

VARIABLES
    status_,          \* enum Status; uninitialised until it is first written
    body,             \* the thread: none, created, onStart, run, onStop, ended
    owner,            \* the owner: idle, stop (status_ seen RUNNING), join
                      \* (about to test status_), joining, returned, threw
    joined,           \* std::thread::join has returned
    early             \* history: stop() has met a RUNNING that no thread had written

threadVars == <<status_, body, owner, joined, early>>

\* What a read of status_ can yield: before it is written, anything.
getStatus ==
    IF status_ = "uninitialised" THEN {"CREATED", "WAITING", "RUNNING", "STOPPING", "STOPPED", "garbage"}
    ELSE {status_}

ThreadInit == status_ = "uninitialised" /\ body = "none" /\ owner = "idle" /\ joined = FALSE /\ early = FALSE

start ==
    /\ body = "none" /\ owner = "idle"
    /\ body' = "created"
    /\ UNCHANGED <<status_, owner, joined, early>>

\* threadFun, from one assignment of status_ to the next
BodyStarts == body = "created" /\ body' = "onStart" /\ status_' = "WAITING" /\ UNCHANGED <<owner, joined, early>>
BodyRuns == body = "onStart" /\ body' = "run" /\ status_' = "RUNNING" /\ UNCHANGED <<owner, joined, early>>
BodyReturns == body = "run" /\ body' = "onStop" /\ status_' = "STOPPING" /\ UNCHANGED <<owner, joined, early>>
BodyEnds == body = "onStop" /\ body' = "ended" /\ status_' = "STOPPED" /\ UNCHANGED <<owner, joined, early>>

\* stop() reads status_; only a RUNNING thread is stopped.
StopReads ==
    /\ owner = "idle"
    /\ \E status \in getStatus :
          /\ owner' = IF status = "RUNNING" THEN "stop" ELSE "idle"
          /\ early' = (status = "RUNNING" /\ status_ # "RUNNING")
    /\ UNCHANGED <<status_, body, joined>>

StopWrites == owner = "stop" /\ owner' = "join" /\ status_' = "STOPPING" /\ UNCHANGED <<body, joined, early>>

\* Mutant: join() as its condition reads, for a thread that is running.
JoinTests_Running ==
    /\ owner = "join"
    /\ owner' = IF status_ = "RUNNING" THEN "joining" ELSE "returned"
    /\ UNCHANGED <<status_, body, joined, early>>

\* join() tests for RUNNING|STOPPING, which is 2|3 = 3: STOPPING.
JoinTests ==
    /\ owner = "join"
    /\ owner' = IF status_ = "STOPPING" THEN "joining" ELSE "returned"
    /\ UNCHANGED <<status_, body, joined, early>>

Joined ==
    /\ owner = "joining" /\ body = "ended"
    /\ owner' = "returned" /\ joined' = TRUE
    /\ UNCHANGED <<status_, body, early>>

\* std::thread::join of a thread that was never started throws.
JoinThrows ==
    /\ owner = "joining" /\ body = "none"
    /\ owner' = "threw"
    /\ UNCHANGED <<status_, body, joined, early>>

ThreadNext ==
    \/ start \/ BodyStarts \/ BodyRuns \/ BodyReturns \/ BodyEnds
    \/ StopReads \/ StopWrites \/ JoinTests \/ Joined \/ JoinThrows
-----------------------------------------------------------------------------
(* Properties. *)

\* When stop() has waited for a thread that had said it was RUNNING, run() and
\* onStop() are over, wherever the two threads met: the object may be
\* destroyed.  (It need not be joined: a thread that ended in between is not.
\* Nothing is claimed when stop() took what the uninitialised status_ happened
\* to hold for RUNNING: it can return then while run() has yet to begin.)
StopWaits == owner = "returned" /\ ~early => body = "ended"
=============================================================================
