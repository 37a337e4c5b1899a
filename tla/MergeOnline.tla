----------------------------- MODULE MergeOnline -----------------------------
(***************************************************************************)
(* MergeOnline and its OnlineWatcher threads: one thread per telephony     *)
(* server keeps in data_ a copy of that server's table                     *)
(* call_leg_link_online, from a full select every table_reload_time polls  *)
(* and from the notifications in between.  The link reader asks the copies *)
(* whether a call is still going on.                                       *)
(*                                                                         *)
(* PostgreSQL is external: a change of the table is notified to the        *)
(* sessions that listen, in order; LISTEN takes effect with the COMMIT; a  *)
(* lost connection loses the session and what was queued for it.           *)
(***************************************************************************)
EXTENDS Integers, Sequences, SequencesExt

CONSTANTS
    Calls,              \* links between two channels
    Servers,
    Home,               \* the server a link is on
    table_reload_time,
    MaxDrops            \* bound on lost connections

ASSUME OnlineAssumption ==
    /\ Home \in [Calls -> Servers]
    /\ table_reload_time \in Nat
    /\ MaxDrops \in Nat

VARIABLES
    life,               \* per call: "before", "online", "over"
    listening,          \* per server: the watcher's session is registered
    pending,            \* per server: notifications not yet taken by the watcher
    drops,              \* lost connections so far
    wpc,                \* per watcher: where run() is
    res,                \* per watcher: result of the select
    data_,              \* per watcher: how many rows of data_ a call has
    ready_, waited,
    received            \* per watcher: notifications libpq has handed over

dbVars    == <<life, listening, pending, drops>>
watchVars == <<wpc, res, data_, ready_, waited, received>>
onlineVars == <<dbVars, watchVars>>

Online(w) == {c \in Calls : Home[c] = w /\ life[c] = "online"}

OnlineInit ==
    /\ life \in [Calls -> {"before", "online"}]
    /\ listening = [w \in Servers |-> FALSE]
    /\ pending = [w \in Servers |-> <<>>]
    /\ drops = 0
    /\ wpc = [w \in Servers |-> "select"]
    /\ res = [w \in Servers |-> {}]
    /\ data_ = [w \in Servers |-> [c \in Calls |-> 0]]
    /\ ready_ = [w \in Servers |-> FALSE]
    /\ waited = [w \in Servers |-> table_reload_time]
    /\ received = [w \in Servers |-> <<>>]

-----------------------------------------------------------------------------
(* The telephony server and its database. *)

Notify(w, event) ==
    pending' = IF listening[w] THEN [pending EXCEPT ![w] = Append(@, event)] ELSE pending

CallStarts(c) ==
    /\ life[c] = "before"
    /\ life' = [life EXCEPT ![c] = "online"]
    /\ Notify(Home[c], <<"insert", c>>)
    /\ UNCHANGED <<listening, drops, watchVars>>

CallEnds(c) ==
    /\ life[c] = "online"
    /\ life' = [life EXCEPT ![c] = "over"]
    /\ Notify(Home[c], <<"delete", c>>)
    /\ UNCHANGED <<listening, drops, watchVars>>

Drop(w) ==
    /\ drops < MaxDrops
    /\ drops' = drops + 1
    /\ listening' = [listening EXCEPT ![w] = FALSE]
    /\ pending' = [pending EXCEPT ![w] = <<>>]
    /\ received' = [received EXCEPT ![w] = <<>>]
    /\ UNCHANGED <<life, wpc, res, data_, ready_, waited>>

-----------------------------------------------------------------------------
(* OnlineWatcher::run *)

Goto(w, from, to) == wpc[w] = from /\ wpc' = [wpc EXCEPT ![w] = to]

\* Mutant: the copy is emptied before the table is read.
Select_Clears(w) ==
    /\ Goto(w, "select", "fill")
    /\ waited' = [waited EXCEPT ![w] = table_reload_time]
    /\ res' = [res EXCEPT ![w] = Online(w)]
    /\ data_' = [data_ EXCEPT ![w] = [c \in Calls |-> 0]]
    /\ UNCHANGED <<dbVars, ready_, received>>

\* BEGIN; select * from call_leg_link_online
Select(w) ==
    /\ Goto(w, "select", "fill")
    /\ waited' = [waited EXCEPT ![w] = table_reload_time]
    /\ res' = [res EXCEPT ![w] = Online(w)]
    /\ UNCHANGED <<dbVars, data_, ready_, received>>

\* Mutant: a reload removes the rows that are gone and adds none.
Fill_OnlyRemoves(w) ==
    /\ Goto(w, "fill", "commit")
    /\ data_' = [data_ EXCEPT ![w] =
          [c \in Calls |-> IF c \in res[w] /\ (ready_[w] => @[c] > 0) THEN 1 ELSE 0]]
    /\ ready_' = [ready_ EXCEPT ![w] = TRUE]
    /\ UNCHANGED <<dbVars, res, waited, received>>

\* Under the lock: data_ is cleared and filled, and the watcher is ready.
Fill(w) ==
    /\ Goto(w, "fill", "commit")
    /\ data_' = [data_ EXCEPT ![w] = [c \in Calls |-> IF c \in res[w] THEN 1 ELSE 0]]
    /\ ready_' = [ready_ EXCEPT ![w] = TRUE]
    /\ UNCHANGED <<dbVars, res, waited, received>>

\* LISTEN three times, COMMIT: only now the session is registered.
Commit(w) ==
    /\ Goto(w, "commit", "poll")
    /\ listening' = [listening EXCEPT ![w] = TRUE]
    /\ res' = [res EXCEPT ![w] = {}]
    /\ UNCHANGED <<life, pending, drops, data_, ready_, waited, received>>

\* Mutant: the polling loop does not count.
Poll_Endless(w) ==
    /\ waited[w] > 0
    /\ Goto(w, "poll", "drain")
    /\ received' = [received EXCEPT ![w] = @ \o pending[w]]
    /\ pending' = [pending EXCEPT ![w] = <<>>]
    /\ UNCHANGED <<life, listening, drops, waited, res, data_, ready_>>

\* while (waited--): select() for a second, PQconsumeInput
Poll(w) ==
    /\ waited[w] > 0
    /\ Goto(w, "poll", "drain")
    /\ waited' = [waited EXCEPT ![w] = @ - 1]
    /\ received' = [received EXCEPT ![w] = @ \o pending[w]]
    /\ pending' = [pending EXCEPT ![w] = <<>>]
    /\ UNCHANGED <<life, listening, drops, res, data_, ready_>>

\* select() failed, or waited ran out: read the table again.
Reload(w) ==
    /\ Goto(w, "poll", "select")
    /\ UNCHANGED <<dbVars, res, data_, ready_, waited, received>>

\* insert: push_back.  delete: erase the first row that matches, if any.
\* (update only changes fields that no check reads.)
Apply(rows, event) ==
    [rows EXCEPT ![event[2]] =
        IF event[1] = "insert" THEN @ + 1 ELSE IF @ > 0 THEN @ - 1 ELSE 0]

Handle(w) ==
    /\ wpc[w] = "drain"
    /\ received[w] # <<>>
    /\ data_' = [data_ EXCEPT ![w] = Apply(@, Head(received[w]))]
    /\ received' = [received EXCEPT ![w] = Tail(@)]
    /\ UNCHANGED <<dbVars, wpc, res, ready_, waited>>

Drained(w) ==
    /\ received[w] = <<>>
    /\ Goto(w, "drain", "poll")
    /\ UNCHANGED <<dbVars, res, data_, ready_, waited, received>>

Watcher(w) == Select(w) \/ Fill(w) \/ Commit(w) \/ Poll(w) \/ Reload(w)
              \/ Handle(w) \/ Drained(w)

Environment == \/ \E c \in Calls : CallStarts(c) \/ CallEnds(c)
               \/ \E w \in Servers : Drop(w)

OnlineNext == Environment \/ \E w \in Servers : Watcher(w)

OnlineSpec == OnlineInit /\ [][OnlineNext]_onlineVars

-----------------------------------------------------------------------------
(* Properties. *)

Known(c) == data_[Home[c]][c] > 0

\* A call that is going on and that the watcher knows of is never reported as
\* over, whatever is reloaded, notified or lost in between.
NoFlicker ==
    [][\A c \in Calls : Known(c) /\ life[c] = "online" /\ life'[c] = "online"
                           => Known(c)']_onlineVars

\* When the table stops changing, the copy ends up equal to it for good, even
\* after lost notifications and doubly counted rows: a reload repairs both.  A
\* call that never ends is in the copy once, one that is over is not.
CopyConverges ==
    \A c \in Calls :
        <>[](data_[Home[c]][c] = IF life[c] = "online" THEN 1 ELSE 0)
=============================================================================
