--------------------------- MODULE ReadCallLegLink ---------------------------
(***************************************************************************)
(* ReadCallLegLink::getSQLData row by row, composed with the watchers of   *)
(* MergeOnline: a link is put on the queue only when no watcher reports    *)
(* its originating uniqueid, and then none its terminating one, as online. *)
(* The windows the rows come from are those of WindowReader.               *)
(***************************************************************************)
EXTENDS MergeOnline

CONSTANTS
    Links,              \* rows of call_leg_link in the order of the select
    LinkOrig, LinkTerm, \* uniqueid_orig, uniqueid_term of a row
    CallOrig, CallTerm, \* the same of a row of call_leg_link_online
    NoUid,              \* the empty uniqueid
    max_queue_size

\* A link has the same uniqueids in both tables.
ASSUME LinkAssumption ==
    /\ Links \in Seq(Calls)
    /\ Servers \subseteq Nat /\ Servers # {}
    /\ max_queue_size \in Nat \ {0}
    /\ \A c \in Calls : LinkOrig[c] = CallOrig[c] /\ LinkTerm[c] = CallTerm[c]

VARIABLES
    row,                \* index of the current row of the result
    rpc,                \* where getSQLData is with that row
    asked,              \* watchers that have answered no in the current check
    queue,              \* output_
    held                \* history: links whose call was known online when picked

readVars == <<row, rpc, asked, queue, held>>
vars == <<onlineVars, readVars>>

Init ==
    /\ OnlineInit
    /\ row = 1
    /\ rpc = "pick"
    /\ asked = {}
    /\ queue = <<>>
    /\ held = {}

-----------------------------------------------------------------------------
\* OnlineWatcher::checkUniqueIdOrig / Term: does some row of data_ carry u?
Reports(w, Uid, u) == \E c \in Calls : data_[w][c] > 0 /\ Uid[c] = u

\* MergeOnline::checkUniqueIdOrig / Term: the watchers are asked one after the
\* other, each once it is ready; the first yes ends the check and the reader
\* sleeps and checks again.  An empty uniqueid is never online.
Ask(Uid, u, from, to) ==
    /\ rpc = from
    /\ \/ /\ u = NoUid
          /\ rpc' = to
          /\ UNCHANGED asked
       \/ /\ u # NoUid
          /\ \E w \in Servers \ asked :
                /\ \A v \in Servers \ asked : w <= v
                /\ ready_[w]
                /\ LET no == asked \cup {w} IN
                   IF Reports(w, Uid, u) THEN asked' = {} /\ rpc' = from
                   ELSE IF no = Servers THEN asked' = {} /\ rpc' = to
                   ELSE asked' = no /\ rpc' = from
    /\ UNCHANGED <<onlineVars, row, queue, held>>

\* while (row.next())
Pick ==
    /\ rpc = "pick"
    /\ row <= Len(Links)
    /\ rpc' = "orig"
    /\ held' = IF Known(Links[row]) /\ life[Links[row]] = "online"
               THEN held \cup {Links[row]} ELSE held
    /\ UNCHANGED <<onlineVars, row, asked, queue>>

\* Mutant: only the terminating channel is checked.
AwaitOrig_Skipped ==
    /\ rpc = "orig"
    /\ rpc' = "term"
    /\ UNCHANGED <<onlineVars, row, asked, queue, held>>

\* while (online_.checkUniqueIdOrig(link.uniqueid_orig)) sleep
AwaitOrig == Ask(CallOrig, LinkOrig[Links[row]], "orig", "term")

\* while (online_.checkUniqueIdTerm(link.uniqueid_term)) sleep
AwaitTerm == Ask(CallTerm, LinkTerm[Links[row]], "term", "put")

\* while (size_approx() >= max_queue_size) sleep; enqueue(link)
Put ==
    /\ rpc = "put"
    /\ Len(queue) < max_queue_size
    /\ queue' = Append(queue, Links[row])
    /\ row' = row + 1
    /\ rpc' = "pick"
    /\ UNCHANGED <<onlineVars, asked, held>>

LinkReader == Pick \/ AwaitOrig \/ AwaitTerm \/ Put

\* MergeContainer takes what is there.
Take ==
    /\ queue # <<>>
    /\ queue' = <<>>
    /\ UNCHANGED <<onlineVars, row, rpc, asked, held>>

Next ==
    \/ OnlineNext /\ UNCHANGED readVars
    \/ LinkReader
    \/ Take

\* Watchers, reader and container are threads.  Nothing is assumed of the
\* calls: one may go on for ever.
Fairness ==
    /\ \A w \in Servers : WF_vars(Watcher(w) /\ UNCHANGED readVars)
    /\ WF_vars(LinkReader)
    /\ WF_vars(Take)

Spec == Init /\ [][Next]_vars /\ Fairness

-----------------------------------------------------------------------------
(* Properties. *)

\* There is something to ask the watchers about.
HasUid(k) == LinkOrig[k] # NoUid \/ LinkTerm[k] # NoUid

\* A link whose call a watcher knew to be going on when the row was picked is
\* enqueued only when that call is over, whatever the watchers reload or lose
\* meanwhile.
HeldUntilOver ==
    [][\A k \in held : /\ HasUid(k)
                       /\ rpc = "put" /\ row' # row /\ Links[row] = k
                       => life[k] = "over"]_vars

\* If no call goes on for ever, no link waits for ever: a watcher that missed
\* the end of a call reads the table again.
EveryLinkReleased ==
    (\A c \in Calls : []<>(life[c] # "online")) => <>(row > Len(Links))
=============================================================================
