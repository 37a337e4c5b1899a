------------------------- MODULE LinkReleaseProofs --------------------------
(***************************************************************************)
(* Proofs about MergeOnline and ReadCallLegLink, for any number of calls,  *)
(* servers, rows and lost connections: a call that is going on does not    *)
(* drop out of a watcher's copy, and its link is not released before it is *)
(* over.                                                                   *)
(***************************************************************************)
EXTENDS ReadCallLegLink, TLAPS

Events == {"insert", "delete"} \X Calls

OnlineTypes ==
    /\ life \in [Calls -> {"before", "online", "over"}]
    /\ listening \in [Servers -> BOOLEAN]
    /\ pending \in [Servers -> Seq(Events)] /\ received \in [Servers -> Seq(Events)]
    /\ wpc \in [Servers -> {"select", "fill", "commit", "poll", "drain"}]
    /\ res \in [Servers -> SUBSET Calls]
    /\ data_ \in [Servers -> [Calls -> Nat]]

\* What a queue of notifications may say: the end of a call only once it is
\* over, and nothing of one that has not begun.
TruthOf(lives, c, event) ==
    event[2] = c => lives[c] # "before" /\ (event[1] = "delete" => lives[c] = "over")

EventsInv ==
    \A c \in Calls, w \in Servers :
        /\ \A i \in 1..Len(pending[w]) : TruthOf(life, c, pending[w][i])
        /\ \A i \in 1..Len(received[w]) : TruthOf(life, c, received[w][i])

\* No copy has a call that has not begun, and what a watcher is about to fill
\* its copy with has every call going on that the copy has.
CopyInv ==
    \A c \in Calls, w \in Servers :
        /\ life[c] = "before" => data_[w][c] = 0 /\ c \notin res[w]
        /\ wpc[w] = "fill" /\ data_[w][c] > 0 /\ life[c] = "online" /\ Home[c] = w => c \in res[w]

OnlineInv == OnlineTypes /\ EventsInv /\ CopyInv

\* A call never goes back.
Onward ==
    \A c \in Calls : /\ life'[c] # life[c] => life'[c] # "before"
                     /\ life[c] = "over" => life'[c] = "over"

KeepsKnown ==
    \A c \in Calls : Known(c) /\ life[c] = "online" /\ life'[c] = "online" => Known(c)'

\* As calls go on, what was true of a notification stays so.
LEMMA TruthStays ==
    ASSUME OnlineTypes, Onward, NEW c \in Calls, NEW event \in Events, TruthOf(life, c, event)
    PROVE  TruthOf(life', c, event)
  BY DEF TruthOf, Onward, OnlineTypes
-----------------------------------------------------------------------------
(* The server and its database. *)

LEMMA CallStep ==
    ASSUME OnlineInv, NEW k \in Calls, CallStarts(k) \/ CallEnds(k)
    PROVE  OnlineInv' /\ Onward /\ KeepsKnown
<1>t. OnlineTypes /\ EventsInv /\ CopyInv
  BY DEF OnlineInv
<1>l. life \in [Calls -> {"before", "online", "over"}]
  BY <1>t DEF OnlineTypes
<1>0. UNCHANGED <<listening, wpc, res, data_, received>>
  BY DEF CallStarts, CallEnds, watchVars
<1>1. PICK kind \in {"insert", "delete"}, next \in {"online", "over"} :
         /\ life' = [life EXCEPT ![k] = next] /\ Notify(Home[k], <<kind, k>>)
         /\ life[k] # "over" /\ (next = "online" => life[k] = "before" /\ kind = "insert")
         /\ (kind = "delete" => next = "over") /\ (next = "over" => life[k] = "online")
  <2>1. CASE CallStarts(k)
    BY <2>1 DEF CallStarts
  <2>2. CASE CallEnds(k)
    BY <2>2 DEF CallEnds
  <2> QED
    BY <2>1, <2>2
<1>2. /\ life' \in [Calls -> {"before", "online", "over"}] /\ life'[k] = next
      /\ \A c \in Calls : c # k => life'[c] = life[c]
  BY <1>1, <1>l
<1>3. Onward
  BY <1>1, <1>2 DEF Onward
<1>e. <<kind, k>> \in Events
  BY DEF Events
<1>4. PICK e \in Events : e = <<kind, k>>
  BY <1>e
<1>5. \A c \in Calls : TruthOf(life', c, e)
  BY <1>1, <1>2, <1>4 DEF TruthOf
<1>6. /\ pending' \in [Servers -> Seq(Events)]
      /\ \A w \in Servers : pending'[w] = pending[w] \/ pending'[w] = Append(pending[w], e)
  <2>1. pending \in [Servers -> Seq(Events)]
    BY <1>t DEF OnlineTypes
  <2>2. pending' = pending \/ pending' = [pending EXCEPT ![Home[k]] = Append(@, e)]
    BY <1>1, <1>4 DEF Notify
  <2>3. \A w \in Servers : Append(pending[w], e) \in Seq(Events)
    BY <2>1
  <2> QED
    BY <2>1, <2>2, <2>3
<1>7. OnlineTypes'
  BY <1>0, <1>2, <1>6, <1>t DEF OnlineTypes
<1>8. EventsInv'
  <2> SUFFICES ASSUME NEW c \in Calls, NEW w \in Servers
               PROVE  /\ \A i \in 1..Len(pending'[w]) : TruthOf(life', c, pending'[w][i])
                      /\ \A i \in 1..Len(received'[w]) : TruthOf(life', c, received'[w][i])
    BY DEF EventsInv
  <2>1. pending[w] \in Seq(Events) /\ received[w] \in Seq(Events)
    BY <1>t DEF OnlineTypes
  <2>2. \A i \in 1..Len(pending[w]) : pending[w][i] \in Events /\ TruthOf(life', c, pending[w][i])
    BY <1>t, <1>3, <2>1, TruthStays DEF EventsInv
  <2>3. \A i \in 1..Len(received[w]) : TruthOf(life', c, received[w][i])
    BY <1>t, <1>3, <2>1, TruthStays DEF EventsInv
  <2>4. \A i \in 1..Len(pending'[w]) : \/ i \in 1..Len(pending[w]) /\ pending'[w][i] = pending[w][i]
                                      \/ pending'[w][i] = e
    <3>1. CASE pending'[w] = pending[w]
      BY <3>1
    <3>2. CASE pending'[w] = Append(pending[w], e)
      <4>1. \A i \in 1..Len(Append(pending[w], e)) :
               \/ i \in 1..Len(pending[w]) /\ Append(pending[w], e)[i] = pending[w][i]
               \/ Append(pending[w], e)[i] = e
        BY <2>1
      <4> QED
        BY <3>2, <4>1
    <3> QED
      BY <1>6, <3>1, <3>2
  <2>5. \A i \in 1..Len(pending'[w]) : TruthOf(life', c, pending'[w][i])
    <3> SUFFICES ASSUME NEW i \in 1..Len(pending'[w]) PROVE TruthOf(life', c, pending'[w][i])
      OBVIOUS
    <3>1. CASE pending'[w][i] = e
      BY <1>5, <3>1 DEF TruthOf
    <3>2. CASE i \in 1..Len(pending[w]) /\ pending'[w][i] = pending[w][i]
      BY <2>2, <3>2 DEF TruthOf
    <3> QED
      BY <2>4, <3>1, <3>2
  <2> QED
    BY <1>0, <2>3, <2>5
<1>9. CopyInv'
  BY <1>0, <1>1, <1>2, <1>t DEF CopyInv, OnlineTypes
<1>10. KeepsKnown
  BY <1>0 DEF KeepsKnown, Known
<1> QED
  BY <1>3, <1>7, <1>8, <1>9, <1>10 DEF OnlineInv

\* A lost connection only empties the queues.
LEMMA DropStep ==
    ASSUME OnlineInv, NEW v \in Servers, Drop(v)
    PROVE  OnlineInv' /\ Onward /\ KeepsKnown
<1>1. /\ UNCHANGED <<life, wpc, res, data_>> /\ listening' = [listening EXCEPT ![v] = FALSE]
      /\ pending' = [pending EXCEPT ![v] = <<>>] /\ received' = [received EXCEPT ![v] = <<>>]
  BY DEF Drop
<1>2. OnlineTypes'
  BY <1>1 DEF OnlineInv, OnlineTypes
<1>3. \A w \in Servers : /\ pending'[w] = pending[w] \/ pending'[w] = <<>>
                         /\ received'[w] = received[w] \/ received'[w] = <<>>
  BY <1>1 DEF OnlineInv, OnlineTypes
<1>4. EventsInv'
  BY <1>1, <1>3 DEF OnlineInv, EventsInv, TruthOf
<1>5. CopyInv' /\ Onward /\ KeepsKnown
  BY <1>1 DEF OnlineInv, CopyInv, Onward, KeepsKnown, Known
<1> QED
  BY <1>2, <1>4, <1>5 DEF OnlineInv
-----------------------------------------------------------------------------
(* The watcher. *)

LEMMA SelectStep ==
    ASSUME OnlineInv, NEW v \in Servers, Select(v)
    PROVE  OnlineInv' /\ Onward /\ KeepsKnown
<1>1. /\ UNCHANGED <<life, listening, pending, data_, received>>
      /\ wpc' = [wpc EXCEPT ![v] = "fill"] /\ res' = [res EXCEPT ![v] = Online(v)]
  BY DEF Select, Goto, dbVars
<1>2. OnlineTypes'
  BY <1>1 DEF OnlineInv, OnlineTypes, Online
<1>3. EventsInv'
  BY <1>1 DEF OnlineInv, EventsInv, TruthOf
<1>4. CopyInv'
  BY <1>1 DEF OnlineInv, OnlineTypes, CopyInv, Online
<1>5. Onward /\ KeepsKnown
  BY <1>1 DEF Onward, KeepsKnown, Known
<1> QED
  BY <1>2, <1>3, <1>4, <1>5 DEF OnlineInv

\* data_ is replaced by what was read: the calls that are going on and were
\* known are among it.
LEMMA FillStep ==
    ASSUME OnlineInv, NEW v \in Servers, Fill(v)
    PROVE  OnlineInv' /\ Onward /\ KeepsKnown
<1>t. OnlineTypes /\ EventsInv /\ CopyInv
  BY DEF OnlineInv
<1>1. /\ UNCHANGED <<life, listening, pending, res, received>>
      /\ wpc[v] = "fill" /\ wpc' = [wpc EXCEPT ![v] = "commit"]
      /\ data_' = [data_ EXCEPT ![v] = [c \in Calls |-> IF c \in res[v] THEN 1 ELSE 0]]
  BY DEF Fill, Goto, dbVars
<1>2. /\ \A c \in Calls : data_'[v][c] = IF c \in res[v] THEN 1 ELSE 0
      /\ \A w \in Servers : w # v => data_'[w] = data_[w]
      /\ data_' \in [Servers -> [Calls -> Nat]]
  BY <1>1, <1>t DEF OnlineTypes
<1>3. wpc' \in [Servers -> {"select", "fill", "commit", "poll", "drain"}] /\ wpc'[v] # "fill"
      /\ \A w \in Servers : w # v => wpc'[w] = wpc[w]
  BY <1>1, <1>t DEF OnlineTypes
<1>4. OnlineTypes'
  BY <1>1, <1>2, <1>3, <1>t DEF OnlineTypes
<1>5. EventsInv'
  BY <1>1, <1>t DEF EventsInv, TruthOf
<1>6. CopyInv'
  <2> SUFFICES ASSUME NEW c \in Calls, NEW w \in Servers
               PROVE  /\ life[c] = "before" => data_'[w][c] = 0 /\ c \notin res[w]
                      /\ wpc'[w] = "fill" /\ data_'[w][c] > 0 /\ life[c] = "online" /\ Home[c] = w => c \in res[w]
    BY <1>1 DEF CopyInv
  <2>1. CASE w = v
    BY <1>2, <1>3, <1>t, <2>1 DEF CopyInv
  <2>2. CASE w # v
    BY <1>2, <1>3, <1>t, <2>2 DEF CopyInv
  <2> QED
    BY <2>1, <2>2
<1>7. KeepsKnown
  <2> SUFFICES ASSUME NEW c \in Calls, data_[Home[c]][c] > 0, life[c] = "online" PROVE data_'[Home[c]][c] > 0
    BY DEF KeepsKnown, Known
  <2>0. Home[c] \in Servers
    BY OnlineAssumption
  <2>1. CASE Home[c] = v
    <3>1. c \in res[v]
      BY <1>1, <1>t, <2>1 DEF CopyInv
    <3> QED
      BY <1>2, <2>1, <3>1
  <2>2. CASE Home[c] # v
    BY <1>2, <2>0, <2>2
  <2> QED
    BY <2>1, <2>2
<1> QED
  BY <1>1, <1>4, <1>5, <1>6, <1>7 DEF OnlineInv, Onward

LEMMA CommitStep ==
    ASSUME OnlineInv, NEW v \in Servers, Commit(v)
    PROVE  OnlineInv' /\ Onward /\ KeepsKnown
<1>1. /\ UNCHANGED <<life, pending, data_, received>> /\ listening' = [listening EXCEPT ![v] = TRUE]
      /\ wpc' = [wpc EXCEPT ![v] = "poll"] /\ res' = [res EXCEPT ![v] = {}]
  BY DEF Commit, Goto
<1>2. OnlineTypes'
  BY <1>1 DEF OnlineInv, OnlineTypes
<1>3. EventsInv'
  BY <1>1 DEF OnlineInv, EventsInv, TruthOf
<1>4. CopyInv'
  BY <1>1 DEF OnlineInv, OnlineTypes, CopyInv
<1>5. Onward /\ KeepsKnown
  BY <1>1 DEF Onward, KeepsKnown, Known
<1> QED
  BY <1>2, <1>3, <1>4, <1>5 DEF OnlineInv

LEMMA PollStep ==
    ASSUME OnlineInv, NEW v \in Servers, Poll(v)
    PROVE  OnlineInv' /\ Onward /\ KeepsKnown
<1>t. OnlineTypes /\ EventsInv /\ CopyInv
  BY DEF OnlineInv
<1>1. /\ UNCHANGED <<life, listening, res, data_>>
      /\ wpc' = [wpc EXCEPT ![v] = "drain"]
      /\ received' = [received EXCEPT ![v] = received[v] \o pending[v]]
      /\ pending' = [pending EXCEPT ![v] = <<>>]
  BY DEF Poll, Goto
<1>2. /\ pending \in [Servers -> Seq(Events)] /\ received \in [Servers -> Seq(Events)]
      /\ received[v] \o pending[v] \in Seq(Events)
  BY <1>t DEF OnlineTypes
<1>3. /\ received'[v] = received[v] \o pending[v] /\ pending'[v] = <<>>
      /\ \A w \in Servers : w # v => received'[w] = received[w] /\ pending'[w] = pending[w]
  BY <1>1, <1>2
<1>4. OnlineTypes'
  BY <1>1, <1>2, <1>t DEF OnlineTypes
<1>5. EventsInv'
  <2> SUFFICES ASSUME NEW c \in Calls, NEW w \in Servers
               PROVE  /\ \A i \in 1..Len(pending'[w]) : TruthOf(life, c, pending'[w][i])
                      /\ \A i \in 1..Len(received'[w]) : TruthOf(life, c, received'[w][i])
    BY <1>1 DEF EventsInv, TruthOf
  <2>1. CASE w # v
    BY <1>3, <1>t, <2>1 DEF EventsInv
  <2>2. CASE w = v
    <3>1. \A i \in 1..Len(received'[v]) :
             \/ i \in 1..Len(received[v]) /\ received'[v][i] = received[v][i]
             \/ i - Len(received[v]) \in 1..Len(pending[v]) /\ received'[v][i] = pending[v][i - Len(received[v])]
      BY <1>2, <1>3
    <3>2. \A i \in 1..Len(received'[v]) : TruthOf(life, c, received'[v][i])
      BY <1>t, <3>1 DEF EventsInv
    <3> QED
      <4>1. Len(pending'[v]) = 0
        BY <1>3
      <4> QED
        BY <2>2, <3>2, <4>1
  <2> QED
    BY <2>1, <2>2
<1>6. CopyInv'
  BY <1>1, <1>t DEF OnlineTypes, CopyInv
<1>7. Onward /\ KeepsKnown
  BY <1>1 DEF Onward, KeepsKnown, Known
<1> QED
  BY <1>4, <1>5, <1>6, <1>7 DEF OnlineInv

LEMMA TurnStep ==
    ASSUME OnlineInv, NEW v \in Servers, Reload(v) \/ Drained(v)
    PROVE  OnlineInv' /\ Onward /\ KeepsKnown
<1>1. /\ UNCHANGED <<life, listening, pending, res, data_, received>>
      /\ wpc' = [wpc EXCEPT ![v] = "select"] \/ wpc' = [wpc EXCEPT ![v] = "poll"]
  BY DEF Reload, Drained, Goto, dbVars
<1>2. OnlineTypes'
  BY <1>1 DEF OnlineInv, OnlineTypes
<1>3. EventsInv'
  BY <1>1 DEF OnlineInv, EventsInv, TruthOf
<1>4. CopyInv'
  BY <1>1 DEF OnlineInv, OnlineTypes, CopyInv
<1>5. Onward /\ KeepsKnown
  BY <1>1 DEF Onward, KeepsKnown, Known
<1> QED
  BY <1>2, <1>3, <1>4, <1>5 DEF OnlineInv

\* A notification takes a row away only of a call that is over, and adds one
\* only of a call that has begun.
LEMMA HandleStep ==
    ASSUME OnlineInv, NEW v \in Servers, Handle(v)
    PROVE  OnlineInv' /\ Onward /\ KeepsKnown
<1>t. OnlineTypes /\ EventsInv /\ CopyInv
  BY DEF OnlineInv
<1>1. /\ UNCHANGED <<life, listening, pending, wpc, res>>
      /\ wpc[v] = "drain" /\ received[v] # <<>>
      /\ data_' = [data_ EXCEPT ![v] = Apply(data_[v], Head(received[v]))]
      /\ received' = [received EXCEPT ![v] = Tail(received[v])]
  BY DEF Handle, dbVars
<1>2. received \in [Servers -> Seq(Events)] /\ received[v] \in Seq(Events)
  BY <1>t DEF OnlineTypes
<1>3. /\ Tail(received[v]) \in Seq(Events) /\ 1 \in 1..Len(received[v])
      /\ \A i \in 1..Len(Tail(received[v])) :
            i + 1 \in 1..Len(received[v]) /\ Tail(received[v])[i] = received[v][i + 1]
  BY <1>1, <1>2
<1>4. PICK e \in Events : e = Head(received[v]) /\ e = received[v][1]
  BY <1>1, <1>2, <1>3
<1>5. PICK k \in Calls : e[2] = k /\ TruthOf(life, k, e)
  BY <1>3, <1>4, <1>t DEF Events, EventsInv
<1>6. /\ life[k] # "before" /\ (life[k] = "online" => e[1] # "delete")
      /\ e[1] \in {"insert", "delete"}
  BY <1>5 DEF TruthOf, Events
<1>7. PICK n : n = IF e[1] = "insert" THEN data_[v][k] + 1 ELSE IF data_[v][k] > 0 THEN data_[v][k] - 1 ELSE 0
  OBVIOUS
<1>8. data_[v] \in [Calls -> Nat] /\ n \in Nat
  BY <1>7, <1>t DEF OnlineTypes
<1>9. Apply(data_[v], e) = [data_[v] EXCEPT ![k] = n]
  BY <1>5, <1>7 DEF Apply
<1>10. /\ data_' \in [Servers -> [Calls -> Nat]] /\ data_'[v][k] = n
       /\ \A c \in Calls : c # k => data_'[v][c] = data_[v][c]
       /\ \A w \in Servers : w # v => data_'[w] = data_[w]
  <2>1. data_' = [data_ EXCEPT ![v] = [data_[v] EXCEPT ![k] = n]]
    BY <1>1, <1>4, <1>9
  <2>2. PICK rows : rows = [data_[v] EXCEPT ![k] = n]
    OBVIOUS
  <2>3. rows \in [Calls -> Nat] /\ rows[k] = n /\ \A c \in Calls : c # k => rows[c] = data_[v][c]
    BY <1>8, <2>2
  <2>4. data_ \in [Servers -> [Calls -> Nat]]
    BY <1>t DEF OnlineTypes
  <2>5. data_' = [data_ EXCEPT ![v] = rows]
    BY <2>1, <2>2
  <2> QED
    BY <2>3, <2>4, <2>5
<1>11. /\ received' \in [Servers -> Seq(Events)] /\ received'[v] = Tail(received[v])
       /\ \A w \in Servers : w # v => received'[w] = received[w]
  BY <1>1, <1>2, <1>3
<1>12. OnlineTypes'
  BY <1>1, <1>10, <1>11, <1>t DEF OnlineTypes
<1>13. EventsInv'
  <2> SUFFICES ASSUME NEW c \in Calls, NEW w \in Servers
               PROVE  /\ \A i \in 1..Len(pending[w]) : TruthOf(life, c, pending[w][i])
                      /\ \A i \in 1..Len(received'[w]) : TruthOf(life, c, received'[w][i])
    BY <1>1 DEF EventsInv, TruthOf
  <2>1. CASE w # v
    BY <1>11, <1>t, <2>1 DEF EventsInv
  <2>2. CASE w = v
    BY <1>3, <1>11, <1>t, <2>2 DEF EventsInv
  <2> QED
    BY <2>1, <2>2
<1>14. CopyInv'
  <2> SUFFICES ASSUME NEW c \in Calls, NEW w \in Servers
               PROVE  /\ life[c] = "before" => data_'[w][c] = 0 /\ c \notin res[w]
                      /\ wpc[w] = "fill" /\ data_'[w][c] > 0 /\ life[c] = "online" /\ Home[c] = w => c \in res[w]
    BY <1>1 DEF CopyInv
  <2>1. CASE w = v
    BY <1>1, <1>6, <1>10, <1>t, <2>1 DEF CopyInv
  <2>2. CASE w # v
    BY <1>10, <1>t, <2>2 DEF CopyInv
  <2> QED
    BY <2>1, <2>2
<1>15. KeepsKnown
  <2> SUFFICES ASSUME NEW c \in Calls, data_[Home[c]][c] > 0, life[c] = "online" PROVE data_'[Home[c]][c] > 0
    BY DEF KeepsKnown, Known
  <2>0. Home[c] \in Servers /\ data_[v][k] \in Nat
    BY <1>8, OnlineAssumption
  <2>1. CASE Home[c] = v /\ c = k
    BY <1>6, <1>7, <1>10, <2>0, <2>1
  <2>2. CASE ~(Home[c] = v /\ c = k)
    BY <1>10, <2>0, <2>2
  <2> QED
    BY <2>1, <2>2
<1> QED
  BY <1>1, <1>12, <1>13, <1>14, <1>15 DEF OnlineInv, Onward

LEMMA OnlineStep ==
    ASSUME OnlineInv, [OnlineNext]_onlineVars
    PROVE  OnlineInv' /\ Onward /\ KeepsKnown
<1>1. CASE UNCHANGED onlineVars
  <2>1. UNCHANGED <<life, listening, pending, wpc, res, data_, received>>
    BY <1>1 DEF onlineVars, dbVars, watchVars
  <2> QED
    BY <2>1 DEF OnlineInv, OnlineTypes, EventsInv, TruthOf, CopyInv, Onward, KeepsKnown, Known
<1>2. CASE Environment
  BY <1>2, CallStep, DropStep DEF Environment
<1>3. ASSUME NEW w \in Servers, Watcher(w) PROVE OnlineInv' /\ Onward /\ KeepsKnown
  BY <1>3, SelectStep, FillStep, CommitStep, PollStep, TurnStep, HandleStep DEF Watcher
<1> QED
  BY <1>1, <1>2, <1>3 DEF OnlineNext

LEMMA OnlineStart ==
    ASSUME OnlineInit PROVE OnlineInv
<1>1. \A w \in Servers : pending[w] = <<>> /\ received[w] = <<>>
  BY DEF OnlineInit
<1>2. Len(<<>>) = 0
  OBVIOUS
<1>3. EventsInv
  BY <1>1, <1>2 DEF EventsInv
<1>4. OnlineTypes
  BY DEF OnlineInit, OnlineTypes
<1>5. CopyInv
  BY DEF OnlineInit, CopyInv
<1> QED
  BY <1>3, <1>4, <1>5 DEF OnlineInv

\* A step of the reader leaves the watchers alone.
LEMMA OnlineOrStutter ==
    ASSUME [Next]_vars PROVE [OnlineNext]_onlineVars
  BY DEF Next, vars, LinkReader, Pick, AwaitOrig, AwaitTerm, Ask, Put, Take

LEMMA OnlineSafe == Spec => []OnlineInv
<1>1. OnlineInv /\ [Next]_vars => OnlineInv'
  BY OnlineStep, OnlineOrStutter
<1>2. Init => OnlineInv
  BY OnlineStart DEF Init
<1> QED
  BY <1>1, <1>2, PTL DEF Spec

\* A call that is going on and that its watcher knows of stays known, through
\* every reload (data_ is cleared and filled under the lock, from a select that
\* has the call), every notification and every lost connection.
THEOREM OnlineNeverFlickers == Spec => NoFlicker
<1>1. OnlineInv /\ [Next]_vars =>
         [\A c \in Calls : Known(c) /\ life[c] = "online" /\ life'[c] = "online" => Known(c)']_onlineVars
  BY OnlineStep, OnlineOrStutter DEF KeepsKnown
<1> QED
  BY <1>1, OnlineSafe, PTL DEF Spec, NoFlicker
-----------------------------------------------------------------------------
(* The reader. *)

AskInv ==
    /\ row \in Nat \ {0} /\ rpc \in {"pick", "orig", "term", "put"}
    /\ asked \subseteq Servers /\ held \subseteq Calls
    /\ rpc # "pick" => row \in 1..Len(Links)
    /\ rpc \in {"pick", "put"} => asked = {}
    /\ rpc = "orig" /\ LinkOrig[Links[row]] = NoUid => asked = {}
    /\ rpc = "term" /\ LinkTerm[Links[row]] = NoUid => asked = {}

\* A call that was known when its row was picked stays known until it is over.
HeldInv == \A k \in held : life[k] = "over" \/ (life[k] = "online" /\ Known(k))

\* Once the watcher of the call's own server has said no, the call is over.
OverInv ==
    \A k \in held :
        Links[row] = k =>
            /\ rpc \in {"orig", "term"} /\ Home[k] \in asked => life[k] = "over"
            /\ rpc \in {"term", "put"} /\ LinkOrig[k] # NoUid => life[k] = "over"
            /\ rpc = "put" /\ HasUid(k) => life[k] = "over"

ReadInv == OnlineInv /\ AskInv /\ HeldInv /\ OverInv

LEMMA ReadWatchersStep ==
    ASSUME ReadInv, OnlineNext, UNCHANGED readVars
    PROVE  ReadInv'
<1>1. OnlineInv' /\ Onward /\ KeepsKnown
  BY OnlineStep DEF ReadInv
<1>2. UNCHANGED <<row, rpc, asked, queue, held>>
  BY DEF readVars
<1>3. AskInv'
  BY <1>2 DEF ReadInv, AskInv
<1>4. \A k \in Calls : life[k] \in {"before", "online", "over"} /\ life'[k] \in {"before", "online", "over"}
  BY <1>1 DEF ReadInv, OnlineInv, OnlineTypes
<1>5. HeldInv'
  BY <1>1, <1>2, <1>4 DEF ReadInv, AskInv, HeldInv, Onward, KeepsKnown
<1>6. OverInv'
  BY <1>1, <1>2 DEF ReadInv, AskInv, OverInv, Onward, HasUid
<1> QED
  BY <1>1, <1>3, <1>5, <1>6 DEF ReadInv

LEMMA PickStep ==
    ASSUME ReadInv, Pick
    PROVE  ReadInv'
<1>1. /\ UNCHANGED <<row, asked>> /\ rpc = "pick" /\ rpc' = "orig" /\ row <= Len(Links)
      /\ held' = IF Known(Links[row]) /\ life[Links[row]] = "online" THEN held \cup {Links[row]} ELSE held
      /\ UNCHANGED onlineVars
  BY DEF Pick
<1>2. UNCHANGED <<life, data_>>
  BY <1>1 DEF onlineVars, dbVars, watchVars
<1>3. OnlineInv'
  BY <1>1, OnlineStep DEF ReadInv
<1>4. row \in 1..Len(Links) /\ Links[row] \in Calls
  BY <1>1, LinkAssumption DEF ReadInv, AskInv
<1>5. AskInv'
  BY <1>1, <1>4 DEF ReadInv, AskInv
<1>6. HeldInv'
  BY <1>1, <1>2 DEF ReadInv, HeldInv, Known
<1>7. OverInv'
  BY <1>1, <1>2 DEF ReadInv, AskInv, OverInv
<1> QED
  BY <1>3, <1>5, <1>6, <1>7 DEF ReadInv

LEMMA PutStep ==
    ASSUME ReadInv, Put
    PROVE  ReadInv'
<1>1. /\ UNCHANGED <<asked, held>> /\ rpc = "put" /\ rpc' = "pick" /\ row' = row + 1
      /\ UNCHANGED onlineVars
  BY DEF Put
<1>2. UNCHANGED <<life, data_>>
  BY <1>1 DEF onlineVars, dbVars, watchVars
<1>3. OnlineInv'
  BY <1>1, OnlineStep DEF ReadInv
<1>4. AskInv'
  BY <1>1 DEF ReadInv, AskInv
<1>5. HeldInv'
  BY <1>1, <1>2 DEF ReadInv, HeldInv, Known
<1>6. OverInv'
  BY <1>1 DEF OverInv
<1> QED
  BY <1>3, <1>4, <1>5, <1>6 DEF ReadInv

LEMMA TakeStep ==
    ASSUME ReadInv, Take \/ UNCHANGED vars
    PROVE  ReadInv'
<1>1. UNCHANGED <<row, rpc, asked, held>> /\ UNCHANGED onlineVars
  BY DEF Take, vars, readVars
<1>2. UNCHANGED <<life, data_>>
  BY <1>1 DEF onlineVars, dbVars, watchVars
<1>3. OnlineInv'
  BY <1>1, OnlineStep DEF ReadInv
<1>4. AskInv' /\ HeldInv' /\ OverInv'
  BY <1>1, <1>2 DEF ReadInv, AskInv, HeldInv, OverInv, Known
<1> QED
  BY <1>3, <1>4 DEF ReadInv

\* The watcher of a held call's server says no only of a call that is over.
LEMMA NoMeansOver ==
    ASSUME ReadInv, NEW k \in held, NEW Uid, ~Reports(Home[k], Uid, Uid[k])
    PROVE  life[k] = "over"
  BY DEF ReadInv, AskInv, HeldInv, Known, Reports

LEMMA AwaitStep ==
    ASSUME ReadInv, AwaitOrig \/ AwaitTerm
    PROVE  ReadInv'
<1>1. UNCHANGED <<row, held>> /\ UNCHANGED onlineVars
  BY DEF AwaitOrig, AwaitTerm, Ask
<1>2. UNCHANGED <<life, data_>>
  BY <1>1 DEF onlineVars, dbVars, watchVars
<1>3. OnlineInv'
  BY <1>1, OnlineStep DEF ReadInv
<1>4. HeldInv'
  BY <1>1, <1>2 DEF ReadInv, HeldInv, Known
<1>5. /\ AskInv /\ OverInv /\ rpc \in {"orig", "term"}
      /\ row \in 1..Len(Links) /\ Links[row] \in Calls
  <2>1. rpc \in {"orig", "term"}
    BY DEF AwaitOrig, AwaitTerm, Ask
  <2> QED
    BY <2>1, LinkAssumption DEF ReadInv, AskInv
<1>6. PICK k \in Calls : k = Links[row]
  BY <1>5
<1>7. LinkOrig[k] = CallOrig[k] /\ LinkTerm[k] = CallTerm[k] /\ Home[k] \in Servers
  BY LinkAssumption, OnlineAssumption
<1>8. AskInv' /\ OverInv'
  <2>1. CASE AwaitOrig
    <3>1. /\ rpc = "orig"
          /\ \/ LinkOrig[k] = NoUid /\ rpc' = "term" /\ asked' = asked
             \/ /\ LinkOrig[k] # NoUid
                /\ \E w \in Servers \ asked :
                      \/ asked' = {} /\ rpc' = "orig"
                      \/ /\ ~Reports(w, CallOrig, CallOrig[k])
                         /\ \/ asked \cup {w} = Servers /\ asked' = {} /\ rpc' = "term"
                            \/ asked' = asked \cup {w} /\ rpc' = "orig"
      BY <1>6, <1>7, <2>1 DEF AwaitOrig, Ask
    <3>2. AskInv'
      BY <1>1, <1>5, <1>6, <3>1 DEF AskInv
    <3>3. ASSUME k \in held, Home[k] \in asked' \/ (rpc' = "term" /\ LinkOrig[k] # NoUid)
          PROVE  life[k] = "over"
      <4>1. CASE Home[k] \in asked
        BY <1>5, <1>6, <3>1, <3>3, <4>1 DEF OverInv
      <4>2. CASE ~Reports(Home[k], CallOrig, CallOrig[k])
        BY <3>3, <4>2, NoMeansOver
      <4> QED
        BY <1>7, <3>1, <3>3, <4>1, <4>2
    <3>4. rpc' \in {"orig", "term"}
      BY <3>1
    <3> QED
      BY <1>1, <1>2, <1>6, <3>2, <3>3, <3>4 DEF OverInv
  <2>2. CASE AwaitTerm
    <3>1. /\ rpc = "term"
          /\ \/ LinkTerm[k] = NoUid /\ rpc' = "put" /\ asked' = asked
             \/ /\ LinkTerm[k] # NoUid
                /\ \E w \in Servers \ asked :
                      \/ asked' = {} /\ rpc' = "term"
                      \/ /\ ~Reports(w, CallTerm, CallTerm[k])
                         /\ \/ asked \cup {w} = Servers /\ asked' = {} /\ rpc' = "put"
                            \/ asked' = asked \cup {w} /\ rpc' = "term"
      BY <1>6, <1>7, <2>2 DEF AwaitTerm, Ask
    <3>2. AskInv'
      BY <1>1, <1>5, <1>6, <3>1 DEF AskInv
    <3>3. ASSUME k \in held, Home[k] \in asked' \/ (rpc' = "put" /\ LinkTerm[k] # NoUid)
          PROVE  life[k] = "over"
      <4>1. CASE Home[k] \in asked
        BY <1>5, <1>6, <3>1, <3>3, <4>1 DEF OverInv
      <4>2. CASE ~Reports(Home[k], CallTerm, CallTerm[k])
        BY <3>3, <4>2, NoMeansOver
      <4> QED
        BY <1>7, <3>1, <3>3, <4>1, <4>2
    <3>4. rpc' \in {"term", "put"}
      BY <3>1
    <3>5. ASSUME k \in held, LinkOrig[k] # NoUid PROVE life[k] = "over"
      BY <1>6, <3>1, <3>5, <1>5 DEF OverInv
    <3> QED
      BY <1>1, <1>2, <1>6, <3>2, <3>3, <3>4, <3>5 DEF OverInv, HasUid
  <2> QED
    BY <2>1, <2>2
<1> QED
  BY <1>3, <1>4, <1>8 DEF ReadInv

LEMMA ReadSafe == Spec => []ReadInv
<1>1. Init => ReadInv
  BY OnlineStart DEF Init, ReadInv, AskInv, HeldInv, OverInv
<1>2. ReadInv /\ [Next]_vars => ReadInv'
  BY ReadWatchersStep, PickStep, AwaitStep, PutStep, TakeStep DEF Next, LinkReader
<1> QED
  BY <1>1, <1>2, PTL DEF Spec

\* A link that is put on the queue, and whose call a watcher knew to be going
\* on when getSQLData came to its row, belongs to a call that is over: between
\* the pick and the last answer of the watchers they may reload, lose their
\* connections and be asked again.
THEOREM LinkHeldUntilOver == Spec => HeldUntilOver
<1>1. ReadInv => \A k \in held : /\ HasUid(k)
                                 /\ rpc = "put" /\ row' # row /\ Links[row] = k
                                 => life[k] = "over"
  BY DEF ReadInv, OverInv
<1> QED
  BY <1>1, ReadSafe, PTL DEF HeldUntilOver
=============================================================================
