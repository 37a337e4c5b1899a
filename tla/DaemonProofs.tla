---------------------------- MODULE DaemonProofs ----------------------------
(***************************************************************************)
(* Proofs about the daemon around the merge.  First its life and its web   *)
(* interface: the order of the events, and the objects that a page finds,  *)
(* for any number of clients, threads, paths and failing loads.  Then its  *)
(* log: the sends that the queue, the delays and the buffer account for,   *)
(* and the message that wakes the log thread when the daemon stops, for    *)
(* any threads, texts, delays and bounds.                                  *)
(***************************************************************************)
EXTENDS Web, LogInstance, FiniteSetTheorems, SequenceTheorems, TLAPS

\* Where the main thread and the load are tells which events there have been.
EventsInv ==
    /\ applied \in {<<>>, <<START>>, <<START, INIT_APP>>, <<START, INIT_APP, INIT_DB>>}
    /\ main = "run" => applied = <<>> /\ load = "none"
    /\ main \in {"start", "init", "init_tasks", "init_app", "failed"} => applied = <<START>> /\ load = "none"
    /\ main = "load" => applied = <<START, INIT_APP>> /\ load = "none"
    /\ load \in {"posted", "timer"} => applied = <<START, INIT_APP>>

LEMMA AppendIs ==
    ASSUME NEW s \in Seq(Nat), NEW e \in Nat, NEW t \in Seq(Nat),
           Len(t) = Len(s) + 1, \A i \in 1..Len(s) : s[i] = t[i], e = t[Len(t)]
    PROVE  Append(s, e) = t
<1>1. Append(s, e) \in Seq(Nat) /\ Len(Append(s, e)) = Len(t)
  OBVIOUS
<1>2. \A i \in 1..Len(Append(s, e)) : Append(s, e)[i] = t[i]
  OBVIOUS
<1> QED
  BY <1>1, <1>2, SeqEqual

\* What apply_life_span_events adds.
LEMMA Appended ==
    /\ Append(<<>>, START) = <<START>>
    /\ Append(<<START>>, INIT_APP) = <<START, INIT_APP>>
    /\ Append(<<START, INIT_APP>>, INIT_DB) = <<START, INIT_APP, INIT_DB>>
<1> DEFINE one == <<1>>
           two == <<1, 2>>
           three == <<1, 2, 3>>
<1>1. /\ one \in Seq(Nat) /\ two \in Seq(Nat) /\ three \in Seq(Nat)
      /\ Len(one) = 1 /\ Len(two) = 2 /\ Len(three) = 3
      /\ one[1] = 1 /\ two[1] = 1 /\ two[2] = 2 /\ three[1] = 1 /\ three[2] = 2 /\ three[3] = 3
  OBVIOUS
<1>2. Append(<<>>, 1) = one
  OBVIOUS
<1> HIDE DEF one, two, three
<1>3. Append(one, 2) = two
  <2>1. Len(two) = Len(one) + 1 /\ (\A i \in 1..Len(one) : one[i] = two[i]) /\ 2 = two[Len(two)]
    BY <1>1
  <2> QED
    BY <1>1, <2>1, AppendIs
<1>4. Append(two, 3) = three
  <2>1. Len(three) = Len(two) + 1 /\ (\A i \in 1..Len(two) : two[i] = three[i]) /\ 3 = three[Len(three)]
    BY <1>1
  <2> QED
    BY <1>1, <2>1, AppendIs
<1> QED
  BY <1>2, <1>3, <1>4 DEF one, two, three, START, INIT_APP, INIT_DB

\* A step that leaves main, load and applied alone.
LEMMA EventsKept ==
    ASSUME EventsInv, UNCHANGED <<main, load, applied>>
    PROVE  EventsInv'
BY DEF EventsInv

LEMMA EventsMain == ASSUME EventsInv, MainStep PROVE EventsInv'
<1> USE DEF EventsInv, apply
<1>1. CASE InitIoListens \/ WaitAsioJoins
  BY <1>1 DEF InitIoListens, WaitAsioJoins, InitIo, WaitAsio
<1>2. CASE Run
  BY <1>2, Appended DEF Run
<1>3. CASE Start \/ InitFails \/ InitTasks
  BY <1>3 DEF Start, InitFails, InitTasks
<1>4. CASE InitApp
  BY <1>4, Appended DEF InitApp
<1>5. CASE Load
  BY <1>5 DEF Load
<1>6. CASE Reset \/ Destroy
  BY <1>6 DEF Reset, Destroy
<1> QED
  BY <1>1, <1>2, <1>3, <1>4, <1>5, <1>6 DEF MainStep

LEMMA EventsOther == ASSUME EventsInv, OtherStep, Up PROVE EventsInv'
<1>1. CASE LoadOk
  BY <1>1, Appended DEF LoadOk, EventsInv, apply
<1>2. CASE LoadFails \/ LoadTimer
  BY <1>2 DEF LoadFails, LoadTimer, EventsInv
<1>3. CASE Signal \/ MergeStart \/ MergeQuery \/ MergeLogs \/ MergeEnd
  BY <1>3, EventsKept DEF Signal, MergeStart, MergeQuery, MergeLogs, MergeEnd
<1>4. CASE MergeStartThrows
  BY <1>4 DEF MergeStartThrows, EventsInv
<1> QED
  BY <1>1, <1>2, <1>3, <1>4 DEF OtherStep

LEMMA EventsStep == ASSUME EventsInv, [WebNext]_allVars PROVE EventsInv'
<1>1. CASE MainStep
  BY <1>1, EventsMain
<1>2. CASE StopperStep
  BY <1>2, EventsKept DEF StopperStep, StopAsioCloses, StopAsio, StopFlag, StopTasks, StopLog
<1>3. CASE OtherStep /\ Up
  BY <1>3, EventsOther
<1>4. ASSUME NEW c \in Clients, Handle(c) PROVE EventsInv'
  BY <1>4, EventsKept DEF Handle
<1>5. CASE UNCHANGED vars
  BY <1>5, EventsKept DEF vars
<1> QED
  BY <1>1, <1>2, <1>3, <1>4, <1>5 DEF WebNext, allVars

\* The routines of START, INIT_APP and INIT_DB run in this order and once,
\* whenever the signal comes and however often app::start_init_data retries.
THEOREM WebEventsInOrder == WebSpec => []EventsInOrder
<1>1. WebInit => EventsInv
  BY DEF WebInit, Init, EventsInv
<1>2. EventsInv /\ [WebNext]_allVars => EventsInv'
  BY EventsStep
<1>3. EventsInv => EventsInOrder
  BY DEF EventsInv, EventsInOrder, START, INIT_APP, INIT_DB
<1> QED
  BY <1>1, <1>2, <1>3, PTL DEF WebSpec
-----------------------------------------------------------------------------
\* Handlers run only between the start of the io threads and their join, and
\* all that time the application is there.
PagesInv ==
    /\ session \in [Clients -> {"none", "pending", "read", "request", "handle", "write"}]
    /\ main \in {"run", "start", "init", "failed"} => io = "none"
    /\ io = "none" => stopper = "none" /\ \A c \in Clients : session[c] # "handle"
    /\ main \in {"reset", "destroy"} => io = "stopped" /\ \A c \in Clients : session[c] # "handle"
    /\ main \in {"init", "init_tasks", "init_app", "load", "wait", "reset"} => instance_
    /\ main \in {"run", "start", "init", "failed", "init_tasks", "init_app", "load", "wait", "reset", "destroy", "terminated"}
    /\ ~found => main = "init_tasks"

LEMMA PagesMain == ASSUME PagesInv, MainStep, found PROVE PagesInv'
<1> USE DEF PagesInv, webVars
<1>1. CASE InitIoListens
  BY <1>1 DEF InitIoListens, InitIo
<1>2. CASE WaitAsioJoins
  BY <1>2 DEF WaitAsioJoins, WaitAsio
<1>3. CASE Run \/ Start \/ InitFails \/ InitTasks \/ InitApp \/ Load
  BY <1>3 DEF MainStep, InitIoListens, WaitAsioJoins, InitIo, WaitAsio, Run, Start, InitFails, InitTasks, InitApp, Load, Reset, Destroy
<1>4. CASE Reset \/ Destroy
  BY <1>4 DEF MainStep, InitIoListens, WaitAsioJoins, InitIo, WaitAsio, Run, Start, InitFails, InitTasks, InitApp, Load, Reset, Destroy
<1> QED
  BY <1>1, <1>2, <1>3, <1>4 DEF MainStep

LEMMA PagesStopper == ASSUME PagesInv, StopperStep PROVE PagesInv'
<1> USE DEF PagesInv, webVars
<1>1. CASE StopAsioCloses
  BY <1>1 DEF StopAsioCloses, StopAsio
<1>2. CASE (StopFlag \/ StopTasks \/ StopLog) /\ UNCHANGED webVars
  BY <1>2 DEF StopFlag, StopTasks, StopLog
<1> QED
  BY <1>1, <1>2 DEF StopperStep

LEMMA PagesOther == ASSUME PagesInv, OtherStep, found PROVE PagesInv'
<1> USE DEF PagesInv, webVars
<1>1. UNCHANGED webVars
  BY DEF OtherStep
<1>2. CASE LoadOk \/ LoadFails \/ LoadTimer
  BY <1>1, <1>2 DEF LoadOk, LoadFails, LoadTimer
<1>3. CASE Signal
  BY <1>1, <1>3 DEF Signal
<1>4. CASE MergeStart \/ MergeQuery \/ MergeLogs \/ MergeEnd
  BY <1>1, <1>4 DEF MergeStart, MergeQuery, MergeLogs, MergeEnd
<1>5. CASE MergeStartThrows
  BY <1>1, <1>5 DEF MergeStartThrows
<1> QED
  BY <1>2, <1>3, <1>4, <1>5 DEF OtherStep

\* The page runs on an io thread: main is between init_tasks and wait.  From
\* init_app on the merge service is there.
LEMMA PagesHandle == ASSUME PagesInv, NEW c \in Clients, Handle(c), Up PROVE PagesInv'
<1>1. session[c] = "handle" /\ UNCHANGED <<main, io, stopper, instance_>>
  BY DEF Handle
<1>2. main \in {"init_tasks", "init_app", "load", "wait"}
  BY <1>1 DEF PagesInv, Up
<1>3. session' = [session EXCEPT ![c] = "write"]
  BY DEF Handle
<1>4. main # "init_tasks" => ServiceThere
  BY <1>2 DEF ServiceThere, PagesInv
<1>5. found' = (found /\ ("service" \in aggregated(path[c]).reads => ServiceThere)
                      /\ ("application" \in aggregated(path[c]).reads => instance_))
  BY DEF Handle
<1>6. ~found' => main' = "init_tasks"
  BY <1>1, <1>2, <1>4, <1>5 DEF PagesInv
<1> QED
  BY <1>1, <1>2, <1>3, <1>6 DEF PagesInv

\* A session takes its steps only while the io context runs.
LEMMA PagesSession ==
    ASSUME PagesInv, UNCHANGED vars, Trouble \/ on_accept_fails \/ \E c \in Clients : Session(c)
    PROVE  PagesInv'
<1> USE DEF PagesInv, vars
<1>1. CASE Trouble
  BY <1>1 DEF Trouble
<1>2. CASE on_accept_fails
  BY <1>2 DEF on_accept_fails, CanRun
<1>3. ASSUME NEW c \in Clients, Session(c) PROVE PagesInv'
  <2>1. io = "run" /\ UNCHANGED found
    BY <1>3 DEF Session, Connect, on_accept, Request, StreamEnds, on_read, on_write, CanRun
  <2>2. \E s \in {"none", "pending", "read", "request", "handle"} : session' = [session EXCEPT ![c] = s]
    BY <1>3 DEF Session, Connect, on_accept, Request, StreamEnds, on_read, on_write
  <2> QED
    BY <2>1, <2>2
<1> QED
  BY <1>1, <1>2, <1>3

LEMMA PagesStep == ASSUME PagesInv, [WebNext]_allVars PROVE PagesInv'
<1>1. CASE MainStep /\ found
  BY <1>1, PagesMain
<1>2. CASE StopperStep
  BY <1>2, PagesStopper
<1>3. CASE OtherStep /\ found
  BY <1>3, PagesOther
<1>4. ASSUME NEW c \in Clients, Handle(c), Up PROVE PagesInv'
  BY <1>4, PagesHandle
<1>5. CASE (Trouble \/ on_accept_fails \/ \E c \in Clients : Session(c)) /\ UNCHANGED vars
  BY <1>5, PagesSession
<1>6. CASE UNCHANGED allVars
  BY <1>6 DEF allVars, vars, webVars, PagesInv
<1> QED
  BY <1>1, <1>2, <1>3, <1>4, <1>5, <1>6 DEF WebNext

\* Whenever application::stop runs and however requests are spread over the io
\* threads, a page finds the application and the merge service, except before
\* application::init has made the latter.
THEOREM WebPagesFindTheirObjects == WebSpec => []PageFindsItsObjects
<1>1. WebInit => PagesInv
  BY DEF WebInit, Init, PagesInv
<1>2. PagesInv /\ [WebNext]_allVars => PagesInv'
  BY PagesStep
<1>3. PagesInv => PageFindsItsObjects
  BY DEF PagesInv, PageFindsItsObjects
<1> QED
  BY <1>1, <1>2, <1>3, PTL DEF WebSpec

-----------------------------------------------------------------------------
(* The log.  The sends that a sequence of messages stands for are counted  *)
(* as a set of pairs, a message's place and one of its sends, so that what *)
(* appending, taking and moving messages does to them follows from the     *)
(* cardinalities of disjoint sets.                                         *)

TextMessages == [kind : {"text"}, text : Texts, count : Nat, time : Int, delay : Nat]
Messages == TextMessages \cup {Flush, Clear}

\* What one message adds to the sends of a text.
Weight(m, t) == IF m.kind = "text" /\ m.text = t THEN m.count ELSE 0

LEMMA MessageType ==
    ASSUME NEW m \in Messages
    PROVE  /\ m.kind = "text" => m \in TextMessages
           /\ m \in TextMessages => m.kind = "text"
           /\ \A t : Weight(m, t) \in Nat
BY DEF Messages, TextMessages, Flush, Clear, Weight

\* The units of a sequence, without UNION.
LEMMA InUnits ==
    ASSUME NEW s \in Seq(Messages), NEW t, NEW u
    PROVE  u \in Units(s, t) <=>
             \E i \in DOMAIN s, n \in Nat :
                n \in 1..s[i].count /\ s[i].kind = "text" /\ s[i].text = t /\ u = <<i, n>>
BY DEF Units

\* A column of pairs is as large as its second components.
LEMMA Column ==
    ASSUME NEW k, NEW S, IsFiniteSet(S)
    PROVE  IsFiniteSet({k} \X S) /\ Cardinality({k} \X S) = Cardinality(S)
<1> DEFINE f == [x \in S |-> <<k, x>>]
<1>1. f \in Bijection(S, {k} \X S)
  BY DEF Bijection, Injection, Surjection, IsInjective
<1> QED
  BY <1>1, FS_Bijection DEF ExistsBijection

\* Disjoint finite sets.
LEMMA DisjointUnion ==
    ASSUME NEW S, NEW T, IsFiniteSet(S), IsFiniteSet(T), S \cap T = {}
    PROVE  IsFiniteSet(S \cup T) /\ Cardinality(S \cup T) = Cardinality(S) + Cardinality(T)
<1>1. Cardinality(S) \in Nat /\ Cardinality(T) \in Nat
  BY FS_CardinalityType
<1>2. Cardinality(S \cap T) = 0
  BY FS_EmptySet
<1>3. /\ IsFiniteSet(S \cup T)
      /\ Cardinality(S \cup T) = Cardinality(S) + Cardinality(T) - Cardinality(S \cap T)
  BY FS_Union
<1> QED
  BY <1>1, <1>2, <1>3

\* The columns of an indexed family over a finite set, each finite, are
\* together finite.
LEMMA ColumnsFinite ==
    ASSUME NEW D, IsFiniteSet(D), NEW F, \A i \in D : IsFiniteSet(F[i])
    PROVE  IsFiniteSet(UNION {{i} \X F[i] : i \in D})
<1> DEFINE f == [i \in D |-> {i} \X F[i]]
           C == {{i} \X F[i] : i \in D}
<1>1. f \in Surjection(D, C)
  BY DEF Surjection
<1>2. IsFiniteSet(C)
  BY <1>1, FS_Surjection
<1>3. \A c \in C : IsFiniteSet(c)
  BY Column
<1> QED
  BY <1>2, <1>3, FS_UNION

LEMMA UnitsFinite ==
    ASSUME NEW s \in Seq(Messages), NEW t
    PROVE  IsFiniteSet(Units(s, t)) /\ Sends(s, t) \in Nat
<1> DEFINE D == {j \in DOMAIN s : s[j].kind = "text" /\ s[j].text = t}
           F == [i \in D |-> 1..s[i].count]
<1>1. IsFiniteSet(D)
  <2>1. DOMAIN s = 1..Len(s) /\ Len(s) \in Nat
    OBVIOUS
  <2>2. IsFiniteSet(1..Len(s))
    BY <2>1, FS_Interval
  <2> QED
    BY <2>1, <2>2, FS_Subset
<1>2. \A i \in D : IsFiniteSet(F[i])
  <2> SUFFICES ASSUME NEW i \in D PROVE IsFiniteSet(F[i])
    OBVIOUS
  <2>1. s[i] \in Messages
    OBVIOUS
  <2>2. s[i].count \in Nat
    BY <2>1, MessageType DEF TextMessages
  <2> QED
    BY <2>2, FS_Interval
<1>3. Units(s, t) = UNION {{i} \X F[i] : i \in D}
  BY DEF Units
<1>4. IsFiniteSet(Units(s, t))
  <2> HIDE DEF F, D
  <2> QED
    BY <1>1, <1>2, <1>3, ColumnsFinite
<1> QED
  BY <1>4, FS_CardinalityType DEF Sends

LEMMA SendsEmpty == ASSUME NEW t PROVE Units(<<>>, t) = {} /\ Sends(<<>>, t) = 0
<1>1. Units(<<>>, t) = {}
  BY DEF Units
<1> QED
  BY <1>1, FS_EmptySet DEF Sends

LEMMA SendsOne ==
    ASSUME NEW m \in Messages, NEW t
    PROVE  Sends(<<m>>, t) = Weight(m, t)
<1> DEFINE s == <<m>>
<1>0. DOMAIN s = {1} /\ s[1] = m
  OBVIOUS
<1> HIDE DEF s
<1>1. CASE m.kind = "text" /\ m.text = t
  <2>1. m.count \in Nat
    BY <1>1, MessageType DEF TextMessages
  <2>2. Units(s, t) = {1} \X (1..m.count)
    BY <1>0, <1>1 DEF Units
  <2>3. IsFiniteSet(1..m.count) /\ Cardinality(1..m.count) = m.count
    <3>1. PICK n \in Nat : n = m.count
      BY <2>1
    <3>2. IsFiniteSet(1..n) /\ Cardinality(1..n) = IF 1 > n THEN 0 ELSE n - 1 + 1
      BY FS_Interval
    <3> QED
      BY <3>1, <3>2
  <2>4. Cardinality(Units(s, t)) = m.count
    BY <2>2, <2>3, Column
  <2> QED
    BY <1>1, <2>4 DEF Sends, Weight, s
<1>2. CASE ~(m.kind = "text" /\ m.text = t)
  <2>1. Units(s, t) = {}
    BY <1>0, <1>2 DEF Units
  <2> QED
    BY <1>2, <2>1, FS_EmptySet DEF Sends, Weight, s
<1> QED
  BY <1>1, <1>2

\* The units of s \o r: those of s, and those of r moved behind them.
LEMMA SendsConcat ==
    ASSUME NEW s \in Seq(Messages), NEW r \in Seq(Messages), NEW t
    PROVE  Sends(s \o r, t) = Sends(s, t) + Sends(r, t)
<1> DEFINE c == s \o r
           f == [u \in Units(r, t) |-> <<u[1] + Len(s), u[2]>>]
           M == {<<u[1] + Len(s), u[2]>> : u \in Units(r, t)}
<1>0. /\ Len(s) \in Nat /\ Len(r) \in Nat
      /\ DOMAIN s = 1..Len(s) /\ DOMAIN r = 1..Len(r)
      /\ c \in Seq(Messages) /\ DOMAIN c = 1..(Len(s) + Len(r))
      /\ \A i \in 1..Len(s) : c[i] = s[i]
      /\ \A i \in 1..Len(r) : c[i + Len(s)] = r[i]
  OBVIOUS
<1> HIDE DEF c
<1>1. ASSUME NEW u \in Units(s, t)
      PROVE  u[1] \in 1..Len(s) /\ u = <<u[1], u[2]>> /\ u \in Units(c, t)
  <2>1. PICK i \in DOMAIN s, n \in Nat :
           n \in 1..s[i].count /\ s[i].kind = "text" /\ s[i].text = t /\ u = <<i, n>>
    BY InUnits
  <2>2. i \in DOMAIN c /\ c[i] = s[i]
    BY <1>0
  <2>3. u \in Units(c, t)
    BY <1>0, <2>1, <2>2, InUnits
  <2> QED
    BY <1>0, <2>1, <2>3
<1>2. ASSUME NEW u \in Units(r, t)
      PROVE  /\ u[1] \in 1..Len(r) /\ u = <<u[1], u[2]>>
             /\ <<u[1] + Len(s), u[2]>> \in Units(c, t)
  <2>1. PICK i \in DOMAIN r, n \in Nat :
           n \in 1..r[i].count /\ r[i].kind = "text" /\ r[i].text = t /\ u = <<i, n>>
    BY InUnits
  <2>2. i + Len(s) \in DOMAIN c /\ c[i + Len(s)] = r[i]
    BY <1>0
  <2>3. <<i + Len(s), n>> \in Units(c, t)
    BY <1>0, <2>1, <2>2, InUnits
  <2> QED
    BY <1>0, <2>1, <2>3
<1>3. ASSUME NEW u \in Units(c, t)
      PROVE  u \in Units(s, t) \/ u \in M
  <2>1. PICK i \in DOMAIN c, n \in Nat :
           n \in 1..c[i].count /\ c[i].kind = "text" /\ c[i].text = t /\ u = <<i, n>>
    BY <1>0, InUnits
  <2>2. CASE i <= Len(s)
    <3>1. i \in DOMAIN s /\ c[i] = s[i]
      BY <1>0, <2>2
    <3> QED
      BY <2>1, <3>1, InUnits
  <2>3. CASE ~(i <= Len(s))
    <3>1. PICK j : j = i - Len(s)
      OBVIOUS
    <3>2. j \in DOMAIN r /\ c[i] = r[j] /\ i = j + Len(s)
      <4>1. j \in 1..Len(r) /\ i = j + Len(s)
        BY <1>0, <2>3, <3>1
      <4> QED
        BY <1>0, <4>1
    <3>3. <<j, n>> \in Units(r, t)
      BY <2>1, <3>2, InUnits
    <3>4. u = <<(<<j, n>>)[1] + Len(s), (<<j, n>>)[2]>>
      BY <2>1, <3>2
    <3> QED
      BY <3>3, <3>4
  <2> QED
    BY <2>2, <2>3
<1>4. Units(c, t) = Units(s, t) \cup M
  BY <1>1, <1>2, <1>3
<1>5. Units(s, t) \cap M = {}
  <2> SUFFICES ASSUME NEW u \in Units(s, t), u \in M PROVE FALSE
    OBVIOUS
  <2>1. PICK v \in Units(r, t) : u = <<v[1] + Len(s), v[2]>>
    OBVIOUS
  <2>2. u[1] \in 1..Len(s) /\ v[1] \in 1..Len(r) /\ u[1] = v[1] + Len(s)
    BY <1>1, <1>2, <2>1
  <2> QED
    BY <1>0, <2>2
<1>6. IsFiniteSet(M) /\ Cardinality(M) = Cardinality(Units(r, t))
  <2>1. f \in Surjection(Units(r, t), M)
    BY DEF Surjection
  <2>2. ASSUME NEW u \in Units(r, t), NEW v \in Units(r, t), f[u] = f[v]
        PROVE  u = v
    <3>1. /\ u[1] \in 1..Len(r) /\ u = <<u[1], u[2]>>
          /\ v[1] \in 1..Len(r) /\ v = <<v[1], v[2]>>
      BY <1>2
    <3>2. u[1] + Len(s) = v[1] + Len(s) /\ u[2] = v[2]
      BY <2>2
    <3>3. u[1] = v[1]
      BY <1>0, <3>1, <3>2
    <3> QED
      BY <3>1, <3>2, <3>3
  <2>3. f \in Bijection(Units(r, t), M)
    BY <2>1, <2>2 DEF Bijection, Injection, Surjection, IsInjective
  <2>4. IsFiniteSet(Units(r, t))
    BY UnitsFinite
  <2> QED
    BY <2>3, <2>4, FS_Bijection DEF ExistsBijection
<1>7. IsFiniteSet(Units(s, t))
  BY UnitsFinite
<1> QED
  <2> HIDE DEF M
  <2>1. Cardinality(Units(s, t) \cup M) = Cardinality(Units(s, t)) + Cardinality(M)
    BY <1>5, <1>6, <1>7, DisjointUnion
  <2> QED
    BY <1>4, <1>6, <2>1 DEF Sends, c

LEMMA SendsAppend ==
    ASSUME NEW s \in Seq(Messages), NEW m \in Messages, NEW t
    PROVE  Sends(Append(s, m), t) = Sends(s, t) + Weight(m, t)
<1>1. Append(s, m) = s \o <<m>> /\ <<m>> \in Seq(Messages)
  OBVIOUS
<1>2. Sends(s \o <<m>>, t) = Sends(s, t) + Sends(<<m>>, t)
  BY <1>1, SendsConcat
<1> QED
  BY <1>1, <1>2, SendsOne, Zenon

LEMMA SendsTail ==
    ASSUME NEW s \in Seq(Messages), s # <<>>, NEW t
    PROVE  /\ Head(s) \in Messages /\ Tail(s) \in Seq(Messages)
           /\ Sends(s, t) = Weight(Head(s), t) + Sends(Tail(s), t)
<1>1. Head(s) \in Messages /\ Tail(s) \in Seq(Messages) /\ <<Head(s)>> \in Seq(Messages)
  OBVIOUS
<1>2. s = <<Head(s)>> \o Tail(s)
  OBVIOUS
<1>3. Sends(<<Head(s)>> \o Tail(s), t) = Sends(<<Head(s)>>, t) + Sends(Tail(s), t)
  BY <1>1, SendsConcat
<1>4. Sends(<<Head(s)>>, t) = Weight(Head(s), t)
  BY <1>1, SendsOne
<1> QED
  BY <1>1, <1>2, <1>3, <1>4, Zenon

\* The units of the sequences of some threads.
UnitsOf(q, t, D) == UNION {{x} \X Units(q[x], t) : x \in D}

LEMMA QueuesFinite ==
    ASSUME NEW D, IsFiniteSet(D), NEW q, \A x \in D : q[x] \in Seq(Messages), NEW t
    PROVE  IsFiniteSet(UnitsOf(q, t, D))
<1> DEFINE F == [x \in D |-> Units(q[x], t)]
<1>1. \A x \in D : IsFiniteSet(F[x])
  BY UnitsFinite
<1>2. UnitsOf(q, t, D) = UNION {{x} \X F[x] : x \in D}
  BY DEF UnitsOf
<1> HIDE DEF F
<1> QED
  BY <1>1, <1>2, ColumnsFinite

\* Replacing the sequence of one thread.
Replaced(P, p, q, h) ==
    /\ q \in [P -> Seq(Messages)] /\ h \in [P -> Seq(Messages)]
    /\ \A x \in P \ {p} : h[x] = q[x]

LEMMA OneQueue ==
    ASSUME NEW P, IsFiniteSet(P), NEW p \in P, NEW q, NEW h, Replaced(P, p, q, h), NEW t
    PROVE  /\ SendsIn(q, t) \in Nat /\ SendsIn(h, t) \in Nat
           /\ SendsIn(h, t) + Sends(q[p], t) = SendsIn(q, t) + Sends(h[p], t)
<1> DEFINE Rest == UnitsOf(q, t, P \ {p})
<1>0. /\ q \in [P -> Seq(Messages)] /\ h \in [P -> Seq(Messages)]
      /\ \A x \in P \ {p} : h[x] = q[x]
  BY DEF Replaced
<1>1. ASSUME NEW g \in [P -> Seq(Messages)], \A x \in P \ {p} : g[x] = q[x]
      PROVE  /\ SendsIn(g, t) = Cardinality(Rest) + Sends(g[p], t)
             /\ IsFiniteSet(Rest)
  <2> DEFINE U == {p} \X Units(g[p], t)
  <2>1. UnitsOf(g, t, P) = Rest \cup U
    <3>1. {{x} \X Units(g[x], t) : x \in P} = {{x} \X Units(q[x], t) : x \in P \ {p}} \cup {U}
      BY <1>1
    <3> QED
      BY <3>1 DEF UnitsOf
  <2>2. Rest \cap U = {}
    BY DEF UnitsOf
  <2>3. IsFiniteSet(U) /\ Cardinality(U) = Sends(g[p], t)
    BY UnitsFinite, Column DEF Sends
  <2>4. IsFiniteSet(Rest)
    <3>1. IsFiniteSet(P \ {p}) /\ \A x \in P \ {p} : q[x] \in Seq(Messages)
      BY <1>0, FS_RemoveElement
    <3> QED
      BY <3>1, QueuesFinite
  <2>5. SendsIn(g, t) = Cardinality(UnitsOf(g, t, P))
    BY DEF SendsIn, UnitsOf
  <2> HIDE DEF Rest, U
  <2>6. Cardinality(Rest \cup U) = Cardinality(Rest) + Cardinality(U)
    BY <2>2, <2>3, <2>4, DisjointUnion
  <2> QED
    BY <2>1, <2>3, <2>4, <2>5, <2>6
<1>2. SendsIn(q, t) = Cardinality(Rest) + Sends(q[p], t) /\ IsFiniteSet(Rest)
  BY <1>0, <1>1
<1>3. SendsIn(h, t) = Cardinality(Rest) + Sends(h[p], t)
  BY <1>0, <1>1
<1>4. Cardinality(Rest) \in Nat /\ Sends(q[p], t) \in Nat /\ Sends(h[p], t) \in Nat
  BY <1>0, <1>2, FS_CardinalityType, UnitsFinite
<1> HIDE DEF Rest
<1> QED
  BY <1>2, <1>3, <1>4

\* SetToSeq lists every element of a finite set once.
LEMMA Listed ==
    ASSUME NEW S, IsFiniteSet(S)
    PROVE  /\ Cardinality(S) \in Nat
           /\ SetToSeq(S) \in [1..Cardinality(S) -> S]
           /\ \A i, j \in 1..Cardinality(S) : SetToSeq(S)[i] = SetToSeq(S)[j] => i = j
           /\ \A x \in S : \E i \in 1..Cardinality(S) : SetToSeq(S)[i] = x
<1> DEFINE n == Cardinality(S)
           f == SetToSeq(S)
<1>1. n \in Nat /\ \E g : g \in Bijection(1..n, S)
  BY FS_CardinalityType DEF ExistsBijection
<1>2. \E g \in [1..n -> S] : IsInjective(g)
  BY <1>1 DEF Bijection, Injection
<1>3. f \in [1..n -> S] /\ IsInjective(f)
  BY <1>2 DEF SetToSeq
<1>4. IsFiniteSet(1..n) /\ Cardinality(1..n) = n
  <2>1. IsFiniteSet(1..n) /\ Cardinality(1..n) = IF 1 > n THEN 0 ELSE n - 1 + 1
    BY <1>1, FS_Interval
  <2> HIDE DEF n
  <2> QED
    BY <1>1, <2>1
<1>5. f \in Injection(1..n, S)
  BY <1>3 DEF Injection
<1>6. f \in Surjection(1..n, S)
  BY <1>4, <1>5, FS_Injection
<1> QED
  BY <1>1, <1>3, <1>6 DEF IsInjective, Surjection

\* due lists the texts of S, and a has one message for each, with its count.
Lists(due, n, S) ==
    /\ due \in [1..n -> S]
    /\ \A i, j \in 1..n : due[i] = due[j] => i = j
    /\ \A x \in S : \E i \in 1..n : due[i] = x

Reports(a, due, n, c) ==
    /\ DOMAIN a = 1..n
    /\ \A i \in 1..n : a[i].kind = "text" /\ a[i].text = due[i] /\ a[i].count = c[due[i]]

LEMMA SendsListed ==
    ASSUME NEW S, NEW n \in Nat, NEW due, Lists(due, n, S), NEW c \in [S -> Nat],
           NEW a, Reports(a, due, n, c), NEW t
    PROVE  Sends(a, t) = IF t \in S THEN c[t] ELSE 0
<1> USE DEF Lists, Reports
<1> DEFINE D == {j \in DOMAIN a : a[j].kind = "text" /\ a[j].text = t}
<1>1. CASE t \in S
  <2>1. PICK i \in 1..n : due[i] = t
    BY <1>1
  <2>2. D = {i}
    BY <2>1
  <2>3. a[i].count = c[t] /\ c[t] \in Nat
    BY <1>1, <2>1
  <2>4. Units(a, t) = UNION {{j} \X (1..a[j].count) : j \in D}
    BY DEF Units
  <2> HIDE DEF D
  <2>5. Units(a, t) = {i} \X (1..a[i].count)
    BY <2>2, <2>4
  <2>6. PICK k \in Nat : k = c[t]
    BY <2>3
  <2>7. IsFiniteSet(1..k) /\ Cardinality(1..k) = k
    <3>1. IsFiniteSet(1..k) /\ Cardinality(1..k) = IF 1 > k THEN 0 ELSE k - 1 + 1
      BY FS_Interval
    <3> QED
      BY <3>1
  <2>8. Cardinality({i} \X (1..k)) = k
    BY <2>7, Column
  <2> QED
    BY <1>1, <2>3, <2>5, <2>6, <2>8 DEF Sends
<1>2. CASE t \notin S
  <2>1. D = {}
    BY <1>2
  <2>2. Units(a, t) = {}
    BY <2>1 DEF Units
  <2> QED
    BY <1>2, <2>2, FS_EmptySet DEF Sends
<1> QED
  BY <1>1, <1>2

-----------------------------------------------------------------------------

\* The types, with what the counts rest on: a message that may still be
\* delayed stands for one send, and the destructor has its own part of the
\* queue.
LogTypes ==
    /\ now \in Nat /\ running \in BOOLEAN /\ log_instance_ \in BOOLEAN
    /\ draft \in [Loggers -> Seq(Messages)]
    /\ queue_ \in [Senders -> Seq(Messages)]
    /\ messages_ \in Seq(Messages)
    /\ written \in [Texts -> Nat] /\ sent \in [Texts -> Nat]

Single(s) == \A i \in 1..Len(s) : s[i].kind = "text" /\ s[i].delay # 0 => s[i].count = 1

Delays ==
    /\ IsFiniteSet(DOMAIN delay_storage_) /\ DOMAIN delay_storage_ \subseteq Texts
    /\ \A t \in DOMAIN delay_storage_ :
          delay_storage_[t].last \in Int /\ delay_storage_[t].count \in Nat

Singles ==
    /\ \A p \in Loggers : Single(draft[p])
    /\ \A p \in Senders : Single(queue_[p])
    /\ log_instance_ => queue_["stopper"] = <<>>

LogInv == LogTypes /\ Delays /\ Singles /\ NoSendLost

\* When the log is gone, the log thread has ended, will not wait, or has a
\* message that wakes it.
WakeUpPending ==
    ~log_instance_ =>
        /\ ~running
        /\ pc \in {"start", "done"} \/ \E p \in Senders : queue_[p] # <<>>

-----------------------------------------------------------------------------

LEMMA SendersFinite == IsFiniteSet(Senders) /\ IsFiniteSet(Loggers) /\ Loggers \subseteq Senders
<1>1. IsFiniteSet(Others)
  <2>1. IsFiniteSet({} \cup {"flusher"})
    BY FS_EmptySet, FS_AddElement
  <2>2. IsFiniteSet(({} \cup {"flusher"}) \cup {"cleaner"})
    BY <2>1, FS_AddElement
  <2>3. IsFiniteSet((({} \cup {"flusher"}) \cup {"cleaner"}) \cup {"log_handler"})
    BY <2>2, FS_AddElement
  <2>4. IsFiniteSet(((({} \cup {"flusher"}) \cup {"cleaner"}) \cup {"log_handler"}) \cup {"stopper"})
    BY <2>3, FS_AddElement
  <2>5. Others = ((({} \cup {"flusher"}) \cup {"cleaner"}) \cup {"log_handler"}) \cup {"stopper"}
    BY DEF Others
  <2> QED
    BY <2>4, <2>5
<1>2. IsFiniteSet(Loggers)
  BY LogAssumption
<1> QED
  BY <1>1, <1>2, FS_Union DEF Senders

\* NoSendLost over explicit values, so that it can be stated of two states.
Count(ds, t) == IF t \in DOMAIN ds THEN ds[t].count ELSE 0

Balanced(sn, q, d, ds, ms, w) ==
    \A t \in Texts : sn[t] = SendsIn(q, t) + SendsIn(d, t) + Count(ds, t) + Sends(ms, t) + w[t]

LEMMA BalanceIs ==
    /\ NoSendLost <=> Balanced(sent, queue_, draft, delay_storage_, messages_, written)
    /\ NoSendLost' <=> Balanced(sent', queue_', draft', delay_storage_', messages_', written')
<1>1. \A t : Stored(t).count = Count(delay_storage_, t)
  BY DEF Stored, Count
<1>2. \A t : Stored(t)'.count = Count(delay_storage_', t)
  BY DEF Stored, Count
<1>3. \A t : Queued(t) = SendsIn(queue_, t) + SendsIn(draft, t)
  BY DEF Queued
<1>4. \A t : Queued(t)' = SendsIn(queue_', t) + SendsIn(draft', t)
  BY DEF Queued
<1>5. NoSendLost <=> Balanced(sent, queue_, draft, delay_storage_, messages_, written)
  BY <1>1, <1>3 DEF NoSendLost, Balanced
<1>6. NoSendLost' <=> Balanced(sent', queue_', draft', delay_storage_', messages_', written')
  BY <1>2, <1>4 DEF NoSendLost, Balanced
<1> QED
  BY <1>5, <1>6

\* All the figures of a state are natural numbers.
LEMMA FigureTypes ==
    ASSUME LogTypes, Delays, NEW t \in Texts
    PROVE  /\ SendsIn(queue_, t) \in Nat /\ SendsIn(draft, t) \in Nat
           /\ Count(delay_storage_, t) \in Nat /\ Sends(messages_, t) \in Nat
           /\ written[t] \in Nat /\ sent[t] \in Nat
<1>1. SendsIn(queue_, t) \in Nat
  <2>1. "stopper" \in Senders /\ Replaced(Senders, "stopper", queue_, queue_)
    BY DEF Senders, Others, LogTypes, Replaced
  <2> QED
    BY <2>1, SendersFinite, OneQueue
<1>2. SendsIn(draft, t) \in Nat
  <2>0. draft \in [Loggers -> Seq(Messages)]
    BY DEF LogTypes
  <2>1. IsFiniteSet(UnitsOf(draft, t, Loggers))
    BY <2>0, SendersFinite, QueuesFinite
  <2>2. SendsIn(draft, t) = Cardinality(UnitsOf(draft, t, Loggers))
    BY <2>0 DEF SendsIn, UnitsOf
  <2> QED
    BY <2>1, <2>2, FS_CardinalityType
<1>3. Count(delay_storage_, t) \in Nat
  BY DEF Delays, Count
<1>4. Sends(messages_, t) \in Nat
  BY UnitsFinite DEF LogTypes
<1> QED
  BY <1>1, <1>2, <1>3, <1>4 DEF LogTypes

\* A sender with nothing queued sends a signal, which stands for no send.
LEMMA SignalSent ==
    ASSUME LogInv, NEW p \in Senders, NEW m \in {Flush, Clear}, queue_[p] = <<>>,
           queue_' = [queue_ EXCEPT ![p] = <<m>>],
           UNCHANGED <<draft, delay_storage_, messages_, written, sent>>
    PROVE  /\ queue_' \in [Senders -> Seq(Messages)]
           /\ \A x \in Senders : Single(queue_'[x])
           /\ NoSendLost'
<1>1. /\ queue_ \in [Senders -> Seq(Messages)] /\ m \in Messages
      /\ <<m>> \in Seq(Messages) /\ m.kind # "text"
  BY DEF LogInv, LogTypes, Messages, Flush, Clear
<1>2. \A x \in Senders : Single(queue_'[x])
  <2>1. Single(<<m>>)
    BY <1>1 DEF Single
  <2> QED
    BY <1>1, <2>1 DEF LogInv, Singles
<1>3. ASSUME NEW t \in Texts PROVE SendsIn(queue_', t) = SendsIn(queue_, t)
  <2>0. queue_'[p] = <<m>>
    BY <1>1
  <2>1. Replaced(Senders, p, queue_, queue_')
    BY <1>1 DEF Replaced
  <2>2. /\ SendsIn(queue_, t) \in Nat /\ SendsIn(queue_', t) \in Nat
        /\ SendsIn(queue_', t) + Sends(queue_[p], t) = SendsIn(queue_, t) + Sends(queue_'[p], t)
    BY ONLY <2>1, SendersFinite, OneQueue
  <2>3. Sends(<<>>, t) = 0 /\ Sends(<<m>>, t) = 0
    BY <1>1, SendsEmpty, SendsOne DEF Weight
  <2> QED
    BY <2>0, <2>2, <2>3
<1>4. Balanced(sent', queue_', draft', delay_storage_', messages_', written')
  BY <1>3, BalanceIs DEF LogInv, Balanced
<1> QED
  BY <1>1, <1>2, <1>4, BalanceIs

LEMMA SingleConcat ==
    ASSUME NEW s \in Seq(Messages), NEW r \in Seq(Messages), Single(s), Single(r)
    PROVE  Single(s \o r)
<1> SUFFICES ASSUME NEW i \in 1..Len(s \o r)
             PROVE  \/ i \in 1..Len(s) /\ (s \o r)[i] = s[i]
                    \/ \E j \in 1..Len(r) : (s \o r)[i] = r[j]
  BY DEF Single
<1>1. Len(s \o r) = Len(s) + Len(r)
  OBVIOUS
<1>2. CASE i <= Len(s)
  BY <1>1, <1>2
<1>3. CASE ~(i <= Len(s))
  <2>1. i - Len(s) \in 1..Len(r) /\ (s \o r)[i] = r[i - Len(s)]
    BY <1>1, <1>3
  <2> QED
    BY <2>1
<1> QED
  BY <1>2, <1>3

LEMMA SingleTail ==
    ASSUME NEW s \in Seq(Messages), s # <<>>, Single(s)
    PROVE  /\ Single(Tail(s))
           /\ Head(s).kind = "text" /\ Head(s).delay # 0 => Head(s).count = 1
<1>1. /\ Len(s) \in Nat /\ Len(s) > 0 /\ Len(Tail(s)) = Len(s) - 1 /\ Head(s) = s[1]
      /\ \A i \in 1..Len(Tail(s)) : Tail(s)[i] = s[i + 1]
  OBVIOUS
<1>2. 1 \in 1..Len(s) /\ \A i \in 1..Len(Tail(s)) : i + 1 \in 1..Len(s)
  BY <1>1
<1> QED
  BY <1>1, <1>2 DEF Single

\* A message is never taken from a part of the queue that is empty.
LEMMA StopperKept ==
    ASSUME Singles, NEW p \in Senders, queue_[p] # <<>>,
           \A y \in Senders \ {p} : queue_'[y] = queue_[y], log_instance_' = log_instance_
    PROVE  log_instance_' => queue_'["stopper"] = <<>>
<1>1. "stopper" \in Senders
  BY DEF Senders, Others
<1> QED
  BY <1>1 DEF Singles

LEMMA LogKept ==
    ASSUME LogInv, UNCHANGED <<running, log_instance_, draft, queue_, delay_storage_, messages_, written, sent>>,
           now' \in Nat
    PROVE  LogInv'
BY DEF LogInv, LogTypes, Delays, Singles, Single, NoSendLost, Queued, Stored

LEMMA LogTick == ASSUME LogInv, Tick PROVE LogInv'
<1>1. now' \in Nat
  BY DEF LogInv, LogTypes, Tick
<1> QED
  BY <1>1, LogKept DEF Tick

LEMMA LogSignals == ASSUME LogInv, flush_logs \/ clear_logs \/ stop_log PROVE LogInv'
<1>0. /\ LogTypes /\ Delays /\ Singles
      /\ "flusher" \in Senders /\ "cleaner" \in Senders /\ "stopper" \in Senders
      /\ queue_ \in [Senders -> Seq(Messages)]
  BY DEF LogInv, LogTypes, Senders, Others
<1>1. PICK p \in {"flusher", "cleaner", "stopper"}, m \in {Flush, Clear} :
        /\ queue_[p] = <<>> /\ queue_' = [queue_ EXCEPT ![p] = <<m>>]
        /\ (log_instance_' = log_instance_ /\ p # "stopper") \/ log_instance_' = FALSE
        /\ UNCHANGED <<now, running, draft, pc, delay_storage_, messages_, written, sent>>
  BY DEF flush_logs, clear_logs, stop_log, LogInv, Singles
<1>2. /\ queue_' \in [Senders -> Seq(Messages)]
      /\ \A x \in Senders : Single(queue_'[x])
      /\ NoSendLost'
  BY <1>0, <1>1, SignalSent
<1>3. LogTypes'
  BY <1>0, <1>1, <1>2 DEF LogTypes
<1>4. Delays'
  BY <1>0, <1>1 DEF Delays
<1>5. Singles'
  BY <1>0, <1>1, <1>2 DEF Singles
<1> QED
  BY <1>2, <1>3, <1>4, <1>5 DEF LogInv

\* A stamped message is one send more, and one more on its way.
LEMMA LogStamp ==
    ASSUME LogInv, NEW p \in Loggers, NEW x \in Texts, Stamp(p, x)
    PROVE  LogInv'
<1> DEFINE m == Message(x, 1, now, Delay[x])
<1>0. /\ LogTypes /\ Delays /\ Singles /\ NoSendLost
      /\ draft \in [Loggers -> Seq(Messages)] /\ draft[p] = <<>>
      /\ draft' = [draft EXCEPT ![p] = <<m>>]
      /\ sent \in [Texts -> Nat] /\ sent' = [sent EXCEPT ![x] = @ + 1]
      /\ UNCHANGED <<now, running, log_instance_, queue_, pc, delay_storage_, messages_, written>>
  BY DEF LogInv, LogTypes, Stamp
<1>1. m \in Messages /\ m.kind = "text" /\ m.text = x /\ m.count = 1
  <2>1. now \in Int
    BY DEF LogInv, LogTypes
  <2>2. Delay[x] \in Nat
    BY ONLY LogAssumption
  <2> QED
    BY <2>1, <2>2 DEF Message, Messages, TextMessages
<1> HIDE DEF m
<1>2. /\ draft' \in [Loggers -> Seq(Messages)] /\ draft'[p] = <<m>>
      /\ \A y \in Loggers \ {p} : draft'[y] = draft[y]
  BY <1>0, <1>1
<1>3. LogTypes'
  BY <1>0, <1>2 DEF LogTypes
<1>4. Delays'
  BY <1>0 DEF Delays
<1>5. Singles'
  <2>1. Single(<<m>>)
    BY <1>1 DEF Single
  <2> QED
    BY <1>0, <1>2, <2>1 DEF Singles
<1>6. ASSUME NEW t \in Texts
      PROVE  sent'[t] = SendsIn(queue_, t) + SendsIn(draft', t) + Count(delay_storage_, t)
                          + Sends(messages_, t) + written[t]
  <2>1. Replaced(Loggers, p, draft, draft')
    BY <1>0, <1>2 DEF Replaced
  <2>2. /\ SendsIn(draft, t) \in Nat /\ SendsIn(draft', t) \in Nat
        /\ SendsIn(draft', t) + Sends(draft[p], t) = SendsIn(draft, t) + Sends(draft'[p], t)
    BY ONLY <2>1, SendersFinite, OneQueue
  <2>3. Sends(draft[p], t) = 0 /\ Sends(draft'[p], t) = (IF t = x THEN 1 ELSE 0)
    BY <1>0, <1>1, <1>2, SendsEmpty, SendsOne DEF Weight
  <2>4. sent'[t] = sent[t] + (IF t = x THEN 1 ELSE 0)
    BY <1>0
  <2>5. /\ SendsIn(queue_, t) \in Nat /\ Count(delay_storage_, t) \in Nat
        /\ Sends(messages_, t) \in Nat /\ written[t] \in Nat /\ sent[t] \in Nat
    BY <1>0, FigureTypes
  <2>6. sent[t] = SendsIn(queue_, t) + SendsIn(draft, t) + Count(delay_storage_, t)
                    + Sends(messages_, t) + written[t]
    BY <1>0, BalanceIs DEF Balanced
  <2> QED
    BY ONLY <2>2, <2>3, <2>4, <2>5, <2>6
<1>7. Balanced(sent', queue_', draft', delay_storage_', messages_', written')
  BY <1>0, <1>6 DEF Balanced
<1> QED
  BY <1>3, <1>4, <1>5, <1>7, BalanceIs DEF LogInv

\* A message moves from its thread to the queue.
LEMMA LogSend ==
    ASSUME LogInv, NEW p \in Loggers, send_log_message(p)
    PROVE  LogInv'
<1>0. /\ LogTypes /\ Delays /\ Singles /\ NoSendLost
      /\ p \in Senders /\ p # "stopper"
      /\ draft \in [Loggers -> Seq(Messages)] /\ draft' = [draft EXCEPT ![p] = <<>>]
      /\ queue_ \in [Senders -> Seq(Messages)]
      /\ queue_' = [queue_ EXCEPT ![p] = queue_[p] \o draft[p]]
      /\ UNCHANGED <<now, running, log_instance_, pc, delay_storage_, messages_, written, sent>>
  BY LogAssumption DEF LogInv, LogTypes, send_log_message, Senders, Others
<1>1. /\ draft[p] \in Seq(Messages) /\ queue_[p] \in Seq(Messages)
      /\ queue_[p] \o draft[p] \in Seq(Messages)
  BY <1>0
<1>2. /\ draft' \in [Loggers -> Seq(Messages)] /\ draft'[p] = <<>>
      /\ \A y \in Loggers \ {p} : draft'[y] = draft[y]
  BY <1>0
<1>3. /\ queue_' \in [Senders -> Seq(Messages)] /\ queue_'[p] = queue_[p] \o draft[p]
      /\ \A y \in Senders \ {p} : queue_'[y] = queue_[y]
  BY <1>0, <1>1
<1>4. LogTypes'
  BY <1>0, <1>2, <1>3 DEF LogTypes
<1>5. Delays'
  BY <1>0 DEF Delays
<1>6. Singles'
  <2>1. Single(queue_[p]) /\ Single(draft[p])
    BY <1>0 DEF Singles
  <2>2. Single(queue_[p] \o draft[p])
    BY <1>1, <2>1, SingleConcat
  <2>3. Single(<<>>)
    BY DEF Single
  <2>4. "stopper" \in Senders
    BY DEF Senders, Others
  <2> QED
    BY <1>0, <1>2, <1>3, <2>2, <2>3, <2>4 DEF Singles
<1>7. ASSUME NEW t \in Texts
      PROVE  sent[t] = SendsIn(queue_', t) + SendsIn(draft', t) + Count(delay_storage_, t)
                          + Sends(messages_, t) + written[t]
  <2>0. p \in Senders
    BY <1>0
  <2>1. Replaced(Loggers, p, draft, draft') /\ Replaced(Senders, p, queue_, queue_')
    BY <1>0, <1>2, <1>3 DEF Replaced
  <2>2. /\ SendsIn(draft, t) \in Nat /\ SendsIn(draft', t) \in Nat
        /\ SendsIn(draft', t) + Sends(draft[p], t) = SendsIn(draft, t) + Sends(draft'[p], t)
    BY ONLY <2>1, SendersFinite, OneQueue
  <2>3. /\ SendsIn(queue_, t) \in Nat /\ SendsIn(queue_', t) \in Nat
        /\ SendsIn(queue_', t) + Sends(queue_[p], t) = SendsIn(queue_, t) + Sends(queue_'[p], t)
    BY ONLY <2>1, <2>0, SendersFinite, OneQueue
  <2>4. Sends(draft'[p], t) = 0 /\ Sends(queue_'[p], t) = Sends(queue_[p], t) + Sends(draft[p], t)
    BY <1>1, <1>2, <1>3, SendsEmpty, SendsConcat
  <2>5. /\ Sends(draft[p], t) \in Nat /\ Sends(queue_[p], t) \in Nat
    BY <1>1, UnitsFinite
  <2>6. /\ Count(delay_storage_, t) \in Nat
        /\ Sends(messages_, t) \in Nat /\ written[t] \in Nat
    BY <1>0, FigureTypes
  <2>7. sent[t] = SendsIn(queue_, t) + SendsIn(draft, t) + Count(delay_storage_, t)
                    + Sends(messages_, t) + written[t]
    BY <1>0, BalanceIs DEF Balanced
  <2> QED
    BY ONLY <2>2, <2>3, <2>4, <2>5, <2>6, <2>7
<1>8. Balanced(sent', queue_', draft', delay_storage_', messages_', written')
  BY <1>0, <1>7 DEF Balanced
<1> QED
  BY <1>4, <1>5, <1>6, <1>8, BalanceIs DEF LogInv

\* The log thread takes a message.
LEMMA Taken ==
    ASSUME LogTypes, Singles, NEW p \in Senders, queue_[p] # <<>>, NEW t
    PROVE  /\ queue_[p] \in Seq(Messages) /\ Tail(queue_[p]) \in Seq(Messages)
           /\ Head(queue_[p]) \in Messages
           /\ Sends(queue_[p], t) = Weight(Head(queue_[p]), t) + Sends(Tail(queue_[p]), t)
           /\ Weight(Head(queue_[p]), t) \in Nat /\ Sends(Tail(queue_[p]), t) \in Nat
           /\ Single(Tail(queue_[p]))
           /\ Head(queue_[p]).kind = "text" /\ Head(queue_[p]).delay # 0 => Head(queue_[p]).count = 1
<1>1. queue_[p] \in Seq(Messages) /\ Single(queue_[p])
  BY DEF LogTypes, Singles
<1>2. PICK s : s = queue_[p]
  OBVIOUS
<1>3. s \in Seq(Messages) /\ Single(s) /\ s # <<>>
  BY <1>1, <1>2
<1>4. /\ Head(s) \in Messages /\ Tail(s) \in Seq(Messages)
      /\ Sends(s, t) = Weight(Head(s), t) + Sends(Tail(s), t)
  BY ONLY <1>3, SendsTail
<1>5. /\ Single(Tail(s))
      /\ Head(s).kind = "text" /\ Head(s).delay # 0 => Head(s).count = 1
  BY ONLY <1>3, SingleTail
<1>6. Weight(Head(s), t) \in Nat /\ Sends(Tail(s), t) \in Nat
  BY ONLY <1>4, MessageType, UnitsFinite
<1> QED
  BY <1>1, <1>2, <1>4, <1>5, <1>6

LEMMA LogFlush ==
    ASSUME LogInv, NEW p \in Senders, HandleFlush(p)
    PROVE  LogInv'
<1>0. /\ LogTypes /\ Delays /\ Singles /\ NoSendLost
      /\ queue_[p] # <<>> /\ Head(queue_[p]).kind = "flush"
      /\ queue_ \in [Senders -> Seq(Messages)]
      /\ queue_' = [queue_ EXCEPT ![p] = Tail(queue_[p])]
      /\ written \in [Texts -> Nat]
      /\ written' = [t \in Texts |-> written[t] + Sends(messages_, t)]
      /\ messages_' = <<>>
      /\ UNCHANGED <<now, running, log_instance_, draft, delay_storage_, sent>>
  BY DEF LogInv, LogTypes, HandleFlush, Take
<1>1. /\ queue_' \in [Senders -> Seq(Messages)] /\ queue_'[p] = Tail(queue_[p])
      /\ \A y \in Senders \ {p} : queue_'[y] = queue_[y]
  BY <1>0, Taken
<1>2. written' \in [Texts -> Nat]
  BY <1>0, FigureTypes
<1>3. LogTypes'
  BY <1>0, <1>1, <1>2 DEF LogTypes
<1>4. Delays'
  BY <1>0 DEF Delays
<1>5. Singles'
  BY <1>0, <1>1, Taken, StopperKept DEF Singles
<1>6. ASSUME NEW t \in Texts
      PROVE  sent[t] = SendsIn(queue_', t) + SendsIn(draft, t) + Count(delay_storage_, t)
                          + Sends(messages_', t) + written'[t]
  <2>1. Replaced(Senders, p, queue_, queue_')
    BY <1>0, <1>1 DEF Replaced
  <2>2. /\ SendsIn(queue_, t) \in Nat /\ SendsIn(queue_', t) \in Nat
        /\ SendsIn(queue_', t) + Sends(queue_[p], t) = SendsIn(queue_, t) + Sends(queue_'[p], t)
    BY ONLY <2>1, SendersFinite, OneQueue
  <2>3. /\ Sends(queue_[p], t) = Sends(queue_'[p], t) /\ Sends(queue_'[p], t) \in Nat
    <3>1. /\ Sends(queue_[p], t) = Weight(Head(queue_[p]), t) + Sends(Tail(queue_[p]), t)
          /\ Sends(Tail(queue_[p]), t) \in Nat
      BY <1>0, Taken
    <3>2. Weight(Head(queue_[p]), t) = 0
      BY <1>0 DEF Weight
    <3> QED
      BY <1>1, <3>1, <3>2
  <2>4. Sends(messages_', t) = 0 /\ written'[t] = written[t] + Sends(messages_, t)
    BY <1>0, SendsEmpty
  <2>5. /\ SendsIn(draft, t) \in Nat /\ Count(delay_storage_, t) \in Nat
        /\ Sends(messages_, t) \in Nat /\ written[t] \in Nat
    BY <1>0, FigureTypes
  <2>6. sent[t] = SendsIn(queue_, t) + SendsIn(draft, t) + Count(delay_storage_, t)
                    + Sends(messages_, t) + written[t]
    BY <1>0, BalanceIs DEF Balanced
  <2> QED
    BY ONLY <2>2, <2>3, <2>4, <2>5, <2>6
<1>7. Balanced(sent', queue_', draft', delay_storage_', messages_', written')
  BY <1>0, <1>6 DEF Balanced
<1> QED
  BY <1>3, <1>4, <1>5, <1>7, BalanceIs DEF LogInv

\* Entering a text into delay_storage_.
LEMMA StoreKeeps ==
    ASSUME Delays, NEW x \in Texts, NEW d, d.last \in Int, d.count \in Nat,
           delay_storage_' = Store(x, d)
    PROVE  /\ Delays'
           /\ \A t \in Texts :
                Count(delay_storage_', t) = IF t = x THEN d.count ELSE Count(delay_storage_, t)
<1>1. /\ DOMAIN delay_storage_' = DOMAIN delay_storage_ \cup {x}
      /\ delay_storage_'[x] = d
      /\ \A u \in DOMAIN delay_storage_ \ {x} : delay_storage_'[u] = delay_storage_[u]
  BY DEF Store
<1>2. IsFiniteSet(DOMAIN delay_storage_ \cup {x})
  BY FS_AddElement DEF Delays
<1>3. Delays'
  BY <1>1, <1>2 DEF Delays
<1>4. \A t \in Texts :
        Count(delay_storage_', t) = IF t = x THEN d.count ELSE Count(delay_storage_, t)
  BY <1>1 DEF Count
<1> QED
  BY <1>3, <1>4

\* What leaves the queue is in the buffer or in delay_storage_.
LEMMA LogText ==
    ASSUME LogInv, NEW p \in Senders, HandleText(p)
    PROVE  LogInv'
<1> DEFINE mes == Head(queue_[p])
           d == Stored(mes.text)
<1>0. /\ LogTypes /\ Delays /\ Singles /\ NoSendLost
      /\ queue_[p] # <<>> /\ mes.kind = "text"
      /\ queue_ \in [Senders -> Seq(Messages)] /\ messages_ \in Seq(Messages)
      /\ queue_' = [queue_ EXCEPT ![p] = Tail(queue_[p])]
      /\ UNCHANGED <<now, running, log_instance_, draft, written, sent>>
  BY DEF LogInv, LogTypes, HandleText, Take
<1>1. \/ mes.delay = 0 /\ messages_' = Append(messages_, mes) /\ delay_storage_' = delay_storage_
      \/ /\ mes.delay # 0
         /\ messages_' = Append(messages_, [mes EXCEPT !.count = d.count + 1])
         /\ delay_storage_' = Store(mes.text, [last |-> mes.time, count |-> 0])
      \/ /\ mes.delay # 0 /\ messages_' = messages_
         /\ delay_storage_' = Store(mes.text, [d EXCEPT !.count = d.count + 1])
  BY DEF HandleText
<1>2. /\ queue_' \in [Senders -> Seq(Messages)] /\ queue_'[p] = Tail(queue_[p])
      /\ \A y \in Senders \ {p} : queue_'[y] = queue_[y]
  BY <1>0, Taken
<1>3. mes \in TextMessages /\ (mes.delay # 0 => mes.count = 1)
  <2>1. mes \in Messages /\ (mes.delay # 0 => mes.count = 1)
    BY <1>0, Taken
  <2> QED
    BY <1>0, <2>1, MessageType
<1> HIDE DEF mes
<1>4. /\ mes \in Messages /\ mes.text \in Texts /\ mes.count \in Nat /\ mes.time \in Int
      /\ \A n \in Nat : /\ [mes EXCEPT !.count = n] \in Messages
                       /\ [mes EXCEPT !.count = n].kind = "text"
                       /\ [mes EXCEPT !.count = n].text = mes.text
                       /\ [mes EXCEPT !.count = n].count = n
  BY <1>0, <1>3 DEF TextMessages, Messages
<1>5. /\ d.last \in Int /\ d.count \in Nat /\ d.count = Count(delay_storage_, mes.text)
      /\ \A n : [d EXCEPT !.count = n].last = d.last /\ [d EXCEPT !.count = n].count = n
  BY <1>0, <1>4 DEF Stored, Delays, Count
<1> HIDE DEF d
<1>6. /\ messages_' \in Seq(Messages) /\ Delays'
      /\ \A t \in Texts : Count(delay_storage_', t) + Sends(messages_', t)
                             = Count(delay_storage_, t) + Sends(messages_, t) + Weight(mes, t)
  <2>1. \A t \in Texts : Count(delay_storage_, t) \in Nat /\ Sends(messages_, t) \in Nat
    BY <1>0, FigureTypes
  <2>2. CASE mes.delay = 0 /\ messages_' = Append(messages_, mes) /\ delay_storage_' = delay_storage_
    <3>1. messages_' \in Seq(Messages)
      BY <1>0, <1>4, <2>2
    <3>2. Delays'
      BY <1>0, <2>2 DEF Delays
    <3>3. ASSUME NEW t \in Texts
          PROVE  Count(delay_storage_', t) + Sends(messages_', t)
                   = Count(delay_storage_, t) + Sends(messages_, t) + Weight(mes, t)
      <4>1. Sends(messages_', t) = Sends(messages_, t) + Weight(mes, t)
        BY <1>0, <1>4, <2>2, SendsAppend
      <4>2. Weight(mes, t) \in Nat
        BY <1>4, MessageType
      <4> QED
        BY <2>1, <2>2, <4>1, <4>2
    <3> QED
      BY <3>1, <3>2, <3>3
  <2>3. CASE /\ mes.delay # 0
             /\ messages_' = Append(messages_, [mes EXCEPT !.count = d.count + 1])
             /\ delay_storage_' = Store(mes.text, [last |-> mes.time, count |-> 0])
    <3>1. PICK m : m = [mes EXCEPT !.count = d.count + 1]
      OBVIOUS
    <3>2. m \in Messages /\ m.kind = "text" /\ m.text = mes.text /\ m.count = d.count + 1
      BY <1>4, <1>5, <3>1
    <3>3. messages_' = Append(messages_, m) /\ messages_' \in Seq(Messages)
      BY <1>0, <2>3, <3>1, <3>2
    <3>4. PICK e : e = [last |-> mes.time, count |-> 0]
      OBVIOUS
    <3>5. /\ e.last \in Int /\ e.count = 0 /\ e.count \in Nat
          /\ delay_storage_' = Store(mes.text, e)
      BY <1>4, <2>3, <3>4
    <3>6. /\ Delays'
          /\ \A t \in Texts :
               Count(delay_storage_', t) = IF t = mes.text THEN e.count ELSE Count(delay_storage_, t)
      BY <1>0, <1>4, <3>5, StoreKeeps
    <3>7. ASSUME NEW t \in Texts
          PROVE  Count(delay_storage_', t) + Sends(messages_', t)
                   = Count(delay_storage_, t) + Sends(messages_, t) + Weight(mes, t)
      <4>1. Sends(messages_', t) = Sends(messages_, t) + (IF t = mes.text THEN d.count + 1 ELSE 0)
        BY <1>0, <3>2, <3>3, SendsAppend DEF Weight
      <4>2. Weight(mes, t) = IF t = mes.text THEN 1 ELSE 0
        BY <1>0, <1>3, <2>3 DEF Weight
      <4>3. Count(delay_storage_', t) = IF t = mes.text THEN 0 ELSE Count(delay_storage_, t)
        BY <3>5, <3>6
      <4>4. t = mes.text => Count(delay_storage_, t) = d.count
        BY <1>5
      <4>5. Count(delay_storage_, t) \in Nat /\ Sends(messages_, t) \in Nat /\ d.count \in Nat
        BY <1>5, <2>1
      <4> QED
        BY ONLY <4>1, <4>2, <4>3, <4>4, <4>5
    <3> QED
      BY <3>3, <3>6, <3>7
  <2>4. CASE /\ mes.delay # 0 /\ messages_' = messages_
             /\ delay_storage_' = Store(mes.text, [d EXCEPT !.count = d.count + 1])
    <3>1. PICK e : e = [d EXCEPT !.count = d.count + 1]
      OBVIOUS
    <3>2. /\ e.last \in Int /\ e.count = d.count + 1 /\ e.count \in Nat
          /\ delay_storage_' = Store(mes.text, e)
      BY <1>5, <2>4, <3>1
    <3>3. /\ Delays'
          /\ \A t \in Texts :
               Count(delay_storage_', t) = IF t = mes.text THEN e.count ELSE Count(delay_storage_, t)
      BY <1>0, <1>4, <3>2, StoreKeeps
    <3>4. ASSUME NEW t \in Texts
          PROVE  Count(delay_storage_', t) + Sends(messages_', t)
                   = Count(delay_storage_, t) + Sends(messages_, t) + Weight(mes, t)
      <4>1. Weight(mes, t) = IF t = mes.text THEN 1 ELSE 0
        BY <1>0, <1>3, <2>4 DEF Weight
      <4>2. Count(delay_storage_', t) = IF t = mes.text THEN d.count + 1 ELSE Count(delay_storage_, t)
        BY <3>2, <3>3
      <4>3. t = mes.text => Count(delay_storage_, t) = d.count
        BY <1>5
      <4>4. /\ Count(delay_storage_, t) \in Nat /\ Sends(messages_, t) \in Nat /\ d.count \in Nat
            /\ Sends(messages_', t) = Sends(messages_, t)
        BY <1>5, <2>1, <2>4
      <4> QED
        BY ONLY <4>1, <4>2, <4>3, <4>4
    <3> QED
      BY <1>0, <2>4, <3>3, <3>4
  <2> QED
    BY <1>1, <2>2, <2>3, <2>4
<1>7. LogTypes'
  BY <1>0, <1>2, <1>6 DEF LogTypes
<1>8. Singles'
  BY <1>0, <1>2, Taken, StopperKept DEF Singles
<1>9. ASSUME NEW t \in Texts
      PROVE  sent[t] = SendsIn(queue_', t) + SendsIn(draft, t) + Count(delay_storage_', t)
                          + Sends(messages_', t) + written[t]
  <2>1. Replaced(Senders, p, queue_, queue_')
    BY <1>0, <1>2 DEF Replaced
  <2>2. /\ SendsIn(queue_, t) \in Nat /\ SendsIn(queue_', t) \in Nat
        /\ SendsIn(queue_', t) + Sends(queue_[p], t) = SendsIn(queue_, t) + Sends(queue_'[p], t)
    BY ONLY <2>1, SendersFinite, OneQueue
  <2>3. /\ Sends(queue_[p], t) = Weight(mes, t) + Sends(queue_'[p], t)
        /\ Weight(mes, t) \in Nat /\ Sends(queue_'[p], t) \in Nat
    BY <1>0, <1>2, Taken DEF mes
  <2>4. Count(delay_storage_', t) + Sends(messages_', t)
          = Count(delay_storage_, t) + Sends(messages_, t) + Weight(mes, t)
    BY <1>6
  <2>5. /\ SendsIn(draft, t) \in Nat /\ Count(delay_storage_, t) \in Nat
        /\ Sends(messages_, t) \in Nat /\ written[t] \in Nat
    BY <1>0, FigureTypes
  <2>6. Count(delay_storage_', t) \in Nat /\ Sends(messages_', t) \in Nat
    BY <1>6, UnitsFinite DEF Delays, Count
  <2>7. sent[t] = SendsIn(queue_, t) + SendsIn(draft, t) + Count(delay_storage_, t)
                    + Sends(messages_, t) + written[t]
    BY <1>0, BalanceIs DEF Balanced
  <2> QED
    BY ONLY <2>2, <2>3, <2>4, <2>5, <2>6, <2>7
<1>10. Balanced(sent', queue_', draft', delay_storage_', messages_', written')
  BY <1>0, <1>9 DEF Balanced
<1> QED
  BY <1>6, <1>7, <1>8, <1>10, BalanceIs DEF LogInv

\* What the clean-up drops with a count it sends again.
LEMMA LogClear ==
    ASSUME LogInv, NEW p \in Senders, HandleClear(p)
    PROVE  LogInv'
<1> DEFINE S == {t \in Old : delay_storage_[t].count > 0}
           due == SetToSeq(S)
           again == [i \in DOMAIN due |->
                       Message(due[i], delay_storage_[due[i]].count, delay_storage_[due[i]].last, 0)]
           mid == [queue_ EXCEPT ![p] = Tail(queue_[p])]
           k == "log_handler"
<1>0. /\ LogTypes /\ Delays /\ Singles /\ NoSendLost
      /\ queue_[p] # <<>> /\ Head(queue_[p]).kind = "clear"
      /\ queue_ \in [Senders -> Seq(Messages)] /\ messages_ \in Seq(Messages)
      /\ k \in Senders
      /\ UNCHANGED <<now, running, log_instance_, draft, messages_, written, sent>>
  BY DEF LogInv, LogTypes, HandleClear, Take, Senders, Others
<1>1. queue_' = [mid EXCEPT ![k] = mid[k] \o again]
  BY DEF HandleClear
<1>2. delay_storage_' = [t \in DOMAIN delay_storage_ \ Old |-> delay_storage_[t]]
  BY DEF HandleClear
<1>3. /\ IsFiniteSet(S) /\ S \subseteq DOMAIN delay_storage_ /\ S \subseteq Texts
      /\ \A t \in S : delay_storage_[t].last \in Int /\ delay_storage_[t].count \in Nat
  BY <1>0, FS_Subset DEF Old, Delays
<1>4. PICK n \in Nat :
        /\ due \in [1..n -> S]
        /\ \A i, j \in 1..n : due[i] = due[j] => i = j
        /\ \A x \in S : \E i \in 1..n : due[i] = x
  <2> HIDE DEF S
  <2> QED
    BY <1>3, Listed
<1>5. /\ DOMAIN again = 1..n /\ again \in Seq(Messages) /\ Len(again) = n
      /\ \A i \in 1..n : /\ again[i].kind = "text" /\ again[i].text = due[i]
                         /\ again[i].count = delay_storage_[due[i]].count /\ again[i].delay = 0
  <2> HIDE DEF due, S
  <2>1. DOMAIN again = 1..n
    BY <1>4
  <2>2. ASSUME NEW i \in 1..n
        PROVE  /\ again[i].kind = "text" /\ again[i].text = due[i]
               /\ again[i].count = delay_storage_[due[i]].count /\ again[i].delay = 0
               /\ again[i] \in Messages
    <3>1. due[i] \in S
      BY <1>4
    <3>2. /\ due[i] \in Texts /\ delay_storage_[due[i]].last \in Int
          /\ delay_storage_[due[i]].count \in Nat
      BY <1>3, <3>1
    <3>3. again[i] = Message(due[i], delay_storage_[due[i]].count, delay_storage_[due[i]].last, 0)
      BY <2>1
    <3> HIDE DEF again
    <3> QED
      BY <3>2, <3>3 DEF Message, Messages, TextMessages
  <2>3. again \in [1..n -> Messages]
    BY <2>1, <2>2
  <2> HIDE DEF again
  <2>4. again \in Seq(Messages) /\ Len(again) = n
    BY <2>3
  <2> QED
    BY <2>1, <2>2, <2>4
<1>6. /\ mid \in [Senders -> Seq(Messages)] /\ mid[p] = Tail(queue_[p])
      /\ \A y \in Senders \ {p} : mid[y] = queue_[y]
  BY <1>0, Taken
<1>7. \A y \in Senders : Single(mid[y])
  BY <1>0, <1>6, Taken DEF Singles
<1>8. Delays'
  <2>1. DOMAIN delay_storage_' \subseteq DOMAIN delay_storage_
    BY <1>2
  <2>2. IsFiniteSet(DOMAIN delay_storage_')
    BY <1>0, <2>1, FS_Subset DEF Delays
  <2> QED
    BY <1>0, <1>2, <2>1, <2>2 DEF Delays
<1>9. ASSUME NEW t \in Texts
      PROVE  Count(delay_storage_', t) + Sends(again, t) = Count(delay_storage_, t)
  <2>1. PICK c : c = [x \in S |-> delay_storage_[x].count]
    OBVIOUS
  <2>2. c \in [S -> Nat] /\ (\A x \in S : c[x] = delay_storage_[x].count)
    BY <1>3, <2>1
  <2>3. Lists(due, n, S) /\ Reports(again, due, n, c)
    <3> HIDE DEF S, due, again
    <3>1. \A i \in 1..n : due[i] \in S
      BY <1>4
    <3> QED
      BY <1>4, <1>5, <2>2, <3>1 DEF Lists, Reports
  <2>4. Sends(again, t) = IF t \in S THEN c[t] ELSE 0
    <3> HIDE DEF S, due, again
    <3>1. c \in [S -> Nat]
      BY <2>2
    <3> QED
      BY ONLY <2>3, <3>1, SendsListed
  <2>5. Count(delay_storage_', t) = IF t \in Old THEN 0 ELSE Count(delay_storage_, t)
    BY <1>2 DEF Count, Old
  <2>6. Count(delay_storage_, t) \in Nat
    BY <1>0, FigureTypes
  <2>7. t \in S => Count(delay_storage_, t) = c[t] /\ t \in Old
    BY <1>3, <2>2 DEF Count
  <2>8. t \in Old /\ t \notin S => Count(delay_storage_, t) = 0
    BY <2>6 DEF Count, Old
  <2> HIDE DEF S, again
  <2> QED
    BY ONLY <2>4, <2>5, <2>6, <2>7, <2>8
<1>10. Single(again)
  <2> HIDE DEF again
  <2> QED
    BY <1>5 DEF Single
<1> HIDE DEF mid, again, S, due
<1>11. /\ queue_' \in [Senders -> Seq(Messages)] /\ queue_'[k] = mid[k] \o again
       /\ \A y \in Senders \ {k} : queue_'[y] = mid[y]
       /\ mid[k] \in Seq(Messages)
  BY <1>0, <1>1, <1>5, <1>6
<1>12. LogTypes'
  BY <1>0, <1>11 DEF LogTypes
<1>13. Singles'
  <2>1. \A y \in Senders : Single(queue_'[y])
    BY <1>0, <1>5, <1>7, <1>10, <1>11, SingleConcat
  <2>2. log_instance_' => queue_'["stopper"] = <<>>
    <3>1. "stopper" \in Senders /\ "stopper" # k
      BY DEF Senders, Others
    <3> QED
      BY <1>0, <1>6, <1>11, <3>1 DEF Singles
  <2> QED
    BY <1>0, <2>1, <2>2 DEF Singles
<1>14. ASSUME NEW t \in Texts
       PROVE  sent[t] = SendsIn(queue_', t) + SendsIn(draft, t) + Count(delay_storage_', t)
                          + Sends(messages_, t) + written[t]
  <2>0. k \in Senders
    BY <1>0
  <2>1. Replaced(Senders, p, queue_, mid) /\ Replaced(Senders, k, mid, queue_')
    BY <1>0, <1>6, <1>11 DEF Replaced
  <2>2. /\ SendsIn(queue_, t) \in Nat /\ SendsIn(mid, t) \in Nat
        /\ SendsIn(mid, t) + Sends(queue_[p], t) = SendsIn(queue_, t) + Sends(mid[p], t)
    BY ONLY <2>1, SendersFinite, OneQueue
  <2>3. /\ SendsIn(queue_', t) \in Nat
        /\ SendsIn(queue_', t) + Sends(mid[k], t) = SendsIn(mid, t) + Sends(queue_'[k], t)
    BY ONLY <2>0, <2>1, SendersFinite, OneQueue
  <2>4. /\ Sends(queue_[p], t) = Sends(mid[p], t) /\ Sends(mid[p], t) \in Nat
    <3>1. /\ Sends(queue_[p], t) = Weight(Head(queue_[p]), t) + Sends(Tail(queue_[p]), t)
          /\ Sends(Tail(queue_[p]), t) \in Nat
      BY <1>0, Taken
    <3>2. Weight(Head(queue_[p]), t) = 0
      BY <1>0 DEF Weight
    <3> QED
      BY <1>6, <3>1, <3>2
  <2>5. /\ Sends(queue_'[k], t) = Sends(mid[k], t) + Sends(again, t)
        /\ Sends(mid[k], t) \in Nat /\ Sends(again, t) \in Nat
    BY <1>5, <1>11, SendsConcat, UnitsFinite
  <2>6. /\ SendsIn(draft, t) \in Nat /\ Sends(messages_, t) \in Nat /\ written[t] \in Nat
    BY <1>0, FigureTypes
  <2>7. Count(delay_storage_', t) \in Nat
    BY <1>8 DEF Delays, Count
  <2>8. sent[t] = SendsIn(queue_, t) + SendsIn(draft, t) + Count(delay_storage_, t)
                    + Sends(messages_, t) + written[t]
    BY <1>0, BalanceIs DEF Balanced
  <2>9. Count(delay_storage_', t) + Sends(again, t) = Count(delay_storage_, t)
    BY <1>9
  <2> QED
    BY ONLY <2>2, <2>3, <2>4, <2>5, <2>6, <2>7, <2>8, <2>9
<1>15. Balanced(sent', queue_', draft', delay_storage_', messages_', written')
  BY <1>0, <1>14 DEF Balanced
<1> QED
  BY <1>8, <1>12, <1>13, <1>15, BalanceIs DEF LogInv

-----------------------------------------------------------------------------

LEMMA LogStarts == ASSUME LogInit PROVE LogInv
<1>1. LogTypes
  BY LogAssumption DEF LogInit, LogTypes
<1>2. Delays
  BY FS_EmptySet DEF LogInit, Delays
<1>3. Singles
  BY DEF LogInit, Singles, Single, Senders, Others
<1>4. ASSUME NEW t \in Texts
      PROVE  sent[t] = SendsIn(queue_, t) + SendsIn(draft, t) + Count(delay_storage_, t)
                          + Sends(messages_, t) + written[t]
  <2>1. \A P, q : DOMAIN q = P /\ (\A x \in P : q[x] = <<>>) => SendsIn(q, t) = 0
    <3> SUFFICES ASSUME NEW P, NEW q, DOMAIN q = P, \A x \in P : q[x] = <<>>
                 PROVE  SendsIn(q, t) = 0
      OBVIOUS
    <3>1. UNION {{x} \X Units(q[x], t) : x \in P} = {}
      BY SendsEmpty
    <3> QED
      BY <3>1, FS_EmptySet DEF SendsIn
  <2>2. SendsIn(queue_, t) = 0 /\ SendsIn(draft, t) = 0
    BY <2>1 DEF LogInit
  <2>3. Count(delay_storage_, t) = 0 /\ Sends(messages_, t) = 0 /\ written[t] = 0 /\ sent[t] = 0
    BY SendsEmpty DEF LogInit, Count
  <2> QED
    BY <2>2, <2>3
<1>5. NoSendLost
  BY <1>4, BalanceIs DEF Balanced
<1> QED
  BY <1>1, <1>2, <1>3, <1>5 DEF LogInv

LEMMA LogFlag == ASSUME LogInv, Stop \/ Starts PROVE LogInv'
<1>1. /\ UNCHANGED <<now, log_instance_, draft, queue_, delay_storage_, messages_, written, sent>>
      /\ running' \in BOOLEAN
  BY DEF Stop, Starts, LogInv, LogTypes
<1> QED
  BY <1>1 DEF LogInv, LogTypes, Delays, Singles, Single, NoSendLost, Queued, Stored

LEMMA LogStep == ASSUME LogInv, [LogNext]_logVars PROVE LogInv'
<1>1. CASE UNCHANGED logVars
  BY <1>1, LogKept DEF logVars, LogInv, LogTypes
<1>2. CASE LogNext
  BY <1>2, LogTick, LogSignals, LogFlag, LogStamp, LogSend, LogText, LogFlush, LogClear
     DEF LogNext, HandleMessage
<1> QED
  BY <1>1, <1>2

\* No send is lost or counted twice on its way through the queue, the delays
\* and the buffer, whatever threads send and in whatever order their messages
\* come in.
THEOREM LogNoSendLost == LogSpec => []NoSendLost
<1>1. LogInit => LogInv
  BY LogStarts
<1>2. LogInv /\ [LogNext]_logVars => LogInv'
  BY LogStep
<1>3. LogInv => NoSendLost
  BY DEF LogInv
<1> QED
  BY <1>1, <1>2, <1>3, PTL DEF LogSpec

\* The destructor never joins a thread that sleeps for good: once the log is
\* gone the log thread has ended, has yet to find the flag down, or has a
\* message to wake it.
THEOREM LogWakeUpPending == LogSpec => []WakeUpPending
<1>1. LogInit => WakeUpPending
  BY DEF LogInit, WakeUpPending
<1>2. LogInv /\ WakeUpPending /\ [LogNext]_logVars => WakeUpPending'
  <2> SUFFICES ASSUME LogInv, WakeUpPending, [LogNext]_logVars PROVE WakeUpPending'
    OBVIOUS
  <2>0. queue_ \in [Senders -> Seq(Messages)] /\ draft \in [Loggers -> Seq(Messages)]
    BY DEF LogInv, LogTypes
  <2>1. CASE UNCHANGED <<running, log_instance_, pc, queue_>>
    BY <2>1 DEF WakeUpPending
  <2>2. CASE flush_logs \/ clear_logs \/ Stop
    BY <2>2 DEF flush_logs, clear_logs, Stop, WakeUpPending
  <2>3. CASE stop_log
    <3>1. "stopper" \in Senders /\ queue_'["stopper"] = <<Flush>>
      BY <2>0, <2>3 DEF stop_log, Senders, Others
    <3> QED
      BY <2>3, <3>1 DEF stop_log, WakeUpPending
  <2>6. CASE Starts
    BY <2>6 DEF Starts, WakeUpPending
  <2>4. ASSUME NEW p \in Loggers, send_log_message(p) PROVE WakeUpPending'
    <3>1. /\ UNCHANGED <<running, log_instance_, pc>> /\ p \in Senders
          /\ draft[p] # <<>> /\ queue_' = [queue_ EXCEPT ![p] = queue_[p] \o draft[p]]
      BY <2>4 DEF send_log_message, Senders
    <3>2. queue_[p] \o draft[p] # <<>>
      BY <2>0, <3>1
    <3>3. queue_'[p] # <<>>
      BY <2>0, <3>1, <3>2
    <3> QED
      BY <3>1, <3>3 DEF WakeUpPending
  <2>5. ASSUME NEW p \in Senders, HandleMessage(p) PROVE WakeUpPending'
    <3>1. UNCHANGED <<running, log_instance_>> /\ pc' = (IF running THEN "wait" ELSE "done")
      BY <2>5 DEF HandleMessage, HandleText, HandleClear, HandleFlush, Take
    <3> QED
      BY <3>1 DEF WakeUpPending
  <2> QED
    BY <2>1, <2>2, <2>3, <2>4, <2>5, <2>6 DEF LogNext, logVars, Tick, Stamp
<1>3. LogInit => LogInv
  BY LogStarts
<1>4. LogInv /\ [LogNext]_logVars => LogInv'
  BY LogStep
<1> QED
  BY <1>1, <1>2, <1>3, <1>4, PTL DEF LogSpec
=============================================================================
