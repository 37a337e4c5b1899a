---------------------------- MODULE LibraryProofs ---------------------------
(***************************************************************************)
(* Proofs about the objects of the library, for the specification that     *)
(* drives each of them (module Helpers): the thread, the pool of           *)
(* connections, the results of libpq, the speed limiter, the settings, the *)
(* lists and counters that are replaced while others read them, and the    *)
(* log writers; about two of its helpers, the statements of a pull and the *)
(* calendar; and about the ring buffer, for the specification of its own   *)
(* module.                                                                 *)
(***************************************************************************)
EXTENDS Helpers, RingBuffer, FiniteSetTheorems, WellFoundedInduction, TLAPS

\* A step of the library is a step of one of its objects, or leaves it alone.
LEMMA PartSteps ==
    ASSUME [Next]_vars
    PROVE  /\ [ThreadNext]_threadVars /\ [PoolNext]_poolVars /\ [ResultNext]_resultVars
           /\ [LimiterNext]_limiterVars /\ [JournalNext]_journalVars /\ [ListNext \/ CountersNext]_dataVars
           /\ [SettingsNext]_settingsVars
<1> USE DEF helperVars, objectVars
<1>1. CASE ReadRow \/ LoadList \/ Select \/ Split \/ ParseUrl \/ Base64 \/ ToNumber \/ Stamp \/ Human
           \/ Period \/ Exec \/ PullRows \/ MakeReport \/ UNCHANGED vars
  <2>1. UNCHANGED objectVars
    BY <1>1 DEF vars, ReadRow, LoadList, Select, Split, ParseUrl, Base64, ToNumber, Stamp, Human,
                Period, Exec, PullRows, MakeReport, Return
  <2> QED
    BY <2>1
<1>2. CASE SettingsNext
           /\ UNCHANGED <<helperVars, poolVars, threadVars, resultVars, limiterVars, journalVars, dataVars>>
  BY <1>2
<1>3. CASE PoolNext /\ UNCHANGED <<helperVars, settingsVars, threadVars, resultVars, limiterVars, journalVars, dataVars>>
  BY <1>3
<1>4. CASE ThreadNext /\ UNCHANGED <<helperVars, settingsVars, poolVars, resultVars, limiterVars, journalVars, dataVars>>
  BY <1>4
<1>5. CASE ResultNext /\ UNCHANGED <<helperVars, settingsVars, poolVars, threadVars, limiterVars, journalVars, dataVars>>
  BY <1>5
<1>6. CASE LimiterNext /\ UNCHANGED <<helperVars, settingsVars, poolVars, threadVars, resultVars, journalVars, dataVars>>
  BY <1>6
<1>7. CASE JournalNext /\ UNCHANGED <<helperVars, settingsVars, poolVars, threadVars, resultVars, limiterVars, dataVars>>
  BY <1>7
<1>8. CASE (ListNext \/ CountersNext) /\ UNCHANGED <<helperVars, settingsVars, poolVars, threadVars, resultVars, limiterVars, journalVars>>
  BY <1>8
<1> QED
  BY <1>1, <1>2, <1>3, <1>4, <1>5, <1>6, <1>7, <1>8 DEF Next

-----------------------------------------------------------------------------
(* Thread::stop waits for the thread it stops. *)

\* What stop() knows of the thread as it goes on.  A RUNNING that was written
\* was written inside run(), so but for what it reads before anything was
\* written stop() goes on only for a thread that has got that far; from then
\* on STOPPING can be replaced by nothing but STOPPED, which the thread writes
\* last.
StopInv ==
    /\ status_ = "RUNNING" => body = "run"
    /\ ~early /\ owner \in {"stop", "join"} => body \in {"run", "onStop", "ended"}
    /\ ~early /\ owner = "join" => status_ = "STOPPING" \/ body = "ended"
    /\ owner \in {"idle", "stop", "join", "joining", "returned", "threw"}
    /\ early \in BOOLEAN

ThreadInv == StopInv /\ StopWaits

LEMMA ThreadStep == ASSUME ThreadInv, [ThreadNext]_threadVars PROVE ThreadInv'
<1> USE DEF ThreadInv, StopInv, StopWaits
<1>1. CASE start
  BY <1>1 DEF start
<1>2. CASE BodyStarts \/ BodyRuns
  BY <1>2 DEF BodyStarts, BodyRuns
<1>3. CASE BodyReturns
  BY <1>3 DEF BodyReturns
<1>4. CASE BodyEnds
  BY <1>4 DEF BodyEnds
<1>5. CASE StopReads
  BY <1>5 DEF StopReads, getStatus
<1>6. CASE StopWrites
  BY <1>6 DEF StopWrites
<1>7. CASE JoinTests
  BY <1>7 DEF JoinTests
<1>8. CASE Joined \/ JoinThrows
  BY <1>8 DEF Joined, JoinThrows
<1>9. CASE UNCHANGED threadVars
  BY <1>9 DEF threadVars
<1> QED
  BY <1>1, <1>2, <1>3, <1>4, <1>5, <1>6, <1>7, <1>8, <1>9 DEF ThreadNext

\* When stop() returns after the thread has told it that it is RUNNING, run()
\* and onStop() are over, in every interleaving of the owner and the thread.
\* What stop() does on an uninitialised status_ is set apart by `early'.
THEOREM ThreadStopWaits == Spec => []StopWaits
<1>1. Init => ThreadInv
  BY DEF Init, ThreadInit, ThreadInv, StopInv, StopWaits
<1>2. ThreadInv /\ [Next]_vars => ThreadInv'
  BY PartSteps, ThreadStep
<1>3. ThreadInv => StopWaits
  BY DEF ThreadInv
<1> QED
  BY <1>1, <1>2, <1>3, PTL DEF Spec

-----------------------------------------------------------------------------
(* A pooled connection is never in two places, and there are never more of *)
(* them than threads, whatever the cleaner's erased iterator meets.        *)

PoolTypes ==
    /\ second \in Nat /\ made \in Nat
    /\ connections_ \in [DOMAIN connections_ -> 1..made]
    /\ DOMAIN connections_ \subseteq Nat
    /\ instance_of \in [Users -> 0..made]

\* The three parts of OneHandEach, the last with the finiteness it needs.
OneHand == \A u, v \in Users : instance_of[u] # 0 /\ instance_of[u] = instance_of[v] => u = v
Apart == IsInjective(connections_) /\ Idle \cap InUse = {}
NotMore == IsFiniteSet(Idle \cup InUse) /\ Cardinality(Idle \cup InUse) <= Cardinality(Users)

PoolInv == PoolTypes /\ OneHand /\ Apart /\ NotMore

\* The oldest entry is one of the entries.
LEMMA MinIn == ASSUME NEW T \in SUBSET Nat, T # {} PROVE Min(T) \in T
<1> DEFINE Less == {ss \in Nat \X Nat : ss[1] < ss[2]}
<1>1. IsWellFoundedOn(Less, Nat)
  BY NatLessThanWellFounded DEF OpToRel
<1>2. PICK x \in T : \A y \in T : ~(<<y, x>> \in Less)
  BY <1>1, WFMin
<1>3. \A y \in T : x =< y
  <2> SUFFICES ASSUME NEW y \in T PROVE x =< y
    OBVIOUS
  <2>1. x \in Nat /\ y \in Nat
    OBVIOUS
  <2>2. y < x => <<y, x>> \in Less
    BY <2>1
  <2>3. ~(<<y, x>> \in Less)
    BY <1>2
  <2> QED
    BY <2>1, <2>2, <2>3
<1> QED
  BY <1>3 DEF Min

\* No step but get makes a connection, so the open ones do not become more.
LEMMA Fewer ==
    ASSUME NotMore, Idle' \cup InUse' \subseteq Idle \cup InUse
    PROVE  NotMore'
<1>1. IsFiniteSet(Idle' \cup InUse') /\ Cardinality(Idle' \cup InUse') <= Cardinality(Idle \cup InUse)
  BY FS_Subset DEF NotMore
<1>2. Cardinality(Idle' \cup InUse') \in Nat /\ Cardinality(Idle \cup InUse) \in Nat /\ Cardinality(Users) \in Nat
  BY <1>1, FS_CardinalityType, PoolAssumption DEF NotMore, PoolAssumption
<1> QED
  BY <1>1, <1>2 DEF NotMore

LEMMA TickStep == ASSUME PoolInv, PoolTick \/ CleanerReads \/ UNCHANGED poolVars PROVE PoolInv'
<1>1. UNCHANGED <<connections_, instance_of, made>> /\ second' \in Nat
  BY DEF PoolInv, PoolTypes, PoolTick, CleanerReads, poolVars
<1>2. Idle' = Idle /\ InUse' = InUse
  BY <1>1 DEF Idle, InUse
<1> QED
  BY <1>1, <1>2 DEF PoolInv, PoolTypes, OneHand, Apart, NotMore

\* The pool is empty: the new connection is nobody else's, and the open ones
\* are values of instance_of, one for each user at most.
LEMMA GetNew ==
    ASSUME NEW u \in Users, PoolInv, get(u), DOMAIN connections_ = {}
    PROVE  PoolInv'
<1> USE DEF PoolInv, PoolTypes
<1>1. /\ made' = made + 1 /\ UNCHANGED <<connections_, second>>
      /\ instance_of' = [instance_of EXCEPT ![u] = made + 1]
  BY DEF get
<1>2. PoolTypes'
  BY <1>1
<1>3. OneHand'
  BY <1>1 DEF OneHand
<1>4. Idle' = {}
  BY <1>1 DEF Idle, Range
<1>5. Apart'
  BY <1>1, <1>4 DEF Apart, IsInjective
<1>6. NotMore'
  <2> DEFINE W == {instance_of'[v] : v \in Users}
  <2>1. [v \in Users |-> instance_of'[v]] \in Surjection(Users, W)
    BY DEF Surjection
  <2>2. IsFiniteSet(W) /\ Cardinality(W) <= Cardinality(Users)
    BY <2>1, FS_Surjection, PoolAssumption DEF ExistsSurjection, PoolAssumption
  <2>3. Idle' \cup InUse' \in SUBSET W
    BY <1>4 DEF InUse
  <2>4. IsFiniteSet(Idle' \cup InUse') /\ Cardinality(Idle' \cup InUse') <= Cardinality(W)
    BY <2>2, <2>3, FS_Subset
  <2>5. Cardinality(Idle' \cup InUse') \in Nat /\ Cardinality(W) \in Nat /\ Cardinality(Users) \in Nat
    BY <2>2, <2>4, FS_CardinalityType, PoolAssumption DEF PoolAssumption
  <2> QED
    BY <2>2, <2>4, <2>5 DEF NotMore
<1> QED
  BY <1>2, <1>3, <1>5, <1>6

\* The one that has been idle longest changes from the pool to the hand.
LEMMA GetOld ==
    ASSUME NEW u \in Users, PoolInv, get(u), DOMAIN connections_ # {}
    PROVE  PoolInv'
<1> USE DEF PoolInv, PoolTypes
<1> DEFINE oldest == Min(DOMAIN connections_)
<1>1. oldest \in DOMAIN connections_
  BY MinIn
<1>2. /\ UNCHANGED <<made, second>> /\ instance_of[u] = 0
      /\ instance_of' = [instance_of EXCEPT ![u] = connections_[oldest]]
      /\ connections_' = [s \in DOMAIN connections_ \ {oldest} |-> connections_[s]]
  BY DEF get, Restrict
<1> HIDE DEF oldest
<1>3. PoolTypes'
  BY <1>1, <1>2
<1>4. connections_[oldest] \in Idle /\ connections_[oldest] # 0 /\ connections_[oldest] \notin InUse
  BY <1>1 DEF Idle, Range, Apart
<1>5. OneHand'
  BY <1>2, <1>4 DEF OneHand, InUse
<1>6. Idle' = Idle \ {connections_[oldest]}
  BY <1>1, <1>2 DEF Idle, Range, Apart, IsInjective
<1>7. InUse' = InUse \cup {connections_[oldest]}
  BY <1>2, <1>4 DEF InUse
<1>8. Apart'
  BY <1>2, <1>6, <1>7 DEF Apart, IsInjective
<1>9. NotMore'
  BY <1>4, <1>6, <1>7, Fewer
<1> QED
  BY <1>3, <1>5, <1>8, <1>9

LEMMA MoveStep ==
    ASSUME NEW u \in Users, NEW v \in Users, PoolInv, Move(u, v)
    PROVE  PoolInv'
<1> USE DEF PoolInv, PoolTypes
<1>1. /\ UNCHANGED <<made, second, connections_>> /\ u # v
      /\ instance_of[u] # 0 /\ instance_of[v] = 0
      /\ instance_of' = [instance_of EXCEPT ![v] = instance_of[u], ![u] = 0]
  BY DEF Move
<1>2. \A w \in Users : instance_of'[w] = IF w = u THEN 0 ELSE IF w = v THEN instance_of[u] ELSE instance_of[w]
  BY <1>1
<1>3. PoolTypes'
  BY <1>1, <1>2
<1>4. OneHand'
  BY <1>1, <1>2 DEF OneHand
<1>5. Idle' = Idle /\ InUse' = InUse
  BY <1>1, <1>2 DEF Idle, InUse
<1>6. Apart' /\ NotMore'
  BY <1>1, <1>5 DEF Apart, NotMore
<1> QED
  BY <1>3, <1>4, <1>6

\* What is returned takes the place of what was returned in the same second.
LEMMA BackStep ==
    ASSUME NEW u \in Users, PoolInv, back(u)
    PROVE  PoolInv'
<1> USE DEF PoolInv, PoolTypes
<1>1. /\ UNCHANGED <<made, second>> /\ instance_of[u] # 0
      /\ instance_of' = [instance_of EXCEPT ![u] = 0]
      /\ connections_' = [s \in DOMAIN connections_ \cup {second} |->
                             IF s = second THEN instance_of[u] ELSE connections_[s]]
  BY DEF back
<1>2. PoolTypes'
  BY <1>1
<1>3. OneHand'
  BY <1>1 DEF OneHand
<1>4. instance_of[u] \in InUse /\ instance_of[u] \notin Idle
  BY <1>1 DEF InUse, Apart
<1>5. InUse' = InUse \ {instance_of[u]}
  BY <1>1 DEF InUse, OneHand
<1>6. Idle' \subseteq Idle \cup {instance_of[u]}
  BY <1>1 DEF Idle, Range
<1>7. \A s \in DOMAIN connections_ : connections_[s] # instance_of[u]
  BY <1>4 DEF Idle, Range
<1>8. Apart'
  BY <1>1, <1>5, <1>6, <1>7 DEF Apart, IsInjective
<1>9. NotMore'
  BY <1>4, <1>5, <1>6, Fewer
<1> QED
  BY <1>2, <1>3, <1>8, <1>9

\* Whichever entries the loop erases, it only closes idle connections.
LEMMA CleanStep ==
    ASSUME PoolInv, delete_older_then
    PROVE  PoolInv'
<1> USE DEF PoolInv, PoolTypes
<1>1. UNCHANGED <<made, second, instance_of>>
  BY DEF delete_older_then
<1>2. \E left \in SUBSET DOMAIN connections_ : connections_' = [s \in left |-> connections_[s]]
  <2>1. CASE UNCHANGED connections_
    <3>1. connections_' = [s \in DOMAIN connections_ |-> connections_[s]]
      BY <2>1
    <3> QED
      BY <3>1
  <2>2. CASE \E gone : connections_' = Restrict(connections_, DOMAIN connections_ \ gone)
    BY <2>2 DEF Restrict
  <2> QED
    BY <2>1, <2>2 DEF delete_older_then
<1>3. PICK left \in SUBSET DOMAIN connections_ : connections_' = [s \in left |-> connections_[s]]
  BY <1>2
<1>4. PoolTypes'
  BY <1>1, <1>3
<1>5. OneHand'
  BY <1>1 DEF OneHand
<1>6. InUse' = InUse /\ Idle' \subseteq Idle
  BY <1>1, <1>3 DEF InUse, Idle, Range
<1>7. Apart'
  BY <1>3, <1>6 DEF Apart, IsInjective
<1>8. NotMore'
  BY <1>6, Fewer
<1> QED
  BY <1>4, <1>5, <1>7, <1>8

LEMMA PoolStep == ASSUME PoolInv, [PoolNext]_poolVars PROVE PoolInv'
<1>1. CASE PoolTick \/ CleanerReads \/ UNCHANGED poolVars
  BY <1>1, TickStep
<1>2. CASE delete_older_then
  BY <1>2, CleanStep
<1>3. ASSUME NEW u \in Users, get(u) PROVE PoolInv'
  BY <1>3, GetNew, GetOld
<1>4. ASSUME NEW u \in Users, back(u) PROVE PoolInv'
  BY <1>4, BackStep
<1>5. ASSUME NEW u \in Users, NEW v \in Users, Move(u, v) PROVE PoolInv'
  BY <1>5, MoveStep
<1> QED
  BY <1>1, <1>2, <1>3, <1>4, <1>5 DEF PoolNext

LEMMA PoolStart == ASSUME PoolInit PROVE PoolInv
<1>1. PoolTypes /\ OneHand
  BY DEF PoolInit, PoolTypes, OneHand
<1>2. Idle = {} /\ InUse = {}
  BY DEF PoolInit, Idle, InUse, Range
<1>3. Apart
  BY <1>2 DEF PoolInit, Apart, IsInjective
<1>4. IsFiniteSet({}) /\ Cardinality({}) = 0 /\ Cardinality(Users) \in Nat
  BY FS_EmptySet, FS_CardinalityType, PoolAssumption DEF PoolAssumption
<1>5. NotMore
  BY <1>2, <1>4 DEF NotMore
<1> QED
  BY <1>1, <1>3, <1>5 DEF PoolInv

\* For any number of users, threshold and bounds, and whatever the cleaner
\* meets after an erased entry: DbPool::get and back keep every connection in
\* one place, and never have more open than there are users.
THEOREM PoolOneHandEach == Spec => []OneHandEach
<1>1. Init => PoolInv
  BY PoolStart DEF Init
<1>2. PoolInv /\ [Next]_vars => PoolInv'
  BY PartSteps, PoolStep
<1>3. PoolInv => OneHandEach
  BY DEF PoolInv, OneHand, Apart, NotMore, OneHandEach
<1> QED
  BY <1>1, <1>2, <1>3, PTL DEF Spec

\* The cleaner's clock is not ahead of the second in which it erases.
ClockInv == cleaner # <<>> => cleaner[1] \in Nat /\ cleaner[1] <= second

LEMMA ClockStep == ASSUME PoolInv, ClockInv, [PoolNext]_poolVars PROVE ClockInv'
BY DEF PoolInv, PoolTypes, ClockInv, PoolNext, poolVars, PoolTick, CleanerReads, delete_older_then, get, back, Move

\* What one step of the pool closes.
Closes ==
    \A s \in DOMAIN connections_ :
        connections_[s] \notin Idle' \cup InUse'
           => second - s >= Threshold \/ (s = second /\ connections_'[s] \in InUse)

LEMMA PoolCloses == ASSUME PoolInv, ClockInv, PoolNext PROVE Closes
<1> SUFFICES ASSUME NEW s \in DOMAIN connections_, connections_[s] \notin Idle' \cup InUse'
             PROVE  second - s >= Threshold \/ (s = second /\ connections_'[s] \in InUse)
  BY DEF Closes
<1> USE DEF PoolInv, PoolTypes
<1>1. s \in Nat /\ second \in Nat /\ Threshold \in Nat
  BY PoolAssumption
<1>2. CASE PoolTick \/ CleanerReads
  <2>1. connections_' = connections_
    BY <1>2 DEF PoolTick, CleanerReads
  <2> QED
    BY <2>1 DEF Idle, Range
<1>3. CASE delete_older_then
  <2>1. CASE UNCHANGED connections_
    BY <2>1 DEF Idle, Range
  <2>2. CASE ~UNCHANGED connections_
    <3>1. PICK gone : /\ gone \subseteq {k \in DOMAIN connections_ : cleaner[1] - k >= Threshold}
                      /\ connections_' = [k \in DOMAIN connections_ \ gone |-> connections_[k]]
      BY <1>3, <2>2 DEF delete_older_then, Restrict
    <3>2. s \in gone
      BY <3>1 DEF Idle, Range
    <3>3. cleaner[1] - s >= Threshold /\ cleaner # <<>>
      BY <1>3, <3>1, <3>2 DEF delete_older_then
    <3> QED
      BY <1>1, <3>3 DEF ClockInv
  <2> QED
    BY <2>1, <2>2
<1>4. ASSUME NEW u \in Users, get(u) PROVE FALSE
  <2>1. CASE DOMAIN connections_ = {}
    BY <2>1
  <2>2. CASE DOMAIN connections_ # {}
    <3>1. PICK oldest : oldest = Min(DOMAIN connections_)
      OBVIOUS
    <3>2. /\ instance_of' = [instance_of EXCEPT ![u] = connections_[oldest]]
          /\ connections_' = [k \in DOMAIN connections_ \ {oldest} |-> connections_[k]]
      BY <1>4, <2>2, <3>1 DEF get, Restrict
    <3>3. s # oldest => connections_[s] \in Idle'
      BY <3>2 DEF Idle, Range
    <3>4. instance_of'[u] = connections_[oldest]
      BY <3>2
    <3>5. s = oldest => connections_[s] \in InUse'
      BY <3>4 DEF InUse
    <3> QED
      BY <3>3, <3>5
  <2> QED
    BY <2>1, <2>2
<1>5. ASSUME NEW u \in Users, NEW v \in Users, Move(u, v) PROVE FALSE
  <2>1. connections_' = connections_
    BY <1>5 DEF Move
  <2> QED
    BY <2>1 DEF Idle, Range
<1>6. ASSUME NEW u \in Users, back(u) PROVE s = second /\ connections_'[s] \in InUse
  <2>1. /\ instance_of[u] # 0
        /\ connections_' = [k \in DOMAIN connections_ \cup {second} |->
                               IF k = second THEN instance_of[u] ELSE connections_[k]]
    BY <1>6 DEF back
  <2>2. s # second => connections_[s] \in Idle'
    BY <2>1 DEF Idle, Range
  <2>3. s = second => connections_'[s] = instance_of[u]
    BY <2>1
  <2> QED
    BY <2>1, <2>2, <2>3 DEF InUse
<1> QED
  BY <1>2, <1>3, <1>4, <1>5, <1>6 DEF PoolNext

\* delete_older_then and back never close a connection that is in use, nor
\* one that has not been idle for the threshold, though the cleaner reads the
\* clock before it holds the mutex: only the one it replaces in its second.
THEOREM PoolClosedWhenIdle == Spec => ClosedWhenIdle
<1>1. Init => PoolInv /\ ClockInv
  BY PoolStart DEF Init, PoolInit, ClockInv
<1>2. PoolInv /\ ClockInv /\ [Next]_vars => (PoolInv /\ ClockInv)'
  BY PartSteps, PoolStep, ClockStep
<1>3. PoolInv /\ ClockInv /\ [Next]_vars =>
         [\A s \in DOMAIN connections_ :
             connections_[s] \notin Idle' \cup InUse'
                => second - s >= Threshold \/ (s = second /\ connections_'[s] \in InUse)]_poolVars
  BY PartSteps, PoolCloses DEF Closes
<1> QED
  BY <1>1, <1>2, <1>3, PTL DEF Spec, ClosedWhenIdle

-----------------------------------------------------------------------------
(* Every result of libpq has one owner until it is cleared. *)

ResultRecords == [res : Nat, count : Nat, index : Nat \cup {-1}]

\* The result each object owns; 0 is none.
held == [o \in Objects |-> IF rs[o] = <<>> THEN 0 ELSE rs[o][1].res]

ResultTypes ==
    /\ rs \in [Objects -> {<<>>} \cup {<<x>> : x \in ResultRecords}]
    /\ queried \in 0..MaxResults /\ cleared \in [1..MaxResults -> Nat]
    /\ held \in [Objects -> 0..queried]

\* Of n results each is owned and uncleared, or cleared once and owned by
\* nobody; the next ones are neither.
Owned(h, c, n) ==
    /\ \A r \in 1..n : \/ c[r] = 0 /\ \E o \in Objects : h[o] = r
                       \/ c[r] = 1 /\ \A o \in Objects : h[o] # r
    /\ \A r \in 1..MaxResults : r > n => c[r] = 0
    /\ \A o, q \in Objects : h[o] # 0 /\ h[o] = h[q] => o = q

OwnerInv == Owned(held, cleared, queried)

\* Only a result has rows, and the cursor that promised one is on it.
CursorInv ==
    /\ \A o \in Objects : rs[o] # <<>> /\ rs[o][1].res = 0 => rs[o][1].count = 0
    /\ row = <<>> \/ \E o \in Objects : row = <<o>> /\ rs[o] # <<>> /\ rs[o][1].index \in 0..(rs[o][1].count - 1)

ResultInv == ResultTypes /\ OwnerInv /\ CursorInv

LEMMA OwnedOnce == ASSUME ResultInv PROVE ResultsOwned
<1> USE DEF ResultInv, ResultTypes
<1>1. ASSUME NEW r \in 1..queried
      PROVE  Cardinality({o \in Objects : rs[o] # <<>> /\ rs[o][1].res = r}) + cleared[r] = 1
  <2>1. {o \in Objects : rs[o] # <<>> /\ rs[o][1].res = r} = {o \in Objects : held[o] = r}
    BY DEF held
  <2>2. CASE cleared[r] = 1 /\ \A o \in Objects : held[o] # r
    <3>1. {o \in Objects : held[o] = r} = {}
      BY <2>2
    <3>2. Cardinality({o \in Objects : rs[o] # <<>> /\ rs[o][1].res = r}) = 0
      BY <2>1, <3>1, FS_EmptySet
    <3> QED
      BY <2>2, <3>2
  <2>3. CASE cleared[r] = 0 /\ \E o \in Objects : held[o] = r
    <3>1. PICK o \in Objects : held[o] = r
      BY <2>3
    <3>2. {q \in Objects : held[q] = r} = {o}
      BY <3>1 DEF OwnerInv, Owned
    <3>3. Cardinality({q \in Objects : rs[q] # <<>> /\ rs[q][1].res = r}) = 1
      BY <2>1, <3>2, FS_Singleton
    <3> QED
      BY <2>3, <3>3
  <2> QED
    BY <2>2, <2>3 DEF OwnerInv, Owned
<1>2. ASSUME NEW i \in DOMAIN row
      PROVE  rs[row[i]][1].res # 0 /\ rs[row[i]][1].index \in 0..(rs[row[i]][1].count - 1)
  <2>1. PICK o \in Objects : row = <<o>> /\ rs[o] # <<>> /\ rs[o][1].index \in 0..(rs[o][1].count - 1)
    BY DEF CursorInv
  <2>2. row[i] = o
    BY <2>1
  <2>3. rs[o][1] \in ResultRecords
    BY <2>1
  <2>4. rs[o][1].count # 0
    BY <2>1, <2>3 DEF ResultRecords
  <2>5. rs[o][1].res # 0
    BY <2>1, <2>4 DEF CursorInv
  <2> QED
    BY <2>1, <2>2, <2>5
<1> QED
  BY <1>1, <1>2 DEF ResultsOwned

\* An object that owns nothing gets a new result.
LEMMA Acquire ==
    ASSUME NEW n \in Nat, n < MaxResults, NEW c \in [1..MaxResults -> Nat], NEW h \in [Objects -> 0..n],
           Owned(h, c, n), NEW o \in Objects, h[o] = 0, NEW m, m = n + 1,
           NEW g \in [Objects -> 0..m], \A k \in Objects : g[k] = IF k = o THEN m ELSE h[k]
    PROVE  Owned(g, c, m)
<1>0. MaxResults \in Nat /\ m \in 1..MaxResults /\ \A k \in Objects : h[k] \in 0..n /\ h[k] # m
  BY ResultAssumption
<1>1. ASSUME NEW r \in 1..m
      PROVE  \/ c[r] = 0 /\ \E k \in Objects : g[k] = r
             \/ c[r] = 1 /\ \A k \in Objects : g[k] # r
  <2>1. CASE r = m
    <3>1. c[r] = 0
      BY <1>0, <2>1 DEF Owned
    <3>2. g[o] = r
      BY <2>1
    <3> QED
      BY <3>1, <3>2
  <2>2. CASE r # m
    <3>1. r \in 1..n /\ r # 0
      BY <2>2
    <3>2. \A k \in Objects : g[k] = r <=> h[k] = r
      BY <2>2, <3>1
    <3> QED
      BY <3>1, <3>2 DEF Owned
  <2> QED
    BY <2>1, <2>2
<1>2. \A r \in 1..MaxResults : r > m => c[r] = 0
  BY <1>0 DEF Owned
<1>3. \A q, k \in Objects : g[q] # 0 /\ g[q] = g[k] => q = k
  BY <1>0 DEF Owned
<1> QED
  BY <1>1, <1>2, <1>3 DEF Owned

\* An object lets its result go, which is cleared.
LEMMA Release ==
    ASSUME NEW n \in 0..MaxResults, NEW c \in [1..MaxResults -> Nat], NEW h \in [Objects -> 0..n],
           Owned(h, c, n), NEW o \in Objects,
           NEW d \in [1..MaxResults -> Nat], \A r \in 1..MaxResults : d[r] = IF r = h[o] THEN c[r] + 1 ELSE c[r],
           NEW g \in [Objects -> 0..n], \A k \in Objects : g[k] = IF k = o THEN 0 ELSE h[k]
    PROVE  Owned(g, d, n)
<1>0. n \in Nat /\ MaxResults \in Nat /\ n <= MaxResults
  BY ResultAssumption
<1>1. ASSUME NEW r \in 1..n
      PROVE  \/ d[r] = 0 /\ \E q \in Objects : g[q] = r
             \/ d[r] = 1 /\ \A q \in Objects : g[q] # r
  <2>0. r \in 1..MaxResults /\ r # 0
    BY <1>0
  <2>1. CASE r = h[o]
    <3>1. c[r] = 0 /\ \A q \in Objects : h[q] = r => q = o
      BY <2>0, <2>1 DEF Owned
    <3>2. d[r] = 1
      BY <2>0, <2>1, <3>1
    <3>3. \A q \in Objects : g[q] # r
      BY <2>0, <3>1
    <3> QED
      BY <3>2, <3>3
  <2>2. CASE r # h[o]
    <3>1. d[r] = c[r]
      BY <2>0, <2>2
    <3>2. \A q \in Objects : g[q] = r <=> h[q] = r
      BY <2>0, <2>2
    <3> QED
      BY <3>1, <3>2 DEF Owned
  <2> QED
    BY <2>1, <2>2
<1>2. \A r \in 1..MaxResults : r > n => d[r] = 0
  <2> SUFFICES ASSUME NEW r \in 1..MaxResults, r > n PROVE d[r] = 0
    OBVIOUS
  <2>1. r # h[o]
    BY <1>0
  <2> QED
    BY <2>1 DEF Owned
<1>3. \A q, k \in Objects : g[q] # 0 /\ g[q] = g[k] => q = k
  BY DEF Owned
<1> QED
  BY <1>1, <1>2, <1>3 DEF Owned

\* What one object owns becomes another's that owns nothing.
LEMMA Transfer ==
    ASSUME NEW n \in 0..MaxResults, NEW c \in [1..MaxResults -> Nat], NEW h \in [Objects -> 0..n],
           Owned(h, c, n), NEW o \in Objects, NEW q \in Objects, h[o] = 0, o # q,
           NEW g \in [Objects -> 0..n],
           \A k \in Objects : g[k] = IF k = q THEN 0 ELSE IF k = o THEN h[q] ELSE h[k]
    PROVE  Owned(g, c, n)
<1>1. \A r \in 1..n : (\E k \in Objects : h[k] = r) <=> (\E k \in Objects : g[k] = r)
  <2> SUFFICES ASSUME NEW r \in 1..n PROVE (\E k \in Objects : h[k] = r) <=> (\E k \in Objects : g[k] = r)
    OBVIOUS
  <2>0. r # 0
    OBVIOUS
  <2>1. ASSUME NEW k \in Objects, h[k] = r PROVE \E j \in Objects : g[j] = r
    BY <2>0, <2>1
  <2>2. ASSUME NEW k \in Objects, g[k] = r PROVE \E j \in Objects : h[j] = r
    BY <2>0, <2>2
  <2> QED
    BY <2>1, <2>2
<1>2. \A j, k \in Objects : g[j] # 0 /\ g[j] = g[k] => j = k
  BY DEF Owned
<1> QED
  BY <1>1, <1>2 DEF Owned

LEMMA ConstructStep == ASSUME ResultInv, NEW o \in Objects, Construct(o) PROVE ResultInv'
<1>t. /\ rs \in [Objects -> {<<>>} \cup {<<x>> : x \in ResultRecords}]
      /\ queried \in 0..MaxResults /\ cleared \in [1..MaxResults -> Nat] /\ held \in [Objects -> 0..queried]
  BY DEF ResultInv, ResultTypes
<1>o. Owned(held, cleared, queried) /\ CursorInv
  BY DEF ResultInv, OwnerInv
<1>1. PICK n \in Counts : rs' = [rs EXCEPT ![o] = <<[res |-> queried + 1, count |-> n, index |-> -1]>>]
  BY DEF Construct
<1>2. /\ rs[o] = <<>> /\ queried' = queried + 1 /\ row' = <<>> /\ cleared' = cleared
      /\ queried < MaxResults /\ queried \in Nat /\ queried + 1 \in 0..MaxResults
  BY <1>t, ResultAssumption DEF Construct
<1>3. held' = [held EXCEPT ![o] = queried + 1] /\ held[o] = 0
  BY <1>t, <1>1, <1>2 DEF held
<1>4. [res |-> queried + 1, count |-> n, index |-> -1] \in ResultRecords
  BY <1>2, ResultAssumption DEF ResultRecords
<1>5. rs' \in [Objects -> {<<>>} \cup {<<x>> : x \in ResultRecords}]
  BY <1>t, <1>1, <1>4
<1>6. held' \in [Objects -> 0..(queried + 1)] /\ \A k \in Objects : held'[k] = IF k = o THEN queried + 1 ELSE held[k]
  BY <1>t, <1>2, <1>3
<1>7. Owned(held', cleared, queried + 1)
  <2>1. PICK m : m = queried + 1
    OBVIOUS
  <2>2. held' \in [Objects -> 0..m] /\ \A k \in Objects : held'[k] = IF k = o THEN m ELSE held[k]
    BY <1>6, <2>1
  <2>3. Owned(held', cleared, m)
    BY <1>t, <1>o, <1>2, <1>3, <2>1, <2>2, Acquire
  <2> QED
    BY <2>1, <2>3
<1>8. CursorInv'
  BY <1>t, <1>o, <1>1, <1>2 DEF CursorInv
<1> QED
  BY <1>t, <1>2, <1>5, <1>6, <1>7, <1>8 DEF ResultInv, ResultTypes, OwnerInv

\* PQclear, element by element.
LEMMA ClearedOne ==
    ASSUME ResultTypes, NEW o \in Objects, cleared' = PQclear(held[o])
    PROVE  /\ cleared' \in [1..MaxResults -> Nat]
           /\ \A r \in 1..MaxResults : cleared'[r] = IF r = held[o] THEN cleared[r] + 1 ELSE cleared[r]
<1>1. MaxResults \in Nat /\ cleared \in [1..MaxResults -> Nat] /\ held[o] \in 0..MaxResults
  BY ResultAssumption DEF ResultTypes
<1>2. CASE held[o] = 0
  BY <1>1, <1>2 DEF PQclear
<1>3. CASE held[o] # 0
  <2>1. held[o] \in 1..MaxResults /\ cleared' = [cleared EXCEPT ![held[o]] = @ + 1]
    BY <1>1, <1>3 DEF PQclear
  <2> QED
    BY <1>1, <2>1
<1> QED
  BY <1>2, <1>3

LEMMA DestructStep == ASSUME ResultInv, NEW o \in Objects, Destruct(o) PROVE ResultInv'
<1>t. /\ rs \in [Objects -> {<<>>} \cup {<<x>> : x \in ResultRecords}]
      /\ queried \in 0..MaxResults /\ cleared \in [1..MaxResults -> Nat] /\ held \in [Objects -> 0..queried]
  BY DEF ResultInv, ResultTypes
<1>o. Owned(held, cleared, queried) /\ CursorInv
  BY DEF ResultInv, OwnerInv
<1>1. /\ rs[o] # <<>> /\ rs' = [rs EXCEPT ![o] = <<>>] /\ row' = <<>> /\ queried' = queried
      /\ cleared' = PQclear(held[o])
  BY DEF Destruct, held
<1>2. held' = [held EXCEPT ![o] = 0]
  BY <1>t, <1>1 DEF held
<1>3. held' \in [Objects -> 0..queried] /\ \A k \in Objects : held'[k] = IF k = o THEN 0 ELSE held[k]
  BY <1>t, <1>2, ResultAssumption
<1>4. /\ cleared' \in [1..MaxResults -> Nat]
      /\ \A r \in 1..MaxResults : cleared'[r] = IF r = held[o] THEN cleared[r] + 1 ELSE cleared[r]
  BY <1>1, ClearedOne DEF ResultInv
<1>5. Owned(held', cleared', queried)
  BY <1>t, <1>o, <1>3, <1>4, Release
<1>6. CursorInv' /\ rs' \in [Objects -> {<<>>} \cup {<<x>> : x \in ResultRecords}]
  BY <1>t, <1>o, <1>1 DEF CursorInv
<1> QED
  BY <1>t, <1>1, <1>3, <1>4, <1>5, <1>6 DEF ResultInv, ResultTypes, OwnerInv

LEMMA EmptyResult == Empty \in {<<x>> : x \in ResultRecords}
<1>1. [res |-> 0, count |-> 0, index |-> -1] \in ResultRecords
  BY DEF ResultRecords
<1> QED
  BY <1>1 DEF Empty

LEMMA MoveConstructStep ==
    ASSUME ResultInv, NEW o \in Objects, NEW q \in Objects, MoveConstruct(o, q) PROVE ResultInv'
<1>t. /\ rs \in [Objects -> {<<>>} \cup {<<x>> : x \in ResultRecords}]
      /\ queried \in 0..MaxResults /\ cleared \in [1..MaxResults -> Nat] /\ held \in [Objects -> 0..queried]
  BY DEF ResultInv, ResultTypes
<1>o. Owned(held, cleared, queried) /\ CursorInv
  BY DEF ResultInv, OwnerInv
<1>1. /\ rs[o] = <<>> /\ rs[q] # <<>> /\ rs' = [rs EXCEPT ![o] = rs[q], ![q] = Empty]
      /\ row' = <<>> /\ queried' = queried /\ cleared' = cleared /\ o # q
  BY DEF MoveConstruct
<1>2. held' = [held EXCEPT ![o] = held[q], ![q] = 0] /\ held[o] = 0
  BY <1>t, <1>1 DEF held, Empty
<1>3. /\ held' \in [Objects -> 0..queried]
      /\ \A k \in Objects : held'[k] = IF k = q THEN 0 ELSE IF k = o THEN held[q] ELSE held[k]
  BY <1>t, <1>1, <1>2, ResultAssumption
<1>4. Owned(held', cleared, queried)
  <2>1. queried \in 0..MaxResults /\ cleared \in [1..MaxResults -> Nat] /\ held \in [Objects -> 0..queried]
    BY <1>t
  <2>2. held[o] = 0 /\ o # q /\ Owned(held, cleared, queried)
    BY <1>o, <1>1, <1>2
  <2> QED
    BY <1>3, <2>1, <2>2, Transfer
<1>5. rs' \in [Objects -> {<<>>} \cup {<<x>> : x \in ResultRecords}]
  BY <1>t, <1>1, EmptyResult
<1>6. CursorInv'
  BY <1>t, <1>o, <1>1 DEF CursorInv, Empty
<1> QED
  BY <1>t, <1>1, <1>3, <1>4, <1>5, <1>6 DEF ResultInv, ResultTypes, OwnerInv

\* operator= lets its own result go, then takes the other's.
LEMMA MoveAssignStep ==
    ASSUME ResultInv, NEW o \in Objects, NEW q \in Objects, MoveAssign(o, q) PROVE ResultInv'
<1>t. /\ rs \in [Objects -> {<<>>} \cup {<<x>> : x \in ResultRecords}]
      /\ queried \in 0..MaxResults /\ cleared \in [1..MaxResults -> Nat] /\ held \in [Objects -> 0..queried]
  BY DEF ResultInv, ResultTypes
<1>o. Owned(held, cleared, queried) /\ CursorInv
  BY DEF ResultInv, OwnerInv
<1>1. /\ rs[o] # <<>> /\ rs[q] # <<>> /\ rs' = [rs EXCEPT ![o] = rs[q], ![q] = Empty]
      /\ row' = <<>> /\ queried' = queried /\ o # q /\ cleared' = PQclear(held[o])
  BY DEF MoveAssign, held
<1>2. PICK h : h = [held EXCEPT ![o] = 0]
  OBVIOUS
<1>3. h \in [Objects -> 0..queried] /\ \A k \in Objects : h[k] = IF k = o THEN 0 ELSE held[k]
  BY <1>t, <1>2, ResultAssumption
<1>4. /\ cleared' \in [1..MaxResults -> Nat]
      /\ \A r \in 1..MaxResults : cleared'[r] = IF r = held[o] THEN cleared[r] + 1 ELSE cleared[r]
  BY <1>1, ClearedOne DEF ResultInv
<1>5. Owned(h, cleared', queried)
  <2>1. queried \in 0..MaxResults /\ cleared \in [1..MaxResults -> Nat] /\ held \in [Objects -> 0..queried]
    BY <1>t
  <2>2. Owned(held, cleared, queried)
    BY <1>o
  <2> QED
    BY <1>3, <1>4, <2>1, <2>2, Release
<1>6. held' = [held EXCEPT ![o] = held[q], ![q] = 0]
  BY <1>t, <1>1 DEF held, Empty
<1>7. /\ held' \in [Objects -> 0..queried] /\ h[o] = 0
      /\ \A k \in Objects : held'[k] = IF k = q THEN 0 ELSE IF k = o THEN h[q] ELSE h[k]
  BY <1>t, <1>1, <1>3, <1>6, ResultAssumption
<1>8. Owned(held', cleared', queried)
  <2>1. queried \in 0..MaxResults /\ cleared' \in [1..MaxResults -> Nat] /\ h \in [Objects -> 0..queried] /\ o # q
    BY <1>t, <1>1, <1>3, <1>4
  <2>2. PICK c, g : c = cleared' /\ g = held'
    OBVIOUS
  <2>3. Owned(g, c, queried)
    BY <1>5, <1>7, <2>1, <2>2, Transfer
  <2> QED
    BY <2>2, <2>3
<1>9. rs' \in [Objects -> {<<>>} \cup {<<x>> : x \in ResultRecords}]
  BY <1>t, <1>1, EmptyResult
<1>10. CursorInv'
  BY <1>t, <1>o, <1>1 DEF CursorInv, Empty
<1> QED
  BY <1>t, <1>1, <1>4, <1>7, <1>8, <1>9, <1>10 DEF ResultInv, ResultTypes, OwnerInv

\* The cursor moves; nothing is owned or cleared.
LEMMA SeekStep ==
    ASSUME ResultInv, NEW o \in Objects, next(o) \/ first(o) \/ last(o) PROVE ResultInv'
<1>t. /\ rs \in [Objects -> {<<>>} \cup {<<x>> : x \in ResultRecords}]
      /\ queried \in 0..MaxResults /\ cleared \in [1..MaxResults -> Nat] /\ held \in [Objects -> 0..queried]
  BY DEF ResultInv, ResultTypes
<1>o. Owned(held, cleared, queried) /\ CursorInv
  BY DEF ResultInv, OwnerInv
<1>0. PICK x \in ResultRecords : rs[o] = <<x>>
  BY <1>t DEF next, first, last
<1>1. x.count \in Nat /\ x.index \in Nat \cup {-1} /\ rs[o][1] = x
  BY <1>0 DEF ResultRecords
<1>2. ASSUME NEW i \in Nat \cup {-1}, rs' = [rs EXCEPT ![o][1].index = i]
      PROVE  \E y \in ResultRecords : y.res = x.res /\ y.count = x.count /\ y.index = i /\ rs' = [rs EXCEPT ![o] = <<y>>]
  <2>1. PICK y : y = [x EXCEPT !.index = i]
    OBVIOUS
  <2>2. y \in ResultRecords /\ y.res = x.res /\ y.count = x.count /\ y.index = i
    BY <2>1 DEF ResultRecords
  <2>3. [rs[o] EXCEPT ![1].index = i] = <<y>>
    BY <1>0, <2>1
  <2>4. rs' = [rs EXCEPT ![o] = <<y>>]
    BY <1>2, <2>3
  <2> QED
    BY <2>2, <2>4, Zenon
<1>3. PICK i \in Nat \cup {-1} : rs' = [rs EXCEPT ![o][1].index = i] /\ (row' # <<>> => row' = <<o>> /\ i \in 0..(x.count - 1))
  <2>1. CASE next(o)
    <3>1. /\ rs' = [rs EXCEPT ![o][1].index = x.index + 1]
          /\ row' # <<>> => row' = <<o>> /\ x.count > 0 /\ x.index + 1 < x.count
      BY <1>1, <2>1 DEF next, Seek
    <3>2. x.index + 1 \in Nat \cup {-1} /\ (x.count > 0 /\ x.index + 1 < x.count => x.index + 1 \in 0..(x.count - 1))
      BY <1>1
    <3> QED
      BY <3>1, <3>2, Zenon
  <2>2. CASE (first(o) \/ last(o)) /\ x.count > 0
    <3>1. PICK i : /\ i = 0 \/ i = x.count - 1
                   /\ rs' = [rs EXCEPT ![o][1].index = i] /\ row' = <<o>>
      BY <1>1, <2>2 DEF first, last, Seek
    <3>2. i \in Nat \cup {-1} /\ i \in 0..(x.count - 1)
      BY <1>1, <2>2, <3>1
    <3> QED
      BY <3>1, <3>2, Zenon
  <2>3. CASE (first(o) \/ last(o)) /\ ~(x.count > 0)
    <3>1. rs' = [rs EXCEPT ![o][1].index = x.index] /\ row' = <<>>
      BY <1>1, <2>3 DEF first, last, Seek
    <3> QED
      BY <1>1, <3>1, Zenon
  <2> QED
    BY <2>1, <2>2, <2>3
<1>4. PICK y \in ResultRecords : y.res = x.res /\ y.count = x.count /\ y.index = i /\ rs' = [rs EXCEPT ![o] = <<y>>]
  BY <1>2, <1>3
<1>5. queried' = queried /\ cleared' = cleared
  BY DEF next, first, last, Seek
<1>6. held' = held
  BY <1>t, <1>0, <1>4 DEF held
<1>7. rs' \in [Objects -> {<<>>} \cup {<<z>> : z \in ResultRecords}]
  BY <1>t, <1>4
<1>8. CursorInv'
  BY <1>t, <1>o, <1>0, <1>3, <1>4 DEF CursorInv
<1> QED
  BY <1>t, <1>o, <1>5, <1>6, <1>7, <1>8 DEF ResultInv, ResultTypes, OwnerInv

\* BDbResult: through every sequence of constructions, moves, assignments and
\* destructions each PGresult is owned once or has been cleared once, and a
\* cursor that says there is a row stands on one of an uncleared result.
THEOREM ResultsOwnedOnce == Spec => []ResultsOwned
<1>1. Init => ResultInv
  <2> SUFFICES ASSUME ResultInit PROVE ResultInv
    BY DEF Init
  <2>1. held = [o \in Objects |-> 0]
    BY DEF held, ResultInit
  <2> QED
    BY <2>1, ResultAssumption DEF ResultInit, ResultInv, ResultTypes, OwnerInv, Owned, CursorInv
<1>2. ResultInv /\ [Next]_vars => ResultInv'
  <2> SUFFICES ASSUME ResultInv, [ResultNext]_resultVars PROVE ResultInv'
    BY PartSteps
  <2>1. CASE UNCHANGED resultVars
    BY <2>1 DEF resultVars, ResultInv, ResultTypes, OwnerInv, CursorInv, held
  <2>2. CASE ResultNext
    BY <2>2, ConstructStep, DestructStep, MoveConstructStep, MoveAssignStep, SeekStep DEF ResultNext
  <2> QED
    BY <2>1, <2>2
<1>3. ResultInv => ResultsOwned
  BY OwnedOnce
<1> QED
  BY <1>1, <1>2, <1>3, PTL DEF Spec
-----------------------------------------------------------------------------
(* The speed limiter keeps the pace. *)

LargestChunk == Max(Chunks)

\* How far a point runs ahead of the limit.
Ahead(p) == p.total - p.time

\* What n chunks may run ahead of the first report.
Slack(n) == LargestChunk * (n \div (QueueSize - 1))

\* The slot d points before the last.
Back(tail, d) == IF d <= tail THEN tail - d ELSE tail - d + QueueSize

LEMMA LargestIs == LargestChunk \in Nat /\ \A c \in Chunks : c \in Nat /\ c <= LargestChunk
  BY LimiterAssumption DEF LargestChunk, Max

LEMMA SlackIs ==
    /\ \A n \in Nat : Slack(n) \in Nat /\ Slack(n + (QueueSize - 1)) = Slack(n) + LargestChunk
    /\ \A m, n \in Nat : m <= n => Slack(m) <= Slack(n)
<1>1. PICK g : g = QueueSize - 1
  OBVIOUS
<1>2. g \in Nat \ {0} /\ LargestChunk \in Nat
  BY <1>1, LimiterAssumption, LargestIs
<1>3. \A n \in Nat : n \div g \in Nat /\ (n + g) \div g = (n \div g) + 1
  BY <1>2
<1>4. \A m, n \in Nat : m <= n => m \div g <= n \div g
  BY <1>2
<1>5. \A c, x \in Nat : c * x \in Nat /\ c * (x + 1) = c * x + c
  OBVIOUS
<1>6. \A c, x, y \in Nat : x <= y => c * x <= c * y
  OBVIOUS
<1>7. \A n \in Nat : Slack(n) \in Nat /\ Slack(n + (QueueSize - 1)) = Slack(n) + LargestChunk
  <2> SUFFICES ASSUME NEW n \in Nat
               PROVE  /\ LargestChunk * (n \div g) \in Nat
                      /\ LargestChunk * ((n + g) \div g) = LargestChunk * (n \div g) + LargestChunk
    BY <1>1 DEF Slack
  <2> QED
    BY <1>2, <1>3, <1>5
<1>8. \A m, n \in Nat : m <= n => Slack(m) <= Slack(n)
  <2> SUFFICES ASSUME NEW m \in Nat, NEW n \in Nat, m <= n
               PROVE  LargestChunk * (m \div g) <= LargestChunk * (n \div g)
    BY <1>1 DEF Slack
  <2> QED
    BY <1>2, <1>3, <1>4, <1>6
<1> QED
  BY <1>7, <1>8

LEMMA BackIs ==
    ASSUME NEW t \in Slots, NEW d \in Slots
    PROVE  Wrapped(t - d) = Back(t, d) /\ Back(t, d) \in Slots
<1>1. PICK q : q = QueueSize
  OBVIOUS
<1>2. q \in Nat \ {0} /\ t \in 0..(q - 1) /\ d \in 0..(q - 1)
  BY <1>1, LimiterAssumption DEF Slots
<1>3. (t - d) % q = IF d <= t THEN t - d ELSE t - d + q
  BY <1>2
<1> QED
  BY <1>1, <1>2, <1>3 DEF Wrapped, Back, Slots

\* The slot after the last; the points keep their places and are one older.
LEMMA AdvanceIs ==
    ASSUME NEW t \in Slots
    PROVE  /\ Wrapped(t + 1) = IF t + 1 = QueueSize THEN 0 ELSE t + 1
           /\ Wrapped(t + 1) \in Slots
           /\ \A d \in Slots : d # 0 => Back(Wrapped(t + 1), d) = Back(t, d - 1)
           /\ \A d \in Slots : d # 0 => Back(Wrapped(t + 1), d) # Wrapped(t + 1)
<1>1. PICK q : q = QueueSize
  OBVIOUS
<1>2. q \in Nat \ {0, 1} /\ t \in 0..(q - 1)
  BY <1>1, LimiterAssumption DEF Slots
<1>3. (t + 1) % q = IF t + 1 = q THEN 0 ELSE t + 1
  BY <1>2
<1> QED
  BY <1>1, <1>2, <1>3 DEF Wrapped, Back, Slots

Point == [time : Nat, total : Nat]

LimiterTypes ==
    /\ clock \in Nat /\ total_bytes_read \in Nat /\ chunks \in Nat
    /\ queue \in [Slots -> Point] /\ queue_size \in 0..QueueSize /\ tail_index \in Slots
    /\ queue_size <= chunks

\* While the queue fills, its first point is the first report, in slot 1.
\* Every point in it ran ahead of the limit by at most what was allowed when
\* it was noted, and one chunk.
PointsInv(p0) ==
    /\ queue_size < QueueSize => tail_index = queue_size /\ queue[1] = p0
    /\ \A d \in Slots : d < queue_size =>
          Ahead(queue[Back(tail_index, d)]) <= Ahead(p0) + Slack(chunks - d - 1) + LargestChunk
    /\ total_bytes_read - clock <= Ahead(p0) + Slack(chunks)

LimiterInv ==
    /\ LimiterTypes
    /\ \/ origin = <<>> /\ queue_size = 0 /\ tail_index = 0
       \/ \E p0 \in Point : origin = <<p0>> /\ queue_size > 0 /\ PointsInv(p0)

\* What a call does, without the definitions it shares.
LEMMA ProgressIs ==
    ASSUME NEW bytes \in Chunks, NEW pause \in Pauses, LimiterTypes, on_progress_updated(bytes, pause)
    PROVE  \E point \in Point, size \in 1..QueueSize, tail \in Slots :
              /\ point = [time |-> clock + pause, total |-> total_bytes_read + bytes]
              /\ \/ queue_size > 1 /\ size = queue_size /\ tail = tail_index
                 \/ /\ size = IF queue_size < QueueSize THEN queue_size + 1 ELSE QueueSize
                    /\ tail = Wrapped(tail_index + 1)
              /\ chunks' = chunks + 1 /\ total_bytes_read' = total_bytes_read + bytes
              /\ queue_size' = size /\ tail_index' = tail /\ queue' = [queue EXCEPT ![tail] = point]
              /\ clock' \in Nat /\ clock' >= clock + pause
              /\ size > 1 => total_bytes_read' - clock' <= Ahead(queue'[Back(tail, size - 1)])
              /\ size = 1 => clock' = clock + pause
              /\ origin' = IF origin = <<>> THEN <<point>> ELSE origin
<1> DEFINE overrides == queue_size > 1 /\ LastPoint.time - Penult.time < MinGap
           size == IF overrides THEN queue_size ELSE IF queue_size < QueueSize THEN queue_size + 1 ELSE QueueSize
           tail == IF overrides THEN tail_index ELSE Wrapped(tail_index + 1)
           point == [time |-> clock + pause, total |-> total_bytes_read + bytes]
           q == [queue EXCEPT ![tail] = point]
           sleep == IF size <= 1 THEN 0 ELSE remaining_time(q, size, tail)
<1>1. /\ chunks' = chunks + 1 /\ total_bytes_read' = total_bytes_read + bytes
      /\ queue_size' = size /\ tail_index' = tail /\ queue' = q
      /\ clock' = clock + pause + (IF sleep > 0 THEN sleep ELSE 0)
      /\ origin' = IF origin = <<>> THEN <<point>> ELSE origin
  BY DEF on_progress_updated
<1>2. bytes \in Nat /\ pause \in Nat /\ QueueSize \in Nat \ {0, 1}
  BY LimiterAssumption
<1>3. /\ point \in Point /\ point.time = clock + pause /\ point.total = total_bytes_read + bytes
      /\ clock + pause \in Nat
  BY <1>2 DEF LimiterTypes, Point
<1>4. \/ queue_size > 1 /\ size = queue_size /\ tail = tail_index
      \/ /\ size = IF queue_size < QueueSize THEN queue_size + 1 ELSE QueueSize
         /\ tail = Wrapped(tail_index + 1)
  OBVIOUS
<1>5. size \in 1..QueueSize
  BY <1>2, <1>4 DEF LimiterTypes
<1>6. tail \in Slots
  BY <1>4, AdvanceIs DEF LimiterTypes
<1>7. q \in [Slots -> Point] /\ q[tail] = point
  BY <1>3, <1>6 DEF LimiterTypes
<1> HIDE DEF q, point, size, tail, overrides
<1>8. PICK s \in Slots : s = size - 1
  BY <1>2, <1>5 DEF Slots
<1>9. FirstPoint(size, tail) = Back(tail, s) /\ Back(tail, s) \in Slots
  <2>1. tail - size + 1 = tail - s
    BY <1>2, <1>5, <1>6, <1>8 DEF Slots
  <2> QED
    BY <1>6, <2>1, BackIs DEF FirstPoint
<1>10. PICK f \in Point : f = q[Back(tail, s)]
  BY <1>7, <1>9
<1>11. /\ f.time \in Nat /\ f.total \in Nat /\ Ahead(f) = f.total - f.time
  BY <1>10 DEF Point, Ahead
<1>12. remaining_time(q, size, tail) = (point.total - f.total) - (point.time - f.time)
  BY <1>7, <1>9, <1>10 DEF remaining_time
<1>13. sleep \in Int /\ (size = 1 => sleep = 0) /\ (size > 1 => sleep = (point.total - f.total) - (point.time - f.time))
  BY <1>2, <1>3, <1>5, <1>11, <1>12 DEF LimiterTypes
<1> HIDE DEF sleep
<1>14. clock' \in Nat /\ clock' >= clock + pause /\ (size = 1 => clock' = clock + pause)
  BY <1>1, <1>3, <1>13
<1>15. size > 1 => total_bytes_read' - clock' <= Ahead(f)
  BY <1>1, <1>2, <1>3, <1>11, <1>13 DEF LimiterTypes
<1>16. size > 1 => total_bytes_read' - clock' <= Ahead(queue'[Back(tail, size - 1)])
  BY <1>1, <1>8, <1>10, <1>15
<1> QED
  BY <1>1, <1>3, <1>4, <1>5, <1>6, <1>14, <1>16 DEF q, point

\* A call keeps the invariant.
LEMMA LimiterStep == ASSUME LimiterInv, LimiterNext PROVE LimiterInv'
<1>1. PICK bytes \in Chunks, pause \in Pauses : on_progress_updated(bytes, pause)
  BY DEF LimiterNext
<1>2. PICK point \in Point, size \in 1..QueueSize, tail \in Slots :
              /\ point = [time |-> clock + pause, total |-> total_bytes_read + bytes]
              /\ \/ queue_size > 1 /\ size = queue_size /\ tail = tail_index
                 \/ /\ size = IF queue_size < QueueSize THEN queue_size + 1 ELSE QueueSize
                    /\ tail = Wrapped(tail_index + 1)
              /\ chunks' = chunks + 1 /\ total_bytes_read' = total_bytes_read + bytes
              /\ queue_size' = size /\ tail_index' = tail /\ queue' = [queue EXCEPT ![tail] = point]
              /\ clock' \in Nat /\ clock' >= clock + pause
              /\ size > 1 => total_bytes_read' - clock' <= Ahead(queue'[Back(tail, size - 1)])
              /\ size = 1 => clock' = clock + pause
              /\ origin' = IF origin = <<>> THEN <<point>> ELSE origin
  BY <1>1, ProgressIs DEF LimiterInv
<1>3. /\ bytes \in Nat /\ bytes <= LargestChunk /\ pause \in Nat /\ QueueSize \in Nat \ {0, 1}
      /\ LargestChunk \in Nat
  BY LimiterAssumption, LargestIs
<1>t. /\ clock \in Nat /\ total_bytes_read \in Nat /\ chunks \in Nat
      /\ queue \in [Slots -> Point] /\ queue_size \in 0..QueueSize /\ tail_index \in Slots
      /\ queue_size <= chunks
  BY DEF LimiterInv, LimiterTypes
<1>c. chunks' = chunks + 1 /\ chunks' \in Nat /\ chunks' - 1 = chunks
  BY <1>2, <1>t
<1>4. LimiterTypes'
  <2>1. queue' \in [Slots -> Point]
    BY <1>2, <1>t
  <2>2. total_bytes_read' \in Nat /\ chunks' \in Nat
    BY <1>2, <1>3, <1>t
  <2>3. queue_size' <= chunks'
    BY <1>2, <1>3, <1>t
  <2> QED
    BY <1>2, <2>1, <2>2, <2>3 DEF LimiterTypes
<1>5. /\ queue'[tail] = point /\ \A s \in Slots : s # tail => queue'[s] = queue[s]
      /\ Ahead(point) = (total_bytes_read + bytes) - (clock + pause)
  BY <1>2, <1>t DEF Ahead
<1>0. /\ 0 \in Slots /\ 1 \in Slots /\ Back(tail, 0) = tail /\ 1 - 1 = 0 /\ Ahead(point) \in Int
  BY <1>2, <1>3, <1>5, <1>t DEF Back, Slots
<1>6. CASE origin = <<>>
  <2>1. queue_size = 0 /\ tail_index = 0
    BY <1>6 DEF LimiterInv
  <2>2. size = 1 /\ tail = 1
    <3>1. Wrapped(tail_index + 1) = 1
      BY <1>3, <1>t, <2>1, AdvanceIs
    <3> QED
      BY <1>2, <1>3, <2>1, <3>1
  <2>3. origin' = <<point>> /\ queue_size' = 1 /\ tail_index' = 1 /\ queue'[1] = point
    BY <1>2, <1>5, <1>6, <2>2
  <2>4. Slack(chunks') \in Nat /\ Slack(chunks' - 0 - 1) \in Nat
    <3>1. chunks' - 0 - 1 = chunks
      BY <1>c, <1>t
    <3> QED
      BY <1>c, <1>t, <3>1, SlackIs
  <2>5. total_bytes_read' - clock' <= Ahead(point) + Slack(chunks')
    BY <1>0, <1>2, <1>3, <1>5, <1>t, <2>2, <2>4
  <2>6. \A d \in Slots : d < queue_size' =>
          Ahead(queue'[Back(tail_index', d)]) <= Ahead(point) + Slack(chunks' - d - 1) + LargestChunk
    <3> SUFFICES Ahead(point) <= Ahead(point) + Slack(chunks' - 0 - 1) + LargestChunk
      BY <1>0, <2>2, <2>3 DEF Slots
    <3> QED
      BY <1>0, <1>3, <2>4
  <2>7. PointsInv(point)'
    BY <2>3, <2>5, <2>6 DEF PointsInv
  <2> QED
    BY <1>2, <1>4, <2>3, <2>7 DEF LimiterInv
<1>7. ASSUME NEW p0 \in Point, origin = <<p0>>, queue_size > 0, PointsInv(p0)
      PROVE  LimiterInv'
  <2>0. Ahead(p0) \in Int /\ origin' = <<p0>>
    BY <1>2, <1>7 DEF Ahead, Point
  <2>1. /\ queue_size < QueueSize => tail_index = queue_size /\ queue[1] = p0
        /\ total_bytes_read - clock <= Ahead(p0) + Slack(chunks)
    BY <1>7 DEF PointsInv
  <2>2. ASSUME NEW d \in Slots, d < queue_size
        PROVE  /\ Ahead(queue[Back(tail_index, d)]) <= Ahead(p0) + Slack(chunks - d - 1) + LargestChunk
               /\ chunks - d - 1 \in Nat
    BY <1>7, <1>t, <2>2 DEF PointsInv, Slots
  \* The new point.
  <2>3. Ahead(point) <= Ahead(p0) + Slack(chunks) + LargestChunk
    <3>1. Slack(chunks) \in Nat
      BY <1>t, SlackIs
    <3> QED
      BY <1>3, <1>5, <1>t, <2>0, <2>1, <3>1
  \* A point that stays is as old or one older.
  <2>4. ASSUME NEW d \in Slots, d # 0, d < size
        PROVE  \E e \in Slots : /\ e < queue_size /\ e <= d /\ d <= e + 1
                                /\ Back(tail, d) = Back(tail_index, e) /\ Back(tail, d) # tail
                                /\ Back(tail, d) \in Slots
    <3>0. Back(tail, d) \in Slots /\ d \in Nat /\ d < QueueSize /\ tail \in Nat /\ tail < QueueSize
      BY <1>3, BackIs DEF Slots
    <3>1. CASE queue_size > 1 /\ size = queue_size /\ tail = tail_index
      <4>1. Back(tail, d) # tail
        BY <1>3, <2>4, <3>0 DEF Back
      <4> QED
        BY <2>4, <3>0, <3>1, <4>1
    <3>2. CASE /\ size = IF queue_size < QueueSize THEN queue_size + 1 ELSE QueueSize
               /\ tail = Wrapped(tail_index + 1)
      <4>1. PICK e \in Slots : e = d - 1
        BY <1>3, <2>4, <3>0 DEF Slots
      <4>2. Back(tail, d) = Back(tail_index, e) /\ Back(tail, d) # tail
        BY <1>t, <2>4, <3>2, <4>1, AdvanceIs
      <4>3. e < queue_size /\ e <= d /\ d <= e + 1
        BY <1>3, <1>t, <2>4, <3>0, <3>2, <4>1
      <4> QED
        BY <3>0, <4>2, <4>3
    <3> QED
      BY <1>2, <3>1, <3>2
  <2>5. ASSUME NEW d \in Slots, d < size
        PROVE  /\ Ahead(queue'[Back(tail, d)]) <= Ahead(p0) + Slack(chunks' - d - 1) + LargestChunk
               /\ chunks' - d - 1 \in Nat
    <3>1. CASE d = 0
      <4>1. chunks' - d - 1 = chunks
        BY <1>2, <1>t, <3>1
      <4> QED
        BY <1>0, <1>5, <1>t, <2>3, <3>1, <4>1
    <3>2. CASE d # 0
      <4>1. PICK e \in Slots : /\ e < queue_size /\ e <= d /\ d <= e + 1
                               /\ Back(tail, d) = Back(tail_index, e) /\ Back(tail, d) # tail
                               /\ Back(tail, d) \in Slots
        BY <2>4, <2>5, <3>2
      <4>2. queue'[Back(tail, d)] = queue[Back(tail_index, e)]
        BY <1>5, <4>1
      <4>3. /\ Ahead(queue[Back(tail_index, e)]) <= Ahead(p0) + Slack(chunks - e - 1) + LargestChunk
            /\ chunks - e - 1 \in Nat
        BY <2>2, <4>1
      <4>4. chunks' - d - 1 \in Nat /\ chunks - e - 1 <= chunks' - d - 1
        <5>1. d \in Int /\ e \in Int /\ chunks \in Nat /\ d <= e + 1
          BY <1>t, <4>1 DEF Slots
        <5> QED
          BY <1>c, <4>3, <5>1
      <4>5. /\ Slack(chunks - e - 1) <= Slack(chunks' - d - 1)
            /\ Slack(chunks - e - 1) \in Nat /\ Slack(chunks' - d - 1) \in Nat
        BY <4>3, <4>4, SlackIs
      <4>6. Ahead(queue[Back(tail_index, e)]) \in Int
        BY <1>t, <4>1 DEF Ahead, Point
      <4> QED
        BY <1>3, <2>0, <4>2, <4>3, <4>4, <4>5, <4>6
    <3> QED
      BY <3>1, <3>2
  \* Slot 1 is not written while the queue fills.
  <2>6. size < QueueSize => tail = size /\ queue'[1] = p0
    <3> SUFFICES ASSUME size < QueueSize PROVE tail = size /\ queue'[1] = p0
      OBVIOUS
    <3>1. queue_size < QueueSize /\ tail_index = queue_size /\ queue[1] = p0
      BY <1>2, <1>3, <1>t, <2>1
    <3>2. tail = size /\ tail # 1
      BY <1>2, <1>3, <1>7, <1>t, <3>1, AdvanceIs
    <3> QED
      BY <1>0, <1>5, <3>1, <3>2
  <2>7. size > 1
    BY <1>2, <1>3, <1>7, <1>t
  <2>8. total_bytes_read' - clock' <= Ahead(p0) + Slack(chunks')
    <3>1. total_bytes_read' - clock' <= Ahead(queue'[Back(tail, size - 1)])
      BY <1>2, <2>7
    <3>2. Slack(chunks') \in Nat /\ Slack(chunks) \in Nat
      BY <1>c, <1>t, SlackIs
    <3>3. total_bytes_read' - clock' \in Int
      BY <1>2, <1>3, <1>t
    <3>4. CASE size < QueueSize
      <4>1. Back(tail, size - 1) = 1
        BY <1>2, <1>3, <2>6, <3>4 DEF Back
      <4> QED
        BY <2>0, <2>6, <3>1, <3>2, <3>3, <3>4, <4>1
    <3>5. CASE size = QueueSize
      <4>1. PICK d \in Slots : d = size - 1
        BY <1>3, <3>5 DEF Slots
      <4>2. PICK n \in Nat : n = chunks' - d - 1
        BY <1>3, <2>5, <3>5, <4>1
      <4>3. Ahead(queue'[Back(tail, d)]) <= Ahead(p0) + Slack(n) + LargestChunk
        BY <1>3, <2>5, <3>5, <4>1, <4>2
      <4>4. n + (QueueSize - 1) = chunks /\ Slack(n) + LargestChunk = Slack(chunks) /\ Slack(chunks) <= Slack(chunks')
        <5>1. n + (QueueSize - 1) = chunks
          BY <1>2, <1>3, <1>t, <3>5, <4>1, <4>2
        <5> QED
          BY <1>c, <1>t, <5>1, SlackIs
      <4>5. Ahead(queue'[Back(tail, d)]) \in Int
        <5>1. Back(tail, d) \in Slots
          BY BackIs
        <5>2. queue' \in [Slots -> Point]
          BY <1>4 DEF LimiterTypes
        <5> QED
          BY <5>1, <5>2 DEF Ahead, Point
      <4>6. Slack(n) \in Nat
        BY SlackIs
      <4> QED
        BY <1>3, <2>0, <3>1, <3>2, <3>3, <4>1, <4>3, <4>4, <4>5, <4>6
    <3> QED
      BY <1>3, <3>4, <3>5
  <2>9. PointsInv(p0)'
    BY <1>2, <2>5, <2>6, <2>8 DEF PointsInv
  <2> QED
    BY <1>2, <1>3, <1>4, <2>0, <2>9 DEF LimiterInv
<1> QED
  BY <1>6, <1>7 DEF LimiterInv

\* SpeedLimiter: however chunks and pauses follow one another, the copy runs
\* ahead of the limit by at most one chunk for every turn of the queue.
THEOREM LimiterPaceKept == Spec => []PaceKept
<1>1. Init => LimiterInv
  <2> SUFFICES ASSUME LimiterInit PROVE LimiterInv
    BY DEF Init
  <2>1. queue \in [Slots -> Point]
    BY DEF LimiterInit, Point
  <2> QED
    BY <2>1, LimiterAssumption DEF LimiterInit, LimiterInv, LimiterTypes, Slots
<1>2. LimiterInv /\ [Next]_vars => LimiterInv'
  <2> SUFFICES ASSUME LimiterInv, [LimiterNext]_limiterVars PROVE LimiterInv'
    BY PartSteps
  <2>1. CASE UNCHANGED limiterVars
    BY <2>1 DEF limiterVars, LimiterInv, LimiterTypes, PointsInv
  <2> QED
    BY <2>1, LimiterStep
<1>3. LimiterInv => PaceKept
  <2> SUFFICES ASSUME LimiterInv, origin # <<>>
               PROVE  total_bytes_read - origin[1].total <= (clock - origin[1].time) + Slack(chunks)
    BY DEF PaceKept, Slack, LargestChunk
  <2>1. PICK p0 \in Point : origin = <<p0>> /\ PointsInv(p0)
    BY DEF LimiterInv
  <2>2. total_bytes_read - clock <= (p0.total - p0.time) + Slack(chunks)
    BY <2>1 DEF PointsInv, Ahead
  <2>3. p0.total \in Nat /\ p0.time \in Nat /\ clock \in Nat /\ total_bytes_read \in Nat /\ chunks \in Nat
    BY DEF LimiterInv, LimiterTypes, Point
  <2>4. Slack(chunks) \in Nat
    BY <2>3, SlackIs
  <2>5. origin[1] = p0
    BY <2>1
  <2> QED
    BY <2>2, <2>3, <2>4, <2>5
<1> QED
  BY <1>1, <1>2, <1>3, PTL DEF Spec
-----------------------------------------------------------------------------
(* What one thread replaces while others read it is replaced as a whole. *)

ListRecord == [load : Nat, rows : Int, parsed : Nat]
Transaction ==
    [at : {"tested", "query", "rows", "end", "store", "storing", "version"},
     newState : {"NOT_LOADED", "LOADED"}, list : ListRecord]

\* A transaction that is to store its list has completed it.
Completed(x) ==
    /\ x.at \in {"store", "storing", "version"} => x.newState = "LOADED"
    /\ x.newState = "LOADED" => x.at \in {"end", "store", "storing", "version"} /\ x.list.parsed = x.list.rows

\* Nothing, or one.
Maybe(T) == {<<>>} \cup {<<x>> : x \in T}

ListTypes ==
    /\ base \in [state : {"NOT_LOADED", "LOADING", "LOADED"}, data : Maybe(ListRecord), version : Nat]
    /\ global_data_version \in Nat /\ loads \in Nat
    /\ seen \in [version : Nat, data : Maybe(ListRecord), after : BOOLEAN]
    /\ loading \in [Loaders -> Maybe(Transaction)]

\* No version has been given twice, so a reader who sees the version it knew
\* before it got the list has the list, but for the moment in which a list has
\* not got its own.
VersionInv ==
    /\ base.version < global_data_version
    /\ seen.version < global_data_version
    /\ seen.after /\ seen.version = base.version
          => seen.data = base.data \/ \E t \in Loaders : At(t, "version")

\* Every row of its query is in a list.
Whole(data) == \A i \in DOMAIN data : data[i].parsed = data[i].rows

ListInv ==
    /\ ListTypes /\ VersionInv
    /\ \A t \in Loaders : loading[t] # <<>> => Completed(loading[t][1])
    /\ Whole(base.data) /\ Whole(seen.data)

\* The one that is there.
LEMMA TheOne ==
    ASSUME NEW T, NEW m \in Maybe(T), m # <<>>
    PROVE  m[1] \in T /\ m = <<m[1]>>
  BY DEF Maybe

\* A step that only prepares a list, or gives it up, shows the readers nothing.
LEMMA QuietStep ==
    ASSUME ListInv, NEW t \in Loaders, NEW m \in Maybe(Transaction),
           loading' = [loading EXCEPT ![t] = m],
           m # <<>> => Completed(m[1]) /\ m[1].at # "version",
           ~At(t, "version"),
           base'.data = base.data, base'.version = base.version,
           base' \in [state : {"NOT_LOADED", "LOADING", "LOADED"}, data : Maybe(ListRecord), version : Nat],
           loads' \in Nat, UNCHANGED <<global_data_version, seen>>
    PROVE  ListInv'
<1>1. loading \in [Loaders -> Maybe(Transaction)]
  BY DEF ListInv, ListTypes
<1>2. /\ loading' \in [Loaders -> Maybe(Transaction)] /\ loading'[t] = m
      /\ \A u \in Loaders : u # t => loading'[u] = loading[u]
  BY <1>1
<1>3. \A u \in Loaders : At(u, "version") => At(u, "version")'
  BY <1>2 DEF At
<1>4. ListTypes'
  BY <1>2 DEF ListInv, ListTypes
<1>5. VersionInv'
  BY <1>3 DEF ListInv, VersionInv
<1>6. \A u \in Loaders : loading'[u] # <<>> => Completed(loading'[u][1])
  BY <1>2 DEF ListInv
<1> QED
  BY <1>4, <1>5, <1>6 DEF ListInv, Whole

LEMMA LoadStep ==
    ASSUME ListInv, NEW t \in Loaders,
           \/ Begins(t) \/ StartsLoading(t) \/ QueryReturns(t) \/ QueryThrows(t) \/ ParsesItem(t)
           \/ setCompleted(t) \/ EndsLoading(t) \/ StoreBegins(t)
    PROVE  ListInv'
<1>b. base \in [state : {"NOT_LOADED", "LOADING", "LOADED"}, data : Maybe(ListRecord), version : Nat]
  BY DEF ListInv, ListTypes
<1>l. loading \in [Loaders -> Maybe(Transaction)] /\ loads \in Nat
  BY DEF ListInv, ListTypes
<1>1. CASE Begins(t)
  <2>0. PICK y : y = [at |-> "tested", newState |-> "NOT_LOADED",
                      list |-> [load |-> loads + 1, rows |-> -1, parsed |-> 0]]
    OBVIOUS
  <2>1. y \in Transaction /\ y.at = "tested" /\ y.newState = "NOT_LOADED"
        /\ loading' = [loading EXCEPT ![t] = <<y>>]
    BY <1>1, <1>l, <2>0 DEF Begins, Transaction, ListRecord
  <2>2. Completed(y) /\ y.at # "version" /\ <<y>> \in Maybe(Transaction) /\ <<y>>[1] = y
    BY <2>1 DEF Completed, Maybe
  <2>3. loading[t] = <<>> /\ loads' \in Nat /\ UNCHANGED <<base, global_data_version, seen>>
    BY <1>1, <1>l DEF Begins
  <2> QED
    BY <1>b, <2>1, <2>2, <2>3, QuietStep DEF At
<1>2. ASSUME loading[t] # <<>>
      PROVE  /\ loading[t] = <<loading[t][1]>> /\ loading[t][1] \in Transaction
             /\ Completed(loading[t][1])
  BY <1>2, <1>l, TheOne DEF ListInv
<1>3. ASSUME NEW y \in Transaction, ~Begins(t),
             loading' = [loading EXCEPT ![t] = <<y>>], Completed(y), y.at # "version", ~At(t, "version"),
             base' = base \/ \E s \in {"NOT_LOADED", "LOADING", "LOADED"} : base' = [base EXCEPT !.state = s],
             UNCHANGED <<global_data_version, loads, seen>>
      PROVE  ListInv'
  <2>1. <<y>> \in Maybe(Transaction) /\ <<y>>[1] = y
    BY DEF Maybe
  <2>2. /\ base'.data = base.data /\ base'.version = base.version
        /\ base' \in [state : {"NOT_LOADED", "LOADING", "LOADED"}, data : Maybe(ListRecord), version : Nat]
    BY <1>3, <1>b
  <2> QED
    BY <1>3, <1>l, <2>1, <2>2, QuietStep
<1>4. ASSUME NEW x \in Transaction, loading[t] = <<x>>, Completed(x), ~Begins(t)
      PROVE  ListInv'
  <2>x. /\ x = [at |-> x.at, newState |-> x.newState, list |-> x.list]
        /\ x.list \in ListRecord /\ x.newState \in {"NOT_LOADED", "LOADED"}
        /\ loading[t] # <<>> /\ loading[t][1] = x
    BY <1>4 DEF Transaction
  <2>0. \A w : At(t, w) <=> x.at = w
    BY <2>x DEF At
  <2>r. \A y : [loading EXCEPT ![t][1] = y] = [loading EXCEPT ![t] = <<y>>]
    <3> TAKE y
    <3>1. [loading[t] EXCEPT ![1] = y] = <<y>>
      BY <1>4
    <3>2. [loading EXCEPT ![t][1] = y] = [loading EXCEPT ![t] = [loading[t] EXCEPT ![1] = y]]
      OBVIOUS
    <3> QED
      BY <3>1, <3>2
  <2>s. ASSUME NEW w, Step(t, w) PROVE loading' = [loading EXCEPT ![t] = <<[x EXCEPT !.at = w]>>]
    <3>1. PICK y : y = [x EXCEPT !.at = w]
      OBVIOUS
    <3>2. loading' = [loading EXCEPT ![t][1] = y]
      BY <2>s, <2>x, <3>1 DEF Step
    <3> QED
      BY <2>r, <3>1, <3>2
  <2>1. CASE StartsLoading(t)
    <3>1. /\ x.at = "tested" /\ loading' = [loading EXCEPT ![t] = <<[x EXCEPT !.at = "query"]>>]
          /\ base' = [base EXCEPT !.state = "LOADING"] /\ UNCHANGED <<global_data_version, loads, seen>>
      BY <2>0, <2>1, <2>s DEF StartsLoading
    <3>2. PICK y : y = [x EXCEPT !.at = "query"]
      OBVIOUS
    <3>3. y \in Transaction /\ Completed(y) /\ y.at # "version"
      BY <1>4, <3>1, <3>2 DEF Transaction, Completed
    <3> QED
      BY <1>3, <1>4, <2>0, <3>1, <3>2, <3>3
  <2>2. CASE QueryReturns(t)
    <3>1. PICK n \in RowCounts :
             loading' = [loading EXCEPT ![t][1] = [@ EXCEPT !.at = "rows", !.list.rows = n]]
      BY <2>2 DEF QueryReturns
    <3>2. x.at = "query" /\ UNCHANGED <<base, global_data_version, loads, seen>>
      BY <2>0, <2>2 DEF QueryReturns
    <3>3. PICK y : y = [x EXCEPT !.at = "rows", !.list.rows = n]
      OBVIOUS
    <3>4. loading' = [loading EXCEPT ![t] = <<y>>]
      <4>1. loading' = [loading EXCEPT ![t][1] = y]
        BY <2>x, <3>1, <3>3
      <4> QED
        BY <2>r, <4>1
    <3>5. n \in Int
      BY <3>1, ListAssumption
    <3>6. y \in Transaction /\ Completed(y) /\ y.at # "version"
      BY <1>4, <2>x, <3>2, <3>3, <3>5 DEF Transaction, Completed, ListRecord
    <3> QED
      BY <1>3, <1>4, <2>0, <3>2, <3>4, <3>6
  <2>3. CASE QueryThrows(t)
    <3>1. /\ x.at = "query" /\ loading' = [loading EXCEPT ![t] = <<[x EXCEPT !.at = "end"]>>]
          /\ UNCHANGED <<base, global_data_version, loads, seen>>
      BY <2>0, <2>3, <2>s DEF QueryThrows
    <3>2. PICK y : y = [x EXCEPT !.at = "end"]
      OBVIOUS
    <3>3. y \in Transaction /\ Completed(y) /\ y.at # "version"
      BY <1>4, <3>1, <3>2 DEF Transaction, Completed
    <3> QED
      BY <1>3, <1>4, <2>0, <3>1, <3>2, <3>3
  <2>4. CASE ParsesItem(t)
    <3>1. /\ x.at = "rows" /\ loading' = [loading EXCEPT ![t][1].list.parsed = @ + 1]
          /\ UNCHANGED <<base, global_data_version, loads, seen>>
      BY <2>0, <2>4 DEF ParsesItem
    <3>2. PICK y : y = [x EXCEPT !.list.parsed = @ + 1]
      OBVIOUS
    <3>3. loading' = [loading EXCEPT ![t] = <<y>>]
      <4>1. loading' = [loading EXCEPT ![t][1] = y]
        BY <2>x, <3>1, <3>2
      <4> QED
        BY <2>r, <4>1
    <3>4. y \in Transaction /\ Completed(y) /\ y.at # "version"
      BY <1>4, <2>x, <3>1, <3>2 DEF Transaction, Completed, ListRecord
    <3> QED
      BY <1>3, <1>4, <2>0, <3>1, <3>3, <3>4
  <2>5. CASE setCompleted(t)
    <3>1. /\ x.at = "rows" /\ x.list.parsed = x.list.rows
          /\ loading' = [loading EXCEPT ![t][1] = [@ EXCEPT !.at = "end", !.newState = "LOADED"]]
          /\ UNCHANGED <<base, global_data_version, loads, seen>>
      BY <2>0, <2>x, <2>5 DEF setCompleted
    <3>2. PICK y : y = [x EXCEPT !.at = "end", !.newState = "LOADED"]
      OBVIOUS
    <3>3. loading' = [loading EXCEPT ![t] = <<y>>]
      <4>1. loading' = [loading EXCEPT ![t][1] = y]
        BY <2>x, <3>1, <3>2
      <4> QED
        BY <2>r, <4>1
    <3>4. y \in Transaction /\ Completed(y) /\ y.at # "version"
      BY <1>4, <2>x, <3>1, <3>2 DEF Transaction, Completed
    <3> QED
      BY <1>3, <1>4, <2>0, <3>1, <3>3, <3>4
  <2>6. CASE EndsLoading(t)
    <3>1. /\ x.at = "end" /\ base' = [base EXCEPT !.state = x.newState]
          /\ UNCHANGED <<global_data_version, loads, seen>>
      BY <2>0, <2>x, <2>6 DEF EndsLoading
    <3>2. CASE x.newState = "LOADED"
      <4>1. loading' = [loading EXCEPT ![t] = <<[x EXCEPT !.at = "store"]>>]
        BY <2>6, <2>s, <2>x, <3>2 DEF EndsLoading
      <4>2. PICK y : y = [x EXCEPT !.at = "store"]
        OBVIOUS
      <4>3. y \in Transaction /\ Completed(y) /\ y.at # "version"
        BY <1>4, <3>1, <3>2, <4>2 DEF Transaction, Completed
      <4> QED
        BY <1>3, <1>4, <2>0, <2>x, <3>1, <4>1, <4>2, <4>3
    <3>3. CASE x.newState # "LOADED"
      <4>1. loading' = [loading EXCEPT ![t] = <<>>] /\ <<>> \in Maybe(Transaction)
        BY <2>6, <2>x, <3>3 DEF EndsLoading, Maybe
      <4>2. /\ base'.data = base.data /\ base'.version = base.version
            /\ base' \in [state : {"NOT_LOADED", "LOADING", "LOADED"}, data : Maybe(ListRecord), version : Nat]
        BY <1>b, <2>x, <3>1
      <4> QED
        BY <1>l, <2>0, <3>1, <4>1, <4>2, QuietStep
    <3> QED
      BY <3>2, <3>3
  <2>7. CASE StoreBegins(t)
    <3>1. /\ x.at = "store" /\ loading' = [loading EXCEPT ![t] = <<[x EXCEPT !.at = "storing"]>>]
          /\ UNCHANGED <<base, global_data_version, loads, seen>>
      BY <2>0, <2>7, <2>s DEF StoreBegins
    <3>2. PICK y : y = [x EXCEPT !.at = "storing"]
      OBVIOUS
    <3>3. y \in Transaction /\ Completed(y) /\ y.at # "version"
      BY <1>4, <3>1, <3>2 DEF Transaction, Completed
    <3> QED
      BY <1>3, <1>4, <2>0, <3>1, <3>2, <3>3
  <2> QED
    BY <1>4, <2>1, <2>2, <2>3, <2>4, <2>5, <2>6, <2>7
<1>5. CASE ~Begins(t)
  <2>1. loading[t] # <<>>
    BY <1>5 DEF StartsLoading, QueryReturns, QueryThrows, ParsesItem, setCompleted, EndsLoading, StoreBegins, At
  <2> QED
    BY <1>2, <1>4, <1>5, <2>1
<1> QED
  BY <1>1, <1>5

LEMMA StoreStep ==
    ASSUME ListInv, NEW t \in Loaders, StoresData(t) \/ StoresVersion(t)
    PROVE  ListInv'
<1>b. base \in [state : {"NOT_LOADED", "LOADING", "LOADED"}, data : Maybe(ListRecord), version : Nat]
  BY DEF ListInv, ListTypes
<1>l. loading \in [Loaders -> Maybe(Transaction)] /\ global_data_version \in Nat
  BY DEF ListInv, ListTypes
<1>0. loading[t] # <<>>
  BY DEF StoresData, StoresVersion, At
<1>1. PICK x \in Transaction : loading[t] = <<x>> /\ Completed(x) /\ loading[t][1] = x
  BY <1>0, <1>l, TheOne DEF ListInv
<1>x. x = [at |-> x.at, newState |-> x.newState, list |-> x.list] /\ x.list \in ListRecord
  BY DEF Transaction
<1>2. CASE StoresData(t)
  <2>2. PICK y : y = [x EXCEPT !.at = "version"]
    OBVIOUS
  <2>0. /\ x.at = "storing" /\ loading' = [loading EXCEPT ![t][1].at = "version"]
        /\ base' = [base EXCEPT !.data = <<x.list>>] /\ UNCHANGED <<global_data_version, loads, seen>>
    BY <1>1, <1>2 DEF StoresData, At, Step
  <2>1. x.at = "storing" /\ loading' = [loading EXCEPT ![t] = <<y>>]
    <3>1. [loading[t] EXCEPT ![1] = y] = <<y>>
      BY <1>1
    <3>2. [loading EXCEPT ![t][1].at = "version"] = [loading EXCEPT ![t] = [loading[t] EXCEPT ![1] = y]]
      BY <1>1, <2>2
    <3> QED
      BY <2>0, <3>1, <3>2
  <2>3. y \in Transaction /\ Completed(y) /\ y.at = "version" /\ <<y>>[1] = y /\ <<y>> \in Maybe(Transaction)
        /\ x.list.parsed = x.list.rows
    BY <1>1, <2>1, <2>2 DEF Transaction, Completed, Maybe
  <2>4. /\ loading' \in [Loaders -> Maybe(Transaction)] /\ loading'[t] = <<y>>
        /\ \A u \in Loaders : u # t => loading'[u] = loading[u]
    BY <1>l, <2>1, <2>2, <2>3
  <2>5. /\ base'.version = base.version /\ base'.data = <<x.list>> /\ <<x.list>> \in Maybe(ListRecord)
        /\ base' \in [state : {"NOT_LOADED", "LOADING", "LOADED"}, data : Maybe(ListRecord), version : Nat]
    BY <1>b, <1>x, <2>0 DEF Maybe
  <2>6. At(t, "version")'
    BY <2>3, <2>4 DEF At
  <2>7. ListTypes'
    BY <2>0, <2>4, <2>5 DEF ListInv, ListTypes
  <2>8. VersionInv'
    BY <2>0, <2>5, <2>6 DEF ListInv, VersionInv
  <2>9. \A u \in Loaders : loading'[u] # <<>> => Completed(loading'[u][1])
    BY <2>3, <2>4 DEF ListInv
  <2>10. Whole(base'.data) /\ Whole(seen'.data)
    BY <2>0, <2>3, <2>5 DEF ListInv, Whole
  <2> QED
    BY <2>7, <2>8, <2>9, <2>10 DEF ListInv, Whole
<1>3. CASE StoresVersion(t)
  <2>1. /\ loading' = [loading EXCEPT ![t] = <<>>] /\ base' = [base EXCEPT !.version = global_data_version]
        /\ global_data_version' = global_data_version + 1 /\ UNCHANGED <<loads, seen>>
    BY <1>3 DEF StoresVersion
  <2>2. /\ loading' \in [Loaders -> Maybe(Transaction)] /\ loading'[t] = <<>>
        /\ \A u \in Loaders : u # t => loading'[u] = loading[u]
    BY <1>l, <2>1 DEF Maybe
  <2>3. /\ base'.version = global_data_version /\ base'.data = base.data
        /\ base' \in [state : {"NOT_LOADED", "LOADING", "LOADED"}, data : Maybe(ListRecord), version : Nat]
    BY <1>b, <1>l, <2>1
  <2>4. seen.version \in Nat
    BY DEF ListInv, ListTypes
  <2>5. ListTypes'
    BY <1>l, <2>1, <2>2, <2>3 DEF ListInv, ListTypes
  <2>6. VersionInv'
    <3>1. seen.version < global_data_version
      BY DEF ListInv, VersionInv
    <3> QED
      BY <1>l, <2>1, <2>3, <2>4, <3>1 DEF VersionInv
  <2>7. \A u \in Loaders : loading'[u] # <<>> => Completed(loading'[u][1])
    BY <2>2 DEF ListInv
  <2> QED
    BY <2>1, <2>3, <2>5, <2>6, <2>7 DEF ListInv, Whole
<1> QED
  BY <1>2, <1>3

LEMMA LookStep == ASSUME ListInv, AsksVersion \/ GetsList PROVE ListInv'
<1>b. base \in [state : {"NOT_LOADED", "LOADING", "LOADED"}, data : Maybe(ListRecord), version : Nat]
  BY DEF ListInv, ListTypes
<1>s. seen \in [version : Nat, data : Maybe(ListRecord), after : BOOLEAN]
  BY DEF ListInv, ListTypes
<1>1. UNCHANGED <<base, global_data_version, loading, loads>>
  BY DEF AsksVersion, GetsList
<1>2. CASE AsksVersion
  <2>1. /\ seen' \in [version : Nat, data : Maybe(ListRecord), after : BOOLEAN]
        /\ seen'.version = base.version /\ seen'.data = seen.data /\ ~seen'.after
    BY <1>2, <1>b, <1>s DEF AsksVersion
  <2> QED
    BY <1>1, <2>1 DEF ListInv, ListTypes, VersionInv, Whole
<1>3. CASE GetsList
  <2>1. /\ seen' \in [version : Nat, data : Maybe(ListRecord), after : BOOLEAN]
        /\ seen'.version = seen.version /\ seen'.data = base.data
    BY <1>3, <1>b, <1>s DEF GetsList
  <2> QED
    BY <1>1, <2>1 DEF ListInv, ListTypes, VersionInv, Whole
<1> QED
  BY <1>2, <1>3

-----------------------------------------------------------------------------
(* The counters. *)

CounterObject == UNION {[d -> Nat] : d \in SUBSET CounterIds}
CountRecord ==
    [at : {"query", "test", "copy", "replace", "write"}, ids : Seq(CounterIds), found : SUBSET CounterIds,
     load : Nat, from : Nat]

CountTypes ==
    /\ loads \in Nat /\ global_data_version \in Nat /\ overlapped \in BOOLEAN
    /\ counters \in Seq(CounterObject) /\ counter_ \in 0..Len(counters)
    /\ counting \in [Loaders -> Maybe(CountRecord)]

\* What a load under way refers to is there.
Refers(x) ==
    /\ x.from <= Len(counters) /\ x.found \subseteq Range(x.ids)
    /\ x.at = "replace" => x.from # 0
    /\ x.at = "write" => counter_ # 0

\* What a reader has is there, with the ids it had.
HeldInv ==
    \A i \in DOMAIN kept : /\ kept[i].counter \in 1..Len(counters)
                           /\ kept[i].ids \subseteq DOMAIN counters[kept[i].counter]

\* How far a load has got that no other disturbs, against what it has found.
Due(x) ==
    /\ x.at \in {"query", "test", "copy"} => x.from = counter_
    /\ x.at = "query" => Mine = counted
    /\ x.at \in {"test", "copy"} => counted = Updated(Mine, x.ids, x.found, x.load)
    /\ x.at = "replace" => counted = counters[x.from]
    /\ x.at = "write" => /\ x.found \subseteq DOMAIN Mine
                         /\ counted = [id \in DOMAIN Mine |-> IF id \in x.found THEN x.load ELSE Mine[id]]

KeptExactly == \A i \in DOMAIN kept : DOMAIN counters[kept[i].counter] = kept[i].ids

AloneInv ==
    ~overlapped =>
        /\ \A t, u \in Loaders : counting[t] # <<>> /\ counting[u] # <<>> => t = u
        /\ (\A t \in Loaders : counting[t] = <<>>) => Mine = counted
        /\ \A t \in Loaders : counting[t] # <<>> => Due(counting[t][1])
        /\ KeptExactly

CountersInv ==
    /\ CountTypes /\ HeldInv /\ AloneInv
    /\ \A t \in Loaders : counting[t] # <<>> => Refers(counting[t][1])

LEMMA Upto == ASSUME NEW n \in Nat PROVE IsFiniteSet(1..n) /\ Cardinality(1..n) = n
  BY FS_Interval

\* As many rows as ids were asked for, one each: then every id has a row.
LEMMA AllFound ==
    ASSUME NEW ids \in Seq(CounterIds), NEW found, found \subseteq Range(ids), Cardinality(found) = Len(ids)
    PROVE  found = Range(ids)
<1>1. Len(ids) \in Nat /\ ids \in [1..Len(ids) -> CounterIds]
  OBVIOUS
<1>2. IsFiniteSet(1..Len(ids)) /\ Cardinality(1..Len(ids)) = Len(ids)
  <2>1. PICK n \in Nat : n = Len(ids)
    BY <1>1
  <2> QED
    BY <2>1, Upto
<1>3. ids \in Surjection(1..Len(ids), Range(ids))
  BY <1>1 DEF Surjection, Range
<1>4. IsFiniteSet(Range(ids)) /\ Cardinality(Range(ids)) <= Len(ids)
  BY <1>2, <1>3, FS_Surjection DEF ExistsSurjection
<1>5. /\ IsFiniteSet(found) /\ Cardinality(found) <= Cardinality(Range(ids))
      /\ Cardinality(found) = Cardinality(Range(ids)) => found = Range(ids)
  BY <1>4, FS_Subset
<1>6. Cardinality(found) \in Nat /\ Cardinality(Range(ids)) \in Nat
  BY <1>4, <1>5, FS_CardinalityType
<1> QED
  BY <1>1, <1>4, <1>5, <1>6

\* The objects are counters, the one that is not there included.
LEMMA CountersOfType ==
    ASSUME CountTypes, NEW c \in 0..Len(counters)
    PROVE  CountersOf(c) \in CounterObject
<1>1. CASE c = 0
  <2>1. NoCounters \in [{} -> Nat]
    BY DEF NoCounters
  <2> QED
    BY <1>1, <2>1 DEF CountersOf, CounterObject
<1>2. CASE c # 0
  BY <1>2 DEF CountersOf, CountTypes
<1> QED
  BY <1>1, <1>2

LEMMA UpdatedType ==
    ASSUME NEW old \in CounterObject, NEW ids, NEW found \in SUBSET CounterIds, NEW value \in Nat
    PROVE  Updated(old, ids, found, value) \in CounterObject
<1>1. PICK d \in SUBSET CounterIds : old \in [d -> Nat]
  BY DEF CounterObject
<1>2. Updated(old, ids, found, value) \in [((d \ Range(ids)) \cup found) -> Nat]
  BY <1>1 DEF Updated
<1>3. ((d \ Range(ids)) \cup found) \in SUBSET CounterIds
  OBVIOUS
<1> QED
  BY <1>2, <1>3 DEF CounterObject

\* The load of t has become m, and the others are where they were.
LEMMA CountsAfter ==
    ASSUME CountersInv, NEW t \in Loaders, NEW m \in Maybe(CountRecord), Counts_(t, m),
           Len(counters') >= Len(counters), counter_ # 0 => counter_' # 0,
           counters' \in Seq(CounterObject), counter_' \in 0..Len(counters'),
           m # <<>> => Refers(m[1])'
    PROVE  /\ counting' \in [Loaders -> Maybe(CountRecord)] /\ counting'[t] = m
           /\ \A u \in Loaders : u # t => counting'[u] = counting[u]
           /\ \A u \in Loaders : counting'[u] # <<>> => Refers(counting[u][1])'
<1>1. /\ counting' \in [Loaders -> Maybe(CountRecord)] /\ counting'[t] = m
      /\ \A u \in Loaders : u # t => counting'[u] = counting[u]
  BY DEF CountersInv, CountTypes, Counts_
<1>2. ASSUME NEW u \in Loaders, u # t, counting'[u] # <<>> PROVE Refers(counting[u][1])'
  <2>1. counting'[u] = counting[u] /\ counting[u] # <<>> /\ counting[u] \in Maybe(CountRecord)
    BY <1>1, <1>2 DEF CountersInv, CountTypes
  <2>2. PICK x \in CountRecord : counting[u][1] = x /\ Refers(x)
    BY <2>1, TheOne DEF CountersInv
  <2>3. Len(counters) \in Nat /\ Len(counters') \in Nat /\ x.from \in Nat
    BY DEF CountRecord, CountersInv, CountTypes
  <2>4. Refers(x)'
    BY <2>2, <2>3 DEF Refers
  <2> QED
    BY <2>1, <2>2, <2>4 DEF Refers
<1>3. counting'[t] # <<>> => Refers(counting[t][1])'
  BY <1>1 DEF Refers
<1> QED
  BY <1>1, <1>2, <1>3

\* A step of the only load there is.
LEMMA AloneAfter ==
    ASSUME CountersInv, NEW t \in Loaders, NEW m, counting'[t] = m,
           ~overlapped => \A u \in Loaders : u # t => counting'[u] = <<>>,
           overlapped' = overlapped,
           ~overlapped => /\ m = <<>> => Mine' = counted'
                          /\ m # <<>> => Due(m[1])'
                          /\ KeptExactly'
    PROVE  AloneInv'
<1> SUFFICES ASSUME ~overlapped' PROVE
        /\ \A v, u \in Loaders : counting'[v] # <<>> /\ counting'[u] # <<>> => v = u
        /\ (\A v \in Loaders : counting'[v] = <<>>) => Mine' = counted'
        /\ \A v \in Loaders : counting'[v] # <<>> => Due(counting[v][1])'
        /\ KeptExactly'
  BY DEF AloneInv
<1>1. \A u \in Loaders : u # t => counting'[u] = <<>>
  OBVIOUS
<1> QED
  BY <1>1

LEMMA LoadBegins ==
    ASSUME CountersInv, NEW t \in Loaders, NEW ids \in Seq(CounterIds), load(t, ids)
    PROVE  CountersInv'
<1>y. PICK y : y = [at |-> "query", ids |-> ids, found |-> {}, load |-> loads + 1, from |-> counter_]
  OBVIOUS
<1>1. /\ Counts_(t, <<y>>) /\ counting[t] = <<>> /\ loads' = loads + 1
      /\ overlapped' = (overlapped \/ \E u \in Loaders : counting[u] # <<>>)
      /\ UNCHANGED <<global_data_version, counters, counter_, kept, counted>>
  BY <1>y DEF load
<1>t. /\ counters \in Seq(CounterObject) /\ counter_ \in 0..Len(counters) /\ loads \in Nat
      /\ global_data_version \in Nat /\ overlapped \in BOOLEAN
  BY DEF CountersInv, CountTypes
<1>2. y \in CountRecord
  BY <1>t, <1>y DEF CountRecord
<1>3. y.at = "query" /\ y.from = counter_ /\ y.found = {}
  BY <1>y
<1>4. <<y>> \in Maybe(CountRecord) /\ <<y>>[1] = y /\ <<y>> # <<>>
  BY <1>2 DEF Maybe
<1>5. Refers(y)'
  BY <1>1, <1>3, <1>t DEF Refers
<1>6. /\ counting' \in [Loaders -> Maybe(CountRecord)] /\ counting'[t] = <<y>>
      /\ \A u \in Loaders : u # t => counting'[u] = counting[u]
      /\ \A u \in Loaders : counting'[u] # <<>> => Refers(counting[u][1])'
  <2>1. /\ Len(counters') >= Len(counters) /\ (counter_ # 0 => counter_' # 0)
        /\ counters' \in Seq(CounterObject) /\ counter_' \in 0..Len(counters')
    BY <1>1, <1>t
  <2> QED
    BY <1>1, <1>4, <1>5, <2>1, CountsAfter
<1>7. CountTypes'
  BY <1>1, <1>6, <1>t DEF CountTypes
<1>8. HeldInv'
  BY <1>1 DEF CountersInv, HeldInv
<1>9. AloneInv'
  <2> SUFFICES ASSUME ~overlapped' PROVE
          /\ \A v, u \in Loaders : counting'[v] # <<>> /\ counting'[u] # <<>> => v = u
          /\ (\A v \in Loaders : counting'[v] = <<>>) => Mine' = counted'
          /\ \A v \in Loaders : counting'[v] # <<>> => Due(counting[v][1])'
          /\ KeptExactly'
    BY DEF AloneInv
  <2>1. ~overlapped /\ \A u \in Loaders : counting[u] = <<>>
    BY <1>1, <1>t
  <2>2. Mine = counted /\ KeptExactly
    BY <2>1 DEF CountersInv, AloneInv
  <2>3. Due(y)'
    BY <1>1, <1>3, <2>2 DEF Due, Mine, CountersOf
  <2>4. KeptExactly'
    BY <1>1, <2>2 DEF KeptExactly
  <2> QED
    BY <1>4, <1>6, <2>1, <2>3, <2>4 DEF Due
<1> QED
  BY <1>6, <1>7, <1>8, <1>9 DEF CountersInv

\* What is known of a load before one of its steps.
LEMMA LoadThere ==
    ASSUME CountersInv, NEW t \in Loaders, counting[t] # <<>>
    PROVE  /\ counting[t][1] \in CountRecord /\ Refers(counting[t][1])
           /\ ~overlapped => /\ Due(counting[t][1]) /\ KeptExactly
                             /\ \A u \in Loaders : u # t => counting[u] = <<>>
<1>1. counting[t] \in Maybe(CountRecord)
  BY DEF CountersInv, CountTypes
<1> QED
  BY <1>1, TheOne DEF CountersInv, AloneInv

\* The steps that leave the objects and the loader's alone.
LEMMA PlainStep ==
    ASSUME CountersInv, NEW t \in Loaders, counting[t] # <<>>, NEW m \in Maybe(CountRecord), Counts_(t, m),
           UNCHANGED <<listVars, counters, counter_, kept, overlapped>>,
           m # <<>> => Refers(m[1]),
           ~overlapped => /\ m = <<>> => Mine = counted'
                          /\ m # <<>> => Due(m[1])'
    PROVE  CountersInv'
<1>t. /\ counters \in Seq(CounterObject) /\ counter_ \in 0..Len(counters) /\ loads \in Nat
      /\ global_data_version \in Nat /\ overlapped \in BOOLEAN
  BY DEF CountersInv, CountTypes
<1>0. /\ loads' = loads /\ global_data_version' = global_data_version
      /\ counters' = counters /\ counter_' = counter_ /\ kept' = kept /\ overlapped' = overlapped
  BY DEF listVars
<1>1. m # <<>> => Refers(m[1])'
  BY <1>0 DEF Refers
<1>2. /\ counting' \in [Loaders -> Maybe(CountRecord)] /\ counting'[t] = m
      /\ \A u \in Loaders : u # t => counting'[u] = counting[u]
      /\ \A u \in Loaders : counting'[u] # <<>> => Refers(counting[u][1])'
  <2>1. /\ Len(counters') >= Len(counters) /\ (counter_ # 0 => counter_' # 0)
        /\ counters' \in Seq(CounterObject) /\ counter_' \in 0..Len(counters')
    BY <1>0, <1>t
  <2> QED
    BY <1>1, <2>1, CountsAfter
<1>3. CountTypes'
  BY <1>0, <1>2, <1>t DEF CountTypes
<1>4. HeldInv'
  BY <1>0 DEF CountersInv, HeldInv
<1>5. ~overlapped => KeptExactly' /\ \A u \in Loaders : u # t => counting'[u] = <<>>
  BY <1>0, <1>2, LoadThere DEF KeptExactly
<1>6. Mine' = Mine
  BY <1>0 DEF Mine, CountersOf
<1>7. AloneInv'
  BY <1>0, <1>2, <1>5, <1>6, AloneAfter
<1> QED
  BY <1>2, <1>3, <1>4, <1>7 DEF CountersInv

LEMMA FoundStep ==
    ASSUME CountersInv, NEW t \in Loaders, CountersFound(t) \/ CountersThrow(t)
    PROVE  CountersInv'
<1>0. counting[t] # <<>> /\ counting[t][1].at = "query"
      /\ UNCHANGED <<listVars, counters, counter_, kept, overlapped>>
  BY DEF CountersFound, CountersThrow, Counting
<1>1. CASE CountersThrow(t)
  <2>1. Counts_(t, <<>>) /\ counted' = counted /\ <<>> \in Maybe(CountRecord)
    BY <1>1 DEF CountersThrow, Maybe
  <2>2. ~overlapped => Mine = counted'
    BY <1>0, <2>1, LoadThere DEF Due
  <2> QED
    BY <1>0, <2>1, <2>2, PlainStep
<1>2. CASE CountersFound(t)
  <2>0. PICK x \in CountRecord : x = counting[t][1] /\ Refers(x) /\ x.at = "query" /\ (~overlapped => Due(x))
    BY <1>0, LoadThere
  <2>1. PICK found \in SUBSET Range(x.ids) :
           /\ Counts_(t, <<[x EXCEPT !.at = "test", !.found = found]>>)
           /\ counted' = Updated(counted, x.ids, found, x.load)
    BY <1>2, <2>0 DEF CountersFound
  <2>2. Range(x.ids) \subseteq CounterIds
    BY DEF CountRecord, Range
  <2>3. PICK y : y = [x EXCEPT !.at = "test", !.found = found]
    OBVIOUS
  <2>4. /\ y \in CountRecord /\ y.at = "test" /\ y.found = found /\ y.ids = x.ids /\ y.load = x.load
        /\ y.from = x.from
    BY <2>2, <2>3 DEF CountRecord
  <2>5. Counts_(t, <<y>>) /\ <<y>> \in Maybe(CountRecord) /\ <<y>>[1] = y /\ <<y>> # <<>>
    BY <2>1, <2>3, <2>4 DEF Maybe
  <2>6. Refers(y)
    BY <2>0, <2>4 DEF Refers
  <2>7. ~overlapped => Due(y)'
    BY <1>0, <2>0, <2>1, <2>4 DEF Due, Mine, CountersOf
  <2> QED
    BY <1>0, <2>5, <2>6, <2>7, PlainStep
<1> QED
  BY <1>1, <1>2

\* The object is changed in place only if its ids stay the same.
LEMMA CompareStep == ASSUME CountersInv, NEW t \in Loaders, ComparesIds(t) PROVE CountersInv'
<1>0. /\ counting[t] # <<>> /\ counting[t][1].at = "test" /\ counted' = counted
      /\ UNCHANGED <<listVars, counters, counter_, kept, overlapped>>
  BY DEF ComparesIds, Counting
<1>1. PICK x \in CountRecord : x = counting[t][1] /\ Refers(x) /\ x.at = "test" /\ (~overlapped => Due(x))
  BY <1>0, LoadThere
<1> DEFINE copies == counter_ = 0 \/ Cardinality(x.found) # Len(x.ids) \/ haveNewRows(x.ids)
           w == IF copies THEN "copy" ELSE "write"
<1>2. PICK y : y = [x EXCEPT !.at = w]
  OBVIOUS
<1>3. Counts_(t, <<y>>)
  BY <1>1, <1>2 DEF ComparesIds
<1>4. /\ y \in CountRecord /\ y.at = w /\ y.found = x.found /\ y.ids = x.ids /\ y.load = x.load
      /\ y.from = x.from
  BY <1>2 DEF CountRecord
<1>5. <<y>> \in Maybe(CountRecord) /\ <<y>>[1] = y /\ <<y>> # <<>>
  BY <1>4 DEF Maybe
<1>6. Refers(y)
  BY <1>1, <1>4 DEF Refers
<1>m. Mine' = Mine /\ counter_' = counter_ /\ counters' = counters
  BY <1>0 DEF Mine, CountersOf
<1>7. ASSUME ~overlapped PROVE Due(y)'
  <2>1. CASE copies
    BY <1>0, <1>1, <1>4, <1>7, <1>m, <2>1 DEF Due
  <2>2. CASE ~copies
    <3>1. Cardinality(x.found) = Len(x.ids) /\ \A id \in Range(x.ids) : id \in DOMAIN Mine
      BY <2>2 DEF haveNewRows
    <3>2. x.found = Range(x.ids)
      <4>1. x.ids \in Seq(CounterIds) /\ x.found \subseteq Range(x.ids)
        BY <1>1 DEF CountRecord, Refers
      <4> QED
        BY <3>1, <4>1, AllFound
    <3>3. counted = Updated(Mine, x.ids, x.found, x.load)
      BY <1>1, <1>7 DEF Due
    <3>4. (DOMAIN Mine \ Range(x.ids)) \cup x.found = DOMAIN Mine
      BY <3>1, <3>2
    <3>5. counted = [id \in DOMAIN Mine |-> IF id \in x.found THEN x.load ELSE Mine[id]]
      BY <3>3, <3>4 DEF Updated
    <3>6. x.found \subseteq DOMAIN Mine
      BY <3>1, <3>2
    <3> QED
      BY <1>0, <1>4, <1>m, <2>2, <3>5, <3>6 DEF Due
  <2> QED
    BY <2>1, <2>2
<1> QED
  BY <1>0, <1>3, <1>5, <1>6, <1>7, PlainStep

\* A new object, which is no one's yet.
LEMMA CopyStep == ASSUME CountersInv, NEW t \in Loaders, CopiesCounters(t) PROVE CountersInv'
<1>0. /\ counting[t] # <<>> /\ counting[t][1].at = "copy"
      /\ global_data_version' = global_data_version + 1
      /\ UNCHANGED <<loads, counter_, kept, counted, overlapped>>
  BY DEF CopiesCounters, Counting
<1>t. /\ counters \in Seq(CounterObject) /\ counter_ \in 0..Len(counters) /\ loads \in Nat
      /\ global_data_version \in Nat /\ overlapped \in BOOLEAN /\ Len(counters) \in Nat
  BY DEF CountersInv, CountTypes
<1>1. PICK x \in CountRecord : /\ x = counting[t][1] /\ Refers(x) /\ x.at = "copy"
                               /\ ~overlapped => Due(x) /\ KeptExactly
  BY <1>0, LoadThere
<1>x. x.from \in 0..Len(counters) /\ x.load \in Nat /\ x.found \in SUBSET CounterIds
  BY <1>1, <1>t DEF CountRecord, Refers
<1>2. PICK new : new = Updated(CountersOf(x.from), x.ids, x.found, x.load)
  OBVIOUS
<1>3. new \in CounterObject
  <2>1. CountersOf(x.from) \in CounterObject
    BY <1>x, CountersOfType DEF CountersInv
  <2> QED
    BY <1>2, <1>x, <2>1, UpdatedType
<1>4. counters' = Append(counters, new)
  BY <1>1, <1>2 DEF CopiesCounters
<1>5. /\ counters' \in Seq(CounterObject) /\ Len(counters') = Len(counters) + 1
      /\ counters'[Len(counters) + 1] = new
      /\ \A k \in 1..Len(counters) : counters'[k] = counters[k]
  BY <1>3, <1>4, <1>t
<1>6. PICK y : y = [x EXCEPT !.at = "replace", !.from = Len(counters) + 1]
  OBVIOUS
<1>7. Counts_(t, <<y>>)
  <2>1. Counts_(t, <<[x EXCEPT !.at = "replace", !.from = Len(counters')]>>)
    BY <1>1 DEF CopiesCounters
  <2> QED
    BY <1>5, <1>6, <2>1
<1>8. y \in CountRecord /\ y.at = "replace" /\ y.found = x.found /\ y.ids = x.ids /\ y.from = Len(counters) + 1
  <2>1. x.ids \in Seq(CounterIds) /\ x.found \in SUBSET CounterIds /\ x.load \in Nat
    BY DEF CountRecord
  <2>2. y = [at |-> "replace", ids |-> x.ids, found |-> x.found, load |-> x.load, from |-> Len(counters) + 1]
    BY <1>6 DEF CountRecord
  <2> QED
    BY <2>1, <2>2, <1>t DEF CountRecord
<1>9. <<y>> \in Maybe(CountRecord) /\ <<y>>[1] = y /\ <<y>> # <<>>
  BY <1>8 DEF Maybe
<1>10. Refers(y)'
  BY <1>1, <1>5, <1>8, <1>t DEF Refers
<1>11. /\ Len(counters') >= Len(counters) /\ (counter_ # 0 => counter_' # 0)
       /\ counters' \in Seq(CounterObject) /\ counter_' \in 0..Len(counters')
  BY <1>0, <1>5, <1>t
<1>12. /\ counting' \in [Loaders -> Maybe(CountRecord)] /\ counting'[t] = <<y>>
       /\ \A u \in Loaders : u # t => counting'[u] = counting[u]
       /\ \A u \in Loaders : counting'[u] # <<>> => Refers(counting[u][1])'
  BY <1>7, <1>9, <1>10, <1>11, CountsAfter
<1>13. CountTypes'
  BY <1>0, <1>11, <1>12, <1>t DEF CountTypes
<1>14. HeldInv'
  BY <1>0, <1>5, <1>t DEF CountersInv, HeldInv
<1>15. AloneInv'
  <2>1. ASSUME ~overlapped PROVE Due(y)' /\ KeptExactly' /\ \A u \in Loaders : u # t => counting'[u] = <<>>
    <3>1. x.from = counter_ /\ counted = Updated(Mine, x.ids, x.found, x.load)
      BY <1>1, <2>1 DEF Due
    <3>2. counted' = counters'[y.from]
      BY <1>0, <1>2, <1>5, <1>8, <3>1 DEF Mine
    <3>3. Due(y)'
      BY <1>8, <3>2 DEF Due
    <3>4. KeptExactly'
      BY <1>0, <1>1, <1>5, <2>1 DEF KeptExactly, CountersInv, HeldInv
    <3> QED
      BY <1>0, <1>12, <2>1, <3>3, <3>4, LoadThere
  <2> QED
    BY <1>0, <1>9, <1>12, <2>1, AloneAfter
<1> QED
  BY <1>12, <1>13, <1>14, <1>15 DEF CountersInv

LEMMA ReplaceStep == ASSUME CountersInv, NEW t \in Loaders, ReplacesCounters(t) PROVE CountersInv'
<1>0. /\ counting[t] # <<>> /\ counting[t][1].at = "replace" /\ Counts_(t, <<>>)
      /\ UNCHANGED <<loads, global_data_version, counters, kept, counted, overlapped>>
  BY DEF ReplacesCounters, Counting, listVars
<1>t. /\ counters \in Seq(CounterObject) /\ counter_ \in 0..Len(counters) /\ loads \in Nat
      /\ global_data_version \in Nat /\ overlapped \in BOOLEAN /\ Len(counters) \in Nat
  BY DEF CountersInv, CountTypes
<1>1. PICK x \in CountRecord : /\ x = counting[t][1] /\ Refers(x) /\ x.at = "replace"
                               /\ ~overlapped => Due(x) /\ KeptExactly
  BY <1>0, LoadThere
<1>2. counter_' = x.from /\ x.from \in 1..Len(counters)
  BY <1>1, <1>t DEF ReplacesCounters, CountRecord, Refers
<1>3. /\ Len(counters') >= Len(counters) /\ (counter_ # 0 => counter_' # 0)
      /\ counters' \in Seq(CounterObject) /\ counter_' \in 0..Len(counters')
  BY <1>0, <1>2, <1>t
<1>4. /\ counting' \in [Loaders -> Maybe(CountRecord)] /\ counting'[t] = <<>>
      /\ \A u \in Loaders : u # t => counting'[u] = counting[u]
      /\ \A u \in Loaders : counting'[u] # <<>> => Refers(counting[u][1])'
  <2>1. <<>> \in Maybe(CountRecord) /\ <<>> = <<>>
    BY DEF Maybe
  <2> QED
    BY <1>0, <1>3, <2>1, CountsAfter
<1>5. CountTypes'
  BY <1>0, <1>3, <1>4, <1>t DEF CountTypes
<1>6. HeldInv'
  BY <1>0 DEF CountersInv, HeldInv
<1>7. AloneInv'
  <2>1. ASSUME ~overlapped
        PROVE  Mine' = counted' /\ KeptExactly' /\ \A u \in Loaders : u # t => counting'[u] = <<>>
    <3>1. counted = counters[x.from]
      BY <1>1, <2>1 DEF Due
    <3>2. Mine' = counted'
      BY <1>0, <1>2, <3>1 DEF Mine, CountersOf
    <3>3. KeptExactly'
      BY <1>0, <1>1, <2>1 DEF KeptExactly
    <3> QED
      BY <1>0, <1>4, <2>1, <3>2, <3>3, LoadThere
  <2> QED
    BY <1>0, <1>4, <2>1, AloneAfter
<1> QED
  BY <1>4, <1>5, <1>6, <1>7 DEF CountersInv

\* A row in place: the ids of the object stay, if no other load is under way,
\* and can only become more if there is one.
LEMMA WriteStep == ASSUME CountersInv, NEW t \in Loaders, WritesCounter(t) PROVE CountersInv'
<1>0. /\ counting[t] # <<>> /\ counting[t][1].at = "write"
      /\ UNCHANGED <<loads, global_data_version, counter_, kept, counted, overlapped>>
  BY DEF WritesCounter, Counting, listVars
<1>t. /\ counters \in Seq(CounterObject) /\ counter_ \in 0..Len(counters) /\ loads \in Nat
      /\ global_data_version \in Nat /\ overlapped \in BOOLEAN /\ Len(counters) \in Nat
  BY DEF CountersInv, CountTypes
<1>1. PICK x \in CountRecord : /\ x = counting[t][1] /\ Refers(x) /\ x.at = "write"
                               /\ ~overlapped => Due(x) /\ KeptExactly
  BY <1>0, LoadThere
<1>c. counter_ \in 1..Len(counters) /\ x.load \in Nat /\ x.found \in SUBSET CounterIds
  BY <1>1, <1>t DEF CountRecord, Refers
<1>2. PICK id \in x.found :
         /\ counters' = [counters EXCEPT ![counter_] =
                            [i \in DOMAIN counters[counter_] \cup {id} |-> IF i = id THEN x.load ELSE counters[counter_][i]]]
         /\ Counts_(t, <<[x EXCEPT !.found = x.found \ {id}]>>)
  BY <1>1, <1>c DEF WritesCounter
<1>3. PICK new :
         new = [i \in DOMAIN counters[counter_] \cup {id} |-> IF i = id THEN x.load ELSE counters[counter_][i]]
  OBVIOUS
<1>4. new \in CounterObject
  <2>0. counters[counter_] \in CounterObject
    BY <1>c, <1>t
  <2>1. PICK d \in SUBSET CounterIds : counters[counter_] \in [d -> Nat]
    BY <2>0 DEF CounterObject
  <2>2. new \in [(d \cup {id}) -> Nat]
    BY <1>3, <1>c, <2>1
  <2>3. (d \cup {id}) \in SUBSET CounterIds
    BY <1>2, <1>c
  <2> QED
    BY <2>2, <2>3 DEF CounterObject
<1>5. counters' = [counters EXCEPT ![counter_] = new]
  BY <1>2, <1>3
<1>6. /\ counters' \in Seq(CounterObject) /\ Len(counters') = Len(counters) /\ counters'[counter_] = new
      /\ \A k \in 1..Len(counters) : k # counter_ => counters'[k] = counters[k]
  BY <1>4, <1>5, <1>c, <1>t
<1>d. DOMAIN new = DOMAIN counters[counter_] \cup {id}
  BY <1>3
<1>7. PICK y : y = [x EXCEPT !.found = x.found \ {id}]
  OBVIOUS
<1>8. /\ y \in CountRecord /\ y.at = "write" /\ y.found = x.found \ {id} /\ y.ids = x.ids /\ y.load = x.load
      /\ y.from = x.from
  BY <1>1, <1>7 DEF CountRecord
<1>9. <<y>> \in Maybe(CountRecord) /\ <<y>>[1] = y /\ <<y>> # <<>> /\ Counts_(t, <<y>>)
  BY <1>2, <1>7, <1>8 DEF Maybe
<1>10. Refers(y)'
  BY <1>0, <1>1, <1>6, <1>8, <1>c DEF Refers
<1>11. /\ Len(counters') >= Len(counters) /\ (counter_ # 0 => counter_' # 0)
       /\ counters' \in Seq(CounterObject) /\ counter_' \in 0..Len(counters')
  BY <1>0, <1>6, <1>t
<1>12. /\ counting' \in [Loaders -> Maybe(CountRecord)] /\ counting'[t] = <<y>>
       /\ \A u \in Loaders : u # t => counting'[u] = counting[u]
       /\ \A u \in Loaders : counting'[u] # <<>> => Refers(counting[u][1])'
  BY <1>9, <1>10, <1>11, CountsAfter
<1>13. CountTypes'
  BY <1>0, <1>11, <1>12, <1>t DEF CountTypes
<1>14. \A k \in 1..Len(counters) : DOMAIN counters[k] \subseteq DOMAIN counters'[k]
  BY <1>6, <1>d
<1>15. HeldInv'
  BY <1>0, <1>6, <1>14 DEF CountersInv, HeldInv
<1>16. AloneInv'
  <2>1. ASSUME ~overlapped PROVE Due(y)' /\ KeptExactly' /\ \A u \in Loaders : u # t => counting'[u] = <<>>
    <3>1. Mine = counters[counter_] /\ Mine' = new
      BY <1>0, <1>6, <1>c DEF Mine, CountersOf
    <3>2. /\ x.found \subseteq DOMAIN Mine
          /\ counted = [i \in DOMAIN Mine |-> IF i \in x.found THEN x.load ELSE Mine[i]]
      BY <1>1, <2>1 DEF Due
    <3>3. DOMAIN new = DOMAIN Mine
      BY <1>2, <1>d, <3>1, <3>2
    <3>4. \A i \in DOMAIN new : (IF i \in y.found THEN y.load ELSE new[i]) = (IF i \in x.found THEN x.load ELSE Mine[i])
      BY <1>2, <1>3, <1>8, <3>1, <3>3
    <3>5. counted' = [i \in DOMAIN new |-> IF i \in y.found THEN y.load ELSE new[i]]
      BY <1>0, <3>2, <3>3, <3>4
    <3>6. Due(y)'
      <4>1. y.found \subseteq DOMAIN new
        BY <1>8, <3>2, <3>3
      <4> HIDE DEF Mine
      <4> QED
        BY <1>8, <3>1, <3>5, <4>1 DEF Due
    <3>7. KeptExactly'
      <4>1. \A k \in 1..Len(counters) : DOMAIN counters'[k] = DOMAIN counters[k]
        BY <1>6, <3>1, <3>3
      <4> QED
        BY <1>0, <1>1, <2>1, <4>1 DEF KeptExactly, CountersInv, HeldInv
    <3> QED
      BY <1>0, <1>12, <2>1, <3>6, <3>7, LoadThere
  <2> QED
    BY <1>0, <1>9, <1>12, <2>1, AloneAfter
<1> QED
  BY <1>12, <1>13, <1>15, <1>16 DEF CountersInv

LEMMA EndStep == ASSUME CountersInv, NEW t \in Loaders, EndsCounting(t) PROVE CountersInv'
<1>0. /\ counting[t] # <<>> /\ counting[t][1].at = "write" /\ counting[t][1].found = {} /\ Counts_(t, <<>>)
      /\ counted' = counted /\ UNCHANGED <<listVars, counters, counter_, kept, overlapped>>
  BY DEF EndsCounting, Counting
<1>1. <<>> \in Maybe(CountRecord)
  BY DEF Maybe
<1>2. ASSUME ~overlapped PROVE Mine = counted'
  <2>1. Due(counting[t][1])
    BY <1>0, <1>2, LoadThere
  <2>2. counted = [id \in DOMAIN Mine |-> Mine[id]]
    BY <1>0, <2>1 DEF Due
  <2>3. Mine \in CounterObject
    BY CountersOfType DEF Mine, CountersInv, CountTypes
  <2>4. Mine = [id \in DOMAIN Mine |-> Mine[id]]
    BY <2>3 DEF CounterObject
  <2> QED
    BY <1>0, <2>2, <2>4
<1> QED
  BY <1>0, <1>1, <1>2, PlainStep

LEMMA GetsStep == ASSUME CountersInv, Gets PROVE CountersInv'
<1>1. PICK g : g = [counter |-> counter_, ids |-> DOMAIN counters[counter_]]
  OBVIOUS
<1>2. /\ counter_ # 0 /\ kept' = <<g>>
      /\ UNCHANGED <<loads, global_data_version, counters, counter_, counting, counted, overlapped>>
      /\ g.counter = counter_ /\ g.ids = DOMAIN counters[counter_]
  BY <1>1 DEF Gets, listVars
<1>3. \A i \in DOMAIN kept' : kept'[i] = g
  BY <1>2
<1>4. counter_ \in 1..Len(counters)
  BY <1>2 DEF CountersInv, CountTypes
<1>5. HeldInv' /\ KeptExactly'
  BY <1>2, <1>3, <1>4 DEF HeldInv, KeptExactly
<1>6. CountTypes' /\ \A t \in Loaders : counting'[t] # <<>> => Refers(counting[t][1])'
  BY <1>2 DEF CountersInv, CountTypes, Refers
<1>7. Mine' = Mine /\ counted' = counted /\ counting' = counting /\ overlapped' = overlapped
  BY <1>2 DEF Mine, CountersOf
<1>8. \A t \in Loaders : Due(counting[t][1]) => Due(counting[t][1])'
  BY <1>2, <1>7 DEF Due
<1>9. AloneInv'
  BY <1>5, <1>7, <1>8 DEF CountersInv, AloneInv
<1> QED
  BY <1>5, <1>6, <1>9 DEF CountersInv

\* The lists do not change the counters, but for the number of loads and the
\* version that they share; nor do the counters change a list.
LEMMA DataStep ==
    ASSUME ListInv, CountersInv, [ListNext \/ CountersNext]_dataVars
    PROVE  ListInv' /\ CountersInv'
<1>1. ASSUME UNCHANGED counterVars, loads' \in Nat, global_data_version' \in Nat PROVE CountersInv'
  <2>1. Mine' = Mine /\ UNCHANGED <<counters, counter_, counting, kept, counted, overlapped>>
    BY <1>1 DEF counterVars, Mine, CountersOf
  <2>2. \A t \in Loaders : /\ Due(counting[t][1]) => Due(counting[t][1])'
                           /\ Refers(counting[t][1]) => Refers(counting[t][1])'
    BY <2>1 DEF Due, Refers
  <2>3. CountTypes' /\ HeldInv'
    BY <1>1, <2>1 DEF CountersInv, CountTypes, HeldInv
  <2>4. AloneInv'
    BY <2>1, <2>2 DEF CountersInv, AloneInv, KeptExactly
  <2> QED
    BY <2>1, <2>2, <2>3, <2>4 DEF CountersInv
<1>2. ASSUME UNCHANGED <<base, loading, seen>>, loads' \in Nat, global_data_version' \in Nat,
             global_data_version' >= global_data_version
      PROVE  ListInv'
  <2>1. base.version \in Nat /\ global_data_version \in Nat /\ seen.version \in Nat
    BY DEF ListInv, ListTypes
  <2>2. \A u \in Loaders : At(u, "version")' <=> At(u, "version")
    BY <1>2 DEF At
  <2>3. VersionInv'
    BY <1>2, <2>1, <2>2 DEF ListInv, VersionInv
  <2> QED
    BY <1>2, <2>3 DEF ListInv, ListTypes, Whole
<1>t. loads \in Nat /\ global_data_version \in Nat
  BY DEF ListInv, ListTypes
<1>3. CASE UNCHANGED dataVars
  BY <1>1, <1>2, <1>3, <1>t DEF dataVars, listVars
<1>4. CASE ListNext
  <2>1. ListInv' /\ UNCHANGED counterVars
    BY <1>4, LookStep, LoadStep, StoreStep DEF ListNext
  <2>2. loads' \in Nat /\ global_data_version' \in Nat
    BY <2>1 DEF ListInv, ListTypes
  <2> QED
    BY <1>1, <2>1, <2>2
<1>5. CASE CountersNext
  <2>1. CountersInv'
    <3>1. ASSUME NEW t \in Loaders, NEW n \in 0..2, NEW ids \in [1..n -> CounterIds], load(t, ids)
          PROVE  CountersInv'
      <4>1. ids \in Seq(CounterIds)
        BY <3>1
      <4> QED
        BY <3>1, <4>1, LoadBegins
    <3> QED
      BY <1>5, <3>1, FoundStep, CompareStep, CopyStep, ReplaceStep, WriteStep, EndStep, GetsStep DEF CountersNext
  <2>2. /\ UNCHANGED <<base, loading, seen>>
        /\ global_data_version' \in {global_data_version, global_data_version + 1}
    BY <1>5 DEF CountersNext, Gets, load, CountersFound, CountersThrow, ComparesIds, CopiesCounters,
                ReplacesCounters, WritesCounter, EndsCounting, listVars
  <2>3. loads' \in Nat
    BY <2>1 DEF CountersInv, CountTypes
  <2> QED
    BY <1>2, <1>t, <2>1, <2>2, <2>3
<1> QED
  BY <1>3, <1>4, <1>5

\* Between its two steps read_settings has an instance; after the second the
\* level is that of the instance, and a file that is refused changes neither.
SettingsInv == LevelFollows /\ reading \in BOOLEAN /\ (reading => instance_ # <<>>)

LEMMA SettingsStep == ASSUME SettingsInv, [SettingsNext]_settingsVars PROVE SettingsInv'
<1> USE DEF SettingsInv
<1>1. CASE UNCHANGED settingsVars
  BY <1>1 DEF settingsVars, LevelFollows
<1>2. ASSUME NEW file \in Files, read_settings(file) PROVE SettingsInv'
  <2>1. CASE reading' = TRUE /\ instance_' = <<Backup>>
    BY <2>1 DEF LevelFollows
  <2>2. CASE reading' = TRUE /\ instance_' = parse_object(file.root) /\ parse_object(file.root) # <<>>
    BY <2>2 DEF LevelFollows
  <2>3. CASE UNCHANGED <<instance_, reading, global_log_level>>
    BY <2>3 DEF LevelFollows
  <2> QED
    BY <1>2, <2>1, <2>2, <2>3 DEF read_settings
<1>3. CASE SetsLevel
  BY <1>3 DEF SetsLevel, LevelFollows
<1> QED
  BY <1>1, <1>2, <1>3 DEF SettingsNext

\* However loads overlap, fail or follow one another: once a file is read the
\* level is that of the settings; a list has every row of one query, and a
\* reader who asks for the version before the list is not misled by it; the
\* counters are what was found and keep their ids as long as loads do not
\* overlap, and no object a reader has loses an id even if they do.
THEOREM ReplacedWhole == Spec => []WholeForReaders
<1> DEFINE WholeInv == SettingsInv /\ ListInv /\ CountersInv
<1>1. Init => WholeInv
  <2> SUFFICES ASSUME SettingsInit, DataInit PROVE WholeInv
    BY DEF Init
  <2>1. SettingsInv
    BY DEF SettingsInit, SettingsInv, LevelFollows
  <2>2. ListInv
    BY DEF DataInit, ListInv, ListTypes, VersionInv, Maybe, Whole
  <2>3. CountersInv
    <3>1. CountTypes
      <4>1. counters \in Seq(CounterObject) /\ Len(counters) = 0 /\ counter_ = 0
        BY DEF DataInit
      <4>2. counting \in [Loaders -> Maybe(CountRecord)]
        BY Zenon DEF DataInit, Maybe
      <4>3. loads \in Nat /\ global_data_version \in Nat /\ overlapped \in BOOLEAN
        BY DEF DataInit
      <4> QED
        BY <4>1, <4>2, <4>3 DEF CountTypes
    <3>2. HeldInv /\ \A t \in Loaders : counting[t] = <<>>
      BY DEF DataInit, HeldInv
    <3>3. AloneInv
      BY <3>2 DEF DataInit, AloneInv, KeptExactly, Mine, CountersOf
    <3> QED
      BY <3>1, <3>2, <3>3 DEF CountersInv
  <2> QED
    BY <2>1, <2>2, <2>3
<1>2. WholeInv /\ [Next]_vars => WholeInv'
  BY PartSteps, SettingsStep, DataStep
<1>3. WholeInv => WholeForReaders
  <2>1. ListInv => ListWhole
    BY DEF ListInv, VersionInv, ListWhole, Whole
  <2>2. CountersInv => CountersKept
    BY DEF CountersInv, HeldInv, AloneInv, KeptExactly, CountersKept
  <2> QED
    BY <2>1, <2>2 DEF WholeForReaders, SettingsInv
<1> QED
  BY <1>1, <1>2, <1>3, PTL DEF Spec
-----------------------------------------------------------------------------
(* The log writers: what each file and the server are given, and in which   *)
(* order.                                                                    *)

\* A set of numbers that is not empty has a least one.
LEMMA Minimal == ASSUME NEW B \in SUBSET Nat, B # {} PROVE \E b \in B : \A c \in B : b <= c
<1> DEFINE Less == {ss \in Nat \X Nat : ss[1] < ss[2]}
<1>1. IsWellFoundedOn(Less, Nat)
  BY NatLessThanWellFounded DEF OpToRel
<1>2. PICK x \in B : \A y \in B : ~(<<y, x>> \in Less)
  BY <1>1, WFMin
<1>3. \A y \in B : x <= y
  <2> SUFFICES ASSUME NEW y \in B PROVE x <= y
    OBVIOUS
  <2>1. y < x => <<y, x>> \in Less
    OBVIOUS
  <2> QED
    BY <1>2, <2>1
<1> QED
  BY <1>3

\* What is kept of the first n elements, given what is kept of the first n - 1.
Keep(s, I, f, n) ==
    IF n = 0 THEN <<>> ELSE IF n \in I THEN Append(f[n - 1], s[n]) ELSE f[n - 1]
Keeps(s, I, f, m) == f = [n \in 0..m |-> f[n]] /\ \A n \in 0..m : f[n] = Keep(s, I, f, n)

\* There is such a function for every length: otherwise take the least
\* length without one.
LEMMA KeepsExists ==
    ASSUME NEW s, NEW I, NEW m \in Nat
    PROVE  \E f : Keeps(s, I, f, m)
<1> DEFINE Ok(k) == \E f : Keeps(s, I, f, k)
           B == {k \in Nat : ~Ok(k)}
<1> SUFFICES ASSUME B # {} PROVE FALSE
  OBVIOUS
<1>1. PICK b \in B : \A c \in B : b <= c
  BY Minimal
<1>2. CASE b = 0
  <2> DEFINE f == [n \in 0..0 |-> <<>>]
  <2>1. Keeps(s, I, f, 0)
    BY DEF Keeps, Keep
  <2> QED
    BY <1>2, <2>1
<1>3. CASE b # 0
  <2>1. b - 1 \in Nat /\ b - 1 \notin B
    BY <1>1, <1>3
  <2>2. PICK f : Keeps(s, I, f, b - 1)
    BY <2>1
  <2> DEFINE g == [n \in 0..b |-> IF n = b THEN Keep(s, I, f, b) ELSE f[n]]
  <2>3. ASSUME NEW n \in 0..b PROVE g[n] = Keep(s, I, g, n)
    <3>1. CASE n = b
      <4>1. g[b - 1] = f[b - 1]
        BY <1>3
      <4> QED
        BY <1>3, <3>1, <4>1 DEF Keep
    <3>2. CASE n # b
      <4>1. n \in 0..(b - 1) /\ g[n] = f[n]
        BY <3>2
      <4>2. n # 0 => g[n - 1] = f[n - 1]
        BY <3>2
      <4>3. f[n] = Keep(s, I, f, n)
        BY <2>2, <4>1 DEF Keeps
      <4>4. Keep(s, I, f, n) = Keep(s, I, g, n)
        BY <4>2 DEF Keep
      <4> QED
        BY <4>1, <4>3, <4>4
    <3> QED
      BY <3>1, <3>2
  <2>4. Keeps(s, I, g, b)
    BY <2>3 DEF Keeps
  <2> QED
    BY <2>4
<1> QED
  BY <1>2, <1>3

\* Two such functions agree where both are defined and their sequences and
\* places do.
LEMMA KeepsUnique ==
    ASSUME NEW s, NEW I, NEW f, NEW m \in Nat, Keeps(s, I, f, m),
           NEW r, NEW J, NEW g, NEW k \in Nat, Keeps(r, J, g, k), m <= k,
           \A n \in 1..m : s[n] = r[n] /\ (n \in I <=> n \in J)
    PROVE  \A n \in 0..m : f[n] = g[n]
<1> DEFINE B == {n \in 0..m : f[n] # g[n]}
<1> SUFFICES ASSUME B # {} PROVE FALSE
  OBVIOUS
<1>0. B \in SUBSET Nat
  OBVIOUS
<1>1. PICK b \in B : \A c \in B : b <= c
  <2> HIDE DEF B
  <2> QED
    BY <1>0, Minimal
<1>2. f[b] = Keep(s, I, f, b) /\ g[b] = Keep(r, J, g, b) /\ b \in 0..m
  BY DEF Keeps
<1>3. CASE b = 0
  BY <1>2, <1>3 DEF Keep
<1>4. CASE b # 0
  <2>1. b \in 1..m /\ b - 1 \in 0..m /\ b - 1 \notin B
    BY <1>1, <1>2, <1>4
  <2>2. f[b - 1] = g[b - 1] /\ s[b] = r[b] /\ (b \in I <=> b \in J)
    BY <2>1
  <2> QED
    BY <1>2, <1>4, <2>2 DEF Keep
<1> QED
  BY <1>3, <1>4

LEMMA PickedIs ==
    ASSUME NEW T, NEW s \in Seq(T), NEW I
    PROVE  \E f : Keeps(s, I, f, Len(s)) /\ Picked(s, I) = f[Len(s)]
<1> DEFINE Is(f) == f = [n \in 0..Len(s) |-> IF n = 0 THEN <<>>
                                 ELSE IF n \in I THEN Append(f[n - 1], s[n]) ELSE f[n - 1]]
<1>1. \E f : Is(f)
  <2>1. PICK f : Keeps(s, I, f, Len(s))
    <3>1. Len(s) \in Nat
      OBVIOUS
    <3> QED
      BY ONLY <3>1, KeepsExists
  <2>2. Is(f)
    BY <2>1 DEF Keeps, Keep
  <2> QED
    BY <2>2
<1>2. Is(CHOOSE f : Is(f))
  BY <1>1
<1>3. PICK f : f = CHOOSE g : Is(g)
  OBVIOUS
<1>4. Keeps(s, I, f, Len(s))
  BY <1>2, <1>3 DEF Keeps, Keep
<1>5. Picked(s, I) = f[Len(s)]
  BY <1>3 DEF Picked
<1> QED
  BY <1>4, <1>5

LEMMA PickedNone == ASSUME NEW I PROVE Picked(<<>>, I) = <<>>
<1>1. <<>> \in Seq({}) /\ Len(<<>>) = 0
  OBVIOUS
<1>2. PICK f : Keeps(<<>>, I, f, 0) /\ Picked(<<>>, I) = f[0]
  BY <1>1, PickedIs
<1> QED
  BY <1>2 DEF Keeps, Keep

\* What is picked of a sequence that has grown by one.
LEMMA PickedAppend ==
    ASSUME NEW T, NEW s \in Seq(T), NEW m \in T, NEW I, NEW J,
           \A n \in 1..Len(s) : n \in I <=> n \in J
    PROVE  Picked(Append(s, m), J) = IF Len(s) + 1 \in J THEN Append(Picked(s, I), m) ELSE Picked(s, I)
<1>0. PICK r : r = Append(s, m)
  OBVIOUS
<1>1. /\ r \in Seq(T) /\ Len(s) \in Nat /\ Len(r) = Len(s) + 1 /\ r[Len(s) + 1] = m
      /\ \A n \in 1..Len(s) : s[n] = r[n]
  BY <1>0
<1>2. PICK f : Keeps(s, I, f, Len(s)) /\ Picked(s, I) = f[Len(s)]
  BY PickedIs
<1>3. PICK g : Keeps(r, J, g, Len(r)) /\ Picked(r, J) = g[Len(r)]
  BY <1>1, PickedIs
<1>4. f[Len(s)] = g[Len(s)]
  <2>1. Len(s) <= Len(r) /\ Len(r) \in Nat /\ Len(s) \in 0..Len(s)
    BY <1>1
  <2>2. \A n \in 0..Len(s) : f[n] = g[n]
    BY <1>1, <1>2, <1>3, <2>1, KeepsUnique
  <2> QED
    BY <2>1, <2>2
<1>5. g[Len(r)] = Keep(r, J, g, Len(r))
  BY <1>1, <1>3 DEF Keeps
<1>6. Len(r) # 0 /\ Len(r) - 1 = Len(s)
  BY <1>1
<1>7. Keep(r, J, g, Len(r)) = IF Len(s) + 1 \in J THEN Append(g[Len(s)], m) ELSE g[Len(s)]
  BY <1>1, <1>6 DEF Keep
<1> QED
  BY <1>0, <1>2, <1>3, <1>4, <1>5, <1>7

LEMMA PickedSeq ==
    ASSUME NEW T, NEW s \in Seq(T), NEW I
    PROVE  Picked(s, I) \in Seq(T)
<1>1. PICK f : Keeps(s, I, f, Len(s)) /\ Picked(s, I) = f[Len(s)]
  BY PickedIs
<1> DEFINE B == {n \in 0..Len(s) : f[n] \notin Seq(T)}
<1> SUFFICES ASSUME B # {} PROVE FALSE
  <2>1. Len(s) \in 0..Len(s)
    OBVIOUS
  <2> QED
    BY <1>1, <2>1
<1>2. B \in SUBSET Nat
  OBVIOUS
<1>3. PICK b \in B : \A c \in B : b <= c
  <2> HIDE DEF B
  <2> QED
    BY <1>2, Minimal
<1>4. f[b] = Keep(s, I, f, b) /\ b \in 0..Len(s) /\ f[b] \notin Seq(T)
  BY <1>1 DEF Keeps
<1>5. CASE b = 0
  BY <1>4, <1>5 DEF Keep
<1>6. CASE b # 0
  <2>1. b \in 1..Len(s) /\ b - 1 \in 0..Len(s) /\ b - 1 \notin B
    BY <1>3, <1>4, <1>6
  <2>2. f[b - 1] \in Seq(T) /\ s[b] \in T
    BY <2>1
  <2> QED
    BY <1>4, <1>6, <2>2 DEF Keep
<1> QED
  BY <1>5, <1>6

-----------------------------------------------------------------------------

Levels == {log_message_levels[i] : i \in DOMAIN log_message_levels}

\* Every message that the calls can make.
Made ==
    {message(n, l, placed(args, g)) :
        n \in Nat, l \in Levels, args \in ArgLists \cup {Unreachable}, g \in Levels}

LEMMA ForAppend ==
    ASSUME NEW s \in Seq(Made), NEW m \in Made, NEW d
    PROVE  /\ For(d, s) \in Seq(Made)
           /\ For(d, Append(s, m)) = IF m.destination = d THEN Append(For(d, s), m) ELSE For(d, s)
<1> DEFINE I == {i \in DOMAIN s : s[i].destination = d}
           r == Append(s, m)
           J == {i \in DOMAIN r : r[i].destination = d}
<1>1. /\ DOMAIN s = 1..Len(s) /\ DOMAIN r = 1..(Len(s) + 1) /\ r[Len(s) + 1] = m /\ Len(s) \in Nat
      /\ \A n \in 1..Len(s) : r[n] = s[n]
  OBVIOUS
<1>2. (\A n \in 1..Len(s) : n \in I <=> n \in J) /\ (Len(s) + 1 \in J <=> m.destination = d)
  <2> HIDE DEF r
  <2> QED
    BY <1>1
<1>3. For(d, s) = Picked(s, I) /\ For(d, r) = Picked(r, J)
  BY DEF For
<1> HIDE DEF I, J
<1>4. Picked(r, J) = IF Len(s) + 1 \in J THEN Append(Picked(s, I), m) ELSE Picked(s, I)
  BY <1>2, PickedAppend
<1> QED
  BY <1>2, <1>3, <1>4, PickedSeq

LEMMA WithAppend ==
    ASSUME NEW s \in Seq(Made), NEW m \in Made
    PROVE  /\ WithParameters(s) \in Seq(Made)
           /\ WithParameters(Append(s, m))
                = IF m.json # {} THEN Append(WithParameters(s), m) ELSE WithParameters(s)
<1> DEFINE I == {i \in DOMAIN s : s[i].json # {}}
           r == Append(s, m)
           J == {i \in DOMAIN r : r[i].json # {}}
<1>1. /\ DOMAIN s = 1..Len(s) /\ DOMAIN r = 1..(Len(s) + 1) /\ r[Len(s) + 1] = m /\ Len(s) \in Nat
      /\ \A n \in 1..Len(s) : r[n] = s[n]
  OBVIOUS
<1>2. (\A n \in 1..Len(s) : n \in I <=> n \in J) /\ (Len(s) + 1 \in J <=> m.json # {})
  <2> HIDE DEF r
  <2> QED
    BY <1>1
<1>3. WithParameters(s) = Picked(s, I) /\ WithParameters(r) = Picked(r, J)
  BY DEF WithParameters
<1> HIDE DEF I, J
<1>4. Picked(r, J) = IF Len(s) + 1 \in J THEN Append(Picked(s, I), m) ELSE Picked(s, I)
  BY <1>2, PickedAppend
<1> QED
  BY <1>2, <1>3, <1>4, PickedSeq

LEMMA PickNothing == (\A d : For(d, <<>>) = <<>>) /\ WithParameters(<<>>) = <<>>
BY PickedNone DEF For, WithParameters

-----------------------------------------------------------------------------

JournalTypes ==
    /\ level_ \in Levels
    /\ messages_ \in Seq(Made) /\ sent \in Seq(Made) /\ graylog \in Seq(Made)
    /\ files \in [log_message_destination -> Seq(Made)]

\* Nothing is missing in a file that could always be opened.
InFiles(fs, ms, st, unopened) ==
    \A d \in log_message_destination \ unopened : fs[d] \o For(d, ms) = For(d, st)

\* What a file and what the server may be given.
Bound(d) == {m \in Made : m.destination = d}
Notable == {m \in Made : m.json # {}}

\* Messages of Kind whose numbers grow and are at most n.
Numbered(s, Kind, n) ==
    /\ \A i \in 1..Len(s) : s[i] \in Kind /\ s[i].no \in Nat /\ s[i].no <= n
    /\ \A i, j \in 1..Len(s) : i < j => s[i].no < s[j].no

JournalInv ==
    /\ JournalTypes
    /\ InFiles(files, messages_, sent, lost)
    /\ \A d \in log_message_destination : Numbered(files[d] \o For(d, messages_), Bound(d), Len(sent))
    /\ Numbered(graylog \o WithParameters(messages_), Notable, Len(sent))
    /\ \A d \in log_message_destination : d \notin path2file_ => files[d] = <<>>
    /\ path2file_ = {} => ~configured
    /\ ~configured => graylog = <<>>

LEMMA NumberedMore ==
    ASSUME NEW Kind, NEW s \in Seq(Made), NEW n \in Nat, Numbered(s, Kind, n), NEW m \in Made, m.no = n + 1
    PROVE  /\ Numbered(s, Kind, n + 1)
           /\ m \in Kind => Numbered(Append(s, m), Kind, n + 1)
<1>1. Numbered(s, Kind, n + 1)
  BY DEF Numbered
<1>2. ASSUME m \in Kind PROVE Numbered(Append(s, m), Kind, n + 1)
  <2>1. PICK r : r = Append(s, m)
    OBVIOUS
  <2>2. /\ Len(s) \in Nat /\ Len(r) = Len(s) + 1 /\ r[Len(s) + 1] = m
        /\ \A i \in 1..Len(s) : r[i] = s[i]
    BY <2>1
  <2>3. ASSUME NEW i \in 1..Len(r)
        PROVE  r[i] \in Kind /\ r[i].no \in Nat /\ r[i].no <= n + 1
    <3>1. CASE i = Len(s) + 1
      BY <1>2, <2>2, <3>1
    <3>2. CASE i # Len(s) + 1
      <4>1. i \in 1..Len(s)
        BY <2>2, <3>2
      <4> QED
        BY <2>2, <4>1 DEF Numbered
    <3> QED
      BY <3>1, <3>2
  <2>4. ASSUME NEW i \in 1..Len(r), NEW j \in 1..Len(r), i < j
        PROVE  r[i].no < r[j].no
    <3>1. i \in 1..Len(s) /\ r[i] = s[i]
      BY <2>2, <2>4
    <3>2. CASE j = Len(s) + 1
      <4>1. s[i].no \in Nat /\ s[i].no <= n
        BY <3>1 DEF Numbered
      <4> QED
        BY <2>2, <3>1, <3>2, <4>1
    <3>3. CASE j # Len(s) + 1
      <4>1. j \in 1..Len(s) /\ r[j] = s[j]
        BY <2>2, <3>3
      <4> QED
        BY <2>4, <3>1, <4>1 DEF Numbered
    <3> QED
      BY <3>2, <3>3
  <2> QED
    BY <2>1, <2>3, <2>4 DEF Numbered
<1> QED
  BY <1>1, <1>2

LEMMA NumberedPrefix ==
    ASSUME NEW Kind, NEW s \in Seq(Made), NEW r \in Seq(Made), NEW n, Numbered(s \o r, Kind, n)
    PROVE  Numbered(s, Kind, n)
<1>1. \A i \in 1..Len(s) : i \in 1..Len(s \o r) /\ (s \o r)[i] = s[i]
  OBVIOUS
<1> QED
  BY <1>1 DEF Numbered

\* One more message behind what was written and what waits (r becomes q).
LEMMA NumberedBehind ==
    ASSUME NEW Kind, NEW s \in Seq(Made), NEW r \in Seq(Made), NEW n \in Nat, Numbered(s \o r, Kind, n),
           NEW m \in Made, m.no = n + 1, NEW q, q = IF m \in Kind THEN Append(r, m) ELSE r
    PROVE  Numbered(s \o q, Kind, n + 1)
<1>1. s \o r \in Seq(Made) /\ s \o Append(r, m) = Append(s \o r, m)
  OBVIOUS
<1>2. Numbered(s \o r, Kind, n + 1) /\ (m \in Kind => Numbered(Append(s \o r, m), Kind, n + 1))
  <2> HIDE DEF Numbered
  <2>1. PICK t : t = s \o r
    OBVIOUS
  <2>2. t \in Seq(Made) /\ Numbered(t, Kind, n)
    BY <1>1, <2>1
  <2> QED
    BY <2>1, <2>2, NumberedMore
<1> QED
  BY ONLY <1>1, <1>2, q = IF m \in Kind THEN Append(r, m) ELSE r, Zenon

LEMMA AppendBehind ==
    ASSUME NEW s \in Seq(Made), NEW r \in Seq(Made), NEW m \in Made
    PROVE  s \o Append(r, m) = Append(s \o r, m)
OBVIOUS

LEMMA MessageMade ==
    ASSUME NEW n \in Nat, NEW l \in Levels, NEW args \in ArgLists \cup {Unreachable}, NEW g \in Levels
    PROVE  /\ message(n, l, placed(args, g)) \in Made
           /\ message(n, l, placed(args, g)).no = n
<1>1. message(n, l, placed(args, g)) \in Made
  BY DEF Made
<1> QED
  BY <1>1 DEF message

LEMMA LevelsAre ==
    {"CRITICAL", "WARNING", "ERROR", "INFO", "DEBUG"} \subseteq Levels
<1>1. /\ DOMAIN log_message_levels = 1..7
      /\ log_message_levels[1] = "CRITICAL" /\ log_message_levels[2] = "WARNING"
      /\ log_message_levels[3] = "ERROR" /\ log_message_levels[5] = "INFO"
      /\ log_message_levels[7] = "DEBUG"
  BY DEF log_message_levels
<1> QED
  BY <1>1 DEF Levels

\* One more message, made and kept.
LEMMA MessageLogged ==
    ASSUME JournalInv, NEW m \in Made, m.no = Len(sent) + 1,
           messages_' = Append(messages_, m), sent' = Append(sent, m),
           UNCHANGED <<level_, files, graylog, path2file_, configured, lost>>
    PROVE  JournalInv'
<1>0. /\ JournalTypes /\ messages_ \in Seq(Made) /\ sent \in Seq(Made) /\ graylog \in Seq(Made)
      /\ Len(sent) \in Nat
  BY DEF JournalInv, JournalTypes
<1>1. JournalTypes'
  BY <1>0 DEF JournalTypes
<1>2. ASSUME NEW d \in log_message_destination \ lost
      PROVE  files[d] \o For(d, messages_') = For(d, sent')
  <2>1. files[d] \in Seq(Made) /\ files[d] \o For(d, messages_) = For(d, sent)
    BY <1>0 DEF JournalInv, JournalTypes, InFiles
  <2>2. /\ For(d, messages_) \in Seq(Made)
        /\ For(d, messages_') = IF m.destination = d THEN Append(For(d, messages_), m) ELSE For(d, messages_)
    BY <1>0, ForAppend
  <2>3. For(d, sent') = IF m.destination = d THEN Append(For(d, sent), m) ELSE For(d, sent)
    BY <1>0, ForAppend
  <2>4. files[d] \o Append(For(d, messages_), m) = Append(files[d] \o For(d, messages_), m)
    BY <2>1, <2>2, AppendBehind
  <2> QED
    BY ONLY <2>1, <2>2, <2>3, <2>4, Zenon
<1>3. Numbered(graylog \o WithParameters(messages_'), Notable, Len(sent) + 1)
  <2>1. /\ WithParameters(messages_) \in Seq(Made)
        /\ WithParameters(messages_') = IF m.json # {} THEN Append(WithParameters(messages_), m)
                                        ELSE WithParameters(messages_)
    BY <1>0, WithAppend
  <2>2. m \in Notable <=> m.json # {}
    BY DEF Notable
  <2>3. Numbered(graylog \o WithParameters(messages_), Notable, Len(sent))
    BY DEF JournalInv
  <2> QED
    BY <1>0, <2>1, <2>2, <2>3, NumberedBehind
<1>4. ASSUME NEW d \in log_message_destination
      PROVE  Numbered(files[d] \o For(d, messages_'), Bound(d), Len(sent) + 1)
  <2>1. /\ For(d, messages_) \in Seq(Made)
        /\ For(d, messages_') = IF m.destination = d THEN Append(For(d, messages_), m) ELSE For(d, messages_)
    BY <1>0, ForAppend
  <2>2. m \in Bound(d) <=> m.destination = d
    BY DEF Bound
  <2>3. Numbered(files[d] \o For(d, messages_), Bound(d), Len(sent)) /\ files[d] \in Seq(Made)
    BY DEF JournalInv, JournalTypes
  <2> QED
    BY <1>0, <2>1, <2>2, <2>3, NumberedBehind
<1>5. Len(sent') = Len(sent) + 1
  BY <1>0
<1> QED
  BY <1>1, <1>2, <1>3, <1>4, <1>5 DEF JournalInv, InFiles

\* The handlers have written the buffer as far as they could, which then holds
\* nothing or the one message that the server could not be reached.
LEMMA Flushed ==
    ASSUME JournalInv, NEW reachable \in BOOLEAN, NEW opened, flush(reachable, opened)
    PROVE  JournalInv'
<1>0. /\ JournalTypes /\ messages_ \in Seq(Made) /\ sent \in Seq(Made) /\ graylog \in Seq(Made)
      /\ level_ \in Levels /\ level_' = level_ /\ Len(sent) \in Nat
      /\ path2file_' = path2file_ /\ configured' = configured
      /\ lost' = lost \cup (log_message_destination \ (path2file_ \cap opened))
      /\ files' = [d \in log_message_destination |-> files[d] \o written(d, opened)]
  BY DEF JournalInv, JournalTypes, flush
<1>1. /\ WithParameters(messages_) \in Seq(Made) /\ \A d : For(d, messages_) \in Seq(Made)
      /\ \A d : For(d, sent) \in Seq(Made) /\ <<>> \in Seq(Made)
  BY <1>0, PickedSeq DEF For, WithParameters
<1>2. ASSUME NEW d \in log_message_destination
      PROVE  /\ files'[d] \in Seq(Made) /\ Numbered(files'[d], Bound(d), Len(sent))
             /\ d \notin lost' => files'[d] = For(d, sent)
             /\ d \notin path2file_' => files'[d] = <<>>
  <2>1. files[d] \in Seq(Made) /\ For(d, messages_) \in Seq(Made)
    BY <1>0, <1>1 DEF JournalTypes
  <2>2. Numbered(files[d] \o For(d, messages_), Bound(d), Len(sent))
    BY DEF JournalInv
  <2>3. Numbered(files[d], Bound(d), Len(sent))
    BY <1>0, <2>1, <2>2, NumberedPrefix
  <2>4. CASE d \in path2file_ \cap opened
    <3>1. files'[d] = files[d] \o For(d, messages_)
      BY <1>0, <2>4 DEF written
    <3>2. files'[d] \in Seq(Made)
      BY <2>1, <3>1
    <3>3. d \notin lost' => files'[d] = For(d, sent)
      BY <1>0, <3>1 DEF JournalInv, InFiles
    <3>4. Numbered(files'[d], Bound(d), Len(sent))
      BY ONLY <2>2, <3>1, Zenon
    <3> QED
      BY <1>0, <2>4, <3>2, <3>3, <3>4
  <2>5. CASE d \notin path2file_ \cap opened
    <3>1. files'[d] = files[d]
      BY <1>0, <2>1, <2>5 DEF written
    <3>2. d \in lost'
      BY <1>0, <2>5
    <3>3. Numbered(files'[d], Bound(d), Len(sent))
      BY ONLY <2>3, <3>1, Zenon
    <3>4. d \notin path2file_ => files[d] = <<>>
      BY DEF JournalInv
    <3> QED
      BY <1>0, <2>1, <3>1, <3>2, <3>3, <3>4
  <2> QED
    BY <2>4, <2>5
<1>3. files' \in [log_message_destination -> Seq(Made)]
  BY <1>0, <1>2
<1>4. /\ \/ configured /\ graylog' = graylog \o WithParameters(messages_) /\ messages_' = <<>> /\ sent' = sent
         \/ graylog' = graylog /\ messages_' = <<>> /\ sent' = sent
         \/ /\ graylog' = graylog
            /\ LET m == message(Len(sent) + 1, "ERROR", placed(Unreachable, level_))
               IN  messages_' = <<m>> /\ sent' = Append(sent, m)
      /\ ~configured' => graylog' = <<>>
  BY DEF flush, notable, JournalInv
<1>5. Numbered(graylog, Notable, Len(sent)) /\ (path2file_' = {} => ~configured')
  BY <1>0, <1>1, NumberedPrefix DEF JournalInv
<1>6. CASE messages_' = <<>> /\ sent' = sent /\ graylog' \in {graylog, graylog \o WithParameters(messages_)}
  <2>1. graylog' \in Seq(Made) /\ Numbered(graylog', Notable, Len(sent))
    <3>1. graylog \o WithParameters(messages_) \in Seq(Made)
      BY <1>0, <1>1
    <3>2. Numbered(graylog \o WithParameters(messages_), Notable, Len(sent))
      BY DEF JournalInv
    <3> QED
      BY <1>0, <1>5, <1>6, <3>1, <3>2
  <2>2. JournalTypes'
    BY <1>0, <1>1, <1>3, <1>6, <2>1 DEF JournalTypes
  <2>3. graylog' \o <<>> = graylog' /\ WithParameters(messages_') = <<>>
    BY <1>6, <2>1, PickNothing
  <2>4. Numbered(graylog' \o WithParameters(messages_'), Notable, Len(sent'))
    BY ONLY <1>6, <2>1, <2>3, Zenon
  <2>5. ASSUME NEW d \in log_message_destination
        PROVE  files'[d] \o For(d, messages_') = files'[d]
    BY <1>2, <1>6, PickNothing
  <2>6. InFiles(files', messages_', sent', lost')
    <3> SUFFICES ASSUME NEW d \in log_message_destination, d \notin lost'
                 PROVE  files'[d] \o For(d, messages_') = For(d, sent')
      BY DEF InFiles
    <3> QED
      BY <1>2, <1>6, <2>5
  <2>7. ASSUME NEW d \in log_message_destination
        PROVE  Numbered(files'[d] \o For(d, messages_'), Bound(d), Len(sent'))
    <3>1. Numbered(files'[d], Bound(d), Len(sent))
      BY <1>2
    <3> QED
      BY <1>6, <2>5, <3>1
  <2> QED
    BY <1>2, <1>4, <1>5, <2>2, <2>4, <2>6, <2>7 DEF JournalInv
<1>7. CASE /\ graylog' = graylog
           /\ LET m == message(Len(sent) + 1, "ERROR", placed(Unreachable, level_))
              IN  messages_' = <<m>> /\ sent' = Append(sent, m)
  <2>1. PICK m : m = message(Len(sent) + 1, "ERROR", placed(Unreachable, level_))
    OBVIOUS
  <2>2. m \in Made /\ m.no = Len(sent) + 1
    <3>1. "ERROR" \in Levels /\ Unreachable \in ArgLists \cup {Unreachable} /\ Len(sent) + 1 \in Nat
      BY <1>0, LevelsAre
    <3> QED
      BY <1>0, <2>1, <3>1, MessageMade
  <2>3. messages_' = Append(<<>>, m) /\ sent' = Append(sent, m) /\ Len(sent') = Len(sent) + 1
    BY <1>0, <1>7, <2>1
  <2>4. JournalTypes'
    BY <1>0, <1>3, <1>7, <2>2, <2>3 DEF JournalTypes
  <2>5. ASSUME NEW d \in log_message_destination
        PROVE  For(d, messages_') = IF m.destination = d THEN Append(<<>>, m) ELSE <<>>
    <3>1. For(d, Append(<<>>, m)) = IF m.destination = d THEN Append(For(d, <<>>), m) ELSE For(d, <<>>)
      BY ONLY <1>1, <2>2, ForAppend
    <3> QED
      BY <2>3, <3>1, PickNothing
  <2>6. InFiles(files', messages_', sent', lost')
    <3> SUFFICES ASSUME NEW d \in log_message_destination, d \notin lost'
                 PROVE  files'[d] \o For(d, messages_') = For(d, sent')
      BY DEF InFiles
    <3>2. For(d, sent') = IF m.destination = d THEN Append(files'[d], m) ELSE files'[d]
      <4>1. For(d, Append(sent, m)) = IF m.destination = d THEN Append(For(d, sent), m) ELSE For(d, sent)
        BY <1>0, <2>2, ForAppend
      <4> QED
        BY <1>2, <2>3, <4>1
    <3>3. files'[d] \in Seq(Made)
      BY <1>2
    <3>4. files'[d] \o <<>> = files'[d] /\ files'[d] \o Append(<<>>, m) = Append(files'[d], m)
      BY <2>2, <3>3
    <3> QED
      BY ONLY <2>5, <3>2, <3>4, Zenon
  <2>7. ASSUME NEW d \in log_message_destination
        PROVE  Numbered(files'[d] \o For(d, messages_'), Bound(d), Len(sent'))
    <3>1. files'[d] \in Seq(Made) /\ Numbered(files'[d], Bound(d), Len(sent))
      BY <1>2
    <3>2. files'[d] \o <<>> = files'[d] /\ (m \in Bound(d) <=> m.destination = d)
      BY <2>2, <3>1 DEF Bound
    <3>3. Numbered(files'[d] \o <<>>, Bound(d), Len(sent))
      BY ONLY <3>1, <3>2, Zenon
    <3>4. Numbered(files'[d] \o For(d, messages_'), Bound(d), Len(sent) + 1)
      BY <1>0, <1>1, <2>2, <2>5, <3>1, <3>2, <3>3, NumberedBehind
    <3> QED
      BY <2>3, <3>4
  <2>8. Numbered(graylog' \o WithParameters(messages_'), Notable, Len(sent'))
    <3>1. WithParameters(messages_') = IF m.json # {} THEN Append(<<>>, m) ELSE <<>>
      BY <1>1, <2>2, <2>3, WithAppend, PickNothing
    <3>2. graylog \o <<>> = graylog /\ (m \in Notable <=> m.json # {})
      BY <1>0, <2>2 DEF Notable
    <3>3. Numbered(graylog \o <<>>, Notable, Len(sent))
      BY ONLY <1>5, <3>2, Zenon
    <3>4. Numbered(graylog \o WithParameters(messages_'), Notable, Len(sent) + 1)
      BY <1>0, <1>1, <2>2, <3>1, <3>2, <3>3, NumberedBehind
    <3> QED
      BY <1>7, <2>3, <3>4
  <2> QED
    BY <1>2, <1>4, <1>5, <2>4, <2>6, <2>7, <2>8 DEF JournalInv
<1> QED
  BY <1>4, <1>6, <1>7

LEMMA JournalStep == ASSUME JournalInv, [JournalNext]_journalVars PROVE JournalInv'
<1>0. JournalTypes /\ level_ \in Levels /\ sent \in Seq(Made) /\ Len(sent) + 1 \in Nat
  BY DEF JournalInv, JournalTypes
<1>1. ASSUME NEW l \in {"CRITICAL", "WARNING", "ERROR", "INFO"}, NEW args \in ArgLists, log_impl(l, args)
      PROVE  JournalInv'
  <2>1. CASE Passes(l, level_)
    <3>1. PICK m : m = message(Len(sent) + 1, l, placed(args, level_))
      OBVIOUS
    <3>2. m \in Made /\ m.no = Len(sent) + 1
      BY <1>0, <3>1, LevelsAre, MessageMade
    <3>3. /\ messages_' = Append(messages_, m) /\ sent' = Append(sent, m)
          /\ UNCHANGED <<level_, files, graylog, path2file_, configured, lost>>
      BY <1>1, <2>1, <3>1 DEF log_impl
    <3> QED
      BY <3>2, <3>3, MessageLogged
  <2>2. CASE ~Passes(l, level_)
    BY <1>1, <2>2 DEF log_impl, JournalInv, JournalTypes
  <2> QED
    BY <2>1, <2>2
<1>2. ASSUME NEW l \in {"WARNING", "ERROR"}, set_log_level(l) PROVE JournalInv'
  BY <1>2, LevelsAre DEF set_log_level, JournalInv, JournalTypes
<1>3. CASE UNCHANGED journalVars
  BY <1>3 DEF journalVars, JournalInv, JournalTypes
<1>4. CASE start_log
  <2>1. path2file_ = {} /\ UNCHANGED <<level_, messages_, files, graylog, logged, sent, lost>>
    BY <1>4 DEF start_log
  <2>2. path2file_' # {}
    BY <1>4 DEF start_log, log_message_destination
  <2>3. graylog = <<>> /\ \A d \in log_message_destination : files[d] = <<>>
    BY <2>1 DEF JournalInv
  <2> QED
    BY <2>1, <2>2, <2>3 DEF JournalInv, JournalTypes
<1> QED
  BY <1>1, <1>2, <1>3, <1>4, Flushed DEF JournalNext

LEMMA JournalStarts == ASSUME JournalInit PROVE JournalInv
<1>1. JournalTypes /\ Len(sent) = 0
  BY LevelsAre DEF JournalInit, JournalTypes
<1>2. ASSUME NEW d \in log_message_destination
      PROVE  files[d] = <<>> /\ files[d] \o For(d, messages_) = <<>> /\ For(d, sent) = <<>>
  BY PickNothing DEF JournalInit
<1>3. graylog = <<>> /\ graylog \o WithParameters(messages_) = <<>>
  BY PickNothing DEF JournalInit
<1>4. \A Kind : Numbered(<<>>, Kind, 0)
  BY DEF Numbered
<1>5. \A d \in log_message_destination : Numbered(files[d] \o For(d, messages_), Bound(d), Len(sent))
  BY <1>1, <1>2, <1>4
<1>6. path2file_ = {} /\ ~configured
  BY DEF JournalInit
<1> QED
  BY <1>1, <1>2, <1>3, <1>4, <1>5, <1>6 DEF JournalInv, InFiles

LEMMA JournalInFiles == ASSUME JournalInv PROVE EachInItsFile
<1>1. /\ graylog \in Seq(Made) /\ messages_ \in Seq(Made) /\ files \in [log_message_destination -> Seq(Made)]
      /\ WithParameters(messages_) \in Seq(Made) /\ \A d : For(d, messages_) \in Seq(Made)
  BY PickedSeq DEF JournalInv, JournalTypes, WithParameters, For
<1>2. Numbered(graylog, Notable, Len(sent)) /\ DOMAIN graylog = 1..Len(graylog)
  BY <1>1, NumberedPrefix DEF JournalInv
<1>3. ASSUME NEW d \in log_message_destination
      PROVE  Numbered(files[d], Bound(d), Len(sent)) /\ DOMAIN files[d] = 1..Len(files[d])
  BY <1>1, NumberedPrefix DEF JournalInv
<1>4. ASSUME NEW d \in log_message_destination
      PROVE  /\ \A i \in DOMAIN files[d] : files[d][i].destination = d
             /\ \A i, j \in DOMAIN files[d] : i < j => files[d][i].no < files[d][j].no
  BY <1>3 DEF Numbered, Bound
<1>5. /\ \A i \in DOMAIN graylog : graylog[i].json # {}
      /\ \A i, j \in DOMAIN graylog : i < j => graylog[i].no < graylog[j].no
  BY <1>2 DEF Numbered, Notable
<1>6. /\ \A d \in log_message_destination : d \notin path2file_ => files[d] = <<>>
      /\ ~configured => graylog = <<>>
      /\ \A d \in log_message_destination \ lost : files[d] \o For(d, messages_) = For(d, sent)
  BY DEF JournalInv, InFiles
<1> QED
  BY <1>4, <1>5, <1>6 DEF EachInItsFile

\* A file gets only messages of its destination, each once and in the order of
\* the calls, and graylog only messages with parameters, likewise; a file that
\* has a path and could be opened at every flush misses none but those that
\* wait, one without a path stays empty, and so does the server without a host
\* or a port; for any arguments, changes of the level, flushes, failures to
\* open a file and failures of the server.
THEOREM JournalEachInItsFile == Spec => []EachInItsFile
<1>1. Init => JournalInv
  BY JournalStarts DEF Init
<1>2. JournalInv /\ [Next]_vars => JournalInv'
  BY PartSteps, JournalStep
<1>3. JournalInv => EachInItsFile
  BY JournalInFiles
<1> QED
  BY <1>1, <1>2, <1>3, PTL DEF Spec

-----------------------------------------------------------------------------
(* The statements: a pull copies exactly what it was asked for, and values *)
(* may be selected and reduced one by one.                                  *)

\* What a pull is called with, and what it has returned.
PullCall ==
    /\ call.keyed \in BOOLEAN /\ call.ids \subseteq Keys \cup {0}
    /\ call.where = <<>> \/ \E admitted \in SUBSET Keys : call.where = <<admitted>>
    /\ DOMAIN call.src \subseteq Keys /\ DOMAIN call.dst \subseteq Keys
PullInv ==
    call.fn = "pull" =>
        /\ PullCall
        /\ result = <<>> \/ result = <<pulled(call.keyed, call.ids, call.where, call.src, call.dst)>>

LEMMA RowCall == ASSUME call \in RowCalls PROVE call.fn = "row"
<1>1. PICK R \in {[fn : {"row"}, kind : {k}, getter : {g}, field : Fields(k)[g], cell : Cells(g)] :
                    k \in Kinds, g \in {"s", "b", "i", "ll"}} : call \in R
  BY DEF RowCalls
<1>2. PICK k \in Kinds, g \in {"s", "b", "i", "ll"} :
         R = [fn : {"row"}, kind : {k}, getter : {g}, field : Fields(k)[g], cell : Cells(g)]
  OBVIOUS
<1> QED
  BY <1>1, <1>2

LEMMA PullStarts == ASSUME Init PROVE PullInv
<1> SUFFICES ASSUME call.fn = "pull" PROVE PullCall
  BY DEF Init, PullInv
<1>1. call \in Calls
  BY DEF Init
<1>2. call \notin RowCalls
  BY RowCall
<1>3. call \in PullCalls
  <2>1. call \notin SelectCalls
    BY DEF SelectCalls
  <2> QED
    BY <1>1, <1>2, <2>1 DEF Calls, Parts
<1>4. /\ call.keyed \in BOOLEAN /\ call.ids \subseteq Keys \cup {0} /\ call.where \in Conditions
      /\ call.src \in Tables("src") /\ call.dst \in Tables("dst")
  BY <1>3 DEF PullCalls
<1>5. \A rows, t : t \in Tables(rows) => DOMAIN t \subseteq Keys
  BY DEF Tables
<1> QED
  BY <1>4, <1>5 DEF PullCall, Conditions

LEMMA PullStep == ASSUME PullInv, [Next]_vars PROVE PullInv'
<1>1. CASE UNCHANGED helperVars
  BY <1>1 DEF helperVars, PullInv, PullCall
<1>2. CASE PullRows
  BY <1>2 DEF PullRows, Return, PullInv, PullCall
<1>3. CASE ReadRow \/ LoadList \/ Select \/ Split \/ ParseUrl \/ Base64 \/ ToNumber \/ Stamp \/ Human
           \/ Period \/ Exec \/ MakeReport
  <2>1. call.fn # "pull" /\ call' = call
    BY <1>3 DEF ReadRow, LoadList, Select, Split, ParseUrl, Base64, ToNumber, Stamp, Human,
                Period, Exec, MakeReport, Return
  <2> QED
    BY <2>1 DEF PullInv
<1>4. CASE UNCHANGED vars
  BY <1>4, <1>1 DEF vars
<1> QED
  BY <1>1, <1>2, <1>3, <1>4 DEF Next, helperVars

LEMMA PullReturns == ASSUME PullInv PROVE PulledExactly
<1> SUFFICES ASSUME Returned("pull") PROVE PulledExactly
  BY DEF PulledExactly
<1>1. PullCall /\ result = <<pulled(call.keyed, call.ids, call.where, call.src, call.dst)>>
  BY DEF Returned, PullInv
<1>2. PICK dst : dst = pulled(call.keyed, call.ids, call.where, call.src, call.dst)
  OBVIOUS
<1>3. result[1] = dst
  BY <1>1, <1>2
<1>4. CASE ~call.keyed \/ 0 \in call.ids
  <2>1. dst = [k \in IF call.where = <<>> THEN DOMAIN call.src ELSE DOMAIN call.src \cap call.where[1]
                 |-> call.src[k]]
    BY <1>2, <1>4 DEF pulled, createUpdateQueries, is_full_pull_required
  <2> QED
    BY <2>1, <1>1, <1>3, <1>4 DEF PulledExactly, PullCall
<1>5. CASE call.keyed /\ 0 \notin call.ids
  <2>1. PICK admitted \in SUBSET Keys : admitted = IF call.where = <<>> THEN Keys ELSE call.where[1]
    BY <1>1 DEF PullCall
  <2>2. \A k : k \in DOMAIN call.src /\ k \in (IF call.where = <<>> THEN call.ids ELSE call.where[1] \cap call.ids)
                 <=> k \in DOMAIN call.src /\ k \in admitted /\ k \in call.ids
    BY <2>1, <1>1 DEF PullCall
  <2>3. dst = [k \in (DOMAIN call.dst \ call.ids) \cup (DOMAIN call.src \cap admitted \cap call.ids)
                 |-> IF k \in DOMAIN call.src \cap admitted \cap call.ids THEN call.src[k] ELSE call.dst[k]]
    BY <1>1, <1>2, <1>5, <2>1, <2>2 DEF pulled, createUpdateQueries, is_full_pull_required, intersect_conditions, PullCall
  <2> QED
    BY <2>1, <2>3, <1>1, <1>3, <1>5 DEF PulledExactly, PullCall
<1> QED
  BY <1>1, <1>4, <1>5 DEF PullCall

\* A pull of any ids, with any condition of the table, between any two tables
\* over any set of keys leaves the destination with exactly what was asked for
\* and admitted, and with its other rows as they were (Puller::pull,
\* createUpdateQueries).
THEOREM PullsExactly == Spec => []PulledExactly
<1>1. Init => PullInv
  BY PullStarts
<1>2. PullInv /\ [Next]_vars => PullInv'
  BY PullStep
<1>3. PullInv => PulledExactly
  BY PullReturns
<1> QED
  BY <1>1, <1>2, <1>3, PTL DEF Spec

\* Selecting each of several values under the reducing condition and reducing
\* their union again yields what one select for all of them, reduced once,
\* would, whatever rows they have in common (BDb::query_reduce_select).
THEOREM ReducingTwice ==
    ASSUME NEW Rows \in SUBSET SUBSET Nat, IsFiniteSet(UNION Rows), NEW n \in Nat
    PROVE  united({reduced(A, n) : A \in Rows}, n) = reduced(UNION Rows, n)
<1> DEFINE Some == UNION {reduced(A, n) : A \in Rows}
           Below(A, i) == {j \in A : j < i}
<1>1. Some \subseteq UNION Rows /\ UNION Rows \subseteq Nat
  <2>1. \A A \in Rows : reduced(A, n) \subseteq A
    BY DEF reduced
  <2> QED
    BY <2>1
<1>2. ASSUME NEW A \in SUBSET UNION Rows, NEW B \in SUBSET A
      PROVE  Cardinality(A) \in Nat /\ Cardinality(B) \in Nat /\ Cardinality(B) <= Cardinality(A)
  <2>1. IsFiniteSet(A)
    BY FS_Subset
  <2> QED
    BY <2>1, FS_Subset, FS_CardinalityType
<1>3. ASSUME NEW i \in reduced(UNION Rows, n) PROVE i \in reduced(Some, n)
  <2>1. PICK A \in Rows : i \in A
    BY <1>3 DEF reduced
  <2>2. i \in UNION Rows /\ Cardinality(Below(UNION Rows, i)) < n
    BY <1>3 DEF reduced
  <2>3. /\ Below(UNION Rows, i) \subseteq UNION Rows
        /\ Below(A, i) \subseteq Below(UNION Rows, i) /\ Below(Some, i) \subseteq Below(UNION Rows, i)
    BY <1>1, <2>1
  <2>4. Cardinality(Below(A, i)) < n /\ Cardinality(Below(Some, i)) < n
    <3> HIDE DEF Below, Some
    <3>1. Cardinality(Below(A, i)) \in Nat /\ Cardinality(Below(A, i)) <= Cardinality(Below(UNION Rows, i))
      BY <1>2, <2>3
    <3>2. Cardinality(Below(Some, i)) \in Nat /\ Cardinality(Below(Some, i)) <= Cardinality(Below(UNION Rows, i))
      BY <1>2, <2>3
    <3>3. Cardinality(Below(UNION Rows, i)) \in Nat
      BY <1>2, <2>3
    <3> QED
      BY <3>1, <3>2, <3>3, <2>2
  <2>5. i \in reduced(A, n)
    BY <2>1, <2>4 DEF reduced
  <2>6. i \in Some
    BY <2>5
  <2> QED
    BY <2>4, <2>6 DEF reduced
<1>4. ASSUME NEW i \in reduced(Some, n) PROVE i \in reduced(UNION Rows, n)
  <2>1. i \in Some /\ i \in UNION Rows /\ i \in Nat /\ Cardinality(Below(Some, i)) < n
    BY <1>4, <1>1 DEF reduced
  <2>2. CASE Below(UNION Rows, i) \subseteq Some
    <3>1. Below(UNION Rows, i) = Below(Some, i)
      BY <2>2, <1>1
    <3> QED
      BY <3>1, <2>1 DEF reduced
  <2>3. CASE ~(Below(UNION Rows, i) \subseteq Some)
    <3>1. PICK k \in UNION Rows : k < i /\ k \notin Some
      BY <2>3
    <3>2. PICK A \in Rows : k \in A
      OBVIOUS
    <3>3. k \notin reduced(A, n)
      BY <3>1, <3>2
    <3>4. PICK j \in A \ reduced(A, n) : \A c \in A \ reduced(A, n) : j <= c
      <4>1. A \ reduced(A, n) \in SUBSET Nat /\ A \ reduced(A, n) # {}
        BY <3>2, <3>3
      <4> QED
        BY <4>1, Minimal
    <3>5. j \in Nat /\ k \in Nat /\ j <= k /\ j < i
      BY <3>1, <3>2, <3>3, <3>4, <2>1, <1>1
    <3>6. ~(Cardinality(Below(A, j)) < n)
      BY <3>4 DEF reduced
    <3>7. Below(A, j) \subseteq Below(Some, i)
      <4> SUFFICES ASSUME NEW c \in A, c < j PROVE c \in Some /\ c < i
        OBVIOUS
      <4>1. c \in Nat /\ ~(j <= c)
        BY <3>5
      <4>2. c \in reduced(A, n)
        BY <3>4, <4>1
      <4> QED
        BY <4>1, <4>2, <3>5, <2>1
    <3>8. Below(Some, i) \subseteq UNION Rows
      BY <1>1
    <3> HIDE DEF Below, Some
    <3>9. /\ Cardinality(Below(Some, i)) \in Nat /\ Cardinality(Below(A, j)) \in Nat
          /\ Cardinality(Below(A, j)) <= Cardinality(Below(Some, i))
      BY <1>2, <3>7, <3>8
    <3> QED
      BY <3>6, <3>9, <2>1
  <2> QED
    BY <2>2, <2>3
<1> QED
  BY <1>3, <1>4 DEF united

-----------------------------------------------------------------------------
(* The calendar: a stamp is read back as the second it was written for, and *)
(* the days and months of a time zone tile the time.                        *)

\* The first day of a month, and of the one that follows it.
First(y, m) == YearDay(y) + DaysBefore(y, m)
NextFirst(y, m) == IF m = 11 THEN YearDay(y + 1) ELSE First(y, m + 1)

\* The parts of a moment.
DayOf(ts) == ts \div 86400
HourOf(ts) == (ts % 86400) \div 3600
MinuteOf(ts) == ((ts % 86400) % 3600) \div 60
SecondOf(ts) == (ts % 86400) % 60

\* A moment as the clocks of a time zone show it.
Local(t, z) == t + 3600 * z

\* A day is in a month of a year that the calendar covers.
On(day, y, m) == y \in Years /\ m \in 0..11 /\ First(y, m) <= day /\ day < NextFirst(y, m)

LEMMA YearsFollow ==
    ASSUME NEW x \in Int, NEW y \in Int, x < y
    PROVE  YearDay(x + 1) <= YearDay(y)
BY DEF YearDay

LEMMA YearIs == ASSUME NEW y \in Int PROVE YearDay(y) \in Int
BY DEF YearDay

LEMMA YearLong == ASSUME NEW y \in Int PROVE YearDay(y + 1) \in Int /\ YearDay(y + 1) >= YearDay(y) + 365
BY DEF YearDay

LEMMA MonthIs == ASSUME NEW y, NEW m \in 0..11 PROVE DaysBefore(y, m) \in Int
BY DEF DaysBefore

LEMMA MonthEarly == ASSUME NEW y, NEW m \in 0..11 PROVE 0 <= DaysBefore(y, m) /\ DaysBefore(y, m) <= 335
BY DEF DaysBefore

LEMMA YearBegins == ASSUME NEW y PROVE DaysBefore(y, 0) = 0
BY DEF DaysBefore

LEMMA MonthsFollow ==
    ASSUME NEW y, NEW m \in 0..11, NEW k \in 0..11, m < k
    PROVE  DaysBefore(y, m) < DaysBefore(y, m + 1) /\ DaysBefore(y, m + 1) <= DaysBefore(y, k)
BY DEF DaysBefore

LEMMA FirstIs ==
    ASSUME NEW y, y \in Int, NEW m, m \in 0..11
    PROVE  First(y, m) \in Int /\ NextFirst(y, m) \in Int /\ First(y, m) < NextFirst(y, m)
           /\ YearDay(y) <= First(y, m) /\ NextFirst(y, m) <= YearDay(y + 1)
<1>1. YearDay(y) \in Int
  BY YearIs
<1>2. YearDay(y + 1) \in Int /\ YearDay(y + 1) >= YearDay(y) + 365
  BY YearLong
<1>3. DaysBefore(y, m) \in Int
  BY MonthIs
<1>4. 0 <= DaysBefore(y, m) /\ DaysBefore(y, m) <= 335
  BY MonthEarly
<1>5. CASE m = 11
  BY <1>1, <1>2, <1>3, <1>4, <1>5 DEF First, NextFirst
<1>6. CASE m # 11
  <2>1. m + 1 \in 0..11 /\ m < m + 1
    BY <1>6
  <2>2. DaysBefore(y, m) < DaysBefore(y, m + 1)
    BY <2>1, MonthsFollow
  <2>3. DaysBefore(y, m + 1) \in Int
    BY <2>1, MonthIs
  <2>4. DaysBefore(y, m + 1) <= 335
    BY <2>1, MonthEarly
  <2> QED
    BY <1>1, <1>2, <1>3, <1>4, <1>6, <2>2, <2>3, <2>4 DEF First, NextFirst
<1> QED
  BY <1>5, <1>6

LEMMA MonthExists ==
    ASSUME NEW y \in Years, NEW day \in Int, YearDay(y) <= day, day < YearDay(y + 1)
    PROVE  \E m \in 0..11 : On(day, y, m)
<1>1. y \in Int
  BY CalendarAssumption
<1>2. \E m \in 0..11 : First(y, m) <= day /\ day < NextFirst(y, m)
  <2>1. \A m \in 0..11 : DaysBefore(y, m) \in Int
    BY MonthIs
  <2>2. DaysBefore(y, 0) = 0
    BY YearBegins
  <2>3. YearDay(y) \in Int
    BY <1>1, YearIs
  <2> QED
    BY <2>1, <2>2, <2>3 DEF First, NextFirst
<1> QED
  BY <1>2 DEF On

LEMMA MonthUnique ==
    ASSUME NEW day \in Int, NEW y \in Int, NEW m \in 0..11, First(y, m) <= day, day < NextFirst(y, m),
           NEW k \in 0..11, First(y, k) <= day, day < NextFirst(y, k)
    PROVE  k = m
<1>1. ASSUME NEW a \in 0..11, NEW b \in 0..11, a < b PROVE NextFirst(y, a) <= First(y, b)
  <2>1. DaysBefore(y, a + 1) <= DaysBefore(y, b)
    BY <1>1, MonthsFollow
  <2>2. a + 1 \in 0..11 /\ a # 11
    BY <1>1
  <2>3. YearDay(y) \in Int /\ DaysBefore(y, a + 1) \in Int /\ DaysBefore(y, b) \in Int
    BY <2>2, MonthIs, YearIs
  <2> QED
    BY <2>1, <2>2, <2>3 DEF First, NextFirst
<1>2. First(y, m) \in Int /\ NextFirst(y, m) \in Int /\ First(y, k) \in Int /\ NextFirst(y, k) \in Int
  BY FirstIs
<1>3. ~(k < m)
  BY <1>1, <1>2
<1>4. ~(m < k)
  BY <1>1, <1>2
<1> QED
  BY <1>3, <1>4

LEMMA GmtimeIs ==
    ASSUME NEW ts \in Int, NEW y, NEW m, On(DayOf(ts), y, m)
    PROVE  gmtime(ts) = [year |-> y, mon |-> m, mday |-> DayOf(ts) - First(y, m) + 1,
                         hour |-> HourOf(ts), min |-> MinuteOf(ts), sec |-> SecondOf(ts)]
<1> DEFINE day == DayOf(ts)
           In(x) == YearDay(x) <= day /\ day < YearDay(x + 1)
           InMonth(x) == /\ YearDay(y) + DaysBefore(y, x) <= day
                         /\ x = 11 \/ day < YearDay(y) + DaysBefore(y, x + 1)
<1>1. day \in Int /\ y \in Years /\ y \in Int /\ m \in 0..11 /\ First(y, m) <= day /\ day < NextFirst(y, m)
  BY CalendarAssumption DEF On, DayOf
<1> HIDE DEF day
<1>2. In(y)
  <2>1. /\ First(y, m) \in Int /\ NextFirst(y, m) \in Int
        /\ YearDay(y) <= First(y, m) /\ NextFirst(y, m) <= YearDay(y + 1)
    BY <1>1, FirstIs
  <2>2. YearDay(y) \in Int
    BY <1>1, YearIs
  <2>3. YearDay(y + 1) \in Int
    <3>1. y + 1 \in Int
      BY <1>1
    <3> QED
      BY <3>1, YearIs
  <2> QED
    BY <1>1, <2>1, <2>2, <2>3
<1>3. ASSUME NEW x \in Years, In(x) PROVE x = y
  <2>1. x \in Int /\ YearDay(x) \in Int /\ YearDay(y) \in Int /\ YearDay(x + 1) \in Int /\ YearDay(y + 1) \in Int
    <3>1. x \in Int /\ x + 1 \in Int /\ y + 1 \in Int
      BY CalendarAssumption, <1>1
    <3> QED
      BY <1>1, <3>1, YearIs
  <2>2. ~(x < y)
    BY <2>1, <1>1, <1>2, <1>3, YearsFollow
  <2>3. ~(y < x)
    BY <2>1, <1>1, <1>2, <1>3, YearsFollow
  <2> QED
    BY <2>1, <2>2, <2>3, <1>1
<1>4. YearOf(day) = y
  BY <1>1, <1>2, <1>3 DEF YearOf
<1>5. InMonth(m)
  BY <1>1 DEF First, NextFirst
<1>6. ASSUME NEW x \in 0..11, InMonth(x) PROVE x = m
  <2>1. First(y, x) <= day /\ day < NextFirst(y, x)
    BY <1>6, <1>2 DEF First, NextFirst
  <2> QED
    BY <1>1, <2>1, MonthUnique
<1>7. MonthOf(y, day) = m
  BY <1>1, <1>5, <1>6 DEF MonthOf
<1>8. YearDay(y) \in Int
  BY <1>1, YearIs
<1>9. DaysBefore(y, m) \in Int
  BY <1>1, MonthIs
<1>10. day - First(y, m) + 1 = day - YearDay(y) - DaysBefore(y, m) + 1
  BY <1>1, <1>8, <1>9 DEF First
<1>11. gmtime(ts) = [year |-> YearOf(DayOf(ts)), mon |-> MonthOf(YearOf(DayOf(ts)), DayOf(ts)),
                     mday |-> DayOf(ts) - YearDay(YearOf(DayOf(ts)))
                                - DaysBefore(YearOf(DayOf(ts)), MonthOf(YearOf(DayOf(ts)), DayOf(ts))) + 1,
                     hour |-> HourOf(ts), min |-> MinuteOf(ts), sec |-> SecondOf(ts)]
  BY DEF gmtime, DayOf, HourOf, MinuteOf, SecondOf
<1>12. gmtime(ts) = [year |-> y, mon |-> m, mday |-> day - YearDay(y) - DaysBefore(y, m) + 1,
                     hour |-> HourOf(ts), min |-> MinuteOf(ts), sec |-> SecondOf(ts)]
  BY <1>4, <1>7, <1>11, Zenon DEF day
<1> QED
  BY <1>10, <1>12, Zenon DEF day

LEMMA TimegmIs ==
    ASSUME NEW y, NEW m, NEW d, NEW h, NEW i, NEW s,
           y \in Int, m \in 0..11, d \in Int, h \in Int, i \in Int, s \in Int
    PROVE  timegm([year |-> y, mon |-> m, mday |-> d, hour |-> h, min |-> i, sec |-> s])
             = 86400 * (First(y, m) + d - 1) + 3600 * h + 60 * i + s
<1>1. m \div 12 = 0 /\ m % 12 = m /\ y + 0 = y
  OBVIOUS
<1> QED
  BY <1>1 DEF timegm, First

LEMMA Seconds ==
    ASSUME NEW ts \in Int
    PROVE  /\ DayOf(ts) \in Int /\ HourOf(ts) \in Int /\ MinuteOf(ts) \in Int /\ SecondOf(ts) \in Int
           /\ 86400 * DayOf(ts) <= ts /\ ts <= 86400 * DayOf(ts) + 86399
           /\ 86400 * DayOf(ts) + 3600 * HourOf(ts) + 60 * MinuteOf(ts) + SecondOf(ts) = ts
<1> DEFINE r == ts % 86400
<1>1. /\ DayOf(ts) \in Int /\ r = ts - 86400 * DayOf(ts)
      /\ r >= 0 /\ r <= 86399
  BY DEF DayOf
<1>2. r \in Int
  OBVIOUS
<1>3. HourOf(ts) = r \div 3600 /\ MinuteOf(ts) = (r % 3600) \div 60 /\ SecondOf(ts) = r % 60
  BY DEF HourOf, MinuteOf, SecondOf
<1> HIDE DEF r
<1>4. r \div 3600 \in Int /\ r % 3600 \in Int /\ r % 3600 = r - 3600 * (r \div 3600) /\ r % 60 = (r % 3600) % 60
  BY <1>2
<1> DEFINE p == r % 3600
<1>5. p \in Int /\ p = r - 3600 * HourOf(ts) /\ HourOf(ts) \in Int
  BY <1>3, <1>4
<1>6. MinuteOf(ts) = p \div 60 /\ SecondOf(ts) = p % 60
  BY <1>3, <1>4
<1> HIDE DEF p
<1>7. p \div 60 \in Int /\ p % 60 \in Int /\ p % 60 = p - 60 * (p \div 60)
  BY <1>5
<1>8. MinuteOf(ts) \in Int /\ SecondOf(ts) \in Int /\ SecondOf(ts) = p - 60 * MinuteOf(ts)
  BY <1>6, <1>7
<1> QED
  BY ONLY ts \in Int, <1>1, <1>2, <1>5, <1>8

LEMMA StampIs ==
    ASSUME NEW ts \in Int, NEW y, NEW m, On(DayOf(ts), y, m), NEW g
    PROVE  parseDateTime(string_time(ts), g) = ts
<1>1. PICK d, h, i, s : /\ d = DayOf(ts) - First(y, m) + 1 /\ h = HourOf(ts)
                        /\ i = MinuteOf(ts) /\ s = SecondOf(ts)
  OBVIOUS
<1>2. gmtime(ts) = [year |-> y, mon |-> m, mday |-> d, hour |-> h, min |-> i, sec |-> s]
  BY <1>1, GmtimeIs
<1>3. y \in 1900..4900 /\ y \in Int /\ m \in 0..11
  BY CalendarAssumption DEF On
<1>4. First(y, m) \in Int
  BY ONLY <1>3, FirstIs
<1>5. DayOf(ts) \in Int /\ h \in Int /\ i \in Int /\ s \in Int /\ 86400 * DayOf(ts) + 3600 * h + 60 * i + s = ts
  BY <1>1, Seconds
<1>6. d \in Int /\ First(y, m) + d - 1 = DayOf(ts)
  BY <1>1, <1>4, <1>5
<1>7. PICK t : t = string_time(ts)
  OBVIOUS
<1>8. t = <<y, m + 1, d, h, i, s>>
  BY <1>2, <1>3, <1>7 DEF string_time
<1>9. parseDateTime(t, g) = timegm([year |-> y, mon |-> m, mday |-> d, hour |-> h, min |-> i, sec |-> s])
  <2>1. t # <<>> /\ Len(t) = 6 /\ t[1] = y /\ t[2] = m + 1 /\ t[3] = d /\ t[4] = h /\ t[5] = i /\ t[6] = s
    BY <1>8
  <2>2. PICK f : f = [k \in 1..6 |-> IF k <= Len(t) THEN t[k] ELSE g]
    OBVIOUS
  <2>3. f[1] = y /\ f[2] - 1 = m /\ f[3] = d /\ f[4] = h /\ f[5] = i /\ f[6] = s
    BY <1>3, <2>1, <2>2
  <2>4. parseDateTime(t, g) = timegm([year |-> f[1], mon |-> f[2] - 1, mday |-> f[3],
                                      hour |-> f[4], min |-> f[5], sec |-> f[6]])
    BY ONLY <2>1, <2>2, Zenon DEF parseDateTime
  <2> QED
    BY <2>3, <2>4, Zenon
<1>10. timegm([year |-> y, mon |-> m, mday |-> d, hour |-> h, min |-> i, sec |-> s])
         = 86400 * (First(y, m) + d - 1) + 3600 * h + 60 * i + s
  <2>1. y \in Int /\ m \in 0..11 /\ d \in Int /\ h \in Int /\ i \in Int /\ s \in Int
    BY <1>3, <1>5, <1>6
  <2> QED
    BY ONLY <2>1, TimegmIs
<1>11. timegm([year |-> y, mon |-> m, mday |-> d, hour |-> h, min |-> i, sec |-> s]) = ts
  BY <1>5, <1>6, <1>10
<1> QED
  BY <1>7, <1>9, <1>11, Zenon

LEMMA MidnightIs ==
    ASSUME NEW y, NEW m, NEW d, y \in Int, m \in 0..11, d \in Int
    PROVE  timegm(Midnight(y, m, d)) = 86400 * (First(y, m) + d - 1)
<1>1. 0 \in Int
  OBVIOUS
<1>2. timegm([year |-> y, mon |-> m, mday |-> d, hour |-> 0, min |-> 0, sec |-> 0])
        = 86400 * (First(y, m) + d - 1) + 3600 * 0 + 60 * 0 + 0
  BY ONLY <1>1, TimegmIs, y \in Int, m \in 0..11, d \in Int
<1>3. First(y, m) \in Int
  BY FirstIs
<1> QED
  BY <1>2, <1>3 DEF Midnight

\* Midnight, the first midnight of the month, and the first of the next one, in a time zone.
LEMMA PeriodIs ==
    ASSUME NEW t, t \in Int, NEW z, z \in Int, NEW y, NEW m, On(DayOf(Local(t, z)), y, m)
    PROVE  /\ get_day_ts(t, z) = 86400 * DayOf(Local(t, z)) - 3600 * z
           /\ get_month_ts(t, z) = 86400 * First(y, m) - 3600 * z
           /\ get_month_end_ts(t, z) = 86400 * NextFirst(y, m) - 1 - 3600 * z
<1> DEFINE u == Local(t, z)
<1>1. PICK tm : tm = gmtime(u)
  OBVIOUS
<1>2. u \in Int /\ y \in Int /\ m \in 0..11 /\ On(DayOf(u), y, m)
  BY CalendarAssumption DEF On, Local
<1>3. PICK d : d = DayOf(u) - First(y, m) + 1
  OBVIOUS
<1>4. tm.year = y /\ tm.mon = m /\ tm.mday = d
  BY <1>1, <1>2, <1>3, GmtimeIs
<1>5. First(y, m) \in Int
  BY ONLY <1>2, FirstIs
<1>6. DayOf(u) \in Int
  BY ONLY <1>2 DEF DayOf
<1>7. d \in Int /\ 1 \in Int /\ First(y, m) + d - 1 = DayOf(u)
  BY <1>3, <1>5, <1>6
<1>8. get_day_ts(t, z) = 86400 * DayOf(u) - 3600 * z
  <2>1. get_day_ts(t, z) = timegm(Midnight(y, m, d)) - 3600 * z
    <3>1. get_day_ts(t, z) = timegm(Midnight(tm.year, tm.mon, tm.mday)) - 3600 * z
      BY <1>1 DEF get_day_ts, Local
    <3> QED
      BY ONLY <1>4, <3>1
  <2>2. timegm(Midnight(y, m, d)) = 86400 * (First(y, m) + d - 1)
    BY ONLY <1>2, <1>7, MidnightIs
  <2> QED
    BY <2>1, <2>2, <1>7
<1>9. get_month_ts(t, z) = 86400 * First(y, m) - 3600 * z
  <2>1. get_month_ts(t, z) = timegm(Midnight(y, m, 1)) - 3600 * z
    <3>1. get_month_ts(t, z) = timegm(Midnight(tm.year, tm.mon, 1)) - 3600 * z
      BY <1>1 DEF get_month_ts, Local
    <3> QED
      BY ONLY <1>4, <3>1
  <2>2. timegm(Midnight(y, m, 1)) = 86400 * (First(y, m) + 1 - 1)
    BY ONLY <1>2, <1>7, MidnightIs
  <2> QED
    BY <2>1, <2>2, <1>5
<1>10. get_month_end_ts(t, z) = 86400 * NextFirst(y, m) - 1 - 3600 * z
  <2>1. get_month_end_ts(t, z)
          = timegm(IF m + 1 = 12 THEN Midnight(y + 1, 0, 1) ELSE Midnight(y, m + 1, 1)) - 1 - 3600 * z
    <3>1. get_month_end_ts(t, z)
            = timegm(IF tm.mon + 1 = 12 THEN Midnight(tm.year + 1, 0, 1) ELSE Midnight(tm.year, tm.mon + 1, 1))
                - 1 - 3600 * z
      BY <1>1 DEF get_month_end_ts, Local
    <3> QED
      BY ONLY <1>4, <3>1
  <2>2. CASE m = 11
    <3>1. y + 1 \in Int /\ 0 \in 0..11
      BY <1>2
    <3>2. timegm(Midnight(y + 1, 0, 1)) = 86400 * (First(y + 1, 0) + 1 - 1)
      BY ONLY <1>7, <3>1, MidnightIs
    <3>3. DaysBefore(y + 1, 0) = 0
      BY YearBegins
    <3>4. YearDay(y + 1) \in Int
      BY ONLY <3>1, YearIs
    <3>5. First(y + 1, 0) = NextFirst(y, m) /\ NextFirst(y, m) \in Int
      BY <2>2, <3>3, <3>4 DEF First, NextFirst
    <3>6. get_month_end_ts(t, z) = timegm(Midnight(y + 1, 0, 1)) - 1 - 3600 * z
      BY <2>1, <2>2
    <3> QED
      BY <3>2, <3>5, <3>6
  <2>3. CASE m # 11
    <3>1. m + 1 \in 0..11
      BY <1>2, <2>3
    <3>2. timegm(Midnight(y, m + 1, 1)) = 86400 * (First(y, m + 1) + 1 - 1)
      BY ONLY <1>2, <1>7, <3>1, MidnightIs
    <3>3. First(y, m + 1) \in Int
      BY ONLY <1>2, <3>1, FirstIs
    <3>4. First(y, m + 1) = NextFirst(y, m)
      BY <2>3 DEF NextFirst
    <3>5. get_month_end_ts(t, z) = timegm(Midnight(y, m + 1, 1)) - 1 - 3600 * z
      BY <1>2, <2>1, <2>3
    <3> QED
      BY <3>2, <3>3, <3>4, <3>5
  <2> QED
    BY <2>2, <2>3
<1> QED
  BY <1>8, <1>9, <1>10

LEMMA NextMonth ==
    ASSUME NEW y, NEW m, NEW day, On(day, y, m), y + 1 \in Years
    PROVE  \E c, k : On(NextFirst(y, m), c, k) /\ First(c, k) = NextFirst(y, m)
<1>1. y \in Years /\ y \in Int /\ y + 1 \in Int /\ m \in 0..11
  BY CalendarAssumption DEF On
<1>2. CASE m = 11
  <2>1. First(y + 1, 0) = NextFirst(y, m)
    <3>1. DaysBefore(y + 1, 0) = 0
      BY YearBegins
    <3>2. YearDay(y + 1) \in Int
      BY ONLY <1>1, YearIs
    <3> QED
      BY <1>2, <3>1, <3>2 DEF First, NextFirst
  <2>2. 0 \in 0..11
    OBVIOUS
  <2>3. First(y + 1, 0) \in Int /\ NextFirst(y + 1, 0) \in Int /\ First(y + 1, 0) < NextFirst(y + 1, 0)
    BY ONLY <1>1, <2>2, FirstIs
  <2>4. On(NextFirst(y, m), y + 1, 0)
    BY <2>1, <2>2, <2>3 DEF On
  <2> QED
    BY <2>1, <2>4
<1>3. CASE m # 11
  <2>1. First(y, m + 1) = NextFirst(y, m)
    BY <1>3 DEF NextFirst
  <2>2. m + 1 \in 0..11
    BY <1>1, <1>3
  <2>3. First(y, m + 1) \in Int /\ NextFirst(y, m + 1) \in Int /\ First(y, m + 1) < NextFirst(y, m + 1)
    BY ONLY <1>1, <2>2, FirstIs
  <2>4. On(NextFirst(y, m), y, m + 1)
    BY <1>1, <2>1, <2>2, <2>3 DEF On
  <2> QED
    BY <2>1, <2>4
<1> QED
  BY <1>2, <1>3

\* Days and months of a time zone, for every moment that the calendar covers.
LEMMA Tiled ==
    ASSUME NEW t, t \in Int, NEW z, z \in Int, NEW y, y \in Years, y + 1 \in Years,
           YearDay(y) <= DayOf(Local(t, z)), DayOf(Local(t, z)) < YearDay(y + 1),
           NEW day, day = get_day_ts(t, z), NEW month, month = get_month_ts(t, z),
           NEW monthEnd, monthEnd = get_month_end_ts(t, z)
    PROVE  /\ day <= t /\ t <= day + 86399 /\ month <= day /\ day + 86399 <= monthEnd
           /\ get_day_ts(day + 86399 + 1, z) = day + 86399 + 1
           /\ get_month_ts(monthEnd + 1, z) = monthEnd + 1
           /\ get_month_end_ts(month, z) = monthEnd
<1>1. PICK D : D = DayOf(Local(t, z))
  OBVIOUS
<1>2. D \in Int /\ 86400 * D <= t + 3600 * z /\ t + 3600 * z <= 86400 * D + 86399
  BY <1>1 DEF DayOf, Local
<1>3. PICK m \in 0..11 : On(D, y, m)
  BY <1>1, <1>2, MonthExists
<1>4. y \in Int /\ m \in 0..11 /\ First(y, m) <= D /\ D < NextFirst(y, m)
  BY <1>3, CalendarAssumption DEF On
<1>5. First(y, m) \in Int /\ NextFirst(y, m) \in Int /\ First(y, m) < NextFirst(y, m)
  BY ONLY <1>4, FirstIs
<1>6. /\ day = 86400 * D - 3600 * z /\ month = 86400 * First(y, m) - 3600 * z
      /\ monthEnd = 86400 * NextFirst(y, m) - 1 - 3600 * z
  <2>1. On(DayOf(Local(t, z)), y, m)
    BY ONLY <1>1, <1>3
  <2>2. /\ get_day_ts(t, z) = 86400 * DayOf(Local(t, z)) - 3600 * z
        /\ get_month_ts(t, z) = 86400 * First(y, m) - 3600 * z
        /\ get_month_end_ts(t, z) = 86400 * NextFirst(y, m) - 1 - 3600 * z
    BY ONLY <2>1, PeriodIs, t \in Int, z \in Int
  <2> QED
    BY <1>1, <2>2
<1>7. day <= t /\ t <= day + 86399 /\ month <= day /\ day + 86399 <= monthEnd
  BY <1>1, <1>2, <1>4, <1>5, <1>6
<1>8. PICK c, k : On(NextFirst(y, m), c, k) /\ First(c, k) = NextFirst(y, m)
  BY <1>3, NextMonth
<1>9. ASSUME NEW n, n \in Int, NEW s, s = 86400 * n - 3600 * z, NEW a, NEW b, On(n, a, b)
      PROVE  /\ get_day_ts(s, z) = s /\ get_month_ts(s, z) = 86400 * First(a, b) - 3600 * z
             /\ get_month_end_ts(s, z) = 86400 * NextFirst(a, b) - 1 - 3600 * z
  <2>1. s \in Int
    BY <1>9
  <2>2. Local(s, z) = 86400 * n
    BY <1>9 DEF Local
  <2>3. DayOf(Local(s, z)) = n
    BY <1>9, <2>2 DEF DayOf
  <2>4. On(DayOf(Local(s, z)), a, b)
    BY <1>9, <2>3
  <2>5. /\ get_day_ts(s, z) = 86400 * DayOf(Local(s, z)) - 3600 * z
        /\ get_month_ts(s, z) = 86400 * First(a, b) - 3600 * z
        /\ get_month_end_ts(s, z) = 86400 * NextFirst(a, b) - 1 - 3600 * z
    BY ONLY <2>1, <2>4, PeriodIs, z \in Int
  <2> QED
    BY ONLY s = 86400 * n - 3600 * z, <2>3, <2>5
<1>10. get_day_ts(day + 86399 + 1, z) = day + 86399 + 1
  <2>1. D + 1 \in Int /\ day + 86399 + 1 = 86400 * (D + 1) - 3600 * z
    BY <1>2, <1>6
  <2>2. \E a, b : On(D + 1, a, b)
    <3>1. CASE D + 1 = NextFirst(y, m)
      BY <3>1, <1>8
    <3>2. CASE D + 1 # NextFirst(y, m)
      BY <3>2, <1>2, <1>3, <1>4, <1>5 DEF On
    <3> QED
      BY <3>1, <3>2
  <2> QED
    BY ONLY <2>1, <2>2, <1>9
<1>11. get_month_ts(monthEnd + 1, z) = monthEnd + 1
  <2>1. monthEnd + 1 = 86400 * NextFirst(y, m) - 3600 * z
    BY <1>5, <1>6
  <2> QED
    BY ONLY <2>1, <1>5, <1>8, <1>9
<1>12. get_month_end_ts(month, z) = monthEnd
  <2>1. On(First(y, m), y, m)
    BY <1>3, <1>4, <1>5 DEF On
  <2> QED
    BY ONLY <2>1, <1>5, <1>6, <1>9
<1> QED
  BY <1>7, <1>10, <1>11, <1>12

\* What the time helpers are called with, and what they have returned.
TimesInv ==
    /\ call.fn = "stamp" =>
          /\ call.arg \in Moments
          /\ result = <<>> \/ result = <<parseDateTime(string_time(call.arg), 0)>>
    /\ call.fn = "period" =>
          /\ call.arg \in Moments /\ call.zone \in Zones
          /\ result = <<>> \/ result = <<[day |-> get_day_ts(call.arg, call.zone),
                                        dayEnd |-> get_day_end_ts(call.arg, call.zone),
                                        month |-> get_month_ts(call.arg, call.zone),
                                        monthEnd |-> get_month_end_ts(call.arg, call.zone)]>>

LEMMA TimesStart == ASSUME Init PROVE TimesInv
<1>1. call \in Calls /\ result = <<>>
  BY DEF Init
<1>2. ASSUME call.fn \in {"stamp", "period"}
      PROVE  call \in [fn : {"stamp", "human"}, arg : Moments] \cup [fn : {"period"}, arg : Moments, zone : Zones]
  <2>1. call \notin RowCalls
    BY <1>2, RowCall
  <2>2. call \notin SelectCalls /\ call \notin PullCalls
    BY <1>2 DEF SelectCalls, PullCalls
  <2> QED
    BY <1>1, <1>2, <2>1, <2>2 DEF Calls, Parts
<1> QED
  BY <1>1, <1>2 DEF TimesInv

LEMMA TimesStep == ASSUME TimesInv, [Next]_vars PROVE TimesInv'
<1>1. CASE UNCHANGED helperVars
  BY <1>1 DEF helperVars, TimesInv
<1>2. CASE Stamp
  BY <1>2 DEF Stamp, Return, TimesInv
<1>3. CASE Period
  BY <1>3 DEF Period, Return, TimesInv
<1>4. CASE ReadRow \/ LoadList \/ Select \/ Split \/ ParseUrl \/ Base64 \/ ToNumber \/ Human
           \/ Exec \/ PullRows \/ MakeReport
  <2>1. call.fn \notin {"stamp", "period"} /\ call' = call
    BY <1>4 DEF ReadRow, LoadList, Select, Split, ParseUrl, Base64, ToNumber, Human,
                Exec, PullRows, MakeReport, Return
  <2> QED
    BY <2>1 DEF TimesInv
<1>5. CASE UNCHANGED vars
  BY <1>5, <1>1 DEF vars
<1> QED
  BY <1>1, <1>2, <1>3, <1>4, <1>5 DEF Next, helperVars

LEMMA MomentIn ==
    ASSUME NEW t \in Moments, NEW z \in Zones \cup {0}
    PROVE  /\ t \in Int /\ z \in Int
           /\ \E y \in Years : /\ y + 1 \in Years
                               /\ YearDay(y) <= DayOf(Local(t, z)) /\ DayOf(Local(t, z)) < YearDay(y + 1)
BY MomentsAssumption DEF DayOf, Local

LEMMA StampBack == ASSUME TimesInv PROVE StampReadBack
<1> SUFFICES ASSUME Returned("stamp") PROVE result[1] = call.arg
  BY DEF StampReadBack
<1>1. PICK t \in Moments : t = call.arg
  BY DEF Returned, TimesInv
<1>2. result = <<parseDateTime(string_time(t), 0)>>
  BY <1>1 DEF Returned, TimesInv
<1>3. 0 \in Zones \cup {0}
  OBVIOUS
<1>4. /\ t \in Int
      /\ \E y \in Years : YearDay(y) <= DayOf(Local(t, 0)) /\ DayOf(Local(t, 0)) < YearDay(y + 1)
  BY <1>3, MomentIn
<1>5. Local(t, 0) = t /\ DayOf(t) \in Int
  BY <1>4 DEF Local, DayOf
<1>6. PICK y \in Years : YearDay(y) <= DayOf(t) /\ DayOf(t) < YearDay(y + 1)
  BY <1>4, <1>5
<1>7. PICK m \in 0..11 : On(DayOf(t), y, m)
  BY <1>5, <1>6, MonthExists
<1>8. parseDateTime(string_time(t), 0) = t
  BY <1>4, <1>7, StampIs
<1> QED
  BY <1>1, <1>2, <1>8

LEMMA PeriodsTiled == ASSUME TimesInv PROVE PeriodsTile
<1> SUFFICES ASSUME Returned("period") PROVE PeriodsTile
  BY DEF PeriodsTile
<1>1. PICK t \in Moments, z \in Zones : t = call.arg /\ z = call.zone
  BY DEF Returned, TimesInv
<1>2. PICK day, month, monthEnd : /\ day = get_day_ts(t, z) /\ month = get_month_ts(t, z)
                                  /\ monthEnd = get_month_end_ts(t, z)
  OBVIOUS
<1> DEFINE p == [day |-> day, dayEnd |-> day + 86399, month |-> month, monthEnd |-> monthEnd]
<1>3. p.day = day /\ p.dayEnd = day + 86399 /\ p.month = month /\ p.monthEnd = monthEnd
  OBVIOUS
<1>4. result[1] = p
  <2>1. result = <<[day |-> get_day_ts(t, z), dayEnd |-> get_day_end_ts(t, z),
                    month |-> get_month_ts(t, z), monthEnd |-> get_month_end_ts(t, z)]>>
    BY <1>1, Zenon DEF Returned, TimesInv
  <2>2. get_day_end_ts(t, z) = day + 86399
    BY <1>2 DEF get_day_end_ts
  <2> QED
    BY ONLY <1>2, <2>1, <2>2
<1> HIDE DEF p
<1>5. /\ t \in Int /\ z \in Int
      /\ \E y \in Years : /\ y + 1 \in Years
                          /\ YearDay(y) <= DayOf(Local(t, z)) /\ DayOf(Local(t, z)) < YearDay(y + 1)
  BY MomentIn
<1>6. /\ day <= t /\ t <= day + 86399 /\ month <= day /\ day + 86399 <= monthEnd
      /\ get_day_ts(day + 86399 + 1, z) = day + 86399 + 1
      /\ get_month_ts(monthEnd + 1, z) = monthEnd + 1
      /\ get_month_end_ts(month, z) = monthEnd
  <2>1. PICK y : /\ y \in Years /\ y + 1 \in Years
                 /\ YearDay(y) <= DayOf(Local(t, z)) /\ DayOf(Local(t, z)) < YearDay(y + 1)
    BY ONLY <1>5
  <2> QED
    BY ONLY <1>2, <1>5, <2>1, Tiled
<1> QED
  BY ONLY <1>1, <1>3, <1>4, <1>6 DEF PeriodsTile

\* Whatever moment of the calendar is asked for, in whatever time zone: the
\* stamp that string_time writes is read back by parseDateTime as the same
\* second, and get_day_ts ... get_month_end_ts return days and months that
\* contain the moment and follow one another without a gap.
THEOREM TimesExact == Spec => [](StampReadBack /\ PeriodsTile)
<1>1. Init => TimesInv
  BY TimesStart
<1>2. TimesInv /\ [Next]_vars => TimesInv'
  BY TimesStep
<1>3. TimesInv => StampReadBack /\ PeriodsTile
  BY StampBack, PeriodsTiled
<1> QED
  BY <1>1, <1>2, <1>3, PTL DEF Spec

-----------------------------------------------------------------------------
(* RingBuffer is correct for every capacity and every type of element: its *)
(* indices stay consistent (RingOK, which is inductive), and copy_to is    *)
(* what LastPushed promises.                                               *)

\* x % S without a division, for an index that wraps at most twice.
LEMMA RingWrap ==
    ASSUME NEW x \in Nat, x < 3 * S
    PROVE  x % S = IF x < S THEN x ELSE IF x < 2 * S THEN x - S ELSE x - 2 * S
  BY CapacityAssumption

\* Where m_back is when the indices are consistent.
LEMMA RingBackIs ==
    ASSUME NEW f \in Index, NEW n \in 0..S
    PROVE  (f + n + (S - 1)) % S = IF f + n = 0 THEN S - 1
                                   ELSE IF f + n <= S THEN f + n - 1
                                   ELSE f + n - 1 - S
  <1> DEFINE x == f + n + (S - 1)
  <1>1. x \in Nat /\ x < 3 * S /\ S \in Nat
    BY CapacityAssumption DEF Index
  <1>2. x % S = IF x < S THEN x ELSE IF x < 2 * S THEN x - S ELSE x - 2 * S
    BY <1>1, RingWrap
  <1>3. (IF x < S THEN x ELSE IF x < 2 * S THEN x - S ELSE x - 2 * S)
           = IF f + n = 0 THEN S - 1
             ELSE IF f + n <= S THEN f + n - 1
             ELSE f + n - 1 - S
    BY CapacityAssumption DEF Index
  <1> QED
    BY <1>2, <1>3

\* The index after f.
LEMMA RingNextIs ==
    ASSUME NEW f \in Index
    PROVE  (f + 1) % S = IF f + 1 = S THEN 0 ELSE f + 1
  <1> DEFINE x == f + 1
  <1>1. x \in Nat /\ x < 3 * S
    BY CapacityAssumption DEF Index
  <1>2. x % S = IF x < S THEN x ELSE IF x < 2 * S THEN x - S ELSE x - 2 * S
    BY <1>1, RingWrap
  <1> QED
    BY <1>2, CapacityAssumption DEF Index

\* The k-th slot after f.
Slot(f, k) == IF f + k < S THEN f + k ELSE f + k - S

\* It is the index the code computes with %, and it is in the array.
LEMMA SlotIs ==
    ASSUME NEW f \in Index, NEW k \in 0..S
    PROVE  (f + k) % S = Slot(f, k) /\ Slot(f, k) \in Index
  <1> DEFINE x == f + k
  <1>1. x \in Nat /\ x < 3 * S
    BY CapacityAssumption DEF Index
  <1>2. x % S = IF x < S THEN x ELSE IF x < 2 * S THEN x - S ELSE x - 2 * S
    BY <1>1, RingWrap
  <1> QED
    BY <1>2, CapacityAssumption DEF Index, Slot

-----------------------------------------------------------------------------
(* The indices. *)

\* The initial buffer is consistent.
LEMMA RingStarts == RingInit => RingOK
  <1> SUFFICES ASSUME RingInit PROVE RingOK
    OBVIOUS
  <1>1. 0 \in Index /\ 0 \in 0..S /\ S \in Nat \ {0}
    BY CapacityAssumption DEF Index
  <1>2. (0 + 0 + (S - 1)) % S = S - 1
    BY <1>1, RingBackIs
  <1> QED
    BY <1>1, <1>2 DEF RingInit, RingOK

\* RingOK without a division.
Consistent(f, n, b) ==
    /\ f \in Index /\ n \in 0..S /\ b \in Index
    /\ b = IF f + n = 0 THEN S - 1
           ELSE IF f + n <= S THEN f + n - 1
           ELSE f + n - 1 - S

\* What RingOK says of the indices.
LEMMA ConsistentIs ==
    ASSUME NEW f, NEW n, NEW b
    PROVE  (f \in Index /\ n \in 0..S /\ b = (f + n + (S - 1)) % S) <=> Consistent(f, n, b)
  <1>1. CASE f \in Index /\ n \in 0..S
    BY <1>1, RingBackIs, CapacityAssumption DEF Consistent, Index
  <1>2. CASE ~(f \in Index /\ n \in 0..S)
    BY <1>2 DEF Consistent
  <1> QED
    BY <1>1, <1>2

\* push leaves the indices consistent, on a full buffer, too.
LEMMA PushStep ==
    ASSUME RingOK, NEW x \in Values, push(x)
    PROVE  /\ RingOK'
           /\ m_back' = Slot(m_front, IF m_size = S THEN 0 ELSE m_size)
           /\ m_front' = IF m_size = S THEN Slot(m_front, 1) ELSE m_front
  <1>1. m_buffer \in [Index -> Values] /\ Consistent(m_front, m_size, m_back)
    BY ConsistentIs DEF RingOK
  <1>2. /\ (m_back + 1) % S = (IF m_back + 1 = S THEN 0 ELSE m_back + 1)
        /\ (m_front + 1) % S = (IF m_front + 1 = S THEN 0 ELSE m_front + 1)
    BY <1>1, RingNextIs DEF Consistent
  <1>3. /\ m_back' = IF m_back + 1 = S THEN 0 ELSE m_back + 1
        /\ m_front' = IF m_size = S THEN (IF m_front + 1 = S THEN 0 ELSE m_front + 1)
                      ELSE m_front
        /\ m_size' = IF m_size = S THEN m_size ELSE m_size + 1
        /\ m_buffer' = [m_buffer EXCEPT ![m_back'] = x]
    BY <1>2 DEF push
  <1>4. Consistent(m_front', m_size', m_back')
    BY <1>1, <1>3, CapacityAssumption DEF Consistent, Index
  <1>5. m_buffer' \in [Index -> Values]
    BY <1>1, <1>3
  <1>6. RingOK'
    BY <1>4, <1>5, ConsistentIs DEF RingOK
  <1> QED
    BY <1>1, <1>3, <1>6, CapacityAssumption DEF Consistent, Index, Slot

\* pop leaves the indices consistent, on an empty buffer, too.
LEMMA PopStep ==
    ASSUME RingOK, pop
    PROVE  /\ RingOK'
           /\ m_front' = IF m_size > 0 THEN Slot(m_front, 1) ELSE m_front
  <1>1. m_buffer \in [Index -> Values] /\ Consistent(m_front, m_size, m_back)
    BY ConsistentIs DEF RingOK
  <1>2. (m_front + 1) % S = (IF m_front + 1 = S THEN 0 ELSE m_front + 1)
    BY <1>1, RingNextIs DEF Consistent
  <1>3. /\ m_front' = IF m_size > 0 THEN (IF m_front + 1 = S THEN 0 ELSE m_front + 1)
                      ELSE m_front
        /\ m_size' = IF m_size > 0 THEN m_size - 1 ELSE m_size
        /\ m_back' = m_back
        /\ m_buffer' = m_buffer
    BY <1>2 DEF pop
  <1>4. Consistent(m_front', m_size', m_back')
    BY <1>1, <1>3, CapacityAssumption DEF Consistent, Index
  <1>5. RingOK'
    BY <1>1, <1>3, <1>4, ConsistentIs DEF RingOK
  <1> QED
    BY <1>1, <1>3, <1>5, CapacityAssumption DEF Consistent, Index, Slot

\* clear leaves the indices consistent.
LEMMA ClearStep ==
    ASSUME RingOK, clear
    PROVE  RingOK'
  <1>1. Consistent(0, 0, S - 1)
    BY CapacityAssumption DEF Consistent, Index
  <1> QED
    BY <1>1, ConsistentIs DEF RingOK, clear

\* Every call leaves the indices consistent.
LEMMA RingStep == RingOK /\ [RingNext]_ringVars => RingOK'
  <1> SUFFICES ASSUME RingOK, [RingNext]_ringVars PROVE RingOK'
    OBVIOUS
  <1>1. ASSUME NEW x \in Values, push(x) PROVE RingOK'
    BY <1>1, PushStep
  <1>2. CASE pop
    BY <1>2, PopStep
  <1>3. CASE clear
    BY <1>3, ClearStep
  <1>4. CASE UNCHANGED ringVars
    BY <1>4 DEF ringVars, RingOK
  <1> QED
    BY <1>1, <1>2, <1>3, <1>4 DEF RingNext

\* For every capacity and element type the indices of a RingBuffer stay in
\* the array and consistent with its size.
THEOREM RingCorrect == RingSpec => []RingOK
  BY RingStarts, RingStep, PTL DEF RingSpec

-----------------------------------------------------------------------------
(* The contents. *)

CopyOK ==
    /\ copy_to \in Seq(Values)
    /\ Len(copy_to) = m_size
    /\ \A i \in 1..m_size : copy_to[i] = m_buffer[Slot(m_front, i - 1)]

\* copy_to writes a sequence of m_size elements, slot by slot.
LEMMA CopyIs == RingOK => CopyOK
  <1> SUFFICES ASSUME RingOK PROVE CopyOK
    OBVIOUS
  <1>1. \A i \in 1..m_size : /\ (m_front + (i - 1)) % S = Slot(m_front, i - 1)
                             /\ Slot(m_front, i - 1) \in Index
    BY SlotIs, CapacityAssumption DEF RingOK
  <1>2. m_size \in Nat /\ m_buffer \in [Index -> Values]
    BY CapacityAssumption DEF RingOK
  <1>3. \A i \in 1..m_size : copy_to[i] = m_buffer[Slot(m_front, i - 1)] /\ copy_to[i] \in Values
    BY <1>1, <1>2 DEF copy_to
  <1>4. copy_to \in [1..m_size -> Values]
    BY <1>3 DEF copy_to
  <1>5. copy_to \in Seq(Values) /\ Len(copy_to) = m_size
    BY <1>2, <1>4
  <1> QED
    BY <1>3, <1>5 DEF CopyOK

\* A push appends, and drops the oldest element of a full buffer.
LEMMA PushRefines ==
    ASSUME RingOK, NEW x \in Values, push(x)
    PROVE  Abstract!Push(x)
  <1>1. RingOK' /\ CopyOK /\ CopyOK'
    BY PushStep, CopyIs, PTL
  <1>2. /\ m_back' = Slot(m_front, IF m_size = S THEN 0 ELSE m_size)
        /\ m_front' = IF m_size = S THEN Slot(m_front, 1) ELSE m_front
        /\ m_size' = IF m_size = S THEN m_size ELSE m_size + 1
        /\ m_buffer' = [m_buffer EXCEPT ![m_back'] = x]
    BY PushStep DEF push
  <1>3. /\ m_front \in Index /\ m_size \in 0..S /\ S \in Nat \ {0}
        /\ m_buffer \in [Index -> Values]
    BY CapacityAssumption DEF RingOK
  <1>4. CASE m_size = S
    <2>1. copy_to # <<>> /\ Tail(copy_to) \in Seq(Values) /\ Len(Tail(copy_to)) = S - 1
      BY <1>1, <1>3, <1>4 DEF CopyOK
    <2>2. /\ Append(Tail(copy_to), x) \in Seq(Values)
          /\ Len(Append(Tail(copy_to), x)) = S
      BY <1>3, <2>1
    <2>3. ASSUME NEW i \in 1..S PROVE copy_to'[i] = Append(Tail(copy_to), x)[i]
      <3>1. copy_to'[i] = m_buffer'[Slot(Slot(m_front, 1), i - 1)]
        BY <1>1, <1>2, <1>3, <1>4 DEF CopyOK, Slot
      <3>2. CASE i = S
        <4>1. Slot(Slot(m_front, 1), i - 1) = Slot(m_front, 0) /\ Slot(m_front, 0) \in Index
          BY <1>3, <3>2 DEF Slot, Index
        <4>2. copy_to'[i] = x
          BY <1>2, <1>3, <1>4, <3>1, <4>1
        <4> QED
          BY <2>1, <3>2, <4>2, <1>3
      <3>3. CASE i # S
        <4>1. /\ Slot(Slot(m_front, 1), i - 1) = Slot(m_front, i)
              /\ Slot(m_front, i) # Slot(m_front, 0)
              /\ Slot(m_front, i) \in Index
          BY <1>3, <3>3 DEF Slot, Index
        <4>2. copy_to'[i] = m_buffer[Slot(m_front, i)]
          BY <1>2, <1>3, <1>4, <3>1, <4>1
        <4>3. i + 1 \in 1..m_size /\ (i + 1) - 1 = i
          BY <1>3, <1>4, <3>3
        <4>4. copy_to[i + 1] = m_buffer[Slot(m_front, i)]
          BY <1>1, <4>3 DEF CopyOK
        <4>5. i \in 1..Len(Tail(copy_to)) /\ Tail(copy_to)[i] = copy_to[i + 1]
          BY <1>1, <1>3, <2>1, <3>3 DEF CopyOK
        <4> QED
          BY <2>1, <4>2, <4>4, <4>5
      <3> QED
        BY <3>2, <3>3
    <2>4. copy_to' \in Seq(Values) /\ Len(copy_to') = S
      BY <1>1, <1>2, <1>4 DEF CopyOK
    <2>5. copy_to' = Append(Tail(copy_to), x)
      BY <2>2, <2>3, <2>4
    <2> QED
      BY <1>1, <1>4, <2>5 DEF Abstract!Push, CopyOK
  <1>5. CASE m_size # S
    <2>1. /\ Append(copy_to, x) \in Seq(Values)
          /\ Len(Append(copy_to, x)) = m_size + 1
      BY <1>1, <1>3 DEF CopyOK
    <2>2. ASSUME NEW i \in 1..(m_size + 1) PROVE copy_to'[i] = Append(copy_to, x)[i]
      <3>1. copy_to'[i] = m_buffer'[Slot(m_front, i - 1)]
        BY <1>1, <1>2, <1>3, <1>5 DEF CopyOK
      <3>2. CASE i = m_size + 1
        <4>1. Slot(m_front, i - 1) = m_back' /\ m_back' \in Index
          BY <1>2, <1>3, <1>5, <3>2 DEF Slot, Index
        <4> QED
          BY <1>1, <1>2, <1>3, <3>1, <3>2, <4>1 DEF CopyOK
      <3>3. CASE i # m_size + 1
        <4>1. Slot(m_front, i - 1) # m_back' /\ Slot(m_front, i - 1) \in Index
          BY <1>2, <1>3, <1>5, <3>3 DEF Slot, Index
        <4> QED
          BY <1>1, <1>2, <1>3, <3>1, <3>3, <4>1 DEF CopyOK
      <3> QED
        BY <3>2, <3>3
    <2>3. copy_to' \in Seq(Values) /\ Len(copy_to') = m_size + 1
      BY <1>1, <1>2, <1>5 DEF CopyOK
    <2>4. copy_to' = Append(copy_to, x)
      BY <2>1, <2>2, <2>3
    <2> QED
      BY <1>1, <1>5, <2>4 DEF Abstract!Push, CopyOK
  <1> QED
    BY <1>4, <1>5

\* A pop drops the oldest element, if there is one.
LEMMA PopRefines ==
    ASSUME RingOK, pop
    PROVE  Abstract!Pop
  <1>1. CopyOK /\ CopyOK'
    BY PopStep, CopyIs, PTL
  <1>2. /\ m_front' = IF m_size > 0 THEN Slot(m_front, 1) ELSE m_front
        /\ m_size' = IF m_size > 0 THEN m_size - 1 ELSE m_size
        /\ m_buffer' = m_buffer
    BY PopStep DEF pop
  <1>3. m_front \in Index /\ m_size \in 0..S /\ S \in Nat \ {0}
    BY CapacityAssumption DEF RingOK
  <1>4. CASE m_size = 0
    <2>1. copy_to = <<>> /\ copy_to' = <<>>
      BY <1>1, <1>2, <1>4 DEF CopyOK
    <2> QED
      BY <2>1 DEF Abstract!Pop
  <1>5. CASE m_size # 0
    <2>1. /\ copy_to # <<>> /\ Tail(copy_to) \in Seq(Values)
          /\ Len(Tail(copy_to)) = m_size - 1
      BY <1>1, <1>3, <1>5 DEF CopyOK
    <2>2. copy_to' \in Seq(Values) /\ Len(copy_to') = m_size - 1
      BY <1>1, <1>2, <1>3, <1>5 DEF CopyOK
    <2>3. ASSUME NEW i \in 1..(m_size - 1) PROVE copy_to'[i] = Tail(copy_to)[i]
      <3>1. copy_to'[i] = m_buffer[Slot(Slot(m_front, 1), i - 1)]
        BY <1>1, <1>2, <1>3, <1>5 DEF CopyOK
      <3>2. Slot(Slot(m_front, 1), i - 1) = Slot(m_front, i)
        BY <1>3 DEF Slot, Index
      <3>3. i + 1 \in 1..m_size /\ (i + 1) - 1 = i
        BY <1>3
      <3>4. copy_to[i + 1] = m_buffer[Slot(m_front, i)]
        BY <1>1, <3>3 DEF CopyOK
      <3>5. Tail(copy_to)[i] = copy_to[i + 1]
        BY <1>1, <1>3, <2>1 DEF CopyOK
      <3> QED
        BY <3>1, <3>2, <3>4, <3>5
    <2>4. copy_to' = Tail(copy_to)
      BY <2>1, <2>2, <2>3
    <2> QED
      BY <2>1, <2>4 DEF Abstract!Pop
  <1> QED
    BY <1>4, <1>5

\* For every capacity and element type, and any sequence of calls, copy_to
\* yields the last S values pushed and not popped, oldest first.
THEOREM RingImplementsLastPushed == RingSpec => ImplementsLastPushed
  <1>1. RingInit => Abstract!Init
    <2> SUFFICES ASSUME RingInit PROVE copy_to = <<>>
      BY DEF Abstract!Init
    <2>1. CopyOK /\ m_size = 0
      BY RingStarts, CopyIs DEF RingInit
    <2> QED
      BY <2>1 DEF CopyOK
  <1>2. RingOK /\ [RingNext]_ringVars => [Abstract!Next]_copy_to
    <2> SUFFICES ASSUME RingOK, [RingNext]_ringVars PROVE [Abstract!Next]_copy_to
      OBVIOUS
    <2>1. ASSUME NEW x \in Values, push(x) PROVE Abstract!Next
      BY <2>1, PushRefines DEF Abstract!Next
    <2>2. CASE pop
      BY <2>2, PopRefines DEF Abstract!Next
    <2>3. CASE clear
      <3>1. CopyOK' /\ m_size' = 0
        BY <2>3, ClearStep, CopyIs, PTL DEF clear
      <3>2. copy_to' = <<>>
        BY <3>1 DEF CopyOK
      <3> QED
        BY <3>2 DEF Abstract!Next, Abstract!Clear
    <2>4. CASE UNCHANGED ringVars
      BY <2>4 DEF ringVars, copy_to
    <2> QED
      BY <2>1, <2>2, <2>3, <2>4 DEF RingNext
  <1> QED
    BY <1>1, <1>2, RingCorrect, PTL DEF RingSpec, ImplementsLastPushed, Abstract!Spec
=============================================================================
