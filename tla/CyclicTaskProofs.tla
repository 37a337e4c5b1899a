-------------------------- MODULE CyclicTaskProofs --------------------------
(***************************************************************************)
(* Proofs about cyclic tasks: one chain for each task, silence after a     *)
(* deletion in time, and an error log that shows what was thrown, for any  *)
(* number of tasks, io threads, names, texts and exceptions.               *)
(***************************************************************************)
EXTENDS CyclicTask, FiniteSetTheorems, WellFoundedInduction, TLAPS

-----------------------------------------------------------------------------
(* The chain. *)

ChainTypes ==
    /\ made \in Nat /\ made <= MaxTasks
    /\ waiting \in [Tasks -> Nat] /\ ready \in [Tasks -> Nat]
    /\ aborted \in [Tasks -> Nat] /\ running \in [Tasks -> Nat]
    /\ cyclic_tasks_ \in [DOMAIN cyclic_tasks_ -> 1..made]
    /\ quiet \subseteq 1..made /\ todo \subseteq 1..made

\* Two names never stand for one task object, and one not made is not armed.
RegistryInv ==
    /\ \A n, m \in DOMAIN cyclic_tasks_ : cyclic_tasks_[n] = cyclic_tasks_[m] => n = m
    /\ \A t \in Tasks : t > made => Alive(t) + aborted[t] = 0

\* A task that was silenced has left the registry, or the daemon stops.
SilentInv == stopper = "idle" => quiet \cap Registered = {}

ChainInv == ChainTypes /\ RegistryInv /\ SilentInv /\ OneChain /\ DeletedInTimeStaysQuiet

LEMMA ChainInit == ASSUME Init PROVE ChainInv
BY TaskAssumption DEF Init, ChainInv, ChainTypes, RegistryInv, SilentInv, OneChain,
                      DeletedInTimeStaysQuiet, Alive, Registered, Tasks, None

\* A registered task is one of those made; a name removed takes only its own.
LEMMA RegisteredMade ==
    ASSUME ChainTypes PROVE 1..made \subseteq Tasks /\ Registered \subseteq 1..made
BY TaskAssumption DEF ChainTypes, Registered, Tasks

LEMMA RegisterStep == ASSUME ChainInv, NEW n \in Names, register_cyclic_task(n) PROVE ChainInv'
<1> USE DEF ChainInv
<1>0. PICK new : new = made + 1
  OBVIOUS
<1>1. /\ n \notin DOMAIN cyclic_tasks_ /\ made' = new
      /\ cyclic_tasks_' = [m \in DOMAIN cyclic_tasks_ \cup {n} |-> IF m = n THEN new ELSE cyclic_tasks_[m]]
      /\ waiting' = [waiting EXCEPT ![new] = @ + 1]
      /\ UNCHANGED <<ready, aborted, running, stopper, todo, quiet>>
      /\ made < MaxTasks
  BY <1>0 DEF register_cyclic_task, stopping
<1>2. new \in Tasks /\ new \notin 1..made /\ made \in Nat /\ new \in Nat /\ new > made
  BY <1>0, <1>1, TaskAssumption DEF ChainTypes, Tasks
<1>3. /\ waiting[new] = 0 /\ ready[new] = 0 /\ aborted[new] = 0 /\ running[new] = 0
  BY <1>2 DEF RegistryInv, ChainTypes, Alive
<1>4. waiting' = [waiting EXCEPT ![new] = 1]
  BY <1>1, <1>3
<1>5. DOMAIN cyclic_tasks_' = DOMAIN cyclic_tasks_ \cup {n}
  BY <1>1
<1>6. \A m \in DOMAIN cyclic_tasks_' :
         \/ m = n /\ cyclic_tasks_'[m] = new
         \/ m # n /\ m \in DOMAIN cyclic_tasks_ /\ cyclic_tasks_'[m] = cyclic_tasks_[m] /\ cyclic_tasks_[m] \in 1..made
  BY <1>1, <1>5 DEF ChainTypes
<1>7. ChainTypes'
  <2>1. \A m \in DOMAIN cyclic_tasks_' : cyclic_tasks_'[m] \in 1..new
    BY <1>0, <1>2, <1>6
  <2>2. cyclic_tasks_' \in [DOMAIN cyclic_tasks_' -> 1..made']
    BY <1>1, <2>1
  <2>3. quiet' \subseteq 1..made' /\ todo' \subseteq 1..made'
    BY <1>0, <1>1, <1>2 DEF ChainTypes
  <2>4. made' \in Nat /\ made' <= MaxTasks
    BY <1>0, <1>1, <1>2, TaskAssumption
  <2>5. /\ waiting' \in [Tasks -> Nat] /\ ready' \in [Tasks -> Nat]
        /\ aborted' \in [Tasks -> Nat] /\ running' \in [Tasks -> Nat]
    BY <1>1, <1>2, <1>4 DEF ChainTypes
  <2> QED
    BY <2>2, <2>3, <2>4, <2>5 DEF ChainTypes
<1>8. Registered' = Registered \cup {new}
  <2>1. Registered' \subseteq Registered \cup {new}
    BY <1>6 DEF Registered
  <2>2. \A m \in DOMAIN cyclic_tasks_ : m \in DOMAIN cyclic_tasks_' /\ cyclic_tasks_'[m] = cyclic_tasks_[m]
    BY <1>1, <1>5, <1>6
  <2>3. n \in DOMAIN cyclic_tasks_' /\ cyclic_tasks_'[n] = new
    BY <1>5, <1>6
  <2> QED
    BY <2>1, <2>2, <2>3 DEF Registered
<1>9. /\ Alive(new)' = 1
      /\ \A t \in Tasks : t # new => Alive(t)' = Alive(t)
  BY <1>1, <1>2, <1>3, <1>4 DEF Alive, ChainTypes
<1>10. RegistryInv'
  <2>1. \A m, k \in DOMAIN cyclic_tasks_' : cyclic_tasks_'[m] = cyclic_tasks_'[k] => m = k
    BY <1>2, <1>6 DEF RegistryInv
  <2>2. \A t \in Tasks : t > new => t # new /\ t > made
    BY <1>0, <1>2 DEF Tasks
  <2>3. \A t \in Tasks : t > new => Alive(t)' + aborted'[t] = 0
    BY <1>1, <1>9, <2>2 DEF RegistryInv
  <2> QED
    BY <1>1, <2>1, <2>3 DEF RegistryInv
<1>11. new \notin quiet /\ new \notin Registered
  BY <1>2, RegisteredMade DEF ChainTypes
<1>12. SilentInv'
  BY <1>1, <1>8, <1>11 DEF SilentInv
<1>13. OneChain'
  <2>1. \A t \in Tasks : Alive(t)' + aborted'[t] <= 1
    BY <1>1, <1>3, <1>9 DEF OneChain
  <2>2. stopper = "idle" => \A t \in Registered : Alive(t)' = 1
    BY <1>9, <1>11, RegisteredMade DEF OneChain
  <2> QED
    BY <1>1, <1>8, <1>9, <2>1, <2>2 DEF OneChain
<1>14. DeletedInTimeStaysQuiet'
  BY <1>1, <1>9, <1>11, RegisteredMade DEF DeletedInTimeStaysQuiet, ChainTypes
<1> QED
  BY <1>7, <1>10, <1>12, <1>13, <1>14

\* A cancel ends the chain of a waiting task and leaves the others alone.
LEMMA CancelEffect ==
    ASSUME ChainInv, NEW t \in Tasks, cancel(t), UNCHANGED <<ready, running>>
    PROVE  /\ waiting' \in [Tasks -> Nat] /\ aborted' \in [Tasks -> Nat]
           /\ \A s \in Tasks : s # t => Alive(s)' = Alive(s) /\ aborted'[s] = aborted[s]
           /\ Alive(t)' + aborted'[t] = Alive(t) + aborted[t]
           /\ Alive(t)' <= Alive(t)
           /\ \/ quiet' = quiet
              \/ quiet' = quiet \cup {t} /\ Alive(t)' = 0
<1> USE DEF ChainInv
<1>1. /\ aborted' = [aborted EXCEPT ![t] = @ + waiting[t]]
      /\ waiting' = [waiting EXCEPT ![t] = 0]
      /\ quiet' = IF waiting[t] > 0 THEN quiet \cup {t} ELSE quiet
  BY DEF cancel
<1>2. /\ waiting[t] \in Nat /\ ready[t] \in Nat /\ aborted[t] \in Nat /\ running[t] \in Nat
      /\ waiting \in [Tasks -> Nat] /\ aborted \in [Tasks -> Nat]
  BY DEF ChainTypes
<1>3. /\ waiting'[t] = 0 /\ aborted'[t] = aborted[t] + waiting[t]
      /\ ready'[t] = ready[t] /\ running'[t] = running[t]
      /\ \A s \in Tasks : s # t => waiting'[s] = waiting[s] /\ aborted'[s] = aborted[s]
      /\ waiting' \in [Tasks -> Nat] /\ aborted' \in [Tasks -> Nat]
  BY <1>1, <1>2
<1>4. \A s \in Tasks : s # t => Alive(s)' = Alive(s)
  BY <1>3 DEF Alive
<1>5. Alive(t)' + aborted'[t] = Alive(t) + aborted[t] /\ Alive(t)' <= Alive(t)
  BY <1>2, <1>3 DEF Alive
<1>6. waiting[t] > 0 => Alive(t)' = 0
  BY <1>2, <1>3 DEF Alive, OneChain
<1> QED
  BY <1>1, <1>3, <1>4, <1>5, <1>6

LEMMA DeleteStep == ASSUME ChainInv, NEW n \in Names, delete_cyclic_task(n) PROVE ChainInv'
<1> USE DEF ChainInv
<1>0. PICK t : t = cyclic_tasks_[n]
  OBVIOUS
<1>1. /\ n \in DOMAIN cyclic_tasks_ /\ cancel(t)
      /\ cyclic_tasks_' = [m \in DOMAIN cyclic_tasks_ \ {n} |-> cyclic_tasks_[m]]
      /\ UNCHANGED <<made, ready, running, stopper, todo>>
  BY <1>0 DEF delete_cyclic_task, stopping
<1>2. t \in 1..made /\ t \in Tasks
  BY <1>0, <1>1, RegisteredMade DEF ChainTypes
<1>3. DOMAIN cyclic_tasks_' = DOMAIN cyclic_tasks_ \ {n}
      /\ \A m \in DOMAIN cyclic_tasks_' : cyclic_tasks_'[m] = cyclic_tasks_[m]
  BY <1>1
<1>4. Registered' = Registered \ {t}
  BY <1>0, <1>1, <1>3 DEF Registered, RegistryInv
<1>5. /\ waiting' \in [Tasks -> Nat] /\ aborted' \in [Tasks -> Nat]
      /\ \A s \in Tasks : s # t => Alive(s)' = Alive(s) /\ aborted'[s] = aborted[s]
      /\ Alive(t)' + aborted'[t] = Alive(t) + aborted[t]
      /\ Alive(t)' <= Alive(t)
      /\ \/ quiet' = quiet
         \/ quiet' = quiet \cup {t} /\ Alive(t)' = 0
  BY <1>1, <1>2, CancelEffect
<1>6. ChainTypes'
  <2>1. cyclic_tasks_' \in [DOMAIN cyclic_tasks_' -> 1..made']
    BY <1>1, <1>3 DEF ChainTypes
  <2>2. quiet' \subseteq 1..made'
    BY <1>1, <1>2, <1>5 DEF ChainTypes
  <2> QED
    BY <1>1, <1>5, <2>1, <2>2 DEF ChainTypes
<1>7. \A s \in Tasks : Alive(s)' + aborted'[s] = Alive(s) + aborted[s]
  BY <1>5
<1>8. RegistryInv'
  BY <1>1, <1>3, <1>7 DEF RegistryInv
<1>9. SilentInv'
  BY <1>1, <1>4, <1>5 DEF SilentInv
<1>10. OneChain'
  <2>1. \A s \in Registered' : s \in Tasks /\ s # t /\ s \in Registered
    BY <1>4, RegisteredMade
  <2> QED
    BY <1>1, <1>5, <1>7, <2>1 DEF OneChain
<1>11. DeletedInTimeStaysQuiet'
  <2>1. Alive(t) = 0 => Alive(t)' = 0
    <3>1. Alive(t)' \in Nat
      BY <1>2, <1>6 DEF Alive, ChainTypes
    <3> QED
      BY <1>5, <3>1
  <2> QED
    BY <1>2, <1>5, <2>1, RegisteredMade DEF DeletedInTimeStaysQuiet, ChainTypes
<1> QED
  BY <1>6, <1>8, <1>9, <1>10, <1>11

\* Stopping one task does the same to it, with the registry as it is.
LEMMA StopTaskStep == ASSUME ChainInv, NEW t \in Tasks, StopTask(t) PROVE ChainInv'
<1> USE DEF ChainInv
<1>0. t \in 1..made
  BY DEF StopTask, ChainTypes
<1>1. /\ stopper = "iterate" /\ stopper' = "routine" /\ cancel(t)
      /\ UNCHANGED <<made, cyclic_tasks_, ready, running, todo>>
  BY DEF StopTask
<1>2. /\ waiting' \in [Tasks -> Nat] /\ aborted' \in [Tasks -> Nat]
      /\ \A s \in Tasks : s # t => Alive(s)' = Alive(s) /\ aborted'[s] = aborted[s]
      /\ Alive(t)' + aborted'[t] = Alive(t) + aborted[t]
      /\ Alive(t)' <= Alive(t)
      /\ \/ quiet' = quiet
         \/ quiet' = quiet \cup {t} /\ Alive(t)' = 0
  BY <1>1, CancelEffect
<1>3. ChainTypes'
  BY <1>0, <1>1, <1>2 DEF ChainTypes
<1>4. \A s \in Tasks : Alive(s)' + aborted'[s] = Alive(s) + aborted[s]
  BY <1>2
<1>5. RegistryInv' /\ SilentInv' /\ OneChain'
  BY <1>1, <1>4 DEF RegistryInv, SilentInv, OneChain
<1>6. DeletedInTimeStaysQuiet'
  <2>1. Alive(t) = 0 => Alive(t)' = 0
    BY <1>1, <1>2, <1>3 DEF Alive, ChainTypes
  <2> QED
    BY <1>2, <2>1, RegisteredMade DEF DeletedInTimeStaysQuiet, ChainTypes
<1> QED
  BY <1>3, <1>5, <1>6

\* The handler moves its task along, or ends the chain of a cancelled one.
LEMMA HandlerStep ==
    ASSUME ChainInv, NEW t \in Tasks,
           \/ Expire(t) \/ HandleAborted(t) \/ Begin(t) \/ Finish(t)
           \/ \E text \in Texts : Fail(t, text)
    PROVE  ChainInv'
<1> USE DEF ChainInv
<1>1. UNCHANGED <<made, cyclic_tasks_, stopper, todo, quiet>>
  BY DEF Expire, HandleAborted, Begin, Finish, Fail, stopping
<1>2. /\ waiting \in [Tasks -> Nat] /\ ready \in [Tasks -> Nat]
      /\ aborted \in [Tasks -> Nat] /\ running \in [Tasks -> Nat]
  BY DEF ChainTypes
<1>3. /\ waiting' \in [Tasks -> Nat] /\ ready' \in [Tasks -> Nat]
      /\ aborted' \in [Tasks -> Nat] /\ running' \in [Tasks -> Nat]
      /\ \A s \in Tasks : s # t => /\ waiting'[s] = waiting[s] /\ ready'[s] = ready[s]
                                   /\ aborted'[s] = aborted[s] /\ running'[s] = running[s]
      /\ waiting'[t] + ready'[t] + running'[t] = waiting[t] + ready[t] + running[t]
      /\ aborted'[t] <= aborted[t]
  <2>1. CASE Expire(t)
    BY <1>2, <2>1 DEF Expire
  <2>2. CASE HandleAborted(t)
    BY <1>2, <2>2 DEF HandleAborted
  <2>3. CASE Begin(t)
    BY <1>2, <2>3 DEF Begin
  <2>4. CASE Finish(t) \/ \E text \in Texts : Fail(t, text)
    <3>1. /\ running[t] > 0 /\ running' = [running EXCEPT ![t] = @ - 1]
          /\ waiting' = [waiting EXCEPT ![t] = @ + 1] /\ UNCHANGED <<ready, aborted>>
      BY <2>4 DEF Finish, Fail
    <3> QED
      BY <1>2, <3>1
  <2> QED
    BY <2>1, <2>2, <2>3, <2>4
<1>4. Alive(t)' = Alive(t) /\ Alive(t)' + aborted'[t] <= Alive(t) + aborted[t]
  BY <1>2, <1>3 DEF Alive
<1>5. /\ \A s \in Tasks : Alive(s)' = Alive(s) /\ Alive(s)' + aborted'[s] <= Alive(s) + aborted[s]
      /\ \A s \in Tasks : Alive(s) \in Nat /\ aborted'[s] \in Nat /\ aborted[s] \in Nat
  BY <1>2, <1>3, <1>4 DEF Alive
<1>6. ChainTypes' /\ Registered' = Registered
  BY <1>1, <1>3 DEF ChainTypes, Registered
<1>7. RegistryInv' /\ SilentInv' /\ OneChain' /\ DeletedInTimeStaysQuiet'
  BY <1>1, <1>5, <1>6, RegisteredMade
     DEF RegistryInv, SilentInv, OneChain, DeletedInTimeStaysQuiet, ChainTypes
<1> QED
  BY <1>6, <1>7

\* The rest of the stop takes tasks off its list and then the registry away.
LEMMA StopStep ==
    ASSUME ChainInv,
           \/ StopBegin \/ StopRoutineReturns \/ StopRoutineThrows \/ StopClear \/ stop_asio
           \/ UNCHANGED vars
    PROVE  ChainInv'
<1> USE DEF ChainInv
<1>1. UNCHANGED <<made, waiting, ready, aborted, running, quiet>>
  BY DEF StopBegin, StopRoutineReturns, StopRoutineThrows, StopClear, stop_asio, vars, pending
<1>2. \A t : Alive(t)' = Alive(t)
  BY <1>1 DEF Alive
<1>3. cyclic_tasks_' = cyclic_tasks_ \/ cyclic_tasks_' = [n \in {} |-> 0]
  BY DEF StopBegin, StopRoutineReturns, StopRoutineThrows, StopClear, stop_asio, vars
<1>4. /\ todo' \subseteq todo \cup Registered
      /\ stopper' = "idle" => stopper = "idle" /\ cyclic_tasks_' = cyclic_tasks_
  BY DEF StopBegin, StopRoutineReturns, StopRoutineThrows, StopClear, stop_asio, vars, stopping
<1>5. ChainTypes'
  BY <1>1, <1>3, <1>4, RegisteredMade DEF ChainTypes
<1>6. RegistryInv'
  BY <1>1, <1>2, <1>3 DEF RegistryInv
<1>7. stopper' = "idle" => Registered' = Registered
  BY <1>4 DEF Registered
<1>8. SilentInv' /\ OneChain' /\ DeletedInTimeStaysQuiet'
  BY <1>1, <1>2, <1>4, <1>7 DEF SilentInv, OneChain, DeletedInTimeStaysQuiet
<1> QED
  BY <1>5, <1>6, <1>8

LEMMA ChainNext == ASSUME ChainInv, [Next]_vars PROVE ChainInv'
BY RegisterStep, DeleteStep, StopTaskStep, HandlerStep, StopStep DEF Next

\* The handler of a task never runs on two io threads at once, and neither
\* exceptions nor other tasks end the chain of a registered one.
THEOREM TaskOneChain == Spec => []OneChain
<1>1. Init => ChainInv
  BY ChainInit
<1>2. ChainInv /\ [Next]_vars => ChainInv'
  BY ChainNext
<1>3. ChainInv => OneChain
  BY DEF ChainInv
<1> QED
  BY <1>1, <1>2, <1>3, PTL DEF Spec

\* A task that is deleted while its timer runs is never called again.
THEOREM TaskStaysQuiet == Spec => []DeletedInTimeStaysQuiet
<1>1. Init => ChainInv
  BY ChainInit
<1>2. ChainInv /\ [Next]_vars => ChainInv'
  BY ChainNext
<1>3. ChainInv => DeletedInTimeStaysQuiet
  BY DEF ChainInv
<1> QED
  BY <1>1, <1>2, <1>3, PTL DEF Spec

-----------------------------------------------------------------------------
(* The error log.  A run of equal texts begins at an index of Changes; it  *)
(* is ranked by the number of runs that begin at it or after it.           *)

Rank(s, i) == Cardinality({j \in Changes(s) : j >= i})
End(s, i) == Min({j \in Changes(s) : j > i} \cup {Len(s) + 1})

\* e shows the last ErrorsKept of the c runs of s.
Shows(e, c, s) ==
    /\ c = Cardinality(Changes(s))
    /\ Len(e) = IF c < ErrorsKept THEN c ELSE ErrorsKept
    /\ s # <<>> => e # <<>> /\ e[Len(e)].message = s[Len(s)]
    /\ s = <<>> => e = <<>>
    /\ \A r \in 1..c : \E i \in Changes(s) : Rank(s, i) = r
    /\ \A i \in Changes(s) : Rank(s, i) <= ErrorsKept =>
          e[Len(e) + 1 - Rank(s, i)] = [message |-> s[i], count |-> End(s, i) - i]

Infos == [message : Texts, count : Nat]

LogInv ==
    /\ errors_ \in [Tasks -> Seq(Infos)] /\ errors_count_ \in [Tasks -> Nat]
    /\ thrown \in [Tasks -> Seq(Texts)]
    /\ \A t \in Tasks : Shows(errors_[t], errors_count_[t], thrown[t])

LEMMA Least == ASSUME NEW S \in SUBSET Nat, S # {} PROVE Min(S) \in S /\ \A y \in S : Min(S) <= y
<1> DEFINE Less == {ss \in Nat \X Nat : ss[1] < ss[2]}
<1>1. IsWellFoundedOn(Less, Nat)
  BY NatLessThanWellFounded DEF OpToRel
<1>2. PICK x \in S : \A y \in S : ~(<<y, x>> \in Less)
  BY <1>1, WFMin
<1>3. \A y \in S : x =< y
  <2> SUFFICES ASSUME NEW y \in S PROVE x =< y
    OBVIOUS
  <2>1. x \in Nat /\ y \in Nat
    OBVIOUS
  <2>2. y < x => <<y, x>> \in Less
    BY <2>1
  <2> QED
    BY <1>2, <2>1, <2>2
<1> QED
  BY <1>3 DEF Min

LEMMA LeastIs ==
    ASSUME NEW S \in SUBSET Nat, NEW m \in S, \A y \in S : m <= y PROVE Min(S) = m
<1>1. Min(S) \in S /\ Min(S) <= m
  BY Least
<1>2. Min(S) \in Nat /\ m \in Nat /\ m <= Min(S)
  BY <1>1
<1> QED
  BY <1>1, <1>2

LEMMA ChangesFinite ==
    ASSUME NEW S, NEW s \in Seq(S)
    PROVE  /\ Changes(s) \subseteq 1..Len(s) /\ Len(s) \in Nat /\ IsFiniteSet(Changes(s))
           /\ Cardinality(Changes(s)) \in Nat
           /\ s # <<>> => 1 \in Changes(s)
           /\ s = <<>> => Changes(s) = {}
<1>1. Changes(s) \subseteq 1..Len(s) /\ Len(s) \in Nat
  BY DEF Changes
<1>2. IsFiniteSet(Changes(s))
  <2>1. IsFiniteSet(1..Len(s))
    BY <1>1, FS_Interval
  <2> QED
    BY <1>1, <2>1, FS_Subset
<1>3. s # <<>> => 1 \in Changes(s)
  BY DEF Changes
<1> QED
  BY <1>1, <1>2, <1>3, FS_CardinalityType DEF Changes

LEMMA RankBounds ==
    ASSUME NEW S, NEW s \in Seq(S), NEW i \in Changes(s)
    PROVE  /\ Rank(s, i) \in Nat /\ 1 <= Rank(s, i) /\ Rank(s, i) <= Cardinality(Changes(s))
           /\ \A j \in Changes(s) : i < j => Rank(s, j) < Rank(s, i)
           /\ Rank(s, i) = Cardinality({j \in Changes(s) : j > i}) + 1
           /\ Cardinality({j \in Changes(s) : j > i}) \in Nat
<1> DEFINE above == {j \in Changes(s) : j > i}
           from(k) == {j \in Changes(s) : j >= k}
<1>1. Changes(s) \subseteq 1..Len(s) /\ Len(s) \in Nat /\ IsFiniteSet(Changes(s))
  BY ChangesFinite
<1>2. \A k : IsFiniteSet(from(k)) /\ Cardinality(from(k)) \in Nat /\ Cardinality(from(k)) <= Cardinality(Changes(s))
  <2> TAKE k
  <2>1. from(k) \in SUBSET Changes(s)
    OBVIOUS
  <2> QED
    BY <1>1, <2>1, FS_Subset, FS_CardinalityType
<1>3. IsFiniteSet(above) /\ Cardinality(above) \in Nat
  <2>1. above \in SUBSET Changes(s)
    OBVIOUS
  <2> QED
    BY <1>1, <2>1, FS_Subset, FS_CardinalityType
<1>4. from(i) = above \cup {i} /\ i \notin above
  BY <1>1
<1>5. Cardinality(from(i)) = Cardinality(above) + 1
  BY <1>3, <1>4, FS_AddElement
<1>6. ASSUME NEW j \in Changes(s), i < j PROVE Cardinality(from(j)) < Cardinality(from(i))
  <2>1. from(j) \in SUBSET above
    BY <1>1, <1>6
  <2>2. Cardinality(from(j)) <= Cardinality(above)
    BY <1>3, <2>1, FS_Subset
  <2>3. Cardinality(from(j)) \in Nat /\ Cardinality(from(i)) \in Nat
    BY <1>2
  <2> HIDE DEF from, above
  <2> QED
    BY <1>3, <1>5, <2>2, <2>3
<1> QED
  BY <1>2, <1>3, <1>5, <1>6 DEF Rank

\* r is s with x appended.
Extends(r, s, x) == Len(r) = Len(s) + 1 /\ r[Len(s) + 1] = x /\ \A i \in 1..Len(s) : r[i] = s[i]

LEMMA AppendExtends ==
    ASSUME NEW S, NEW s \in Seq(S), NEW x \in S
    PROVE  Append(s, x) \in Seq(S) /\ Extends(Append(s, x), s, x)
BY DEF Extends

\* The last run goes on.
LEMMA Repeated ==
    ASSUME NEW S, NEW s \in Seq(S), s # <<>>, NEW x \in S, x = s[Len(s)],
           NEW r \in Seq(S), Extends(r, s, x)
    PROVE  /\ Changes(r) = Changes(s)
           /\ \A i \in Changes(s) : /\ Rank(r, i) = Rank(s, i) /\ r[i] = s[i]
                                    /\ End(r, i) = End(s, i) + (IF Rank(s, i) = 1 THEN 1 ELSE 0)
                                    /\ End(s, i) \in Nat /\ i <= End(s, i) /\ i \in Nat
<1>1. /\ Len(s) \in Nat \ {0} /\ DOMAIN s = 1..Len(s) /\ r \in Seq(S) /\ Len(r) = Len(s) + 1
      /\ DOMAIN r = 1..(Len(s) + 1) /\ r[Len(s) + 1] = x /\ \A i \in 1..Len(s) : r[i] = s[i]
  BY DEF Extends
<1>2. Changes(r) = Changes(s)
  <2>1. Len(s) + 1 \notin Changes(r)
    BY <1>1 DEF Changes
  <2>2. \A i \in 1..Len(s) : i # 1 => i - 1 \in 1..Len(s)
    BY <1>1
  <2>3. \A i \in 1..Len(s) : i \in Changes(r) <=> i \in Changes(s)
    BY <1>1, <2>2 DEF Changes
  <2>4. Changes(r) \subseteq 1..(Len(s) + 1) /\ Changes(s) \subseteq 1..Len(s)
    BY <1>1 DEF Changes
  <2>5. \A i \in 1..(Len(s) + 1) : i = Len(s) + 1 \/ i \in 1..Len(s)
    BY <1>1
  <2> QED
    BY <2>1, <2>3, <2>4, <2>5
<1>3. Changes(s) \subseteq 1..Len(s)
  BY ChangesFinite
<1>4. ASSUME NEW i \in Changes(s)
      PROVE  /\ End(r, i) = End(s, i) + (IF Rank(s, i) = 1 THEN 1 ELSE 0)
             /\ End(s, i) \in Nat /\ i <= End(s, i) /\ i \in Nat
  <2> DEFINE above == {j \in Changes(s) : j > i}
  <2>1. IsFiniteSet(above) /\ Rank(s, i) = Cardinality(above) + 1 /\ Cardinality(above) \in Nat
    <3>1. above \in SUBSET Changes(s)
      OBVIOUS
    <3>2. IsFiniteSet(Changes(s))
      BY ChangesFinite
    <3>3. Rank(s, i) = Cardinality(above) + 1 /\ Cardinality(above) \in Nat
      BY RankBounds
    <3> QED
      BY <3>1, <3>2, <3>3, FS_Subset
  <2>2. Rank(s, i) = 1 <=> above = {}
    <3>1. Cardinality(above) = 0 <=> above = {}
      BY <2>1, FS_EmptySet
    <3> HIDE DEF above
    <3> QED
      BY <2>1, <3>1
  <2>3. End(s, i) = Min(above \cup {Len(s) + 1}) /\ End(r, i) = Min(above \cup {Len(s) + 2})
    BY <1>1, <1>2 DEF End
  <2>4. above \subseteq 1..Len(s) /\ i \in 1..Len(s) /\ i \in Nat /\ \A j \in above : i < j
    BY <1>3
  <2> HIDE DEF above
  <2>5. CASE above = {}
    <3>1. Min({Len(s) + 1}) = Len(s) + 1 /\ Min({Len(s) + 2}) = Len(s) + 2
      BY <1>1, LeastIs
    <3>2. above \cup {Len(s) + 1} = {Len(s) + 1} /\ above \cup {Len(s) + 2} = {Len(s) + 2}
      BY <2>5
    <3>3. End(s, i) = Len(s) + 1 /\ End(r, i) = Len(s) + 2
      BY <2>3, <3>1, <3>2
    <3> QED
      BY <1>1, <2>2, <2>4, <2>5, <3>3
  <2>6. CASE above # {}
    <3>1. above \in SUBSET Nat /\ \A j \in above : j <= Len(s)
      BY <1>1, <2>4
    <3>2. Min(above) \in above /\ \A y \in above : Min(above) <= y
      BY <2>6, <3>1, Least
    <3>3. Min(above) \in Nat /\ Min(above) <= Len(s) /\ i < Min(above)
      BY <2>4, <3>1, <3>2
    <3>4. Min(above \cup {Len(s) + 1}) = Min(above)
      <4>0. Len(s) + 1 \in Nat
        BY <1>1
      <4>1. above \cup {Len(s) + 1} \in SUBSET Nat /\ Min(above) \in above \cup {Len(s) + 1}
        BY <3>1, <3>2, <4>0
      <4>2. \A y \in above \cup {Len(s) + 1} : Min(above) <= y
        BY <1>1, <3>2, <3>3
      <4> QED
        BY <4>1, <4>2, LeastIs
    <3>5. Min(above \cup {Len(s) + 2}) = Min(above)
      <4>0. Len(s) + 2 \in Nat
        BY <1>1
      <4>1. above \cup {Len(s) + 2} \in SUBSET Nat /\ Min(above) \in above \cup {Len(s) + 2}
        BY <3>1, <3>2, <4>0
      <4>2. \A y \in above \cup {Len(s) + 2} : Min(above) <= y
        BY <1>1, <3>2, <3>3
      <4> QED
        BY <4>1, <4>2, LeastIs
    <3>6. End(s, i) = Min(above) /\ End(r, i) = Min(above) /\ Rank(s, i) # 1
      BY <2>2, <2>3, <2>6, <3>4, <3>5
    <3> QED
      BY <2>4, <3>3, <3>6
  <2> QED
    BY <2>5, <2>6
<1>5. \A i \in Changes(s) : Rank(r, i) = Rank(s, i) /\ r[i] = s[i]
  BY <1>1, <1>2, <1>3 DEF Rank
<1> QED
  BY <1>2, <1>4, <1>5

\* A new run begins.
LEMMA Changed ==
    ASSUME NEW S, NEW s \in Seq(S), NEW x \in S, s # <<>> => x # s[Len(s)],
           NEW r \in Seq(S), Extends(r, s, x), NEW m, m = Len(s) + 1
    PROVE  /\ m \notin Changes(s) /\ Changes(r) = Changes(s) \cup {m}
           /\ Cardinality(Changes(r)) = Cardinality(Changes(s)) + 1
           /\ Rank(r, m) = 1 /\ r[m] = x /\ End(r, m) = m + 1
           /\ \A i \in Changes(s) : /\ Rank(r, i) = Rank(s, i) + 1 /\ r[i] = s[i]
                                    /\ End(r, i) = End(s, i)
<1>1. /\ Len(s) \in Nat /\ DOMAIN s = 1..Len(s) /\ r \in Seq(S) /\ Len(r) = m
      /\ DOMAIN r = 1..m /\ r[m] = x /\ \A i \in 1..Len(s) : r[i] = s[i]
  BY DEF Extends
<1>2. m \in Nat /\ m = Len(s) + 1
  BY <1>1
<1>3. Changes(s) \subseteq 1..Len(s) /\ IsFiniteSet(Changes(s)) /\ Cardinality(Changes(s)) \in Nat
  BY ChangesFinite
<1>4. m \notin Changes(s) /\ \A i \in Changes(s) : i \in Nat /\ i < m
  BY <1>1, <1>2, <1>3
<1>5. Changes(r) = Changes(s) \cup {m}
  <2>1. m \in Changes(r)
    <3>1. CASE s = <<>>
      BY <1>1, <1>2, <3>1 DEF Changes
    <3>2. CASE s # <<>>
      <4>1. m - 1 = Len(s) /\ Len(s) \in 1..Len(s)
        BY <1>1, <1>2, <3>2
      <4>2. r[m - 1] = s[Len(s)]
        BY <1>1, <4>1
      <4> QED
        BY <1>1, <1>2, <3>2, <4>2 DEF Changes
    <3> QED
      BY <3>1, <3>2
  <2>2. \A i \in 1..Len(s) : i # 1 => i - 1 \in 1..Len(s)
    BY <1>1
  <2>3. \A i \in 1..Len(s) : i \in 1..m /\ (i \in Changes(r) <=> i \in Changes(s))
    BY <1>1, <1>2, <2>2 DEF Changes
  <2>4. Changes(r) \subseteq 1..m
    BY <1>1 DEF Changes
  <2>5. \A i \in 1..m : i = m \/ i \in 1..Len(s)
    BY <1>1, <1>2
  <2> QED
    BY <1>3, <2>1, <2>3, <2>4, <2>5
<1>6. Cardinality(Changes(r)) = Cardinality(Changes(s)) + 1
  BY <1>3, <1>4, <1>5, FS_AddElement
<1>7. Rank(r, m) = 1 /\ End(r, m) = m + 1
  <2>1. {j \in Changes(r) : j >= m} = {m} /\ {j \in Changes(r) : j > m} = {}
    BY <1>2, <1>4, <1>5
  <2>2. Min({m + 1}) = m + 1
    BY <1>2, LeastIs
  <2>3. {j \in Changes(r) : j > m} \cup {Len(r) + 1} = {m + 1}
    BY <1>1, <2>1
  <2> QED
    BY <2>1, <2>2, <2>3, FS_Singleton DEF Rank, End
<1>8. ASSUME NEW i \in Changes(s) PROVE Rank(r, i) = Rank(s, i) + 1 /\ End(r, i) = End(s, i)
  <2> DEFINE from == {j \in Changes(s) : j >= i}
             above == {j \in Changes(s) : j > i}
  <2>1. {j \in Changes(r) : j >= i} = from \cup {m} /\ m \notin from
    BY <1>2, <1>4, <1>5
  <2>2. IsFiniteSet(from)
    <3>1. from \in SUBSET Changes(s)
      OBVIOUS
    <3> QED
      BY <1>3, <3>1, FS_Subset
  <2>3. Rank(r, i) = Rank(s, i) + 1
    BY <2>1, <2>2, FS_AddElement DEF Rank
  <2>4. {j \in Changes(r) : j > i} \cup {Len(r) + 1} = (above \cup {m}) \cup {m + 1}
    BY <1>1, <1>4, <1>5
  <2>5. above \cup {m} \in SUBSET Nat /\ above \cup {m} # {}
    BY <1>2, <1>4
  <2>6. \A y \in above \cup {m} : y <= m /\ y \in Nat
    BY <1>2, <1>4
  <2> HIDE DEF above, from
  <2> DEFINE e == Min(above \cup {m})
  <2>7. e \in above \cup {m} /\ \A y \in above \cup {m} : e <= y
    BY <2>5, Least
  <2> HIDE DEF e
  <2>8. Min((above \cup {m}) \cup {m + 1}) = e
    <3>1. (above \cup {m}) \cup {m + 1} \in SUBSET Nat /\ e \in (above \cup {m}) \cup {m + 1}
      BY <1>2, <2>5, <2>7
    <3>2. \A y \in (above \cup {m}) \cup {m + 1} : e <= y
      BY <1>2, <2>6, <2>7
    <3> QED
      BY <3>1, <3>2, LeastIs
  <2> QED
    BY <1>2, <2>3, <2>4, <2>8 DEF End, e, above
<1>9. \A i \in Changes(s) : r[i] = s[i]
  BY <1>1, <1>3
<1> QED
  BY <1>1, <1>4, <1>5, <1>6, <1>7, <1>8, <1>9

LEMMA SaveRepeats ==
    ASSUME NEW e \in Seq(Infos), NEW c \in Nat, NEW s \in Seq(Texts), NEW x \in Texts,
           Shows(e, c, s), e # <<>>, e[Len(e)].message = x,
           NEW d, d = [e EXCEPT ![Len(e)].count = @ + 1]
    PROVE  d \in Seq(Infos) /\ Shows(d, c, Append(s, x))
<1>1. s # <<>> /\ x = s[Len(s)] /\ Len(e) \in Nat \ {0}
  BY DEF Shows
<1>2. PICK r : r = Append(s, x)
  OBVIOUS
<1>3. /\ Changes(r) = Changes(s)
      /\ \A i \in Changes(s) : /\ Rank(r, i) = Rank(s, i) /\ r[i] = s[i]
                               /\ End(r, i) = End(s, i) + (IF Rank(s, i) = 1 THEN 1 ELSE 0)
                               /\ End(s, i) \in Nat /\ i <= End(s, i) /\ i \in Nat
  <2>1. r \in Seq(Texts) /\ Extends(r, s, x)
    BY <1>2, AppendExtends
  <2> QED
    BY <1>1, <2>1, Repeated
<1>4. e[Len(e)] \in Infos /\ e[Len(e)].count \in Nat
  <2>1. Len(e) \in 1..Len(e) /\ e \in [1..Len(e) -> Infos]
    BY <1>1
  <2>2. e[Len(e)] \in Infos
    BY <2>1
  <2> QED
    BY <2>2 DEF Infos
<1>5. /\ d \in Seq(Infos) /\ Len(d) = Len(e)
      /\ d[Len(e)] = [message |-> x, count |-> e[Len(e)].count + 1]
      /\ \A k \in 1..Len(e) : k # Len(e) => d[k] = e[k]
  BY <1>1, <1>4 DEF Infos
<1>6. r # <<>> /\ r[Len(r)] = x
  BY <1>2
<1>7. ASSUME NEW i \in Changes(r), Rank(r, i) <= ErrorsKept
      PROVE  d[Len(d) + 1 - Rank(r, i)] = [message |-> r[i], count |-> End(r, i) - i]
  <2>1. i \in Changes(s) /\ Rank(s, i) \in Nat /\ 1 <= Rank(s, i) /\ Rank(s, i) <= c /\ Rank(s, i) <= ErrorsKept
    BY <1>3, <1>7, RankBounds DEF Shows
  <2>2. e[Len(e) + 1 - Rank(s, i)] = [message |-> s[i], count |-> End(s, i) - i]
    BY <2>1 DEF Shows
  <2>3. Len(e) + 1 - Rank(s, i) \in 1..Len(e)
    BY <2>1, <1>1, TaskAssumption DEF Shows
  <2>4. CASE Rank(s, i) = 1
    <3>1. Len(e) + 1 - Rank(s, i) = Len(e)
      BY <1>1, <2>4
    <3>2. e[Len(e)] = [message |-> s[i], count |-> End(s, i) - i]
      BY <2>2, <3>1
    <3>3. End(r, i) - i = (End(s, i) - i) + 1
      BY <1>3, <2>1, <2>4
    <3>4. d[Len(e)] = [message |-> s[i], count |-> End(r, i) - i]
      BY <1>5, <3>2, <3>3
    <3> QED
      BY <1>3, <1>5, <2>1, <3>1, <3>4
  <2>5. CASE Rank(s, i) # 1
    <3>1. Len(e) + 1 - Rank(s, i) # Len(e)
      BY <1>1, <2>1, <2>5
    <3>2. End(r, i) = End(s, i)
      BY <1>3, <2>1, <2>5
    <3> QED
      BY <1>3, <1>5, <2>1, <2>2, <2>3, <3>1, <3>2
  <2> QED
    BY <2>4, <2>5
<1>8. \A k \in 1..c : \E i \in Changes(r) : Rank(r, i) = k
  BY <1>3 DEF Shows
<1>9. c = Cardinality(Changes(r)) /\ Len(d) = IF c < ErrorsKept THEN c ELSE ErrorsKept
  BY <1>3, <1>5 DEF Shows
<1>10. d # <<>> /\ d[Len(d)].message = r[Len(r)]
  BY <1>1, <1>5, <1>6
<1> QED
  BY <1>2, <1>5, <1>6, <1>7, <1>8, <1>9, <1>10 DEF Shows

LEMMA SavePushes ==
    ASSUME NEW e \in Seq(Infos), NEW c \in Nat, NEW s \in Seq(Texts), NEW x \in Texts,
           Shows(e, c, s), ~(e # <<>> /\ e[Len(e)].message = x),
           NEW k, k = IF Len(e) = ErrorsKept THEN Tail(e) ELSE e,
           NEW d, d = Append(k, [message |-> x, count |-> 1])
    PROVE  d \in Seq(Infos) /\ Shows(d, c + 1, Append(s, x))
<1>1. (s # <<>> => x # s[Len(s)]) /\ Len(e) \in Nat /\ ErrorsKept \in Nat \ {0}
  BY TaskAssumption DEF Shows
<1>2. PICK r, m : r = Append(s, x) /\ m = Len(s) + 1
  OBVIOUS
<1>3. /\ m \notin Changes(s) /\ Changes(r) = Changes(s) \cup {m}
      /\ Cardinality(Changes(r)) = Cardinality(Changes(s)) + 1
      /\ Rank(r, m) = 1 /\ r[m] = x /\ End(r, m) = m + 1
      /\ \A i \in Changes(s) : /\ Rank(r, i) = Rank(s, i) + 1 /\ r[i] = s[i]
                               /\ End(r, i) = End(s, i)
  <2>1. r \in Seq(Texts) /\ Extends(r, s, x) /\ m = Len(s) + 1
    BY <1>2, AppendExtends
  <2> QED
    BY <1>1, <2>1, Changed
<1>4. /\ k \in Seq(Infos) /\ Len(k) \in Nat
      /\ Len(k) = IF Len(e) = ErrorsKept THEN Len(e) - 1 ELSE Len(e)
      /\ \A j \in 1..Len(k) : k[j] = e[j + (Len(e) - Len(k))]
  <2>1. CASE Len(e) = ErrorsKept
    <3>1. k = Tail(e) /\ e # <<>>
      BY <1>1, <2>1
    <3>2. Tail(e) \in Seq(Infos) /\ Len(Tail(e)) = Len(e) - 1 /\ \A j \in 1..(Len(e) - 1) : Tail(e)[j] = e[j + 1]
      BY <3>1
    <3>3. Len(e) - (Len(e) - 1) = 1
      BY <1>1
    <3> QED
      BY <1>1, <2>1, <3>1, <3>2, <3>3
  <2>2. CASE Len(e) # ErrorsKept
    <3>1. k = e
      BY <2>2
    <3>2. \A j \in 1..Len(e) : j + (Len(e) - Len(e)) = j
      BY <1>1
    <3> QED
      BY <1>1, <2>2, <3>1, <3>2
  <2> QED
    BY <2>1, <2>2
<1>5. [message |-> x, count |-> 1] \in Infos
  BY DEF Infos
<1>6. /\ d \in Seq(Infos) /\ Len(d) = Len(k) + 1 /\ d[Len(d)] = [message |-> x, count |-> 1]
      /\ \A j \in 1..Len(k) : d[j] = k[j]
  BY <1>4, <1>5
<1>7. r # <<>> /\ r[Len(r)] = x /\ Len(r) = m /\ m \in Nat
  BY <1>2
<1>8. Len(d) = IF c + 1 < ErrorsKept THEN c + 1 ELSE ErrorsKept
  BY <1>1, <1>4, <1>6 DEF Shows
<1>9. ASSUME NEW i \in Changes(r), Rank(r, i) <= ErrorsKept
      PROVE  d[Len(d) + 1 - Rank(r, i)] = [message |-> r[i], count |-> End(r, i) - i]
  <2>1. CASE i = m
    <3>1. Len(d) + 1 - Rank(r, i) = Len(d) /\ End(r, i) - i = 1
      BY <1>3, <1>4, <1>6, <1>7, <2>1
    <3> QED
      BY <1>3, <1>6, <2>1, <3>1
  <2>2. CASE i # m
    <3>1. i \in Changes(s) /\ Rank(r, i) = Rank(s, i) + 1 /\ r[i] = s[i] /\ End(r, i) = End(s, i)
      BY <1>3, <2>2
    <3>2. Rank(s, i) \in Nat /\ 1 <= Rank(s, i) /\ Rank(s, i) <= c
      BY <3>1, RankBounds DEF Shows
    <3>3. Rank(s, i) <= ErrorsKept /\ Rank(s, i) + 1 <= ErrorsKept
      BY <1>1, <1>9, <3>1, <3>2
    <3>4. e[Len(e) + 1 - Rank(s, i)] = [message |-> s[i], count |-> End(s, i) - i]
      BY <3>1, <3>3 DEF Shows
    <3>5. /\ Len(d) + 1 - Rank(r, i) \in 1..Len(k)
          /\ (Len(d) + 1 - Rank(r, i)) + (Len(e) - Len(k)) = Len(e) + 1 - Rank(s, i)
      <4>0. Len(d) = Len(k) + 1 /\ Len(k) \in Nat
        BY <1>4, <1>6
      <4>1. Len(d) + 1 - Rank(r, i) = Len(k) + 1 - Rank(s, i)
        BY <3>1, <3>2, <4>0
      <4>2. Rank(s, i) <= Len(k)
        BY <1>1, <1>8, <3>2, <3>3, <4>0
      <4> QED
        BY <1>1, <1>4, <3>2, <4>1, <4>2
    <3> QED
      BY <1>4, <1>6, <3>1, <3>4, <3>5
  <2> QED
    BY <2>1, <2>2
<1>10. \A j \in 1..(c + 1) : \E i \in Changes(r) : Rank(r, i) = j
  <2> SUFFICES ASSUME NEW j \in 1..(c + 1) PROVE \E i \in Changes(r) : Rank(r, i) = j
    OBVIOUS
  <2>1. CASE j = 1
    BY <1>3, <2>1
  <2>2. CASE j # 1
    <3>1. j - 1 \in 1..c
      BY <2>2
    <3>2. PICK i \in Changes(s) : Rank(s, i) = j - 1
      BY <3>1 DEF Shows
    <3>3. i \in Changes(r) /\ Rank(r, i) = j
      BY <1>3, <3>2
    <3> QED
      BY <3>3
  <2> QED
    BY <2>1, <2>2
<1>11. c + 1 = Cardinality(Changes(r))
  BY <1>3 DEF Shows
<1>12. d # <<>> /\ d[Len(d)].message = r[Len(r)]
  BY <1>4, <1>6, <1>7
<1> QED
  BY <1>2, <1>6, <1>7, <1>8, <1>9, <1>10, <1>11, <1>12 DEF Shows

\* What the page shows of a log that LogInv holds for.
LEMMA PageFaithful == ASSUME LogInv PROVE ErrorLogFaithful
<1> SUFFICES ASSUME NEW t \in Tasks
             PROVE  LET page == dump_html(t)
                        s == thrown[t]
                        starts == Changes(s)
                        shown == {i \in starts : Cardinality({j \in starts : j > i}) < ErrorsKept}
                        end(i) == Min({j \in starts : j > i} \cup {Len(s) + 1})
                    IN  /\ page.errors = Cardinality(starts)
                        /\ Len(page.log) = Cardinality(shown)
                        /\ \A i \in shown :
                              page.log[Cardinality({j \in shown : j >= i})]
                                 = [message |-> s[i], count |-> end(i) - i]
  BY DEF ErrorLogFaithful
<1>1. PICK e, c, s : e = errors_[t] /\ c = errors_count_[t] /\ s = thrown[t]
  OBVIOUS
<1>2. e \in Seq(Infos) /\ c \in Nat /\ s \in Seq(Texts) /\ Shows(e, c, s)
  BY <1>1 DEF LogInv
<1> DEFINE shown == {i \in Changes(s) : Cardinality({j \in Changes(s) : j > i}) < ErrorsKept}
<1>3. ErrorsKept \in Nat \ {0} /\ Len(e) \in Nat /\ c = Cardinality(Changes(s)) /\ Len(e) = (IF c < ErrorsKept THEN c ELSE ErrorsKept)
  BY <1>2, TaskAssumption DEF Shows
<1>4. \A i \in Changes(s) :
         /\ i \in Nat /\ Rank(s, i) \in Nat /\ 1 <= Rank(s, i) /\ Rank(s, i) <= c
         /\ \A j \in Changes(s) : i < j => Rank(s, j) < Rank(s, i)
         /\ Rank(s, i) = Cardinality({j \in Changes(s) : j > i}) + 1
         /\ Cardinality({j \in Changes(s) : j > i}) \in Nat
  <2> TAKE i \in Changes(s)
  <2>1. i \in Nat
    BY <1>2, ChangesFinite
  <2> QED
    BY <1>2, <1>3, <2>1, RankBounds
<1>5. /\ \A i \in Changes(s) : i \in Nat /\ Rank(s, i) \in Nat /\ 1 <= Rank(s, i) /\ Rank(s, i) <= c
      /\ \A i, j \in Changes(s) : i < j => Rank(s, j) < Rank(s, i)
  BY <1>4
<1>6. ErrorsKept \in Nat /\ c \in Nat /\ Len(e) \in Nat /\ Len(e) = (IF c < ErrorsKept THEN c ELSE ErrorsKept)
  BY <1>2, <1>3
<1>7. shown = {i \in Changes(s) : Rank(s, i) <= ErrorsKept}
  <2>1. ASSUME NEW i \in Changes(s)
        PROVE  Cardinality({j \in Changes(s) : j > i}) < ErrorsKept <=> Rank(s, i) <= ErrorsKept
    BY <1>3, <1>4
  <2> QED
    BY <2>1
<1> HIDE DEF shown
<1>8. Cardinality(shown) = Len(e)
  <2>1. CASE c < ErrorsKept
    <3>1. shown = Changes(s)
      <4>1. \A i \in Changes(s) : Rank(s, i) <= ErrorsKept
        BY <1>5, <1>6, <2>1
      <4> QED
        BY <1>7, <4>1
    <3> QED
      BY <1>3, <2>1, <3>1
  <2>2. CASE ~(c < ErrorsKept)
    <3>1. ErrorsKept \in 1..c
      BY <1>2, <1>3, <2>2
    <3>2. PICK k \in Changes(s) : Rank(s, k) = ErrorsKept
      BY <1>2, <3>1 DEF Shows
    <3>3. ASSUME NEW j \in Changes(s) PROVE Rank(s, j) <= ErrorsKept <=> j >= k
      <4>1. j \in Nat /\ k \in Nat /\ Rank(s, j) \in Nat /\ ErrorsKept \in Nat
        BY <1>5, <1>6
      <4>2. (j < k => ErrorsKept < Rank(s, j)) /\ (k < j => Rank(s, j) < ErrorsKept) /\ (j = k => Rank(s, j) = ErrorsKept)
        BY <1>5, <3>2
      <4> QED
        BY <4>1, <4>2
    <3>4. shown = {j \in Changes(s) : j >= k}
      BY <1>7, <3>3
    <3> QED
      BY <1>3, <2>2, <3>2, <3>4 DEF Rank
  <2> QED
    BY <2>1, <2>2
<1>9. ASSUME NEW i \in shown PROVE Cardinality({j \in shown : j >= i}) = Rank(s, i)
  <2>1. i \in Changes(s) /\ Rank(s, i) <= ErrorsKept
    BY <1>7, <1>9
  <2>2. ASSUME NEW j \in Changes(s), j >= i PROVE j \in shown
    <3>1. j \in Nat /\ i \in Nat /\ Rank(s, j) \in Nat /\ Rank(s, i) \in Nat /\ ErrorsKept \in Nat
      BY <1>5, <1>6, <2>1
    <3>2. (i < j => Rank(s, j) < Rank(s, i)) /\ (i = j => Rank(s, j) = Rank(s, i))
      BY <1>5, <2>1
    <3>3. Rank(s, j) <= ErrorsKept
      BY <2>1, <2>2, <3>1, <3>2
    <3> QED
      BY <1>7, <3>3
  <2>3. {j \in shown : j >= i} = {j \in Changes(s) : j >= i}
    BY <1>7, <2>2
  <2> QED
    BY <2>3 DEF Rank
<1>10. Reverse(e) \in Seq(Infos) /\ Len(Reverse(e)) = Len(e) /\ \A r \in 1..Len(e) : Reverse(e)[r] = e[Len(e) + 1 - r]
  <2>1. Reverse(e) = [r \in 1..Len(e) |-> e[(Len(e) - r) + 1]]
    BY DEF Reverse
  <2>2. \A r \in 1..Len(e) : (Len(e) - r) + 1 \in 1..Len(e) /\ (Len(e) - r) + 1 = Len(e) + 1 - r
    BY <1>3
  <2>3. e \in [1..Len(e) -> Infos]
    BY <1>2
  <2>4. Reverse(e) \in [1..Len(e) -> Infos]
    BY <2>1, <2>2, <2>3
  <2>5. Reverse(e) \in Seq(Infos) /\ DOMAIN Reverse(e) = 1..Len(e)
    <3> HIDE DEF Reverse
    <3> QED
      BY <1>6, <2>4
  <2>6. Len(Reverse(e)) = Len(e)
    BY <1>3, <2>5
  <2> QED
    BY <2>1, <2>2, <2>5, <2>6
<1>11. ASSUME NEW i \in shown
      PROVE  Reverse(e)[Cardinality({j \in shown : j >= i})] = [message |-> s[i], count |-> End(s, i) - i]
  <2>1. i \in Changes(s) /\ Rank(s, i) <= ErrorsKept
    BY <1>7, <1>11
  <2>2. Rank(s, i) \in 1..Len(e)
    BY <1>5, <1>6, <2>1
  <2>3. e[Len(e) + 1 - Rank(s, i)] = [message |-> s[i], count |-> End(s, i) - i]
    BY <1>2, <2>1 DEF Shows
  <2> QED
    BY <1>9, <1>10, <2>2, <2>3
<1> QED
  BY <1>1, <1>3, <1>8, <1>10, <1>11 DEF dump_html, current_errors, End, shown

LEMMA LogInit == ASSUME Init PROVE LogInv
<1>1. Changes(<<>>) = {} /\ Cardinality({}) = 0
  BY FS_EmptySet DEF Changes
<1>2. Shows(<<>>, 0, <<>>)
  <2>1. Len(<<>>) = IF 0 < ErrorsKept THEN 0 ELSE ErrorsKept
    BY TaskAssumption
  <2>2. \A r \in 1..0 : FALSE
    OBVIOUS
  <2> QED
    BY <1>1, <2>1, <2>2 DEF Shows
<1> QED
  BY <1>2 DEF Init, LogInv, None

LEMMA LogKept == ASSUME LogInv, UNCHANGED log PROVE LogInv'
BY DEF LogInv, log

LEMMA FailLog == ASSUME LogInv, NEW t \in Tasks, NEW text \in Texts, Fail(t, text) PROVE LogInv'
<1>1. PICK e, c, s : e = errors_[t] /\ c = errors_count_[t] /\ s = thrown[t]
  OBVIOUS
<1>2. e \in Seq(Infos) /\ c \in Nat /\ s \in Seq(Texts) /\ Shows(e, c, s)
  BY <1>1 DEF LogInv
<1>3. PICK d, k : /\ errors_' = [errors_ EXCEPT ![t] = d] /\ errors_count_' = [errors_count_ EXCEPT ![t] = k]
                  /\ k \in Nat /\ d \in Seq(Infos) /\ Shows(d, k, Append(s, text))
  <2>1. CASE e # <<>> /\ e[Len(e)].message = text
    <3>1. PICK d : d = [e EXCEPT ![Len(e)].count = @ + 1]
      OBVIOUS
    <3>2. d \in Seq(Infos) /\ Shows(d, c, Append(s, text))
      BY <1>2, <2>1, <3>1, SaveRepeats
    <3>3. errors_' = [errors_ EXCEPT ![t] = d] /\ errors_count_' = [errors_count_ EXCEPT ![t] = c]
      BY <1>1, <2>1, <3>1 DEF Fail, save_error
    <3> QED
      BY <1>2, <3>2, <3>3
  <2>2. CASE ~(e # <<>> /\ e[Len(e)].message = text)
    <3>1. PICK k, d : k = (IF Len(e) = ErrorsKept THEN Tail(e) ELSE e) /\ d = Append(k, [message |-> text, count |-> 1])
      OBVIOUS
    <3>2. d \in Seq(Infos) /\ Shows(d, c + 1, Append(s, text))
      BY <1>2, <2>2, <3>1, SavePushes
    <3>3. errors_' = [errors_ EXCEPT ![t] = d] /\ errors_count_' = [errors_count_ EXCEPT ![t] = c + 1]
      BY <1>1, <2>2, <3>1 DEF Fail, save_error
    <3>4. c + 1 \in Nat
      BY <1>2
    <3> QED
      BY <3>2, <3>3, <3>4, Zenon
  <2> QED
    BY <2>1, <2>2
<1>4. thrown' = [thrown EXCEPT ![t] = Append(s, text)] /\ Append(s, text) \in Seq(Texts)
  BY <1>1, <1>2 DEF Fail
<1> QED
  BY <1>3, <1>4 DEF LogInv

\* An exception is caught in Fail, and no other action touches the log.
LEMMA LogNext == ASSUME LogInv, [Next]_vars PROVE LogInv'
<1>1. CASE UNCHANGED vars
  BY <1>1, LogKept DEF vars
<1>2. ASSUME NEW n \in Names, register_cyclic_task(n) \/ delete_cyclic_task(n) PROVE LogInv'
  BY <1>2, LogKept DEF register_cyclic_task, delete_cyclic_task
<1>3. ASSUME NEW t \in Tasks, Expire(t) \/ HandleAborted(t) \/ Begin(t) \/ Finish(t) \/ StopTask(t) PROVE LogInv'
  BY <1>3, LogKept DEF Expire, HandleAborted, Begin, Finish, StopTask
<1>4. ASSUME NEW t \in Tasks, NEW text \in Texts, Fail(t, text) PROVE LogInv'
  BY <1>4, FailLog
<1>5. CASE StopBegin \/ StopRoutineReturns \/ StopRoutineThrows \/ StopClear \/ stop_asio
  BY <1>5, LogKept DEF StopBegin, StopRoutineReturns, StopRoutineThrows, StopClear, stop_asio
<1> QED
  BY <1>1, <1>2, <1>3, <1>4, <1>5 DEF Next

\* save_error: the page of every task shows the last ErrorsKept runs of equal
\* texts that its handler has caught, each with its true count, and counts
\* all of them, however often the ring has dropped its oldest entry.
THEOREM TaskLogFaithful == Spec => []ErrorLogFaithful
<1>1. Init => LogInv
  BY LogInit
<1>2. LogInv /\ [Next]_vars => LogInv'
  BY LogNext
<1>3. LogInv => ErrorLogFaithful
  BY PageFaithful
<1> QED
  BY <1>1, <1>2, <1>3, PTL DEF Spec
=============================================================================
