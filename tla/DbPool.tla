------------------------------- MODULE DbPool -------------------------------
(***************************************************************************)
(* The pool of database connections.  A thread takes the connection that   *)
(* has been idle longest, or a new one; the handle (reusable_object) gives *)
(* it back when it is destroyed.  Idle connections are kept under the      *)
(* second of their return, and a cyclic task closes the old ones.  Every   *)
(* operation holds the mutex, but the cleaner reads the clock before it.   *)
(***************************************************************************)
EXTENDS Integers, FiniteSets, FiniteSetsExt, Functions

CONSTANTS
    Users,            \* threads that use the pool, one handle each
    Threshold,        \* 20 seconds
    MaxSecond, MaxConnections    \* bounds: clock, connections made

ASSUME PoolAssumption == IsFiniteSet(Users) /\ Threshold \in Nat /\ MaxSecond \in Nat /\ MaxConnections \in Nat

VARIABLES
    second,           \* time(nullptr)
    connections_,     \* second of return -> idle connection
    instance_of,      \* per user: the connection in its handle; 0: none
    made,             \* connections made so far: 1..made
    cleaner,          \* <<>>, or <<current_time>> while it waits for the mutex
    broken            \* the iterator of an erased entry has led astray

poolVars == <<second, connections_, instance_of, made, cleaner, broken>>

PoolInit ==
    /\ second = 0 /\ made = 0 /\ cleaner = <<>> /\ broken = FALSE
    /\ connections_ = [s \in {} |-> 0]
    /\ instance_of = [u \in Users |-> 0]

PoolTick ==
    /\ second < MaxSecond
    /\ second' = second + 1
    /\ UNCHANGED <<connections_, instance_of, made, cleaner, broken>>

\* source_conn, output_conn, online_conn
get(u) ==
    /\ instance_of[u] = 0
    /\ IF DOMAIN connections_ = {}
       THEN /\ made < MaxConnections
            /\ made' = made + 1
            /\ instance_of' = [instance_of EXCEPT ![u] = made']
            /\ UNCHANGED connections_
       ELSE LET first == Min(DOMAIN connections_)
            IN  /\ instance_of' = [instance_of EXCEPT ![u] = connections_[first]]
                /\ connections_' = Restrict(connections_, DOMAIN connections_ \ {first})
                /\ UNCHANGED made
    /\ UNCHANGED <<second, cleaner, broken>>

\* Mutant: the handle that was moved from gives the connection back, too.
Move_Copies(u, v) ==
    /\ instance_of[u] # 0 /\ instance_of[v] = 0
    /\ instance_of' = [instance_of EXCEPT ![v] = instance_of[u]]
    /\ UNCHANGED <<second, connections_, made, cleaner, broken>>

\* reusable_object(reusable_object&&): the pointer of the other is empty then.
\* (The copy constructor would leave it, as the mutant does; it is called
\* nowhere, nor is the move assignment.)
Move(u, v) ==
    /\ instance_of[u] # 0 /\ instance_of[v] = 0
    /\ instance_of' = [instance_of EXCEPT ![v] = instance_of[u], ![u] = 0]
    /\ UNCHANGED <<second, connections_, made, cleaner, broken>>

\* ~reusable_object: back() to the pool it is from.  What another thread has
\* returned in the same second is replaced, and closed by its last pointer.
back(u) ==
    /\ instance_of[u] # 0
    /\ connections_' = [s \in DOMAIN connections_ \cup {second} |->
                           IF s = second THEN instance_of[u] ELSE connections_[s]]
    /\ instance_of' = [instance_of EXCEPT ![u] = 0]
    /\ UNCHANGED <<second, made, cleaner, broken>>

\* The cyclic task source_db_pool_cleaner (output_, online_): the clock ...
CleanerReads ==
    /\ cleaner = <<>>
    /\ cleaner' = <<second>>
    /\ UNCHANGED <<second, connections_, instance_of, made, broken>>

\* Mutant: a second too early.
delete_older_then_Early ==
    /\ cleaner # <<>>
    /\ cleaner' = <<>>
    /\ connections_' = Restrict(connections_, {s \in DOMAIN connections_ : cleaner[1] - s < Threshold - 1})
    /\ UNCHANGED <<second, instance_of, made, broken>>

\* ... and the loop under the mutex, from the oldest to the first that is not
\* old.  erase(it) is followed by ++it, which is undefined: the loop may go on
\* at any later entry, end, or lead into freed memory.
delete_older_then ==
    /\ cleaner # <<>>
    /\ cleaner' = <<>>
    /\ LET old == {s \in DOMAIN connections_ : cleaner[1] - s >= Threshold}
       IN  IF old = {} THEN UNCHANGED <<connections_, broken>>
           ELSE \E gone \in SUBSET old :
                   /\ Min(old) \in gone
                   /\ connections_' = Restrict(connections_, DOMAIN connections_ \ gone)
                   /\ broken' \in BOOLEAN
    /\ UNCHANGED <<second, instance_of, made>>

PoolNext ==
    /\ ~broken
    /\ \/ PoolTick \/ CleanerReads \/ delete_older_then
       \/ \E u \in Users : get(u) \/ back(u) \/ \E v \in Users : Move(u, v)
-----------------------------------------------------------------------------
(* Properties. *)

Idle == Range(connections_)
InUse == {instance_of[u] : u \in Users} \ {0}

\* No connection is in the hands of two threads, or in a hand and in the pool
\* at once; and there are never more open than there are threads, because a
\* new one is made only when none is idle.
OneHandEach ==
    /\ \A u, v \in Users : instance_of[u] # 0 /\ instance_of[u] = instance_of[v] => u = v
    /\ IsInjective(connections_) /\ Idle \cap InUse = {}
    /\ Cardinality(Idle \cup InUse) <= Cardinality(Users)

\* A connection is closed only after it has been idle for the threshold, or
\* because another was returned in the same second: never one in use, and none
\* that came back while the cleaner waited for the mutex.
ClosedWhenIdle ==
    [][\A s \in DOMAIN connections_ :
          connections_[s] \notin Idle' \cup InUse'
             => second - s >= Threshold \/ (s = second /\ connections_'[s] \in InUse)]_poolVars
=============================================================================
