--------------------------- MODULE HealthRegister ---------------------------
(***************************************************************************)
(* health_register: the last known trouble of every item (a cyclic task, a *)
(* loading event), shown by the health check of the web interface.  Cyclic *)
(* tasks, life-span routines and web handlers call it from many threads;   *)
(* each call holds the mutex, so a call is one step.                       *)
(***************************************************************************)
EXTENDS Integers, FiniteSets

CONSTANTS
    Items,
    KeepTime,         \* 1800 seconds
    MaxTime           \* bound on the clock

\* enum class health_status
WARNING  == 1
ERROR    == 2
CRITICAL == 3
Levels   == {WARNING, ERROR, CRITICAL}

VARIABLES
    now,              \* time(0)
    values_,          \* item -> [status_type, last_time]
    shown             \* history: what the last health check got

vars == <<now, values_, shown>>

Init ==
    /\ now = 0
    /\ values_ = [i \in {} |-> 0]
    /\ shown = [i \in {} |-> 0]

Tick ==
    /\ now < MaxTime
    /\ now' = now + 1
    /\ UNCHANGED <<values_, shown>>

\* The items that erase_old_messages leaves.
erase_old_messages == {i \in DOMAIN values_ : values_[i].last_time >= now - KeepTime}

\* The entry is there and its status_type is less than the new one.
Refuses(item, level) ==
    item \in erase_old_messages /\ values_[item].status_type < level

\* warning(), error(), critical()
register_message(level, item) ==
    /\ values_' = IF Refuses(item, level)
                  THEN [j \in erase_old_messages |-> values_[j]]
                  ELSE [j \in erase_old_messages \cup {item} |->
                           IF j = item THEN [status_type |-> level, last_time |-> now]
                           ELSE values_[j]]
    /\ UNCHANGED <<now, shown>>

\* The reset button of the state page.
clear ==
    /\ values_' = [i \in {} |-> 0]
    /\ UNCHANGED <<now, shown>>

\* The health check erases, too, before it reports.
states ==
    /\ values_' = [i \in erase_old_messages |-> values_[i]]
    /\ shown' = values_'
    /\ UNCHANGED now

Next ==
    \/ Tick
    \/ \E level \in Levels, item \in Items : register_message(level, item)
    \/ clear
    \/ states

Spec == Init /\ [][Next]_vars

-----------------------------------------------------------------------------
(* Properties. *)

\* What the comment in register_message says: an entry of a greater priority
\* is not overwritten.
PriorityKept ==
    [][\A i \in DOMAIN values_ \cap DOMAIN values_' :
          values_[i].last_time + KeepTime >= now
             => values_'[i].status_type >= values_[i].status_type]_vars
=============================================================================
