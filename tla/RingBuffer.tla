----------------------------- MODULE RingBuffer -----------------------------
(***************************************************************************)
(* The template RingBuffer<ET, S>: an array, a size and two indices that   *)
(* wrap at S.  push() on a full buffer drops the oldest element.  The      *)
(* specification is one buffer under any sequence of calls; it implements  *)
(* LastPushed.                                                             *)
(***************************************************************************)
EXTENDS Integers, Sequences

CONSTANTS
    Values,           \* ET
    S

ASSUME CapacityAssumption == S \in Nat \ {0}

VARIABLES m_buffer, m_size, m_front, m_back

ringVars == <<m_buffer, m_size, m_front, m_back>>

Index == 0..(S - 1)

\* The constructor clears; the array itself is never initialised.
RingInit ==
    /\ m_buffer \in [Index -> Values]
    /\ m_size = 0
    /\ m_front = 0
    /\ m_back = S - 1

clear ==
    /\ m_size' = 0
    /\ m_front' = 0
    /\ m_back' = S - 1
    /\ UNCHANGED m_buffer

\* Mutant: a full buffer forgets to move its front.
push_KeepsFront(x) ==
    /\ m_back' = (m_back + 1) % S
    /\ m_size' = IF m_size = S THEN m_size ELSE m_size + 1
    /\ m_buffer' = [m_buffer EXCEPT ![m_back'] = x]
    /\ UNCHANGED m_front

\* push(), then back() = x
push(x) ==
    /\ m_back' = (m_back + 1) % S
    /\ m_front' = IF m_size = S THEN (m_front + 1) % S ELSE m_front
    /\ m_size' = IF m_size = S THEN m_size ELSE m_size + 1
    /\ m_buffer' = [m_buffer EXCEPT ![m_back'] = x]

pop ==
    /\ m_size' = IF m_size > 0 THEN m_size - 1 ELSE m_size
    /\ m_front' = IF m_size > 0 THEN (m_front + 1) % S ELSE m_front
    /\ UNCHANGED <<m_buffer, m_back>>

\* What copy_to writes: m_size elements from m_front on.
copy_to == [i \in 1..m_size |-> m_buffer[(m_front + (i - 1)) % S]]

RingNext == (\E x \in Values : push(x)) \/ pop \/ clear

RingSpec == RingInit /\ [][RingNext]_ringVars

-----------------------------------------------------------------------------
(* Properties. *)

\* The indices stay inside the array, and back is where front and size say:
\* no copy reads a slot that push has not written since.
RingOK ==
    /\ m_buffer \in [Index -> Values]
    /\ m_size \in 0..S
    /\ m_front \in Index
    /\ m_back = (m_front + m_size + (S - 1)) % S

Abstract == INSTANCE LastPushed WITH contents <- copy_to

\* Under any sequence of push, pop and clear, copy_to yields the last S
\* values pushed and not popped, oldest first.
ImplementsLastPushed == Abstract!Spec
=============================================================================
