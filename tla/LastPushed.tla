----------------------------- MODULE LastPushed -----------------------------
(***************************************************************************)
(* What a RingBuffer promises its users (the error log of a cyclic task,   *)
(* its execution times, the last log messages): the last S values pushed   *)
(* and not popped, oldest first.                                           *)
(***************************************************************************)
EXTENDS Naturals, Sequences

CONSTANTS Values, S

VARIABLE contents

Init == contents = <<>>

Push(x) ==
    contents' = IF Len(contents) = S THEN Append(Tail(contents), x) ELSE Append(contents, x)

Pop == contents' = IF contents = <<>> THEN contents ELSE Tail(contents)

Clear == contents' = <<>>

Next == (\E x \in Values : Push(x)) \/ Pop \/ Clear

Spec == Init /\ [][Next]_contents
=============================================================================
