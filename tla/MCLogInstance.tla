---------------------------- MODULE MCLogInstance ----------------------------
(* Two threads and one text, which may pass once in more than a second; the   *)
(* path without a delay is that of the clean-up's own messages.               *)
EXTENDS LogInstance

MCDelay == [t \in Texts |-> 1]
=============================================================================
