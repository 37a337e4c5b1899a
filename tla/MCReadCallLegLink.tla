-------------------------- MODULE MCReadCallLegLink --------------------------
(***************************************************************************)
(* A call with two links on two servers (the same originating channel) and *)
(* a row without terminating channel.                                      *)
(***************************************************************************)
EXTENDS ReadCallLegLink, TLC

CONSTANTS c1, c2

MCLinks    == <<c1, c2>>
MCHome     == (c1 :> 1) @@ (c2 :> 2)
MCCallOrig == (c1 :> 10) @@ (c2 :> 10)
MCCallTerm == (c1 :> 11) @@ (c2 :> 0)
=============================================================================
