----------------------------- MODULE MCMergeLive -----------------------------
(***************************************************************************)
(* One call o1 -> t2 over k1, followed by rows that make its record due;   *)
(* either table can run ahead of the other by more than 2 * max_call_time. *)
(***************************************************************************)
EXTENDS MergeContainer, TLC

CONSTANTS o1, t2, x3, x4, k1, k2, k3

MCLegs    == {o1, t2, x3, x4}
MCOrig    == {o1}
MCLegUid  == (o1 :> 1) @@ (t2 :> 2) @@ (x3 :> 3) @@ (x4 :> 4)
MCLegTime == (o1 :> 2) @@ (t2 :> 3) @@ (x3 :> 6) @@ (x4 :> 7)
MCLegId   == (o1 :> 2) @@ (t2 :> 1) @@ (x3 :> 3) @@ (x4 :> 4)

MCLinks    == {k1, k2, k3}
MCLinkOrig == (k1 :> 1) @@ (k2 :> 9) @@ (k3 :> 9)
MCLinkTerm == (k1 :> 2) @@ (k2 :> 9) @@ (k3 :> 9)
MCLinkTime == (k1 :> 3) @@ (k2 :> 7) @@ (k3 :> 8)
MCLinkId   == (k1 :> 1) @@ (k2 :> 2) @@ (k3 :> 3)
=============================================================================
