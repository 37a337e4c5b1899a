-------------------------- MODULE MCMergeContainer --------------------------
(***************************************************************************)
(* Two calls.  Call 1: o1 -> t2 over link k1, and a transfer over link k2. *)
(* Call 3: o3 with link k3; the younger leg x4 has the smaller id, so it   *)
(* can be dequeued first.  x5 and k5 are the rows that let the readers     *)
(* close the windows before them.                                          *)
(***************************************************************************)
EXTENDS MergeContainer, TLC

CONSTANTS o1, t2, o3, x4, x5, k1, k2, k3, k5

MCLegs    == {o1, t2, o3, x4, x5}
MCOrig    == {o1, o3}
MCLegUid  == (o1 :> 1) @@ (t2 :> 2) @@ (o3 :> 3) @@ (x4 :> 4) @@ (x5 :> 5)
MCLegTime == (o1 :> 2) @@ (t2 :> 2) @@ (o3 :> 5) @@ (x4 :> 6) @@ (x5 :> 9)
MCLegId   == (o1 :> 2) @@ (t2 :> 1) @@ (o3 :> 4) @@ (x4 :> 3) @@ (x5 :> 5)

MCLinks    == {k1, k2, k3, k5}
MCLinkOrig == (k1 :> 1) @@ (k2 :> 1) @@ (k3 :> 3) @@ (k5 :> 9)
MCLinkTerm == (k1 :> 2) @@ (k2 :> 7) @@ (k3 :> 7) @@ (k5 :> 7)
MCLinkTime == (k1 :> 2) @@ (k2 :> 3) @@ (k3 :> 5) @@ (k5 :> 7)
MCLinkId   == (k1 :> 1) @@ (k2 :> 2) @@ (k3 :> 3) @@ (k5 :> 4)
=============================================================================
