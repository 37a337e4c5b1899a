--------------------------- MODULE MCWindowReader ---------------------------
(***************************************************************************)
(* A table of six rows: r0 carries the very time reading starts from, r1   *)
(* and r2 fall in one window in the reverse of their time order, r3 has a  *)
(* smaller id than the older r4 and may be written late, and r5 closes the *)
(* last window; r3 and r5 make the reader catch up over r4.                *)
(***************************************************************************)
EXTENDS WindowReader, TLC

CONSTANTS r0, r1, r2, r3, r4, r5

MCRows      == {r0, r1, r2, r3, r4, r5}
MCPunctual  == MCRows \ {r3}
MCStartTime == (r0 :> 1) @@ (r1 :> 3) @@ (r2 :> 2) @@ (r3 :> 7) @@ (r4 :> 4) @@ (r5 :> 9)
MCId        == (r0 :> 1) @@ (r1 :> 2) @@ (r2 :> 3) @@ (r3 :> 4) @@ (r4 :> 5) @@ (r5 :> 6)
=============================================================================
