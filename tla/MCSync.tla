------------------------------- MODULE MCSync -------------------------------
(***************************************************************************)
(* An event for two rows of a table, and one that asks for all of them.    *)
(***************************************************************************)
EXTENDS Sync

MCRequests == {<<1, 2>>, <<1, 0>>}
=============================================================================
