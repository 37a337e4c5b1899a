------------------------------- MODULE MCWeb --------------------------------
(* A page below the merge page, one that may throw, one that may reset, and a *)
(* path without a '/'.                                                        *)
EXTENDS Web

MCPaths == {<<"merge", "x">>, <<"records">>, <<"state">>, <<>>}
=============================================================================
