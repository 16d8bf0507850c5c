------------------------------- MODULE MCDict -------------------------------
(* Five keys that share buckets of small tables: four fill a table of 4, the *)
(* fifth makes it grow to 8; one alone makes a table of 16 shrink to 4.      *)
EXTENDS Dict, TLC
CONSTANTS d1, d2, d3, d4, d5
MCHash == (d1 :> 0) @@ (d2 :> 4) @@ (d3 :> 12) @@ (d4 :> 5) @@ (d5 :> 11)
=============================================================================
