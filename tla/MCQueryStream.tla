---------------------------- MODULE MCQueryStream ----------------------------
(***************************************************************************)
(* Queries of 0 to 4 rows (the demo table holds a handful): an empty      *)
(* result, and failures before, between and after the rows.               *)
(***************************************************************************)
EXTENDS QueryStream

MCRowCounts == 0..4

=============================================================================
