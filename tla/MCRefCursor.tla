----------------------------- MODULE MCRefCursor -----------------------------
(***************************************************************************)
(* Batches of 10 rows, as in refcursor.js, over cursors of every length   *)
(* from 0 to 25: the code's 23 rows, an empty cursor, a cursor shorter   *)
(* than one batch, and the multiples 10 and 20 that need a final empty   *)
(* getRows() call.                                                        *)
(***************************************************************************)
EXTENDS RefCursor

MCRowCounts == 0..25
MCNumRows == 10

=============================================================================
