---------------------------- MODULE MCReadableLob ----------------------------
(***************************************************************************)
(* A 5-unit LOB read in pieces of 2 with a highWaterMark of 2: the last    *)
(* piece is short, the buffer reaches and passes the highWaterMark, and   *)
(* the application may pause twice.                                       *)
(***************************************************************************)
EXTENDS ReadableLob

MCLEN == 5
MCPieceSize == 2
MCHWM == 2
MCMaxPauses == 2

=============================================================================
