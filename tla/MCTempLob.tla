------------------------------ MODULE MCTempLob ------------------------------
(* A file of six chunks piped through a buffer of three: the pipe pauses  *)
(* at highWaterMark more than once, and a write is in flight, or a       *)
(* failure strikes, at every point of the transfer.                      *)
EXTENDS TempLob

MCLEN == 6
MCHWM == 3

=============================================================================
