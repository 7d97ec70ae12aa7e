---------------------------- MODULE MCLobInsertDoc ----------------------------
(* A file of four pieces and a Lob highWaterMark of two: the pipe pauses *)
(* and resumes twice, and a failure can strike with pieces buffered, in    *)
(* flight or all written.                                                 *)
EXTENDS LobInsertDoc

MCNChunks == 4
MCHWM == 2

=============================================================================
