----------------------------- MODULE MCLobInsert -----------------------------
(***************************************************************************)
(* A five-piece file and a Lob that applies backpressure after three       *)
(* pieces, so that the source is paused, drained and resumed mid-file and *)
(* failures can strike with pieces buffered, in flight or all written.    *)
(***************************************************************************)
EXTENDS LobInsert

MCNChunks == 5
MCHWM == 3

=============================================================================
