----------------------------- MODULE ReadableLob -----------------------------
(***************************************************************************)
(* A Lob read from the database as a Node.js Readable stream, as the LOB   *)
(* guide describes it (src/unnamed/part_001): it starts paused; a 'data'  *)
(* handler or resume() makes it flow, pause() stops the 'data' events, and *)
(* read() pulls the buffered data in paused mode.  Underneath, the stream *)
(* fetches pieces of pieceSize units from the database, one fetch at a    *)
(* time, keeping at most highWaterMark units buffered.  The Lob is closed *)
(* automatically when the stream ends or fails, and destroy() closes one  *)
(* that was not read to the end.                                           *)
(*                                                                         *)
(* The LOB is LEN units; content is abstracted to positions, since every  *)
(* fetch reads the next pieceSize units at the current offset.            *)
(***************************************************************************)
EXTENDS Naturals

CONSTANTS
    LEN,        \* length of the LOB in units (bytes or characters)
    PieceSize,  \* lob.pieceSize: units asked for by each fetch
    HWM,        \* highWaterMark of the Readable buffer, in units
    MaxPauses   \* how many times the application calls pause()

ASSUME LENAssumption == LEN \in Nat
ASSUME PieceSizeAssumption == PieceSize \in Nat \ {0}
ASSUME HWMAssumption == HWM \in Nat \ {0}
ASSUME MaxPausesAssumption == MaxPauses \in Nat

VARIABLES
    mode,       \* readableFlowing: "none" (initial), "paused", "flowing"
    started,    \* read() or flowing has asked the stream for data
    inflight,   \* a database fetch is outstanding
    offset,     \* units fetched from the database so far
    eof,        \* a fetch returned no data: push(null) has been done
    buffered,   \* units fetched and not yet delivered
    delivered,  \* units handed to the application
    status,     \* "open", "ended" ('end' emitted), "errored", "destroyed"
    pauses      \* pause() calls made so far

vars == <<mode, started, inflight, offset, eof, buffered, delivered, status,
          pauses>>

TypeOK ==
    /\ mode \in {"none", "paused", "flowing"}
    /\ started \in BOOLEAN
    /\ inflight \in BOOLEAN
    /\ offset \in 0..LEN
    /\ eof \in BOOLEAN
    /\ buffered \in 0..LEN
    /\ delivered \in 0..LEN
    /\ status \in {"open", "ended", "errored", "destroyed"}
    /\ pauses \in 0..MaxPauses

MinOf(a, b) == IF a < b THEN a ELSE b

Init ==
    /\ mode = "none"
    /\ started = FALSE
    /\ inflight = FALSE
    /\ offset = 0
    /\ eof = FALSE
    /\ buffered = 0
    /\ delivered = 0
    /\ status = "open"
    /\ pauses = 0

(* lob.on('data', ...) or lob.pipe(...): a Lob that was never paused       *)
(* switches to flowing mode (part_001 lines 256-258, 438, 458).           *)
AttachData ==
    /\ status = "open"
    /\ mode = "none"
    /\ mode' = "flowing"
    /\ started' = TRUE
    /\ UNCHANGED <<inflight, offset, eof, buffered, delivered, status, pauses>>

(* lob.pause(): no more 'data' events (lines 260-263).                     *)
Pause ==
    /\ status = "open"
    /\ pauses < MaxPauses
    /\ mode' = "paused"
    /\ pauses' = pauses + 1
    /\ UNCHANGED <<started, inflight, offset, eof, buffered, delivered, status>>

(* lob.resume(): back to flowing mode (lines 265-267); like a 'data'     *)
(* handler it also starts the reading of a Lob never read before.        *)
ResumeNoRead ==
    /\ status = "open"
    /\ mode # "flowing"
    /\ mode' = "flowing"
    /\ UNCHANGED <<started, inflight, offset, eof, buffered, delivered, status,
                   pauses>>

Resume ==
    /\ status = "open"
    /\ mode # "flowing"
    /\ mode' = "flowing"
    /\ started' = TRUE
    /\ UNCHANGED <<inflight, offset, eof, buffered, delivered, status, pauses>>

(* lob.read() in paused mode (lines 244-249): returns everything buffered, *)
(* or, with nothing buffered after the last piece, ends the stream; the   *)
(* Lob is then closed automatically (lines 251-253).                      *)
Read ==
    /\ status = "open"
    /\ mode # "flowing"
    /\ started' = TRUE
    /\ \/ /\ buffered > 0
          /\ delivered' = delivered + buffered
          /\ buffered' = 0
          /\ UNCHANGED status
       \/ /\ buffered = 0
          /\ ~eof
          /\ UNCHANGED <<delivered, buffered, status>>
       \/ /\ buffered = 0
          /\ eof
          /\ status' = "ended"
          /\ UNCHANGED <<delivered, buffered>>
    /\ UNCHANGED <<mode, inflight, offset, eof, pauses>>

(* The stream asks the database for the next piece of lob.pieceSize units *)
(* (lines 465-469): only one fetch at a time, only while below            *)
(* highWaterMark and before the end of the LOB.                           *)
FetchStartNoLimit ==
    /\ status = "open"
    /\ started
    /\ ~inflight
    /\ ~eof
    /\ inflight' = TRUE
    /\ UNCHANGED <<mode, started, offset, eof, buffered, delivered, status,
                   pauses>>

FetchStart ==
    /\ status = "open"
    /\ started
    /\ ~inflight
    /\ ~eof
    /\ buffered < HWM
    /\ inflight' = TRUE
    /\ UNCHANGED <<mode, started, offset, eof, buffered, delivered, status,
                   pauses>>

(* The fetch returns.  A non-empty piece is pushed into the buffer, in any *)
(* mode; an empty one marks the end of the data.  A fetch that fails      *)
(* destroys the stream with the error, which closes the Lob.  A result    *)
(* arriving after the stream was destroyed is dropped (lines 250-253).    *)
FetchDoneFullPiece ==
    /\ inflight
    /\ inflight' = FALSE
    /\ \/ /\ status = "open"
          /\ IF offset = LEN
             THEN /\ eof' = TRUE
                  /\ UNCHANGED <<offset, buffered>>
             ELSE /\ offset' = offset + PieceSize
                  /\ buffered' = buffered + PieceSize
                  /\ UNCHANGED eof
          /\ UNCHANGED status
       \/ /\ status = "open"
          /\ status' = "errored"
          /\ buffered' = 0
          /\ UNCHANGED <<offset, eof>>
       \/ /\ status # "open"
          /\ UNCHANGED <<offset, eof, buffered, status>>
    /\ UNCHANGED <<mode, started, delivered, pauses>>

FetchDone ==
    /\ inflight
    /\ inflight' = FALSE
    /\ \/ /\ status = "open"
          /\ LET n == MinOf(PieceSize, LEN - offset)
             IN  IF n = 0
                 THEN /\ eof' = TRUE
                      /\ UNCHANGED <<offset, buffered>>
                 ELSE /\ offset' = offset + n
                      /\ buffered' = buffered + n
                      /\ UNCHANGED eof
          /\ UNCHANGED status
       \/ /\ status = "open"
          /\ status' = "errored"
          /\ buffered' = 0
          /\ UNCHANGED <<offset, eof>>
       \/ /\ status # "open"
          /\ UNCHANGED <<offset, eof, buffered, status>>
    /\ UNCHANGED <<mode, started, delivered, pauses>>

(* In flowing mode the oldest buffered piece is emitted as a 'data' event *)
(* (each piece is pieceSize units, the last one possibly shorter; lines  *)
(* 458-460).                                                               *)
EmitData ==
    /\ status = "open"
    /\ mode = "flowing"
    /\ buffered > 0
    /\ LET k == MinOf(PieceSize, buffered)
       IN  /\ delivered' = delivered + k
           /\ buffered' = buffered - k
    /\ UNCHANGED <<mode, started, inflight, offset, eof, status, pauses>>

(* In flowing mode, after the last piece, 'end' is emitted and the Lob is  *)
(* closed automatically (lines 251-253, 432, 440).                        *)
EmitEndEarly ==
    /\ status = "open"
    /\ mode = "flowing"
    /\ eof
    /\ status' = "ended"
    /\ UNCHANGED <<mode, started, inflight, offset, eof, buffered, delivered,
                   pauses>>

EmitEnd ==
    /\ status = "open"
    /\ mode = "flowing"
    /\ eof
    /\ buffered = 0
    /\ status' = "ended"
    /\ UNCHANGED <<mode, started, inflight, offset, eof, buffered, delivered,
                   pauses>>

(* lob.destroy(): closes a Lob not streamed to completion (lines 253-254, *)
(* 553-557); the buffered data is discarded.                              *)
Destroy ==
    /\ status = "open"
    /\ status' = "destroyed"
    /\ buffered' = 0
    /\ UNCHANGED <<mode, started, inflight, offset, eof, delivered, pauses>>

Next ==
    \/ AttachData
    \/ Pause
    \/ Resume
    \/ Read
    \/ FetchStart
    \/ FetchDone
    \/ EmitData
    \/ EmitEnd
    \/ Destroy

(* The stream's own steps and the database's answers always happen; the   *)
(* application eventually asks for data (a 'data' handler, resume() or    *)
(* read()) and does not stay paused forever.  pause() and destroy() are   *)
(* the application's choice and are never forced.                         *)
Fairness ==
    /\ WF_vars(FetchStart)
    /\ WF_vars(FetchDone)
    /\ WF_vars(EmitData)
    /\ WF_vars(EmitEnd)
    /\ WF_vars(Resume)

Spec == Init /\ [][Next]_vars /\ Fairness

-----------------------------------------------------------------------------
(* What the consumer sees, as the abstract LobSequence: the units it has  *)
(* received, and whether the stream ended, failed or was destroyed.       *)
AbsState ==
    IF status = "open" THEN "open"
    ELSE IF status = "ended" THEN "complete"
    ELSE "aborted"

Abs == INSTANCE LobSequence WITH got <- delivered, state <- AbsState

(* The readable Lob implements LobSequence: whatever the application does *)
(* with pause(), resume(), read() and 'data', it receives the LOB as one  *)
(* growing prefix, 'end' is emitted only after every unit was delivered,  *)
(* and nothing is delivered after 'end', an error or destroy().          *)
ImplementsLobSequence == Abs!Spec

(* highWaterMark bounds the memory a paused or slow consumer makes the    *)
(* stream hold: the fetch loop stops once the buffer reaches it, so at   *)
(* most one piece lands beyond it.                                        *)
BufferBound == buffered < HWM + PieceSize

(* Every Lob the application starts reading is eventually released: it   *)
(* reaches 'end' (and is closed automatically) or fails, as long as the  *)
(* application does not leave it paused for good.                        *)
EventuallyReleased == <>(status # "open")

=============================================================================
