-------------------------- MODULE ReadableLobProofs --------------------------
(***************************************************************************)
(* Proofs about the readable Lob for every LOB length, pieceSize,         *)
(* highWaterMark and number of pause() calls: its buffer stays bounded,   *)
(* and it implements the abstract LobSequence.                            *)
(***************************************************************************)
EXTENDS ReadableLob, TLAPS

(* The fetch loop: the units fetched are those delivered and those still *)
(* buffered (until an error or destroy() discards the buffer), the end    *)
(* is seen only at the end of the LOB, and a fetch starts only below      *)
(* highWaterMark.                                                          *)
StreamInv ==
    /\ delivered + buffered <= offset
    /\ status = "open" => delivered + buffered = offset
    /\ eof => offset = LEN
    /\ inflight => buffered < HWM

IInv == TypeOK /\ StreamInv /\ BufferBound

USE LENAssumption, PieceSizeAssumption, HWMAssumption, MaxPausesAssumption

LEMMA IInvInit == Init => IInv
  <1> SUFFICES ASSUME Init PROVE IInv
    OBVIOUS
  <1>1. started \in BOOLEAN /\ inflight \in BOOLEAN /\ eof \in BOOLEAN
        /\ ~inflight /\ ~eof
    BY Zenon DEF Init
  <1>2. QED
    BY <1>1 DEF Init, IInv, TypeOK, StreamInv, BufferBound

(* What a piece fetched at offset adds: at least one unit unless the LOB  *)
(* is exhausted, never more than pieceSize, never past the end.           *)
LEMMA PieceBounds ==
    ASSUME NEW o \in 0..LEN
    PROVE  LET n == MinOf(PieceSize, LEN - o) IN
           /\ n \in 0..PieceSize
           /\ o + n \in 0..LEN
           /\ n = 0 <=> o = LEN
  BY DEF MinOf

LEMMA IInvNext == IInv /\ [Next]_vars => IInv'
  <1> SUFFICES ASSUME IInv, [Next]_vars PROVE IInv'
    OBVIOUS
  <1> USE DEF IInv, TypeOK, StreamInv, BufferBound
  <1>1. CASE AttachData
    BY <1>1 DEF AttachData
  <1>2. CASE Pause
    BY <1>2 DEF Pause
  <1>3. CASE Resume
    BY <1>3 DEF Resume
  <1>4. CASE Read
    BY <1>4 DEF Read
  <1>5. CASE FetchStart
    BY <1>5 DEF FetchStart
  <1>6. CASE FetchDone
    <2>1. /\ inflight' = FALSE
          /\ UNCHANGED <<mode, started, delivered, pauses>>
      BY <1>6, Zenon DEF FetchDone
    <2>2. inflight' \in BOOLEAN /\ started' \in BOOLEAN
      BY <2>1, Zenon
    <2>3. offset \in 0..LEN
      OBVIOUS
    <2> DEFINE n == MinOf(PieceSize, LEN - offset)
    <2>4. CASE status = "open" /\ UNCHANGED status /\ n = 0
               /\ eof' = TRUE /\ UNCHANGED <<offset, buffered>>
      <3>1. eof' \in BOOLEAN
        BY <2>4, Zenon
      <3>2. offset = LEN
        BY <2>3, <2>4, PieceBounds
      <3>3. QED
        BY <2>1, <2>2, <2>4, <3>1, <3>2
    <2>5. CASE status = "open" /\ UNCHANGED status /\ n # 0
               /\ offset' = offset + n /\ buffered' = buffered + n
               /\ UNCHANGED eof
      <3>1. eof' \in BOOLEAN /\ (eof' => eof)
        BY <2>5, Zenon
      <3>2. offset # LEN /\ n \in 0..PieceSize /\ offset + n \in 0..LEN
        BY <2>3, <2>5, PieceBounds
      <3>3. ~eof
        BY <3>2
      <3>4. buffered < HWM
        BY <1>6 DEF FetchDone
      <3>5. QED
        BY <2>1, <2>2, <2>5, <3>1, <3>2, <3>3, <3>4
    <2>6. CASE /\ status = "open"
               /\ status' = "errored"
               /\ buffered' = 0
               /\ UNCHANGED <<offset, eof>>
      <3>1. eof' \in BOOLEAN /\ (eof' => eof)
        BY <2>6, Zenon
      <3>2. QED
        BY <2>1, <2>2, <2>6, <3>1
    <2>7. CASE status # "open" /\ UNCHANGED <<offset, eof, buffered, status>>
      <3>1. eof' \in BOOLEAN /\ (eof' => eof)
        BY <2>7, Zenon
      <3>2. QED
        BY <2>1, <2>2, <2>7, <3>1
    <2>8. QED
      BY <1>6, <2>4, <2>5, <2>6, <2>7 DEF FetchDone
  <1>7. CASE EmitData
    BY <1>7 DEF EmitData, MinOf
  <1>8. CASE EmitEnd
    BY <1>8 DEF EmitEnd
  <1>9. CASE Destroy
    BY <1>9 DEF Destroy
  <1>10. CASE UNCHANGED vars
    BY <1>10 DEF vars
  <1>11. QED
    BY <1>1, <1>2, <1>3, <1>4, <1>5, <1>6, <1>7, <1>8, <1>9, <1>10 DEF Next

(* Every reachable state is well typed: no counter leaves the LOB.        *)
THEOREM TypeCorrect == Spec => []TypeOK
  <1>1. IInv => TypeOK
    BY DEF IInv
  <1>2. QED
    BY <1>1, IInvInit, IInvNext, PTL DEF Spec

(* For every LOB length, pieceSize and highWaterMark, the stream holds    *)
(* fewer than highWaterMark + pieceSize units however the application     *)
(* pauses, resumes and reads.                                              *)
THEOREM BufferBoundThm == Spec => []BufferBound
  <1>1. IInv => BufferBound
    BY DEF IInv
  <1>2. QED
    BY <1>1, IInvInit, IInvNext, PTL DEF Spec

-----------------------------------------------------------------------------
(* The refinement mapping of ReadableLob to LobSequence: got is delivered *)
(* and state is AbsState.                                                  *)
LEMMA AbsInit == Init => Abs!Init
  BY DEF Init, Abs!Init, AbsState

LEMMA AbsNext == IInv /\ [Next]_vars => [Abs!Next]_<<delivered, AbsState>>
  <1> SUFFICES ASSUME IInv, [Next]_vars
               PROVE  [Abs!Next]_<<delivered, AbsState>>
    OBVIOUS
  <1> USE DEF IInv, TypeOK, StreamInv
  <1> DEFINE Stutter == UNCHANGED <<delivered, AbsState>>
  <1>1. CASE AttachData \/ Pause \/ Resume \/ FetchStart
    <2>1. Stutter
      BY <1>1 DEF AttachData, Pause, Resume, FetchStart, AbsState
    <2>2. QED
      BY <2>1
  <1>2. CASE Read
    <2>1. CASE buffered > 0 /\ delivered' = delivered + buffered
               /\ buffered' = 0 /\ UNCHANGED status
      <3>1. delivered' \in (delivered + 1)..LEN
        BY <1>2, <2>1 DEF Read
      <3>2. Abs!Deliver
        BY <1>2, <2>1, <3>1 DEF Read, Abs!Deliver, AbsState
      <3>3. QED
        BY <3>2 DEF Abs!Next
    <2>2. CASE buffered = 0 /\ ~eof /\ UNCHANGED <<delivered, buffered, status>>
      BY <2>2 DEF AbsState
    <2>3. CASE buffered = 0 /\ eof /\ status' = "ended"
               /\ UNCHANGED <<delivered, buffered>>
      <3>1. delivered = LEN
        BY <1>2, <2>3 DEF Read
      <3>2. Abs!Complete
        BY <1>2, <2>3, <3>1 DEF Read, Abs!Complete, AbsState
      <3>3. QED
        BY <3>2 DEF Abs!Next
    <2>4. QED
      BY <1>2, <2>1, <2>2, <2>3 DEF Read
  <1>3. CASE FetchDone
    <2>1. CASE status = "open" /\ status' = "errored"
               /\ UNCHANGED delivered
      <3>1. Abs!Abort
        BY <2>1 DEF Abs!Abort, AbsState
      <3>2. QED
        BY <3>1 DEF Abs!Next
    <2>2. CASE UNCHANGED <<status, delivered>>
      BY <2>2 DEF AbsState
    <2>3. QED
      BY <1>3, <2>1, <2>2 DEF FetchDone
  <1>4. CASE EmitData
    <2>1. Abs!Deliver
      BY <1>4, PieceSizeAssumption DEF EmitData, MinOf, Abs!Deliver, AbsState
    <2>2. QED
      BY <2>1 DEF Abs!Next
  <1>5. CASE EmitEnd
    <2>1. Abs!Complete
      BY <1>5 DEF EmitEnd, Abs!Complete, AbsState
    <2>2. QED
      BY <2>1 DEF Abs!Next
  <1>6. CASE Destroy
    <2>1. Abs!Abort
      BY <1>6 DEF Destroy, Abs!Abort, AbsState
    <2>2. QED
      BY <2>1 DEF Abs!Next
  <1>7. CASE UNCHANGED vars
    BY <1>7 DEF vars, AbsState
  <1>8. QED
    BY <1>1, <1>2, <1>3, <1>4, <1>5, <1>6, <1>7 DEF Next

(* For every LOB length, pieceSize, highWaterMark and number of pauses,   *)
(* the readable Lob implements LobSequence: the application receives the *)
(* LOB as one growing prefix, 'end' comes only after the last unit, and  *)
(* nothing arrives after 'end', an error or destroy().                   *)
THEOREM Refinement == Spec => ImplementsLobSequence
  <1>1. Spec => []IInv
    BY IInvInit, IInvNext, PTL DEF Spec
  <1>2. QED
    BY <1>1, AbsInit, AbsNext, PTL DEF Spec, ImplementsLobSequence, Abs!Spec

=============================================================================
