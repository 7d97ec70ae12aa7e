---------------------------- MODULE TempLobProofs ----------------------------
(***************************************************************************)
(* Proofs about the temporary-LOB example for every file length and every *)
(* highWaterMark.                                                          *)
(***************************************************************************)
EXTENDS TempLob, TLAPS

(* The pipe and the Lob's writes: a write in flight has a chunk to write, *)
(* the file ends only after its last chunk, and 'finish' (after which     *)
(* execute() may run) comes with nothing left to write.                   *)
PipeInv ==
    /\ writing => written < read
    /\ src = "ended" => read = LEN
    /\ finished => src = "ended" /\ ~writing /\ written = LEN
    /\ pc = "execute" => finished

IInv == TypeOK /\ PipeInv /\ BoundComplete

USE LENAssumption, HWMAssumption

LEMMA IInvInit == Init => IInv
  <1> SUFFICES ASSUME Init PROVE IInv
    OBVIOUS
  <1>1. writing \in BOOLEAN /\ finished \in BOOLEAN
    BY Zenon DEF Init
  <1>2. QED
    BY <1>1 DEF Init, IInv, TypeOK, PipeInv, BoundComplete, NoBind

(* The step of destroy(err) keeps the flags and counters it leaves alone  *)
(* and only closes the Lob and fails somecallback.                        *)
LEMMA DestroyWithErrorType ==
    ASSUME TypeOK, DestroyWithError
    PROVE  /\ lob' \in {"none", "open", "closed"}
           /\ pc' \in {"create", "piping", "execute", "destroy", "done", "failed"}
           /\ pc' # "execute" \/ pc = "execute"
  BY DEF DestroyWithError, TypeOK

LEMMA IInvNext == IInv /\ [Next]_vars => IInv'
  <1> SUFFICES ASSUME IInv, [Next]_vars PROVE IInv'
    OBVIOUS
  <1> USE DEF IInv, TypeOK, PipeInv, BoundComplete, NoBind
  <1>1. CASE CreateLob
    BY <1>1 DEF CreateLob
  <1>2. CASE SrcData
    BY <1>2 DEF SrcData
  <1>3. CASE SrcEnd
    BY <1>3 DEF SrcEnd
  <1>4. CASE SrcError
    <2>1. writing' \in BOOLEAN /\ finished' \in BOOLEAN
      BY <1>4, Zenon DEF SrcError
    <2>2. QED
      BY <1>4, <2>1, DestroyWithErrorType DEF SrcError
  <1>5. CASE LobWriteStart
    <2>1. writing' = TRUE /\ finished' = finished
      BY <1>5 DEF LobWriteStart
    <2>2. ~finished
      BY <1>5 DEF LobWriteStart
    <2>3. QED
      BY <1>5, <2>1, <2>2 DEF LobWriteStart
  <1>6. CASE LobWriteDone
    <2>1. writing' = FALSE /\ finished' = finished /\ writing
      BY <1>6, Zenon DEF LobWriteDone
    <2>2. ~finished /\ ~finished' /\ ~writing'
      BY <2>1, Zenon
    <2>3. writing' \in BOOLEAN /\ finished' \in BOOLEAN
      BY <2>1, Zenon
    <2>4. CASE lob = "open" /\ written' = written + 1 /\ UNCHANGED <<pc, lob>>
               /\ UNCHANGED <<src, read, finished, boundLen>>
      BY <2>1, <2>2, <2>3, <2>4
    <2>5. CASE DestroyWithError /\ UNCHANGED written
               /\ UNCHANGED <<src, read, finished, boundLen>>
      BY <2>2, <2>3, <2>5, DestroyWithErrorType
    <2>6. QED
      BY <1>6, <2>4, <2>5 DEF LobWriteDone
  <1>7. CASE LobFinish
    <2>1. writing' = FALSE /\ finished' = TRUE
      BY <1>7, Zenon DEF LobFinish
    <2>2. QED
      BY <1>7, <2>1 DEF LobFinish
  <1>8. CASE Execute
    BY <1>8 DEF Execute
  <1>9. CASE Destroy
    BY <1>9 DEF Destroy
  <1>10. CASE Finished \/ UNCHANGED vars
    BY <1>10 DEF Finished, vars
  <1>11. QED
    BY <1>1, <1>2, <1>3, <1>4, <1>5, <1>6, <1>7, <1>8, <1>9, <1>10 DEF Next

(* For every file length and highWaterMark, the LOB that execute() binds  *)
(* to the PL/SQL call holds the whole file.                               *)
THEOREM BoundCompleteThm == Spec => []BoundComplete
  <1>1. IInv => BoundComplete
    BY DEF IInv
  <1>2. QED
    BY <1>1, IInvInit, IInvNext, PTL DEF Spec

=============================================================================
