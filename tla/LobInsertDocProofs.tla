-------------------------- MODULE LobInsertDocProofs --------------------------
(***************************************************************************)
(* Proofs about the RETURNING INTO example for every file length and every *)
(* highWaterMark.                                                          *)
(***************************************************************************)
EXTENDS LobInsertDoc, TLAPS

(* The Lob and the pipe: what the file emitted is either written to the   *)
(* row or buffered, the Lob ends only after the whole file, and the pipe  *)
(* is paused whenever the buffer is at highWaterMark.                     *)
LobInv ==
    /\ pc = "insert" => lobState = "none" /\ commit = "none" /\ promise = "none"
    /\ lobState = "none" => srcRead = 0 /\ lobBuf = 0 /\ src = "none"
    /\ lobState \in {"writable", "ending"} =>
           txnRow \in Nat /\ txnRow + lobBuf = srcRead
    /\ lobState \in {"ending", "finished"} => src = "ended"
    /\ lobState = "ending" => srcRead = NChunks
    /\ lobState = "finished" => txnRow = NChunks
    /\ ~awaitDrain => lobBuf < HWM

(* The commit in 'finish' and what it makes durable; a rejected doInsert  *)
(* is never followed by 'finish'.                                          *)
CommitInv ==
    /\ commit # "none" => lobState = "finished"
    /\ commit \in {"none", "inflight"} => dbRow = NoRow
    /\ promise \in {"none", "pending", "rejected"}
    /\ promise = "rejected" =>
           /\ commit = "none"
           /\ lobState \in {"writable", "destroyed"}
           /\ lobState = "writable" => src = "errored"

IInv == TypeOK /\ LobInv /\ CommitInv /\ CommittedRowComplete

USE NChunksAssumption, HWMAssumption

LEMMA IInvInit == Init => IInv
  <1> SUFFICES ASSUME Init PROVE IInv
    OBVIOUS
  <1>1. awaitDrain \in BOOLEAN /\ ~awaitDrain
    BY Zenon DEF Init
  <1>2. QED
    BY <1>1 DEF Init, IInv, TypeOK, LobInv, CommitInv, CommittedRowComplete,
       RowVal, NoRow

(* A step that leaves the pipe's pause and the Lob's buffer alone keeps   *)
(* the pause at highWaterMark.                                            *)
LEMMA DrainKept ==
    ASSUME TypeOK, LobInv, awaitDrain' = awaitDrain, lobBuf' = lobBuf
    PROVE  awaitDrain' \in BOOLEAN /\ (~awaitDrain' => lobBuf' < HWM)
  <1>1. CASE awaitDrain
    <2>1. awaitDrain'
      BY <1>1, Zenon
    <2>2. QED
      BY <2>1, Zenon
  <1>2. CASE ~awaitDrain
    <2>1. lobBuf < HWM
      BY <1>2 DEF LobInv
    <2>2. lobBuf' < HWM
      BY <2>1
    <2>3. awaitDrain' \in BOOLEAN
      BY Zenon DEF TypeOK
    <2>4. QED
      BY <2>2, <2>3, Zenon
  <1>3. QED
    BY <1>1, <1>2

LEMMA IInvNext == IInv /\ [Next]_vars => IInv'
  <1> SUFFICES ASSUME IInv, [Next]_vars PROVE IInv'
    OBVIOUS
  <1> USE DEF IInv, TypeOK, LobInv, CommitInv, CommittedRowComplete, RowVal,
              NoRow, Settle
  <1>1. CASE InsertReturning
    <2>1. awaitDrain' = awaitDrain /\ lobBuf' = lobBuf
      BY <1>1, Zenon DEF InsertReturning
    <2>2. awaitDrain' \in BOOLEAN /\ (~awaitDrain' => lobBuf' < HWM)
      BY <2>1, DrainKept
    <2>3. QED
      BY <1>1, <2>2 DEF InsertReturning
  <1>2. CASE SrcData
    <2>1. ~awaitDrain /\ awaitDrain' = (lobBuf + 1 >= HWM)
      BY <1>2, Zenon DEF SrcData
    <2>2. awaitDrain' \in BOOLEAN
      <3>1. CASE lobBuf + 1 >= HWM
        BY <2>1, <3>1, Zenon
      <3>2. CASE ~(lobBuf + 1 >= HWM)
        <4>1. (lobBuf + 1 >= HWM) = FALSE
          BY <3>2
        <4>2. awaitDrain' = FALSE
          BY <2>1, <4>1, Zenon
        <4>3. QED
          BY <4>2, Zenon
      <3>3. QED
        BY <3>1, <3>2
    <2>3. ~awaitDrain' => lobBuf' < HWM
      <3>1. CASE lobBuf + 1 >= HWM
        <4>1. awaitDrain'
          BY <2>1, <3>1, Zenon
        <4>2. QED
          BY <4>1, Zenon
      <3>2. CASE ~(lobBuf + 1 >= HWM)
        <4>1. lobBuf' < HWM
          BY <1>2, <3>2 DEF SrcData
        <4>2. QED
          BY <4>1, Zenon
      <3>3. QED
        BY <3>1, <3>2
    <2>4. lobBuf < HWM
      BY <2>1
    <2>5. QED
      BY <1>2, <2>2, <2>3, <2>4 DEF SrcData
  <1>3. CASE SrcEnd
    <2>1. ~awaitDrain /\ awaitDrain' = awaitDrain
      BY <1>3, Zenon DEF SrcEnd
    <2>2. awaitDrain' \in BOOLEAN /\ ~awaitDrain'
      BY <2>1, Zenon
    <2>3. lobBuf < HWM
      BY <2>1
    <2>4. QED
      BY <1>3, <2>2, <2>3 DEF SrcEnd
  <1>4. CASE SrcError
    <2>1. awaitDrain' = awaitDrain /\ lobBuf' = lobBuf
      BY <1>4, Zenon DEF SrcError
    <2>2. awaitDrain' \in BOOLEAN /\ (~awaitDrain' => lobBuf' < HWM)
      BY <2>1, DrainKept
    <2>3. QED
      BY <1>4, <2>2 DEF SrcError
  <1>5. CASE LobWrite
    <2>1. CASE /\ lobBuf' = lobBuf - 1
               /\ txnRow' = txnRow + 1
               /\ awaitDrain' = (awaitDrain /\ lobBuf > 1)
               /\ UNCHANGED <<lobState, conn, promise>>
      <3>1. awaitDrain' \in BOOLEAN
        BY <2>1, Zenon
      <3>2. awaitDrain => lobBuf' < HWM \/ awaitDrain'
        BY <2>1
      <3>3. ~awaitDrain' => lobBuf' < HWM
        <4>1. ~awaitDrain' => ~awaitDrain \/ ~(lobBuf > 1)
          BY <2>1, Zenon
        <4>2. ~awaitDrain => lobBuf < HWM
          OBVIOUS
        <4>3. QED
          BY <2>1, <4>1, <4>2
      <3>4. QED
        BY <1>5, <2>1, <3>1, <3>3 DEF LobWrite
    <2>2. CASE /\ lobState' = "destroyed"
               /\ lobBuf' = 0
               /\ txnRow' = NoRow
               /\ \/ conn' = "closed" /\ promise' = Settle("rejected")
                  \/ conn' = "closeFailed" /\ UNCHANGED promise
               /\ UNCHANGED awaitDrain
      <3>1. awaitDrain' \in BOOLEAN
        BY <2>2, Zenon
      <3>2. QED
        BY <1>5, <2>2, <3>1 DEF LobWrite
    <2>3. QED
      BY <1>5, <2>1, <2>2 DEF LobWrite
  <1>6. CASE LobFinish
    <2>1. awaitDrain' = awaitDrain /\ lobBuf' = lobBuf
      BY <1>6, Zenon DEF LobFinish
    <2>2. awaitDrain' \in BOOLEAN /\ (~awaitDrain' => lobBuf' < HWM)
      BY <2>1, DrainKept
    <2>3. QED
      BY <1>6, <2>2 DEF LobFinish
  <1>7. CASE CommitDone
    <2>1. awaitDrain' = awaitDrain /\ lobBuf' = lobBuf
      BY <1>7, Zenon DEF CommitDone
    <2>2. awaitDrain' \in BOOLEAN /\ (~awaitDrain' => lobBuf' < HWM)
      BY <2>1, DrainKept
    <2>3. QED
      BY <1>7, <2>2 DEF CommitDone
  <1>8. CASE AwaitInsert
    <2>1. awaitDrain' = awaitDrain /\ lobBuf' = lobBuf
      BY <1>8, Zenon DEF AwaitInsert
    <2>2. awaitDrain' \in BOOLEAN /\ (~awaitDrain' => lobBuf' < HWM)
      BY <2>1, DrainKept
    <2>3. QED
      BY <1>8, <2>2 DEF AwaitInsert
  <1>9. CASE Finished \/ UNCHANGED vars
    <2>1. awaitDrain' = awaitDrain /\ lobBuf' = lobBuf
      BY <1>9, Zenon DEF Finished, vars
    <2>2. awaitDrain' \in BOOLEAN /\ (~awaitDrain' => lobBuf' < HWM)
      BY <2>1, DrainKept
    <2>3. QED
      BY <1>9, <2>2 DEF Finished, vars
  <1>10. QED
    BY <1>1, <1>2, <1>3, <1>4, <1>5, <1>6, <1>7, <1>8, <1>9 DEF Next

(* For every file length and highWaterMark, the commit in the Lob's       *)
(* 'finish' handler makes durable either no row or the row with the whole *)
(* file.                                                                   *)
THEOREM CommittedRowCompleteThm == Spec => []CommittedRowComplete
  <1>1. IInv => CommittedRowComplete
    BY DEF IInv
  <1>2. QED
    BY <1>1, IInvInit, IInvNext, PTL DEF Spec

(* Every reachable state of the snippet is well typed: the file stream    *)
(* never reads past its last piece and the Lob never buffers more than     *)
(* its highWaterMark.                                                      *)
THEOREM TypeCorrect == Spec => []TypeOK
  <1>1. IInv => TypeOK
    BY DEF IInv
  <1>2. QED
    BY <1>1, IInvInit, IInvNext, PTL DEF Spec

(* For every file length and highWaterMark, once doInsert has rejected,   *)
(* by a read error or a Lob error, no commit has made the row durable.    *)
THEOREM ErrorMeansNothingCommittedThm == Spec => []ErrorMeansNothingCommitted
  <1>1. IInv => ErrorMeansNothingCommitted
    BY DEF IInv, CommitInv, ErrorMeansNothingCommitted
  <1>2. QED
    BY <1>1, IInvInit, IInvNext, PTL DEF Spec


-----------------------------------------------------------------------------
(* Only the answer to the commit in flight changes the committed row.     *)
LEMMA RowKept ==
    ASSUME IInv, [Next]_vars, commit # "inflight"
    PROVE  dbRow' = dbRow
  BY DEF Next, vars, InsertReturning, SrcData, SrcEnd, SrcError, LobWrite,
     LobFinish, CommitDone, AwaitInsert, Finished

(* A rejected doInsert stays rejected: every later reject() goes through  *)
(* Settle, and only the INSERT, before any settlement, makes it pending.  *)
LEMMA RejectedStays ==
    ASSUME IInv, [Next]_vars, promise = "rejected"
    PROVE  promise' = "rejected"
  <1> USE DEF IInv, LobInv
  <1>1. CASE InsertReturning
    BY <1>1 DEF InsertReturning
  <1>2. CASE SrcError \/ LobWrite
    BY <1>2 DEF SrcError, LobWrite, Settle
  <1>3. CASE ~InsertReturning /\ ~SrcError /\ ~LobWrite
    BY <1>3 DEF Next, vars, SrcData, SrcEnd, LobFinish, CommitDone,
       AwaitInsert, Finished
  <1>4. QED
    BY <1>1, <1>2, <1>3

(* The initial state is DurableInsert's: no row and nothing told.          *)
LEMMA DurableInit == Init => Durable!Init
  BY DEF Init, Durable!Init, Told

(* Every step is a step of DurableInsert or leaves the row and what the    *)
(* caller was told as they were.                                           *)
LEMMA DurableNext ==
    ASSUME IInv, IInv', [Next]_vars
    PROVE  [Durable!Next]_<<dbRow, Told>>
  <1> USE DEF IInv, CommitInv, CommittedRowComplete, NoRow
  <1>1. NChunks # NoRow
    BY NChunksAssumption
  <1>2. ErrorMeansNothingCommitted'
    BY DEF ErrorMeansNothingCommitted
  <1>3. CASE dbRow' = dbRow /\ Told' = Told
    BY <1>3
  <1>4. CASE ~(dbRow' = dbRow /\ Told' = Told)
    <2>1. promise # "rejected"
      <3> SUFFICES ASSUME promise = "rejected" PROVE FALSE
        OBVIOUS
      <3>1. promise' = "rejected" /\ commit = "none"
        BY RejectedStays
      <3>2. dbRow' = dbRow
        BY <3>1, RowKept
      <3>3. QED
        BY <1>4, <3>1, <3>2 DEF Told
    <2>2. Told = "none"
      BY <2>1 DEF Told
    <2>3. dbRow = NoRow
      <3> SUFFICES ASSUME dbRow # NoRow PROVE FALSE
        OBVIOUS
      <3>1. commit # "inflight"
        OBVIOUS
      <3>2. dbRow' = dbRow /\ dbRow' = NChunks
        BY <3>1, RowKept
      <3>3. promise' # "rejected"
        BY <1>1, <1>2, <3>2 DEF ErrorMeansNothingCommitted
      <3>4. Told' = "none"
        BY <3>3 DEF Told
      <3>5. QED
        BY <1>4, <2>2, <3>2, <3>4
    <2>4. CASE dbRow' = NChunks
      <3>1. Told' = "none"
        BY <1>1, <1>2, <2>4 DEF ErrorMeansNothingCommitted, Told
      <3>2. QED
        BY <2>2, <2>3, <2>4, <3>1 DEF Durable!Next, Durable!Persist
    <2>5. CASE dbRow' # NChunks
      <3>1. dbRow' = NoRow
        BY <2>5
      <3>2. Told' = "error"
        BY <1>4, <2>2, <2>3, <3>1 DEF Told
      <3>3. QED
        BY <2>2, <2>3, <3>1, <3>2 DEF Durable!Next, Durable!Report
    <2>6. QED
      BY <2>4, <2>5
  <1>5. QED
    BY <1>3, <1>4

(* For every file length and highWaterMark, the guide's snippet            *)
(* implements DurableInsert: the row is committed at most once and whole  *)
(* and never rolled back, and doInsert rejects only while nothing is     *)
(* durable (it never reports success at all).                             *)
THEOREM DurableInsertThm == Spec => ImplementsDurableInsert
  <1>1. IInv /\ IInv' /\ [Next]_vars => [Durable!Next]_<<dbRow, Told>>
    BY DurableNext
  <1>2. Spec => []IInv
    BY IInvInit, IInvNext, PTL DEF Spec
  <1>3. QED
    BY <1>1, <1>2, DurableInit, PTL DEF Spec, ImplementsDurableInsert,
       Durable!Spec

=============================================================================
