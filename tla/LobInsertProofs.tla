--------------------------- MODULE LobInsertProofs ---------------------------
(***************************************************************************)
(* Proofs about the streaming RETURNING INTO insert of lobinsert2.js, for  *)
(* every file length NChunks, every highWaterMark HWM and both Lob        *)
(* closing behaviours.                                                     *)
(***************************************************************************)
EXTENDS LobInsert, TLAPS

(* Before the INSERT has returned a Lob nothing is streaming.              *)
PreInv ==
    pc \in {"connect", "setup", "insert"} =>
        /\ src = "none"
        /\ srcRead = 0
        /\ lobBuf = 0
        /\ lobState = "none"
        /\ commit = "none"
        /\ promise = "none"
        /\ dbRow = NoRow

(* The pipe keeps feeding the Lob only below its highWaterMark.            *)
DrainInv ==
    ~awaitDrain => lobBuf < HWM

(* While the Lob can still write, run() awaits doStream, which is pending, *)
(* and every piece read is either written into the row or buffered.       *)
StreamInv ==
    lobState \in {"writable", "ending"} =>
        /\ pc = "await"
        /\ promise = "pending"
        /\ txnRow \in 0..NChunks
        /\ txnRow + lobBuf = srcRead

(* end() is called only after the whole file has been read.               *)
EndingInv ==
    lobState = "ending" => src = "ended" /\ srcRead = NChunks

(* A commit in flight carries the complete row and nothing else can touch *)
(* the transaction or settle doStream before it answers.                  *)
CommitInv ==
    commit = "inflight" =>
        /\ pc = "await"
        /\ promise = "pending"
        /\ src = "ended"
        /\ lobState \in {"finished", "destroyed"}
        /\ txnRow = NChunks

(* doStream resolves exactly when the commit made the complete row        *)
(* durable: resolve() is called only from a successful commit, and a      *)
(* settled promise stays as it is.                                         *)
OutcomeInv ==
    (promise = "resolved") <=> (dbRow = NChunks)

(* The connection is closed only by the finally block, as run()'s last    *)
(* step.                                                                   *)
ConnInv ==
    conn = "closed" => pc = "done"

IInv ==
    /\ TypeOK
    /\ OutcomeInv
    /\ ConnInv
    /\ PreInv
    /\ DrainInv
    /\ StreamInv
    /\ EndingInv
    /\ CommitInv
    /\ CommittedRowComplete

-----------------------------------------------------------------------------
USE NChunksAssumption, HWMAssumption, AutoCloseAssumption

LEMMA IInvInit == Init => IInv
  <1> SUFFICES ASSUME Init PROVE IInv
    OBVIOUS
  <1>1. TypeOK
    <2>1. awaitDrain \in BOOLEAN
      BY Zenon DEF Init
    <2>2. QED
      BY <2>1, NChunksAssumption, HWMAssumption DEF Init, TypeOK, RowVal, NoRow
  <1>2. PreInv /\ DrainInv /\ StreamInv /\ EndingInv /\ CommitInv
    BY DEF Init, PreInv, DrainInv, StreamInv, EndingInv, CommitInv
  <1>3. CommittedRowComplete /\ OutcomeInv /\ ConnInv
    BY NChunksAssumption DEF Init, CommittedRowComplete, OutcomeInv, NoRow,
       ConnInv
  <1>4. QED
    BY <1>1, <1>2, <1>3 DEF IInv

LEMMA IInvNext == IInv /\ [Next]_vars => IInv'
  <1> SUFFICES ASSUME IInv, [Next]_vars PROVE IInv'
    OBVIOUS
  <1> USE DEF IInv, TypeOK, RowVal, NoRow, PreInv, DrainInv, StreamInv,
              EndingInv, CommitInv, CommittedRowComplete, OutcomeInv,
              ConnInv
  <1>1. CASE GetConnection
    BY <1>1 DEF GetConnection
  <1>2. CASE SetupLobs
    BY <1>2 DEF SetupLobs
  <1>3. CASE InsertReturning
    BY <1>3 DEF InsertReturning
  <1>4. CASE SrcData
    <2>1. awaitDrain' \in BOOLEAN
      BY <1>4 DEF SrcData
    <2>2. lobBuf < HWM
      BY <1>4 DEF SrcData
    <2>3. /\ srcRead < NChunks
          /\ srcRead' = srcRead + 1
          /\ lobBuf' = lobBuf + 1
          /\ UNCHANGED <<pc, conn, src, lobState, commit, promise, txnRow, dbRow>>
      BY <1>4 DEF SrcData
    <2>4. TypeOK'
      BY <2>1, <2>2, <2>3
    <2>5. awaitDrain' <=> (lobBuf + 1 >= HWM)
      BY <1>4 DEF SrcData
    <2>6. DrainInv'
      BY <2>3, <2>5
    <2>7. (PreInv /\ StreamInv /\ EndingInv /\ CommitInv /\ CommittedRowComplete)'
      BY <1>4 DEF SrcData
    <2>8. (OutcomeInv /\ ConnInv)'
      BY <2>3
    <2>9. QED
      BY <2>4, <2>6, <2>7, <2>8
  <1>5. CASE SrcEnd
    BY <1>5 DEF SrcEnd
  <1>6. CASE SrcError
    BY <1>6 DEF SrcError, DestroyLob, Settle
  <1>7. CASE LobWrite
    <2>1. awaitDrain' \in BOOLEAN
      BY <1>7, Zenon DEF LobWrite, DestroyLob
    <2>2. QED
      BY <1>7, <2>1 DEF LobWrite, DestroyLob, Settle
  <1>8. CASE LobFinish
    BY <1>8 DEF LobFinish
  <1>9. CASE CommitDone
    BY <1>9 DEF CommitDone, DestroyLob, Settle
  <1>10. CASE AwaitStream
    BY <1>10 DEF AwaitStream
  <1>11. CASE CloseConnection
    BY <1>11 DEF CloseConnection
  <1>12. CASE Finished \/ UNCHANGED vars
    BY <1>12 DEF Finished, vars
  <1>13. QED
    BY <1>1, <1>2, <1>3, <1>4, <1>5, <1>6, <1>7, <1>8, <1>9, <1>10, <1>11,
       <1>12 DEF Next

(* The type invariant holds in every reachable state.                      *)
THEOREM TypeCorrect == Spec => []TypeOK
  <1>1. IInv => TypeOK
    BY DEF IInv
  <1>2. QED
    BY <1>1, IInvInit, IInvNext, PTL DEF Spec

(* For every file length and highWaterMark, and whether or not the Lob     *)
(* closes itself at 'finish', a row committed by lobinsert2.js holds the   *)
(* whole file: the commit in the 'finish' handler never makes a truncated  *)
(* LOB durable.                                                            *)
THEOREM CommittedRowCompleteThm == Spec => []CommittedRowComplete
  <1>1. IInv => CommittedRowComplete
    BY DEF IInv
  <1>2. QED
    BY <1>1, IInvInit, IInvNext, PTL DEF Spec

(* For every file length and highWaterMark, and whether or not the Lob     *)
(* closes itself at 'finish', when run() has returned it has reported      *)
(* success exactly when the complete row is committed.                     *)
THEOREM OutcomeReportedThm == Spec => []OutcomeReported
  <1>1. IInv => OutcomeReported
    BY DEF IInv, OutcomeInv, OutcomeReported
  <1>2. QED
    BY <1>1, IInvInit, IInvNext, PTL DEF Spec

(* The finally block closes the connection only after the Lob has stopped *)
(* writing and the commit has answered: run() reaches it only once        *)
(* doStream is settled, which happens only after both.                     *)
LEMMA CloseStep ==
    IInv /\ [Next]_vars =>
        [conn' = "closed" => /\ lobState \notin {"writable", "ending"}
                             /\ commit # "inflight"]_vars
  <1> SUFFICES ASSUME IInv, [Next]_vars, conn' = "closed"
               PROVE  lobState \notin {"writable", "ending"} /\ commit # "inflight"
    OBVIOUS
  <1> USE DEF IInv, StreamInv, CommitInv, ConnInv, TypeOK
  <1>1. pc \in {"close", "done"}
    <2>1. CASE conn = "closed"
      BY <2>1
    <2>2. CASE conn # "closed"
      BY <2>2 DEF Next, GetConnection, SetupLobs, InsertReturning, SrcData,
             SrcEnd, SrcError, DestroyLob, LobWrite, LobFinish, CommitDone,
             AwaitStream, CloseConnection, Finished, vars
    <2>3. QED
      BY <2>1, <2>2
  <1>2. QED
    BY <1>1

(* For every file length and highWaterMark, the connection is never       *)
(* closed under a transfer in progress or a commit in flight.             *)
THEOREM NoCloseUnderTransferThm == Spec => NoCloseUnderTransfer
  <1>1. Spec => []IInv
    BY IInvInit, IInvNext, PTL DEF Spec
  <1>2. QED
    BY <1>1, CloseStep, PTL DEF Spec, NoCloseUnderTransfer


-----------------------------------------------------------------------------
(* A settled doStream stays settled: every later resolve() or reject()     *)
(* goes through Settle, and only the INSERT, before any settlement, makes *)
(* it pending.                                                             *)
LEMMA SettledStays ==
    ASSUME IInv, [Next]_vars, promise \in {"resolved", "rejected"}
    PROVE  promise' = promise
  <1> USE DEF IInv, PreInv
  <1>1. CASE InsertReturning
    BY <1>1 DEF InsertReturning
  <1>2. CASE SrcError \/ LobWrite \/ CommitDone
    BY <1>2 DEF SrcError, LobWrite, CommitDone, DestroyLob, Settle
  <1>3. CASE ~InsertReturning /\ ~SrcError /\ ~LobWrite /\ ~CommitDone
    BY <1>3 DEF Next, vars, GetConnection, SetupLobs, SrcData, SrcEnd,
       LobFinish, AwaitStream, CloseConnection, Finished
  <1>4. QED
    BY <1>1, <1>2, <1>3

(* The initial state is DurableInsert's: no row and nothing told.          *)
LEMMA DurableInit == Init => Durable!Init
  BY DEF Init, Durable!Init, Told

(* Every step is a step of DurableInsert or leaves the row and what the    *)
(* caller was told as they were.                                           *)
LEMMA DurableNext ==
    ASSUME IInv, IInv', [Next]_vars
    PROVE  [Durable!Next]_<<dbRow, Told>>
  <1> USE DEF IInv, OutcomeInv, CommittedRowComplete, NoRow
  <1>1. NChunks # NoRow
    BY NChunksAssumption
  <1>2. CASE dbRow' = dbRow /\ Told' = Told
    BY <1>2
  <1>3. CASE ~(dbRow' = dbRow /\ Told' = Told)
    <2>1. promise \notin {"resolved", "rejected"}
      <3> SUFFICES ASSUME promise \in {"resolved", "rejected"} PROVE FALSE
        OBVIOUS
      <3>1. promise' = promise
        BY SettledStays
      <3>2. dbRow' = dbRow
        BY <1>1, <3>1
      <3>3. Told' = Told
        BY <3>1 DEF Told
      <3>4. QED
        BY <1>3, <3>2, <3>3
    <2>2. Told = "none" /\ dbRow = NoRow
      BY <1>1, <2>1 DEF Told
    <2>3. CASE dbRow' = NChunks
      <3>1. Told' = "ok"
        BY <2>3, <1>1 DEF Told
      <3>2. QED
        BY <2>2, <2>3, <3>1 DEF Durable!Next, Durable!Persist
    <2>4. CASE dbRow' # NChunks
      <3>1. dbRow' = NoRow /\ promise' # "resolved"
        BY <2>4
      <3>2. Told' = "error"
        BY <1>3, <2>2, <3>1 DEF Told
      <3>3. QED
        BY <2>2, <3>1, <3>2 DEF Durable!Next, Durable!Report
    <2>5. QED
      BY <2>3, <2>4
  <1>4. QED
    BY <1>2, <1>3

(* For every file length, highWaterMark and Lob closing behaviour,         *)
(* lobinsert2.js implements DurableInsert: the row is committed at most   *)
(* once and whole and never rolled back, and doStream reports success    *)
(* only with that commit and an error only while nothing is durable.     *)
THEOREM DurableInsertThm == Spec => ImplementsDurableInsert
  <1>1. IInv /\ IInv' /\ [Next]_vars => [Durable!Next]_<<dbRow, Told>>
    BY DurableNext
  <1>2. Spec => []IInv
    BY IInvInit, IInvNext, PTL DEF Spec
  <1>3. QED
    BY <1>1, <1>2, DurableInit, PTL DEF Spec, ImplementsDurableInsert,
       Durable!Spec

=============================================================================
