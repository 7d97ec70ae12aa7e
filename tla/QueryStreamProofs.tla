-------------------------- MODULE QueryStreamProofs --------------------------
(***************************************************************************)
(* Proofs about run() of resultsettoquerystream.js for every set of        *)
(* possible row counts.                                                    *)
(***************************************************************************)
EXTENDS QueryStream, TLAPS

(* The stream's phase fixes the ResultSet's, and while the stream is     *)
(* alive run() awaits consumeStream, which is still pending; before the  *)
(* query runs there is no stream.                                         *)
StreamInv ==
    /\ stream = "none" => rs = "none" /\ promise = "none"
    /\ stream = "flowing" => rs = "open"
    /\ stream = "destroying" => rs = "closing"
    /\ stream = "closed" => rs = "closed"
    /\ stream \in {"flowing", "destroying"} => pc = "await" /\ promise = "pending"
    /\ pc = "await" => stream # "none"
    /\ pc \in {"connect", "setup", "exec"} => stream = "none"

(* A destroy without an error starts only after the last row.             *)
DestroyInv ==
    stream = "destroying" /\ ~streamErr => delivered = nr

(* consumeStream settles only through 'error' or 'close', so once it has *)
(* settled the stream is closed, and run() reaches finally with no       *)
(* stream alive.                                                          *)
SettledInv ==
    /\ promise \in {"resolved", "rejected"} => stream = "closed"
    /\ pc \in {"closeConn", "done"} => stream \in {"none", "closed"}

IInv == TypeOK /\ StreamInv /\ DestroyInv /\ SettledInv /\ ResolvedMeansComplete

USE RowCountsAssumption

LEMMA IInvInit == Init => IInv
  <1> SUFFICES ASSUME Init PROVE IInv
    OBVIOUS
  <1>1. streamErr \in BOOLEAN
    BY Zenon DEF Init
  <1>2. QED
    BY <1>1 DEF Init, IInv, TypeOK, StreamInv, DestroyInv, SettledInv,
               ResolvedMeansComplete

LEMMA IInvNext == IInv /\ [Next]_vars => IInv'
  <1> SUFFICES ASSUME IInv, [Next]_vars PROVE IInv'
    OBVIOUS
  <1> USE DEF IInv, TypeOK, StreamInv, DestroyInv, SettledInv,
              ResolvedMeansComplete
  <1>1. CASE GetConnection
    BY <1>1 DEF GetConnection
  <1>2. CASE SetupBf
    BY <1>2 DEF SetupBf
  <1>3. CASE ExecuteQuery
    BY <1>3 DEF ExecuteQuery
  <1>4. CASE ReadRow
    <2>1. streamErr' \in BOOLEAN
      BY <1>4, Zenon DEF ReadRow
    <2>2. QED
      BY <1>4, <2>1 DEF ReadRow
  <1>5. CASE EndAndDestroy
    BY <1>5 DEF EndAndDestroy
  <1>6. CASE DestroyDone
    <2>1. PICK closeErr \in BOOLEAN :
              /\ streamErr' = (streamErr \/ closeErr)
              /\ promise' = IF streamErr \/ closeErr THEN Settle("rejected")
                            ELSE Settle("resolved")
      BY <1>6, Zenon DEF DestroyDone
    <2>2. /\ stream = "destroying" /\ rs = "closing"
          /\ rs' = "closed" /\ stream' = "closed"
          /\ UNCHANGED <<pc, conn, nr, delivered>>
      BY <1>6 DEF DestroyDone
    <2>3. promise = "pending"
      BY <2>2
    <2>4. streamErr' \in BOOLEAN
      BY <2>1, Zenon
    <2>5. CASE streamErr \/ closeErr
      <3>1. streamErr' /\ promise' = "rejected"
        BY <2>1, <2>3, <2>5, Zenon DEF Settle
      <3>2. QED
        BY <2>2, <2>4, <3>1
    <2>6. CASE ~(streamErr \/ closeErr)
      <3>1. ~streamErr' /\ promise' = "resolved"
        BY <2>1, <2>3, <2>6, Zenon DEF Settle
      <3>2. delivered = nr
        BY <2>2, <2>6
      <3>3. QED
        BY <2>2, <2>4, <3>1, <3>2
    <2>7. QED
      BY <2>5, <2>6
  <1>7. CASE AwaitStream
    BY <1>7 DEF AwaitStream
  <1>8. CASE CloseConnection
    BY <1>8 DEF CloseConnection
  <1>9. CASE Finished \/ UNCHANGED vars
    BY <1>9 DEF Finished, vars
  <1>10. QED
    BY <1>1, <1>2, <1>3, <1>4, <1>5, <1>6, <1>7, <1>8, <1>9 DEF Next

(* For every row count, consumeStream resolves only when every row was   *)
(* emitted and neither a read nor the ResultSet close failed.            *)
THEOREM ResolvedMeansCompleteThm == Spec => []ResolvedMeansComplete
  <1>1. IInv => ResolvedMeansComplete
    BY DEF IInv
  <1>2. QED
    BY <1>1, IInvInit, IInvNext, PTL DEF Spec

(* No step of run() closes the connection while the QueryStream's         *)
(* ResultSet is open or still being closed by destroy().                  *)
THEOREM NoCloseUnderFetchThm == Spec => NoCloseUnderFetch
  <1>1. IInv /\ [Next]_vars => [conn = "open" /\ conn' # "open" => rs \in {"none", "closed"}]_vars
    <2> SUFFICES ASSUME IInv, [Next]_vars, conn = "open", conn' # "open"
                 PROVE  rs \in {"none", "closed"}
      BY DEF vars
    <2>1. CloseConnection
      BY DEF Next, GetConnection, SetupBf, ExecuteQuery, ReadRow,
             EndAndDestroy, DestroyDone, AwaitStream, Finished, vars
    <2>2. QED
      BY <2>1 DEF CloseConnection, IInv, TypeOK, SettledInv, StreamInv
  <1>2. QED
    BY <1>1, IInvInit, IInvNext, PTL DEF Spec, NoCloseUnderFetch


-----------------------------------------------------------------------------
(* The refinement of LobSequence, for a query of n rows.                  *)

LEMMA RowsInit ==
    ASSUME NEW n, Init, nr = n
    PROVE  Rows(n)!Init
  BY DEF Init, Rows!Init, StreamState

(* Each step of run() is a step of LobSequence or leaves the rows emitted *)
(* and the consumer's view unchanged: a row is emitted only while         *)
(* consumeStream is pending, and it resolves only after the last row.    *)
LEMMA RowsNext ==
    ASSUME NEW n, IInv, IInv', [Next]_vars, nr = n
    PROVE  [Rows(n)!Next]_<<delivered, StreamState>>
  <1>1. CASE ReadRow
    <2>1. stream = "flowing" /\ promise = "pending" /\ promise' = promise
      BY <1>1 DEF ReadRow, IInv, StreamInv
    <2>2. StreamState = "open" /\ StreamState' = StreamState
      BY <2>1 DEF StreamState
    <2>3. CASE delivered' = delivered + 1
      <3>1. delivered \in Nat /\ nr \in Nat /\ delivered < nr
        BY <1>1 DEF ReadRow, IInv, TypeOK
      <3>2. delivered' \in (delivered + 1)..n
        BY <2>3, <3>1
      <3>3. QED
        BY <2>2, <3>2 DEF Rows!Next, Rows!Deliver
    <2>4. CASE UNCHANGED delivered
      BY <2>2, <2>4
    <2>5. QED
      BY <1>1, <2>3, <2>4 DEF ReadRow
  <1>2. CASE DestroyDone
    <2>1. promise = "pending" /\ UNCHANGED delivered
      BY <1>2 DEF DestroyDone, IInv, StreamInv
    <2>2. promise' \in {"resolved", "rejected"}
      BY <1>2, <2>1, Zenon DEF DestroyDone, Settle
    <2>3. CASE promise' = "resolved"
      <3>1. delivered' = nr'
        BY <2>3 DEF IInv, ResolvedMeansComplete
      <3>2. delivered = nr
        BY <1>2, <2>1, <3>1 DEF DestroyDone
      <3>3. QED
        BY <2>1, <2>3, <3>2 DEF StreamState, Rows!Next, Rows!Complete
    <2>4. CASE promise' = "rejected"
      BY <2>1, <2>4 DEF StreamState, Rows!Next, Rows!Abort
    <2>5. QED
      BY <2>2, <2>3, <2>4
  <1>3. CASE ~ReadRow /\ ~DestroyDone
    <2>1. /\ UNCHANGED delivered
          /\ \/ promise' = promise
             \/ promise = "none" /\ promise' = "pending"
      BY <1>3 DEF Next, GetConnection, SetupBf, ExecuteQuery, EndAndDestroy,
                  AwaitStream, CloseConnection, Finished, vars, IInv, StreamInv
    <2>2. QED
      BY <2>1 DEF StreamState
  <1>4. QED
    BY <1>1, <1>2, <1>3, Zenon

(* For every set of row counts, run() keeps the readable-stream contract *)
(* of LobSequence: rows reach the 'data' handler as a growing prefix,    *)
(* consumeStream resolves only after the last row, and nothing is        *)
(* emitted after it settles.                                              *)
THEOREM ImplementsLobSequenceThm == Spec => ImplementsLobSequence
  <1>1. Init => \A n \in RowCounts : nr = n => Rows(n)!Init
    BY RowsInit
  <1>2. IInv /\ IInv' /\ [Next]_vars =>
          \A n \in RowCounts : nr = n => [Rows(n)!Next]_<<delivered, StreamState>>
    BY RowsNext
  <1>3. Spec => []IInv
    BY IInvInit, IInvNext, PTL DEF Spec
  <1>4. QED
    BY <1>1, <1>2, <1>3, IInvInit, PTL DEF Spec, ImplementsLobSequence

=============================================================================
