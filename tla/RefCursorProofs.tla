--------------------------- MODULE RefCursorProofs ---------------------------
(***************************************************************************)
(* Proofs about run() of refcursor.js for every set of possible row counts *)
(* and every batch size numRows.                                           *)
(***************************************************************************)
EXTENDS RefCursor, TLAPS

(* While the batch loop runs, or once it has left normally, the rows      *)
(* fetched are all the cursor's rows exactly when the loop has stopped.   *)
LoopInv ==
    /\ pc = "close2" => fetched2 = nr
    /\ RowsFetchedBeforeClose

IInv == TypeOK /\ LoopInv

USE RowCountsAssumption, NumRowsAssumption

LEMMA IInvInit == Init => IInv
  <1> SUFFICES ASSUME Init PROVE IInv
    OBVIOUS
  <1>1. failed \in BOOLEAN
    BY Zenon DEF Init
  <1>2. QED
    BY <1>1 DEF Init, IInv, TypeOK, Stages, LoopInv, RowsFetchedBeforeClose

LEMMA IInvNext == IInv /\ [Next]_vars => IInv'
  <1> SUFFICES ASSUME IInv, [Next]_vars PROVE IInv'
    OBVIOUS
  <1> USE DEF IInv, TypeOK, Stages, LoopInv, RowsFetchedBeforeClose
  <1>1. CASE GetConnection
    BY <1>1 DEF GetConnection
  <1>2. CASE SetupBf \/ CreateProcedure \/ GetAllRows1
    BY <1>2 DEF SetupBf, CreateProcedure, GetAllRows1, Statement, Fail
  <1>3. CASE ExecuteCursor1 \/ CloseResultSet1 \/ ExecuteCursor2
    BY <1>3 DEF ExecuteCursor1, CloseResultSet1, ExecuteCursor2, Fail
  <1>4. CASE GetRows2
    <2> DEFINE n == IF nr - fetched2 < NumRows THEN nr - fetched2 ELSE NumRows
    <2>1. CASE /\ fetched2' = fetched2 + n
               /\ last' = n
               /\ pc' = IF n = NumRows THEN "getRows2" ELSE "close2"
               /\ UNCHANGED <<conn, rs1, rs2, nr, failed>>
      <3>1. pc = "getRows2"
        BY <1>4 DEF GetRows2
      <3>2. n \in 0..NumRows /\ fetched2 + n \in 0..nr
        BY <3>1
      <3>3. n # NumRows => fetched2 + n = nr
        OBVIOUS
      <3>4. QED
        BY <2>1, <3>1, <3>2, <3>3
    <2>2. CASE Fail /\ UNCHANGED <<fetched2, last, conn, rs1, rs2, nr>>
      BY <2>2, Zenon DEF Fail
    <2>3. QED
      BY <1>4, <2>1, <2>2 DEF GetRows2
  <1>5. CASE CloseResultSet2
    BY <1>5 DEF CloseResultSet2, Fail
  <1>6. CASE CloseConnection \/ Finished \/ UNCHANGED vars
    BY <1>6 DEF CloseConnection, Finished, vars
  <1>7. QED
    BY <1>1, <1>2, <1>3, <1>4, <1>5, <1>6 DEF Next

(* For every row count and batch size, refcursor.js closes the second     *)
(* ResultSet on the normal path only after fetching every row: the loop   *)
(* "while (rows2.length === numRows)" stops exactly at the end of the     *)
(* cursor.                                                                 *)
THEOREM RowsFetchedBeforeCloseThm == Spec => []RowsFetchedBeforeClose
  <1>1. IInv => RowsFetchedBeforeClose
    BY DEF IInv, LoopInv
  <1>2. QED
    BY <1>1, IInvInit, IInvNext, PTL DEF Spec

=============================================================================
