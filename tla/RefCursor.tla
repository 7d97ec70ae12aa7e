------------------------------ MODULE RefCursor ------------------------------
(***************************************************************************)
(* run() of refcursor.js (src/unnamed/part_002 lines 56-157): a REF CURSOR *)
(* read with one getRows() call, then a second one read in batches of     *)
(* numRows by a do ... while loop that stops at the first batch shorter   *)
(* than numRows.  Every await may fail; an error jumps to the catch block *)
(* and the finally block closes the connection if one was obtained.      *)
(*                                                                         *)
(* Rows are abstracted to counts: a ResultSet returns its rows in order,  *)
(* so what a getRows() call returns is fixed by how many rows were read   *)
(* before it.                                                              *)
(***************************************************************************)
EXTENDS Naturals

CONSTANTS
    RowCounts,  \* possible numbers of rows of the second cursor (23 in the code)
    NumRows     \* numRows, the batch size of getRows(numRows) (10 in the code)

ASSUME RowCountsAssumption == RowCounts \subseteq Nat /\ RowCounts # {}
ASSUME NumRowsAssumption == NumRows \in Nat \ {0}

VARIABLES
    pc,        \* the await run() is at
    conn,      \* "none", "open", "closed" or "closeFailed"
    rs1,       \* first ResultSet: "none", "open", "closed"
    rs2,       \* second ResultSet: "none", "open", "closed"
    nr,        \* rows of the second cursor (the :nr bind)
    fetched2,  \* rows of the second cursor fetched so far
    last,      \* length of the last batch, rows2.length
    failed     \* an error reached the catch block

vars == <<pc, conn, rs1, rs2, nr, fetched2, last, failed>>

Stages == {"connect", "setup", "createProc", "exec1", "getRows1", "close1",
           "exec2", "getRows2", "close2", "closeConn", "done"}

TypeOK ==
    /\ pc \in Stages
    /\ conn \in {"none", "open", "closed", "closeFailed"}
    /\ rs1 \in {"none", "open", "closed"}
    /\ rs2 \in {"none", "open", "closed"}
    /\ nr \in RowCounts
    /\ fetched2 \in 0..nr
    /\ last \in 0..NumRows
    /\ failed \in BOOLEAN

Init ==
    /\ pc = "connect"
    /\ conn = "none"
    /\ rs1 = "none"
    /\ rs2 = "none"
    /\ nr \in RowCounts
    /\ fetched2 = 0
    /\ last = 0
    /\ failed = FALSE

(* An awaited call threw: control goes to catch, then to finally.          *)
Fail ==
    /\ failed' = TRUE
    /\ pc' = "closeConn"

(* await oracledb.getConnection(dbConfig) (line 61).  On failure          *)
(* connection stays undefined and finally has nothing to close.           *)
GetConnection ==
    /\ pc = "connect"
    /\ \/ /\ conn' = "open"
          /\ pc' = "setup"
          /\ UNCHANGED failed
       \/ /\ failed' = TRUE
          /\ pc' = "done"
          /\ UNCHANGED conn
    /\ UNCHANGED <<rs1, rs2, nr, fetched2, last>>

(* An await that only succeeds or throws: setupBf (line 63), CREATE       *)
(* PROCEDURE (lines 69-78).                                                *)
Statement(from, to) ==
    /\ pc = from
    /\ \/ pc' = to /\ UNCHANGED failed
       \/ Fail
    /\ UNCHANGED <<conn, rs1, rs2, nr, fetched2, last>>

SetupBf == Statement("setup", "createProc")

CreateProcedure == Statement("createProc", "exec1")

(* The PL/SQL call returning the first REF CURSOR (lines 89-98).           *)
ExecuteCursor1 ==
    /\ pc = "exec1"
    /\ \/ /\ rs1' = "open"
          /\ pc' = "getRows1"
          /\ UNCHANGED failed
       \/ Fail /\ UNCHANGED rs1
    /\ UNCHANGED <<conn, rs2, nr, fetched2, last>>

(* resultSet1.getRows() with no argument fetches every row (line 103).    *)
GetAllRows1 == Statement("getRows1", "close1")

(* await resultSet1.close() (line 106).                                    *)
CloseResultSet1 ==
    /\ pc = "close1"
    /\ \/ /\ rs1' = "closed"
          /\ pc' = "exec2"
          /\ UNCHANGED failed
       \/ Fail /\ UNCHANGED rs1
    /\ UNCHANGED <<conn, rs2, nr, fetched2, last>>

(* The anonymous block opening the second cursor on :nr rows             *)
(* (lines 115-127).                                                        *)
ExecuteCursor2 ==
    /\ pc = "exec2"
    /\ \/ /\ rs2' = "open"
          /\ pc' = "getRows2"
          /\ UNCHANGED failed
       \/ Fail /\ UNCHANGED rs2
    /\ UNCHANGED <<conn, rs1, nr, fetched2, last>>

(* Variants of the loop iteration below, each a plausible slip in it.     *)
GetRows2StopEarly ==
    /\ pc = "getRows2"
    /\ \/ LET n == IF nr - fetched2 < NumRows THEN nr - fetched2 ELSE NumRows
          IN  /\ fetched2' = fetched2 + n
              /\ last' = n
              /\ pc' = IF n > NumRows THEN "getRows2" ELSE "close2"
              /\ UNCHANGED failed
       \/ Fail /\ UNCHANGED <<fetched2, last>>
    /\ UNCHANGED <<conn, rs1, rs2, nr>>

GetRows2WhileArray ==
    /\ pc = "getRows2"
    /\ \/ LET n == IF nr - fetched2 < NumRows THEN nr - fetched2 ELSE NumRows
          IN  /\ fetched2' = fetched2 + n
              /\ last' = n
              /\ pc' = "getRows2"
              /\ UNCHANGED failed
       \/ Fail /\ UNCHANGED <<fetched2, last>>
    /\ UNCHANGED <<conn, rs1, rs2, nr>>

(* One iteration of the do ... while loop (lines 136-142): getRows(numRows) *)
(* returns the next min(numRows, remaining) rows, and the loop goes on    *)
(* while the batch was exactly numRows long.                               *)
GetRows2 ==
    /\ pc = "getRows2"
    /\ \/ LET n == IF nr - fetched2 < NumRows THEN nr - fetched2 ELSE NumRows
          IN  /\ fetched2' = fetched2 + n
              /\ last' = n
              /\ pc' = IF n = NumRows THEN "getRows2" ELSE "close2"
              /\ UNCHANGED failed
       \/ Fail /\ UNCHANGED <<fetched2, last>>
    /\ UNCHANGED <<conn, rs1, rs2, nr>>

(* await resultSet2.close() (line 144), the end of the try block.          *)
CloseResultSet2 ==
    /\ pc = "close2"
    /\ \/ /\ rs2' = "closed"
          /\ pc' = "closeConn"
          /\ UNCHANGED failed
       \/ Fail /\ UNCHANGED rs2
    /\ UNCHANGED <<conn, rs1, nr, fetched2, last>>

(* finally (lines 148-155): connection.close(), whose error is only       *)
(* logged.                                                                 *)
CloseConnection ==
    /\ pc = "closeConn"
    /\ conn' \in {"closed", "closeFailed"}
    /\ pc' = "done"
    /\ UNCHANGED <<rs1, rs2, nr, fetched2, last, failed>>

(* run() has returned.                                                     *)
Finished ==
    /\ pc = "done"
    /\ UNCHANGED vars

Next ==
    \/ GetConnection
    \/ SetupBf
    \/ CreateProcedure
    \/ ExecuteCursor1
    \/ GetAllRows1
    \/ CloseResultSet1
    \/ ExecuteCursor2
    \/ GetRows2
    \/ CloseResultSet2
    \/ CloseConnection
    \/ Finished

(* A step that raises no new error: an await that succeeds, or a step of *)
(* the finally block.                                                     *)
Progress == Next /\ failed' = failed

(* The database answers every call and run() goes on once an await       *)
(* settles.  Fairness is on the answers without an error only: a run is  *)
(* not assumed to be rescued from a loop by a failing call.              *)
Spec == Init /\ [][Next]_vars /\ WF_vars(Progress)

-----------------------------------------------------------------------------
(* The second ResultSet is closed on the normal path only after every row *)
(* of the cursor was fetched: the loop's stopping rule (a batch shorter   *)
(* than numRows) neither stops early nor misses the last rows, for every  *)
(* row count, including multiples of numRows and an empty cursor.         *)
RowsFetchedBeforeClose == rs2 = "closed" => fetched2 = nr

(* run() returns for every row count: the do ... while loop ends though  *)
(* it cannot know the cursor's length, because the batch after the last  *)
(* full one is shorter than numRows, an empty one when the row count is  *)
(* a multiple of numRows.                                                 *)
Terminates == <>(pc = "done")

=============================================================================
