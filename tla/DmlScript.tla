------------------------------ MODULE DmlScript ------------------------------
(***************************************************************************)
(* The DML example scripts insert1.js, dmlrupd.js and lobinsert1.js share  *)
(* one shape: get a connection, run a list of statements, each awaited,   *)
(* and close the connection in finally.  Statements of the setup loop     *)
(* ("for (const s of stmts) try ... catch (e) if (e.errorNum != 942) ..."*)
(* ) only log their errors and go on; any other statement's error jumps  *)
(* to the outer catch.  A statement commits when it runs with autoCommit; *)
(* closing the connection rolls back what is not committed.               *)
(*                                                                         *)
(* A script is a sequence of statements, chosen from the constant Scripts *)
(*   [op |-> "setup" | "drop" | "create" | "insert" | "updateAll"       *)
(*          | "updateMine", row |-> r, tolerant |-> in the setup loop,   *)
(*    autoCommit |-> BOOLEAN].                                             *)
(* The table is abstracted to which table it is (none, one left by an    *)
(* earlier run, or the one this run created) and the set of its rows.    *)
(***************************************************************************)
EXTENDS Integers, Sequences, FiniteSets

CONSTANTS
    Scripts,  \* the scripts, each the sequence of its statements
    OldRows   \* rows of a table left by an earlier run of a script

Stmts == [op : {"setup", "drop", "create", "insert", "updateAll", "updateMine"},
          row : STRING, tolerant : BOOLEAN, autoCommit : BOOLEAN]

Stmt(op, row, tolerant, ac) ==
    [op |-> op, row |-> row, tolerant |-> tolerant, autoCommit |-> ac]

(* insert1.js: DROP and CREATE in the setup loop, two INSERTs without     *)
(* autoCommit, and an UPDATE of every row with autoCommit.                *)
Insert1Script ==
    << Stmt("drop", "", TRUE, FALSE),
       Stmt("create", "", TRUE, FALSE),
       Stmt("insert", "1", FALSE, FALSE),
       Stmt("insert", "2", FALSE, FALSE),
       Stmt("updateAll", "", FALSE, TRUE) >>

(* dmlrupd.js: DROP, CREATE and both INSERTs in the setup loop, then the  *)
(* UPDATE ... WHERE id IN (:id1, :id2) RETURNING with autoCommit.         *)
DmlrupdScript ==
    << Stmt("drop", "", TRUE, FALSE),
       Stmt("create", "", TRUE, FALSE),
       Stmt("insert", "1001", TRUE, FALSE),
       Stmt("insert", "1002", TRUE, FALSE),
       Stmt("updateMine", "", FALSE, TRUE) >>

(* lobinsert1.js: demoSetup.setupLobs, then the CLOB and the BLOB INSERT, *)
(* each committed by the global oracledb.autoCommit = true; a            *)
(* rowsAffected other than 1 throws.                                      *)
Lobinsert1Script ==
    << Stmt("setup", "", FALSE, TRUE),
       Stmt("insert", "1", FALSE, TRUE),
       Stmt("insert", "2", FALSE, TRUE) >>

ASSUME ScriptsAssumption ==
    \A sc \in Scripts : sc \in Seq(Stmts) /\ Len(sc) > 0

ASSUME OldRowsAssumption == IsFiniteSet(OldRows)

(* Every script ends with a statement outside the setup loop that runs    *)
(* with autoCommit: the UPDATE of insert1.js and of dmlrupd.js, the BLOB  *)
(* INSERT of lobinsert1.js under oracledb.autoCommit = true.              *)
LastCommits ==
    \A sc \in Scripts : sc[Len(sc)].autoCommit /\ ~sc[Len(sc)].tolerant

(* The INSERTs of a script whose commit is deferred come one right after  *)
(* the other: insert1.js runs its two INSERTs back to back, with no DDL  *)
(* or committing statement between them.                                  *)
InsertsTogether ==
    \A sc \in Scripts :
        (\A i \in DOMAIN sc :
            sc[i].op = "insert" => ~sc[i].tolerant /\ ~sc[i].autoCommit)
        => \A i, j, k \in DOMAIN sc :
               sc[i].op = "insert" /\ sc[k].op = "insert" /\ i < j /\ j < k
               => sc[j].op = "insert"

(* A row left by an earlier run is another row than the ones a script     *)
(* inserts: the rows of the model are row versions, not key values.       *)
OldRowsApart ==
    \A sc \in Scripts : \A i \in DOMAIN sc :
        sc[i].op = "insert" => sc[i].row \notin OldRows

VARIABLES
    script,     \* the script being run
    pc,         \* "connect", "stmt" (awaiting statement idx), "closeConn", "done"
    idx,        \* index in script of the statement run() is at
    conn,       \* "none", "open", "closed", "closeFailed"
    table,      \* committed table: "absent", "old" (earlier run), "new"
    committed,  \* committed rows of the table
    txn,        \* rows as the session sees them, uncommitted DML included
    updated,    \* rowsAffected of the last UPDATE, or NoCount
    failed,     \* an error reached the outer catch
    discarded   \* rows the closing connection rolled back

vars == <<script, pc, idx, conn, table, committed, txn, updated, failed,
          discarded>>

NoCount == -1

(* The rows the script's own INSERTs create.                              *)
ScriptRows ==
    {script[i].row : i \in {j \in DOMAIN script : script[j].op = "insert"}}

RowIds == ScriptRows \cup OldRows

TypeOK ==
    /\ pc \in {"connect", "stmt", "closeConn", "done"}
    /\ idx \in 1..Len(script)
    /\ conn \in {"none", "open", "closed", "closeFailed"}
    /\ table \in {"absent", "old", "new"}
    /\ committed \subseteq RowIds
    /\ txn \subseteq RowIds
    /\ updated \in Nat \cup {NoCount}
    /\ failed \in BOOLEAN
    /\ discarded \subseteq RowIds

(* The table is absent (first run) or left by an earlier run.             *)
Init ==
    /\ script \in Scripts
    /\ pc = "connect"
    /\ idx = 1
    /\ conn = "none"
    /\ \/ table = "absent" /\ committed = {}
       \/ table = "old" /\ committed = OldRows
    /\ txn = committed
    /\ updated = NoCount
    /\ failed = FALSE
    /\ discarded = {}

(* Variants of the helpers below, each a plausible slip in the scripts.   *)
CommitNever(ac, rows) ==
    committed

(* The for loop, or the next await, moves on from statement i.            *)
NextStmt(i) ==
    IF i = Len(script) THEN pc' = "closeConn" /\ UNCHANGED idx
    ELSE pc' = "stmt" /\ idx' = i + 1

(* connection.execute with autoCommit makes the session's rows durable.   *)
CommitIf(ac, rows) ==
    IF ac THEN rows ELSE committed

(* await oracledb.getConnection(dbConfig); on failure the connection      *)
(* stays undefined and finally closes nothing.                            *)
GetConnection ==
    /\ pc = "connect"
    /\ \/ conn' = "open" /\ pc' = "stmt" /\ UNCHANGED failed
       \/ failed' = TRUE /\ pc' = "done" /\ UNCHANGED conn
    /\ UNCHANGED <<idx, table, committed, txn, updated, discarded>>

(* Statement i succeeds.  DDL first commits the open transaction (Oracle   *)
(* commits implicitly around DDL); DROP TABLE needs the table, CREATE     *)
(* TABLE needs it absent, INSERT and UPDATE need it present.  The demo    *)
(* setup (demosetup.js) replaces any table by a new empty one.  UPDATE    *)
(* sets every row (insert1.js has no WHERE) or the script's own rows      *)
(* (dmlrupd.js: WHERE id IN (:id1, :id2)) and reports how many.           *)
ExecuteOk(i) ==
    LET s == script[i] IN
    /\ CASE s.op = "setup" ->
              /\ table' = "new" /\ committed' = {} /\ txn' = {}
              /\ UNCHANGED updated
         [] s.op = "drop" ->
              /\ table # "absent"
              /\ table' = "absent" /\ committed' = {} /\ txn' = {}
              /\ UNCHANGED updated
         [] s.op = "create" ->
              /\ table = "absent"
              /\ table' = "new" /\ committed' = {} /\ txn' = {}
              /\ UNCHANGED updated
         [] s.op = "insert" ->
              /\ table # "absent"
              /\ txn' = txn \cup {s.row}
              /\ committed' = CommitIf(s.autoCommit, txn')
              /\ UNCHANGED <<table, updated>>
         [] s.op \in {"updateAll", "updateMine"} ->
              /\ table # "absent"
              /\ updated' = Cardinality(IF s.op = "updateAll" THEN txn
                                        ELSE txn \cap ScriptRows)
              /\ committed' = CommitIf(s.autoCommit, txn)
              /\ UNCHANGED <<table, txn>>
    /\ NextStmt(i)
    /\ UNCHANGED failed

(* Statement i fails: ORA-942 when the table it needs is missing, ORA-955 *)
(* when CREATE finds one, or any other error (a lock held elsewhere, a    *)
(* lost session).  In the setup loop the error is at most logged and the  *)
(* loop goes on; elsewhere it jumps to catch and then to finally.         *)
ExecuteFail(i) ==
    /\ IF script[i].tolerant
       THEN NextStmt(i) /\ UNCHANGED failed
       ELSE pc' = "closeConn" /\ failed' = TRUE /\ UNCHANGED idx
    /\ UNCHANGED <<table, committed, txn, updated>>

Execute ==
    /\ pc = "stmt"
    /\ ExecuteOk(idx) \/ ExecuteFail(idx)
    /\ UNCHANGED <<conn, discarded>>

CloseConnectionCommits ==
    /\ pc = "closeConn"
    /\ conn' \in {"closed", "closeFailed"}
    /\ committed' = txn
    /\ discarded' = {}
    /\ pc' = "done"
    /\ UNCHANGED <<idx, table, txn, updated, failed>>

(* finally: connection.close(), which rolls back the open transaction;    *)
(* its own error is only logged.                                          *)
CloseConnection ==
    /\ pc = "closeConn"
    /\ conn' \in {"closed", "closeFailed"}
    /\ txn' = committed
    /\ discarded' = txn \ committed
    /\ pc' = "done"
    /\ UNCHANGED <<idx, table, committed, updated, failed>>

(* run() has returned.                                                     *)
Finished ==
    /\ pc = "done"
    /\ UNCHANGED vars

Next ==
    /\ GetConnection \/ Execute \/ CloseConnection \/ Finished
    /\ UNCHANGED script

Spec == Init /\ [][Next]_vars

-----------------------------------------------------------------------------
(* A run that reports no error has made all its work durable: closing the *)
(* connection in finally rolls back nothing, so every uncommitted         *)
(* statement was followed by one with autoCommit.                         *)
NothingLostOnSuccess == pc = "done" /\ ~failed => discarded = {}

(* A script that runs its INSERTs outside the setup loop and without       *)
(* autoCommit, leaving the commit to a later statement (insert1.js: "commit *)
(* once for all DML in the script"), makes its rows durable together or   *)
(* not at all: no failure between the INSERTs and the committing UPDATE   *)
(* leaves some of them committed.                                          *)
DeferredCommit ==
    \A i \in DOMAIN script :
        script[i].op = "insert" => ~script[i].tolerant /\ ~script[i].autoCommit

AllOrNothing ==
    DeferredCommit => (ScriptRows \cap committed) \in {{}, ScriptRows}

=============================================================================
