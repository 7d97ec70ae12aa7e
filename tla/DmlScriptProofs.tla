--------------------------- MODULE DmlScriptProofs ---------------------------
(***************************************************************************)
(* Proofs about the DML scripts for every set of scripts and every table  *)
(* left by an earlier run.                                                 *)
(***************************************************************************)
EXTENDS DmlScript, FiniteSetTheorems, TLAPS

(* The rows are finite sets, the script is one of the scripts, and the    *)
(* statement index stays inside it.                                       *)
FiniteInv ==
    /\ script \in Scripts
    /\ IsFiniteSet(txn)
    /\ IsFiniteSet(committed)

(* Nothing is left uncommitted when the script reaches its close without *)
(* an error, and nothing was discarded before the close.                  *)
LostInv ==
    /\ pc = "closeConn" /\ ~failed => txn = committed
    /\ pc \in {"connect", "stmt", "closeConn"} => discarded = {}
    /\ NothingLostOnSuccess

IInv == TypeOK /\ FiniteInv /\ LostInv

(* The rows of the INSERTs before statement i.                            *)
Done(i) == {script[j].row : j \in {j \in 1..(i - 1) : script[j].op = "insert"}}

(* An INSERT is still to come at statement i or later.                    *)
InsertFrom(i) == \E k \in i..Len(script) : script[k].op = "insert"

(* With a deferred commit, none of the script's rows is durable while an *)
(* INSERT is still to come, and the session holds exactly the rows of the *)
(* INSERTs run so far; after the last INSERT it holds all of them or,    *)
(* after DDL, none.                                                        *)
BlockInv ==
    DeferredCommit =>
        /\ pc = "connect" =>
               /\ idx = 1
               /\ ScriptRows \cap committed = {} /\ ScriptRows \cap txn = {}
        /\ pc = "stmt" /\ InsertFrom(idx) =>
               ScriptRows \cap committed = {} /\ ScriptRows \cap txn = Done(idx)
        /\ pc = "stmt" /\ ~InsertFrom(idx) =>
               ScriptRows \cap txn \in {{}, ScriptRows}

AInv == IInv /\ BlockInv /\ AllOrNothing

USE ScriptsAssumption, OldRowsAssumption

(* A statement of the script is a record of Stmts, and an INSERT's row is *)
(* one of the script's rows.                                              *)
LEMMA StmtFacts ==
    ASSUME script \in Scripts, NEW i \in 1..Len(script)
    PROVE  /\ script[i] \in Stmts
           /\ script[i].op = "insert" => script[i].row \in ScriptRows
  <1>1. script \in Seq(Stmts)
    OBVIOUS
  <1>2. script[i] \in Stmts
    BY <1>1
  <1>3. i \in DOMAIN script
    BY <1>1
  <1>4. QED
    BY <1>2, <1>3, Zenon DEF ScriptRows

LEMMA IInvInit == Init => IInv
  <1> SUFFICES ASSUME Init PROVE IInv
    OBVIOUS
  <1>1. failed \in BOOLEAN /\ ~failed
    BY Zenon DEF Init
  <1>2. Len(script) >= 1
    BY DEF Init
  <1>3. IsFiniteSet(committed) /\ IsFiniteSet(txn)
    BY FS_EmptySet DEF Init
  <1>4. committed \subseteq RowIds
    BY DEF Init, RowIds
  <1>5. QED
    BY <1>1, <1>2, <1>3, <1>4 DEF Init, IInv, TypeOK, FiniteInv, LostInv,
       NothingLostOnSuccess, NoCount

(* The statement step, with failed and pc as the prover needs them.       *)
LEMMA ExecuteStep ==
    ASSUME IInv, Execute, UNCHANGED script, RowIds' = RowIds, LastCommits
    PROVE  IInv'
  <1> USE DEF IInv, TypeOK, FiniteInv, LostInv, NothingLostOnSuccess
  <1>1. idx \in 1..Len(script) /\ script \in Scripts /\ pc = "stmt"
    BY DEF Execute
  <1> DEFINE s == script[idx]
  <1>2. s \in Stmts /\ (s.op = "insert" => s.row \in ScriptRows)
    BY <1>1, StmtFacts
  <1>3. UNCHANGED <<conn, discarded>>
    BY DEF Execute
  <1>4. discarded = {}
    BY <1>1
  <1>5. CASE ExecuteOk(idx)
    <2>1. failed' = failed
      BY <1>5, Zenon DEF ExecuteOk
    <2>2. failed' \in BOOLEAN
      BY <2>1, Zenon
    <2>3. /\ IsFiniteSet(txn') /\ IsFiniteSet(committed')
          /\ txn' \subseteq RowIds /\ committed' \subseteq RowIds
          /\ updated' \in Nat \cup {NoCount}
          /\ table' \in {"absent", "old", "new"}
          /\ (idx = Len(script) => committed' = txn')
      <3>1. CASE s.op \in {"setup", "drop", "create"}
        BY <1>5, <3>1, FS_EmptySet DEF ExecuteOk
      <3>2. CASE s.op = "insert"
        <4>1. txn' = txn \cup {s.row}
          BY <1>5, <3>2 DEF ExecuteOk
        <4>2. committed' = IF s.autoCommit THEN txn' ELSE committed
          BY <1>5, <3>2 DEF ExecuteOk, CommitIf
        <4>3. IsFiniteSet(txn')
          BY <4>1, FS_AddElement
        <4>4. idx = Len(script) => s.autoCommit
          BY <1>1 DEF LastCommits
        <4>5. QED
          BY <1>2, <1>5, <3>2, <4>1, <4>2, <4>3, <4>4 DEF ExecuteOk, RowIds
      <3>3. CASE s.op \in {"updateAll", "updateMine"}
        <4>1. txn' = txn /\ UNCHANGED table
          BY <1>5, <3>3 DEF ExecuteOk
        <4>2. committed' = IF s.autoCommit THEN txn ELSE committed
          BY <1>5, <3>3 DEF ExecuteOk, CommitIf
        <4>3. updated' = Cardinality(IF s.op = "updateAll" THEN txn
                                     ELSE txn \cap ScriptRows)
          BY <1>5, <3>3 DEF ExecuteOk
        <4>4. IsFiniteSet(txn \cap ScriptRows)
          BY FS_Intersection
        <4>5. updated' \in Nat
          BY <4>3, <4>4, FS_CardinalityType
        <4>6. idx = Len(script) => s.autoCommit
          BY <1>1 DEF LastCommits
        <4>7. QED
          BY <4>1, <4>2, <4>5, <4>6
      <3>4. QED
        BY <1>2, <3>1, <3>2, <3>3 DEF Stmts
    <2>4. /\ idx = Len(script) => pc' = "closeConn" /\ idx' = idx
          /\ idx # Len(script) => pc' = "stmt" /\ idx' = idx + 1
      BY <1>5 DEF ExecuteOk, NextStmt
    <2>5. QED
      BY <1>1, <1>3, <1>4, <2>1, <2>2, <2>3, <2>4
  <1>6. CASE ExecuteFail(idx)
    <2>1. UNCHANGED <<table, committed, txn, updated>>
      BY <1>6 DEF ExecuteFail
    <2>2. CASE s.tolerant
      <3>1. idx # Len(script)
        BY <1>1, <2>2 DEF LastCommits
      <3>2. pc' = "stmt" /\ idx' = idx + 1
        BY <1>6, <2>2, <3>1 DEF ExecuteFail, NextStmt
      <3>3. failed' = failed
        BY <1>6, <2>2, <3>1, Zenon DEF ExecuteFail, NextStmt
      <3>4. idx' \in 1..Len(script')
        BY <1>1, <3>1, <3>2
      <3>5. QED
        BY <1>3, <1>4, <2>1, <3>2, <3>3, <3>4, Zenon
    <2>3. CASE ~s.tolerant
      <3>1. pc' = "closeConn" /\ failed' = TRUE /\ idx' = idx
        BY <1>6, <2>3 DEF ExecuteFail
      <3>2. failed' \in BOOLEAN /\ failed'
        BY <3>1, Zenon
      <3>3. QED
        BY <1>1, <1>3, <1>4, <2>1, <3>1, <3>2
    <2>4. QED
      BY <2>2, <2>3
  <1>7. QED
    BY <1>5, <1>6 DEF Execute

LEMMA IInvNext == LastCommits => (IInv /\ [Next]_vars => IInv')
  <1> SUFFICES ASSUME LastCommits, IInv, [Next]_vars PROVE IInv'
    OBVIOUS
  <1> USE DEF IInv, TypeOK, FiniteInv, LostInv, NothingLostOnSuccess
  <1>0. script' = script /\ RowIds' = RowIds
    <2>1. script' = script
      BY DEF Next, vars
    <2>2. QED
      BY <2>1 DEF RowIds, ScriptRows
  <1>1. CASE GetConnection /\ UNCHANGED script
    <2>1. failed' \in BOOLEAN /\ (pc' = "done" => failed')
      BY <1>1, Zenon DEF GetConnection
    <2>2. QED
      BY <1>0, <1>1, <2>1 DEF GetConnection
  <1>2. CASE Execute /\ UNCHANGED script
    BY <1>0, <1>2, ExecuteStep
  <1>3. CASE CloseConnection /\ UNCHANGED script
    <2>1. failed' = failed /\ failed' \in BOOLEAN
      BY <1>3, Zenon DEF CloseConnection
    <2>2. discarded' \subseteq RowIds /\ IsFiniteSet(txn')
      BY <1>3 DEF CloseConnection
    <2>3. ~failed => discarded' = {}
      BY <1>3 DEF CloseConnection
    <2>4. QED
      BY <1>0, <1>3, <2>1, <2>2, <2>3 DEF CloseConnection
  <1>4. CASE Finished /\ UNCHANGED script
    BY <1>0, <1>4 DEF Finished, vars
  <1>5. CASE UNCHANGED vars
    BY <1>0, <1>5 DEF vars
  <1>6. QED
    BY <1>1, <1>2, <1>3, <1>4, <1>5 DEF Next

(* No INSERT precedes the first statement.                                *)
LEMMA DoneFirst == Done(1) = {}
  BY DEF Done

(* Running statement i adds its row to the rows inserted so far when it   *)
(* is an INSERT, and nothing otherwise.                                    *)
LEMMA DoneStep ==
    ASSUME script \in Seq(Stmts), NEW i \in 1..Len(script)
    PROVE  Done(i + 1) = Done(i) \cup (IF script[i].op = "insert"
                                       THEN {script[i].row} ELSE {})
  <1>1. {j \in 1..i : script[j].op = "insert"}
          = {j \in 1..(i - 1) : script[j].op = "insert"}
            \cup (IF script[i].op = "insert" THEN {i} ELSE {})
    OBVIOUS
  <1>2. QED
    BY <1>1 DEF Done

(* Once no INSERT is left, the rows inserted so far are all the script's. *)
LEMMA DoneAll ==
    ASSUME script \in Seq(Stmts), NEW i \in 1..(Len(script) + 1),
           ~InsertFrom(i)
    PROVE  Done(i) = ScriptRows
  <1>1. \A j \in DOMAIN script : script[j].op = "insert" => j \in 1..(i - 1)
    BY DEF InsertFrom
  <1>2. {j \in 1..(i - 1) : script[j].op = "insert"}
          = {j \in DOMAIN script : script[j].op = "insert"}
    BY <1>1
  <1>3. QED
    BY <1>2 DEF Done, ScriptRows

(* Under a deferred commit, a statement other than an INSERT with an       *)
(* INSERT still to come precedes every INSERT of the script.              *)
LEMMA DoneNone ==
    ASSUME InsertsTogether, script \in Scripts, DeferredCommit,
           NEW i \in 1..Len(script), script[i].op # "insert", InsertFrom(i)
    PROVE  /\ Done(i) = {}
           /\ i < Len(script)
           /\ InsertFrom(i + 1)
  <1>1. PICK k \in i..Len(script) : script[k].op = "insert"
    BY DEF InsertFrom
  <1>2. i < k /\ k \in DOMAIN script
    BY <1>1
  <1>3. \A j \in 1..(i - 1) : script[j].op # "insert"
    <2>1. \A a, b, c \in DOMAIN script :
             script[a].op = "insert" /\ script[c].op = "insert" /\ a < b /\ b < c
             => script[b].op = "insert"
      BY DEF InsertsTogether, DeferredCommit
    <2>2. QED
      BY <1>1, <1>2, <2>1
  <1>4. Done(i) = {}
    BY <1>3 DEF Done
  <1>5. QED
    BY <1>1, <1>2, <1>4 DEF InsertFrom

(* What statement idx does to the committed and the session's rows,       *)
(* one kind of statement at a time.                                        *)
LEMMA StmtEffect ==
    ASSUME script \in Seq(Stmts), idx \in 1..Len(script)
    PROVE  LET s == script[idx] IN
           /\ ExecuteFail(idx) => committed' = committed /\ txn' = txn
           /\ ExecuteOk(idx) /\ s.op \in {"setup", "drop", "create"}
                => committed' = {} /\ txn' = {}
           /\ ExecuteOk(idx) /\ s.op = "insert"
                => /\ txn' = txn \cup {s.row}
                   /\ committed' = IF s.autoCommit THEN txn' ELSE committed
           /\ ExecuteOk(idx) /\ s.op \in {"updateAll", "updateMine"}
                => /\ txn' = txn
                   /\ committed' = IF s.autoCommit THEN txn ELSE committed
  <1> DEFINE s == script[idx]
  <1>1. ExecuteFail(idx) => committed' = committed /\ txn' = txn
    BY DEF ExecuteFail
  <1>2. ExecuteOk(idx) /\ s.op \in {"setup", "drop", "create"}
          => committed' = {} /\ txn' = {}
    BY DEF ExecuteOk
  <1>3. ExecuteOk(idx) /\ s.op = "insert"
          => /\ txn' = txn \cup {s.row}
             /\ committed' = IF s.autoCommit THEN txn' ELSE committed
    BY DEF ExecuteOk, CommitIf
  <1>4. ExecuteOk(idx) /\ s.op \in {"updateAll", "updateMine"}
          => /\ txn' = txn
             /\ committed' = IF s.autoCommit THEN txn ELSE committed
    BY DEF ExecuteOk, CommitIf
  <1>5. QED
    BY <1>1, <1>2, <1>3, <1>4

(* The statement step keeps the block invariant.                          *)
LEMMA BlockExecute ==
    ASSUME InsertsTogether, IInv, BlockInv, AllOrNothing, DeferredCommit,
           Execute, UNCHANGED script
    PROVE  BlockInv' /\ AllOrNothing'
  <1> DEFINE SR == ScriptRows
  <1>0. /\ SR' = SR /\ DeferredCommit' = DeferredCommit
        /\ \A i : Done(i)' = Done(i) /\ InsertFrom(i)' = InsertFrom(i)
    BY DEF ScriptRows, DeferredCommit, Done, InsertFrom
  <1>1. /\ pc = "stmt" /\ idx \in 1..Len(script) /\ script \in Scripts
        /\ script \in Seq(Stmts)
    BY DEF Execute, IInv, TypeOK, FiniteInv
  <1> DEFINE s == script[idx]
  <1>2. s \in Stmts /\ (s.op = "insert" => s.row \in SR)
    BY <1>1, StmtFacts
  <1>3. s.op = "insert" => ~s.tolerant /\ ~s.autoCommit
    BY <1>1 DEF DeferredCommit
  <1>4. pc' \in {"stmt", "closeConn"} /\ (pc' = "stmt" => idx' = idx + 1)
    BY <1>1 DEF Execute, ExecuteOk, ExecuteFail, NextStmt
  <1>5. ExecuteOk(idx) \/ ExecuteFail(idx)
    BY DEF Execute
  <1>6. CASE InsertFrom(idx)
    <2>1. SR \cap committed = {} /\ SR \cap txn = Done(idx)
      BY <1>1, <1>6 DEF BlockInv
    <2>2. CASE s.op = "insert"
      <3>1. ExecuteOk(idx) \/ ExecuteFail(idx)
        BY DEF Execute
      <3>2. ExecuteOk(idx) => txn' = txn \cup {s.row} /\ committed' = committed
        BY <2>2, <1>3 DEF ExecuteOk, CommitIf
      <3>3. ExecuteFail(idx) => pc' = "closeConn" /\ committed' = committed
        BY <2>2, <1>3 DEF ExecuteFail
      <3>4. Done(idx + 1) = Done(idx) \cup {s.row}
        BY <1>1, <2>2, DoneStep
      <3>5. ~InsertFrom(idx + 1) /\ idx + 1 \in 1..(Len(script) + 1)
              => Done(idx + 1) = SR
        BY <1>1, DoneAll
      <3>6. SR \cap committed' = {}
        BY <2>1, <3>1, <3>2, <3>3
      <3>7. pc' = "stmt" => SR \cap txn' = Done(idx + 1)
        BY <1>2, <2>1, <2>2, <3>1, <3>2, <3>3, <3>4
      <3>8. QED
        BY <1>0, <1>1, <1>4, <3>5, <3>6, <3>7 DEF BlockInv, AllOrNothing
    <2>3. CASE s.op # "insert"
      <3>1. Done(idx) = {} /\ idx < Len(script) /\ InsertFrom(idx + 1)
        BY <1>1, <1>6, <2>3, DoneNone
      <3>2. Done(idx + 1) = {}
        BY <1>1, <2>3, <3>1, DoneStep
      <3>3. SR \cap committed' = {} /\ SR \cap txn' = {}
        BY <1>1, <1>2, <1>5, <2>1, <2>3, <3>1, StmtEffect DEF Stmts
      <3>4. QED
        BY <1>0, <1>4, <3>1, <3>2, <3>3 DEF BlockInv, AllOrNothing
    <2>4. QED
      BY <2>2, <2>3
  <1>7. CASE ~InsertFrom(idx)
    <2>1. SR \cap txn \in {{}, SR} /\ s.op # "insert"
      BY <1>1, <1>7 DEF BlockInv, InsertFrom
    <2>2. ~InsertFrom(idx + 1)
      BY <1>1, <1>7 DEF InsertFrom
    <2>3. /\ SR \cap committed' \in {{}, SR}
          /\ SR \cap txn' \in {{}, SR}
      BY <1>1, <1>2, <1>5, <2>1, StmtEffect DEF Stmts, AllOrNothing
    <2>4. QED
      BY <1>0, <1>4, <2>2, <2>3 DEF BlockInv, AllOrNothing
  <1>8. QED
    BY <1>6, <1>7

(* No row of the script is in the table or the session before it runs.   *)
LEMMA BlockInit == OldRowsApart => (Init => BlockInv /\ AllOrNothing)
  <1> SUFFICES ASSUME OldRowsApart, Init PROVE BlockInv /\ AllOrNothing
    OBVIOUS
  <1>1. ScriptRows \cap OldRows = {}
    BY DEF Init, OldRowsApart, ScriptRows
  <1>2. ScriptRows \cap committed = {} /\ txn = committed
    BY <1>1 DEF Init
  <1>3. QED
    BY <1>2 DEF Init, BlockInv, AllOrNothing

(* Every step keeps the block invariant and AllOrNothing.                  *)
LEMMA BlockNext ==
    InsertsTogether /\ LastCommits =>
        (IInv /\ BlockInv /\ AllOrNothing /\ [Next]_vars
            => BlockInv' /\ AllOrNothing')
  <1> SUFFICES ASSUME InsertsTogether, LastCommits, IInv, BlockInv,
                      AllOrNothing, [Next]_vars
               PROVE  BlockInv' /\ AllOrNothing'
    OBVIOUS
  <1> DEFINE SR == ScriptRows
  <1>1. script' = script
    BY DEF Next, vars
  <1>2. /\ SR' = SR /\ DeferredCommit' = DeferredCommit
        /\ \A i : Done(i)' = Done(i) /\ InsertFrom(i)' = InsertFrom(i)
    BY <1>1 DEF ScriptRows, DeferredCommit, Done, InsertFrom
  <1>3. CASE ~DeferredCommit
    BY <1>2, <1>3 DEF BlockInv, AllOrNothing
  <1>4. CASE DeferredCommit
    <2>1. CASE GetConnection
      <3>1. UNCHANGED <<idx, committed, txn>> /\ pc = "connect"
            /\ pc' \in {"stmt", "done"}
        BY <2>1 DEF GetConnection
      <3>2. idx = 1 /\ SR \cap committed = {} /\ SR \cap txn = {}
        BY <1>4, <3>1 DEF BlockInv
      <3>3. InsertFrom(1) => SR \cap txn = Done(1)
        BY <3>2, DoneFirst
      <3>4. QED
        BY <1>2, <1>4, <3>1, <3>2, <3>3 DEF BlockInv, AllOrNothing
    <2>6. CASE Execute
      BY <1>1, <1>4, <2>6, BlockExecute
    <2>7. CASE CloseConnection
      BY <1>2, <2>7 DEF CloseConnection, BlockInv, AllOrNothing
    <2>8. CASE Finished \/ UNCHANGED vars
      BY <1>2, <2>8 DEF Finished, vars, BlockInv, AllOrNothing
    <2>9. QED
      BY <2>1, <2>6, <2>7, <2>8 DEF Next
  <1>5. QED
    BY <1>3, <1>4

(* For every script whose last statement runs with autoCommit outside the *)
(* setup loop, a run that reports no error closes its connection without *)
(* rolling anything back.                                                  *)
THEOREM NothingLostOnSuccessThm == LastCommits => (Spec => []NothingLostOnSuccess)
  <1> SUFFICES ASSUME LastCommits PROVE Spec => []NothingLostOnSuccess
    OBVIOUS
  <1>1. IInv => NothingLostOnSuccess
    BY DEF IInv, LostInv
  <1>2. QED
    BY <1>1, IInvInit, IInvNext, PTL DEF Spec

(* For every script whose INSERTs run back to back outside the setup loop *)
(* and without autoCommit (insert1.js), whatever statement fails and      *)
(* whether the table is new or left by an earlier run, the script's rows *)
(* become durable all together or not at all.                             *)
THEOREM AllOrNothingThm ==
    LastCommits /\ InsertsTogether /\ OldRowsApart => (Spec => []AllOrNothing)
  <1> SUFFICES ASSUME LastCommits, InsertsTogether, OldRowsApart
               PROVE  Spec => []AllOrNothing
    OBVIOUS
  <1>1. Init => IInv /\ BlockInv /\ AllOrNothing
    BY IInvInit, BlockInit
  <1>2. IInv /\ BlockInv /\ AllOrNothing /\ [Next]_vars
          => (IInv /\ BlockInv /\ AllOrNothing)'
    BY IInvNext, BlockNext
  <1>3. QED
    BY <1>1, <1>2, PTL DEF Spec

=============================================================================
