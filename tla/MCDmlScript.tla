----------------------------- MODULE MCDmlScript -----------------------------
(***************************************************************************)
(* The three DML scripts, run on a fresh database or over a table left   *)
(* by an earlier run, which holds one row of its own.                     *)
(***************************************************************************)
EXTENDS DmlScript

MCScripts == {Insert1Script, DmlrupdScript, Lobinsert1Script}

MCOldRows == {"old"}

ASSUME MCScriptsCommitLast == LastCommits

ASSUME MCScriptsInsertsTogether == InsertsTogether

ASSUME MCOldRowsApart == OldRowsApart

=============================================================================
