------------------------------ MODULE LobInsert ------------------------------
(***************************************************************************)
(* The streaming RETURNING INTO insert of examples/lobinsert2.js: run()    *)
(* opens a connection, inserts a row with EMPTY_CLOB() inside a           *)
(* transaction (autoCommit false), pipes a file into the returned Lob,     *)
(* commits from the Lob's 'finish' handler, settles the doStream promise   *)
(* from the commit callback or the Lob's 'error' handler, and finally     *)
(* closes the connection, which rolls back whatever is not committed.     *)
(*                                                                         *)
(* Node.js runs every callback to completion on one thread, so each       *)
(* action below is one callback (or one awaited step of run()) and the    *)
(* interleaving of the file stream, the Lob's database writes, the commit *)
(* and run() is the interleaving of these actions.  The writable Lob and  *)
(* the connection are the node-oracledb objects documented in             *)
(* src/unnamed/part_001 ("Writeable Lobs", "Closing Lobs").               *)
(*                                                                         *)
(* Data is abstracted to a count: the file is NChunks pieces, the pipe    *)
(* delivers them in order, and a LOB value is the number of pieces        *)
(* written into it.                                                        *)
(***************************************************************************)
EXTENDS Integers

CONSTANTS
    NChunks,    \* pieces the file stream delivers before its 'end'
    HWM,        \* the Lob's writable highWaterMark, in pieces
    AutoClose   \* TRUE: the Lob is closed automatically at 'finish'
                \* (part_001 lines 330-332); FALSE: it stays open

ASSUME NChunksAssumption == NChunks \in Nat
ASSUME HWMAssumption == HWM \in Nat \ {0}
ASSUME AutoCloseAssumption == AutoClose \in BOOLEAN

VARIABLES
    pc,         \* where run() is: its awaits, then "done"
    conn,       \* the connection: "none" before getConnection, "open", "closed"
    src,        \* the fs read stream: "none", "reading", "ended", "errored"
    srcRead,    \* pieces the read stream has emitted into the pipe
    awaitDrain, \* the pipe paused the source because lob.write returned false
    lobState,   \* "none", "writable", "ending" (end() called), "finished", "destroyed"
    lobBuf,     \* pieces accepted by lob.write and not yet written to the database
    commit,     \* connection.commit: "none", "inflight", "ok", "failed"
    promise,    \* doStream: "none", "pending", "resolved", "rejected"
    txnRow,     \* LOB length of the inserted row in the open transaction, or NoRow
    dbRow       \* LOB length of the committed row, or NoRow

vars == <<pc, conn, src, srcRead, awaitDrain, lobState, lobBuf, commit,
          promise, txnRow, dbRow>>

NoRow == -1

RowVal == {NoRow} \cup (0..NChunks)

TypeOK ==
    /\ pc \in {"connect", "setup", "insert", "await", "close", "done"}
    /\ conn \in {"none", "open", "closed"}
    /\ src \in {"none", "reading", "ended", "errored"}
    /\ srcRead \in 0..NChunks
    /\ awaitDrain \in BOOLEAN
    /\ lobState \in {"none", "writable", "ending", "finished", "destroyed"}
    /\ lobBuf \in 0..HWM
    /\ commit \in {"none", "inflight", "ok", "failed"}
    /\ promise \in {"none", "pending", "resolved", "rejected"}
    /\ txnRow \in RowVal
    /\ dbRow \in RowVal

(* A promise settles once: a later resolve() or reject() is ignored.       *)
Settle(p) == IF promise = "pending" THEN p ELSE promise

(* lob.destroy(err): a Lob that is already destroyed ignores the call      *)
(* (Node.js streams return at once and emit nothing); otherwise it drops  *)
(* its buffered writes, becomes destroyed and emits 'error', whose        *)
(* handler rejects doStream (lobinsert2.js lines 100-103).                 *)
DestroyLob ==
    IF lobState = "destroyed"
    THEN UNCHANGED <<lobState, lobBuf, promise>>
    ELSE /\ lobState' = "destroyed"
         /\ lobBuf' = 0
         /\ promise' = Settle("rejected")

Init ==
    /\ pc = "connect"
    /\ conn = "none"
    /\ src = "none"
    /\ srcRead = 0
    /\ awaitDrain = FALSE
    /\ lobState = "none"
    /\ lobBuf = 0
    /\ commit = "none"
    /\ promise = "none"
    /\ txnRow = NoRow
    /\ dbRow = NoRow

(* await oracledb.getConnection(dbConfig); on failure the catch logs and   *)
(* finally finds no connection to close.                                   *)
GetConnection ==
    /\ pc = "connect"
    /\ \/ /\ conn' = "open"
          /\ pc' = "setup"
       \/ /\ pc' = "done"
          /\ UNCHANGED conn
    /\ UNCHANGED <<src, srcRead, awaitDrain, lobState, lobBuf, commit,
                   promise, txnRow, dbRow>>

(* await demoSetup.setupLobs(connection): recreates the table (no row).    *)
SetupLobs ==
    /\ pc = "setup"
    /\ pc' \in {"insert", "close"}
    /\ UNCHANGED <<conn, src, srcRead, awaitDrain, lobState, lobBuf, commit,
                   promise, txnRow, dbRow>>

(* The INSERT ... RETURNING c INTO :lobbv with autoCommit false, the       *)
(* checks on its result and, when they pass, the synchronous body of the  *)
(* doStream executor: handlers registered, read stream created, piped.    *)
(* outcome "error": execute throws or rowsAffected/outBinds are wrong;    *)
(* "nullLob": the row is inserted but the locator is null.                *)
InsertReturning ==
    /\ pc = "insert"
    /\ \E outcome \in {"ok", "error", "nullLob"}:
          \/ /\ outcome = "ok"
             /\ pc' = "await"
             /\ txnRow' = 0
             /\ lobState' = "writable"
             /\ src' = "reading"
             /\ promise' = "pending"
          \/ /\ outcome = "error"
             /\ pc' = "close"
             /\ UNCHANGED <<txnRow, lobState, src, promise>>
          \/ /\ outcome = "nullLob"
             /\ pc' = "close"
             /\ txnRow' = 0
             /\ UNCHANGED <<lobState, src, promise>>
    /\ UNCHANGED <<conn, srcRead, awaitDrain, lobBuf, commit, dbRow>>

(* Mutant of SrcData: the pipe ignores write()'s false return and keeps   *)
(* feeding the Lob without waiting for 'drain'.                            *)
SrcDataNoBackpressure ==
    /\ src = "reading"
    /\ srcRead < NChunks
    /\ lobState = "writable"
    /\ srcRead' = srcRead + 1
    /\ lobBuf' = lobBuf + 1
    /\ awaitDrain' = (lobBuf + 1 >= HWM)
    /\ UNCHANGED <<pc, conn, src, lobState, commit, promise, txnRow, dbRow>>

(* The read stream emits a piece; the pipe calls lob.write(piece) and      *)
(* pauses the source when write returns false (buffer at highWaterMark).  *)
(* A destroyed Lob has been unpiped and receives nothing.                 *)
SrcData ==
    /\ src = "reading"
    /\ srcRead < NChunks
    /\ ~awaitDrain
    /\ lobState = "writable"
    /\ srcRead' = srcRead + 1
    /\ lobBuf' = lobBuf + 1
    /\ awaitDrain' = (lobBuf + 1 >= HWM)
    /\ UNCHANGED <<pc, conn, src, lobState, commit, promise, txnRow, dbRow>>

(* The read stream reaches end of file; the pipe calls lob.end().          *)
SrcEnd ==
    /\ src = "reading"
    /\ srcRead = NChunks
    /\ ~awaitDrain
    /\ lobState = "writable"
    /\ src' = "ended"
    /\ lobState' = "ending"
    /\ UNCHANGED <<pc, conn, srcRead, awaitDrain, lobBuf, commit, promise,
                   txnRow, dbRow>>

(* Mutant of SrcError: the read-stream 'error' handler only rejects, as   *)
(* in the RETURNING INTO snippet of part_001 lines 321-323, and leaves    *)
(* the Lob open and writable.                                              *)
SrcErrorRejectOnly ==
    /\ src = "reading"
    /\ src' = "errored"
    /\ promise' = Settle("rejected")
    /\ UNCHANGED <<pc, conn, srcRead, awaitDrain, lobState, lobBuf, commit,
                   txnRow, dbRow>>

(* The read stream fails; its 'error' handler calls lob.destroy(err)       *)
(* (lobinsert2.js lines 107-110).                                          *)
SrcError ==
    /\ src = "reading"
    /\ src' = "errored"
    /\ DestroyLob
    /\ UNCHANGED <<pc, conn, srcRead, awaitDrain, commit, txnRow, dbRow>>

(* The Lob writes its oldest buffered piece to the database.  On success   *)
(* the row's LOB grows by one and an empty buffer emits 'drain', resuming *)
(* the source; on failure the Lob destroys itself with the error.          *)
LobWrite ==
    /\ lobState \in {"writable", "ending"}
    /\ lobBuf > 0
    /\ \/ /\ lobBuf' = lobBuf - 1
          /\ txnRow' = txnRow + 1
          /\ awaitDrain' = (awaitDrain /\ lobBuf > 1)
          /\ UNCHANGED <<lobState, promise>>
       \/ /\ DestroyLob
          /\ UNCHANGED <<awaitDrain, txnRow>>
    /\ UNCHANGED <<pc, conn, src, srcRead, commit, dbRow>>

(* Mutant of LobFinish: 'finish' is emitted as soon as end() is called,    *)
(* before the buffered writes have reached the database.                   *)
LobFinishUnflushed ==
    /\ lobState = "ending"
    /\ lobState' = IF AutoClose THEN "destroyed" ELSE "finished"
    /\ commit' = "inflight"
    /\ UNCHANGED <<pc, conn, src, srcRead, awaitDrain, lobBuf, promise,
                   txnRow, dbRow>>

(* end() has been called and every piece is written: 'finish' is emitted   *)
(* and its handler calls connection.commit (lines 88-98).  With AutoClose *)
(* the Lob is closed after 'finish'.                                       *)
LobFinish ==
    /\ lobState = "ending"
    /\ lobBuf = 0
    /\ lobState' = IF AutoClose THEN "destroyed" ELSE "finished"
    /\ commit' = "inflight"
    /\ UNCHANGED <<pc, conn, src, srcRead, awaitDrain, lobBuf, promise,
                   txnRow, dbRow>>

(* Mutant of CommitDone: resolve() is called whatever the commit returned. *)
CommitDoneResolveAlways ==
    /\ commit = "inflight"
    /\ \/ /\ commit' = "ok"
          /\ dbRow' = txnRow
          /\ promise' = Settle("resolved")
          /\ UNCHANGED <<lobState, lobBuf>>
       \/ /\ commit' = "failed"
          /\ promise' = Settle("resolved")
          /\ UNCHANGED <<lobState, lobBuf, dbRow>>
    /\ UNCHANGED <<pc, conn, src, srcRead, awaitDrain, txnRow>>

(* Mutant of CommitDone: a commit error is only logged, not passed to       *)
(* lob.destroy(err).                                                       *)
CommitDoneLogOnly ==
    /\ commit = "inflight"
    /\ \/ /\ commit' = "ok"
          /\ dbRow' = txnRow
          /\ promise' = Settle("resolved")
       \/ /\ commit' = "failed"
          /\ UNCHANGED <<dbRow, promise>>
    /\ UNCHANGED <<pc, conn, src, srcRead, awaitDrain, lobState, lobBuf,
                   txnRow>>

(* The commit callback: success makes the row durable and resolves         *)
(* doStream; an error calls lob.destroy(err) (lines 90-97).                *)
CommitDone ==
    /\ commit = "inflight"
    /\ \/ /\ commit' = "ok"
          /\ dbRow' = txnRow
          /\ promise' = Settle("resolved")
          /\ UNCHANGED <<lobState, lobBuf>>
       \/ /\ commit' = "failed"
          /\ DestroyLob
          /\ UNCHANGED dbRow
    /\ UNCHANGED <<pc, conn, src, srcRead, awaitDrain, txnRow>>

(* await doStream returns or throws into the catch (lines 115-118).        *)
AwaitStream ==
    /\ pc = "await"
    /\ promise \in {"resolved", "rejected"}
    /\ pc' = "close"
    /\ UNCHANGED <<conn, src, srcRead, awaitDrain, lobState, lobBuf, commit,
                   promise, txnRow, dbRow>>

(* finally: await connection.close() (lines 119-127).  Closing rolls back  *)
(* the open transaction; a failing close is only logged.                  *)
CloseConnection ==
    /\ pc = "close"
    /\ conn' = "closed"
    /\ txnRow' = NoRow
    /\ pc' = "done"
    /\ UNCHANGED <<src, srcRead, awaitDrain, lobState, lobBuf, commit,
                   promise, dbRow>>

(* run() has returned; the process only idles.                            *)
Finished ==
    /\ pc = "done"
    /\ UNCHANGED vars

Next ==
    \/ GetConnection
    \/ SetupLobs
    \/ InsertReturning
    \/ SrcData
    \/ SrcEnd
    \/ SrcError
    \/ LobWrite
    \/ LobFinish
    \/ CommitDone
    \/ AwaitStream
    \/ CloseConnection
    \/ Finished

(* The event loop runs every pending callback, the database answers every  *)
(* call and the file stream keeps reading while it is flowing.  A read     *)
(* error is an environment event and is not forced to happen.              *)
Fairness ==
    /\ WF_vars(GetConnection)
    /\ WF_vars(SetupLobs)
    /\ WF_vars(InsertReturning)
    /\ WF_vars(SrcData)
    /\ WF_vars(SrcEnd)
    /\ WF_vars(LobWrite)
    /\ WF_vars(LobFinish)
    /\ WF_vars(CommitDone)
    /\ WF_vars(AwaitStream)
    /\ WF_vars(CloseConnection)

Spec == Init /\ [][Next]_vars /\ Fairness

-----------------------------------------------------------------------------
(* The row the example commits never holds a truncated LOB: whatever the  *)
(* order of file reads, buffered Lob writes, 'finish', the commit callback *)
(* and failures, a committed row carries all NChunks pieces.  This is the *)
(* reason the commit sits in the 'finish' handler (part_001 lines 281-283)*)
CommittedRowComplete ==
    dbRow \in {NoRow, NChunks}

(* When run() has returned, it reported success ("Text inserted           *)
(* successfully." and a resolved doStream) exactly when the complete row  *)
(* is committed in the database, and an error exactly when nothing is.     *)
OutcomeReported ==
    pc = "done" => ((promise = "resolved") <=> (dbRow = NChunks))

(* The connection is never closed while the Lob can still write to it or   *)
(* its commit is outstanding: part_001 lines 237-238 leave it to the      *)
(* application to keep the connection open while pipe() is in progress.   *)
NoCloseUnderTransfer ==
    [][conn' = "closed" =>
          /\ lobState \notin {"writable", "ending"}
          /\ commit # "inflight"]_vars

(* run() always returns: doStream settles and the connection is closed.   *)
Terminates ==
    <>(pc = "done")

(* What the caller of doStream has been told, as DurableInsert sees it.    *)
Told ==
    IF promise = "resolved" THEN "ok"
    ELSE IF promise = "rejected" THEN "error"
    ELSE "none"

Durable == INSTANCE DurableInsert
               WITH Absent <- NoRow, Whole <- NChunks, row <- dbRow, told <- Told

(* lobinsert2.js keeps the promise of a streaming insert (DurableInsert):*)
(* the row is committed at most once, whole, and never rolled back; the  *)
(* caller is told of success only by the commit that made the row        *)
(* durable, and of an error only while nothing is durable.               *)
ImplementsDurableInsert == Durable!Spec

=============================================================================
