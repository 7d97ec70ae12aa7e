----------------------------- MODULE LobInsertDoc -----------------------------
(***************************************************************************)
(* The RETURNING INTO example of the LOB guide (src/unnamed/part_001 lines *)
(* 297-328): an INSERT ... RETURNING c INTO :lobbv with autoCommit false, *)
(* then a promise doInsert whose executor registers three handlers and    *)
(* pipes a file into the returned Lob:                                     *)
(*   lob 'finish'      -> await connection.commit()                        *)
(*   lob 'error'       -> await connection.close(); reject(err)            *)
(*   inStream 'error'  -> reject(err)                                      *)
(* and awaits doInsert.  The code around the snippet (getting and closing *)
(* the connection) is not shown and is not modelled: the model ends when  *)
(* the await returns or throws.                                            *)
(*                                                                         *)
(* The Lob and the pipe are the same as in LobInsert: the file is NChunks *)
(* pieces, pipe() pauses the file at the Lob's highWaterMark, and the Lob *)
(* writes one buffered piece at a time to the row.                        *)
(***************************************************************************)
EXTENDS Integers

CONSTANTS
    NChunks,  \* pieces the file stream delivers before its 'end'
    HWM       \* the Lob's writable highWaterMark, in pieces

ASSUME NChunksAssumption == NChunks \in Nat
ASSUME HWMAssumption == HWM \in Nat \ {0}

VARIABLES
    pc,         \* "insert", "await", "returned", "threw"
    conn,       \* "open", "closed", "closeFailed"
    src,        \* the fs read stream: "none", "reading", "ended", "errored"
    srcRead,    \* pieces the read stream has emitted into the pipe
    awaitDrain, \* the pipe paused the source because lob.write returned false
    lobState,   \* "none", "writable", "ending", "finished", "destroyed"
    lobBuf,     \* pieces accepted by lob.write and not yet written
    commit,     \* connection.commit in 'finish': "none", "inflight", "ok", "failed"
    promise,    \* doInsert: "none", "pending", "resolved", "rejected"
    txnRow,     \* LOB length of the inserted row in the open transaction, or NoRow
    dbRow       \* LOB length of the committed row, or NoRow

vars == <<pc, conn, src, srcRead, awaitDrain, lobState, lobBuf, commit,
          promise, txnRow, dbRow>>

NoRow == -1

RowVal == {NoRow} \cup (0..NChunks)

TypeOK ==
    /\ pc \in {"insert", "await", "returned", "threw"}
    /\ conn \in {"open", "closed", "closeFailed"}
    /\ src \in {"none", "reading", "ended", "errored"}
    /\ srcRead \in 0..NChunks
    /\ awaitDrain \in BOOLEAN
    /\ lobState \in {"none", "writable", "ending", "finished", "destroyed"}
    /\ lobBuf \in 0..HWM
    /\ commit \in {"none", "inflight", "ok", "failed"}
    /\ promise \in {"none", "pending", "resolved", "rejected"}
    /\ txnRow \in RowVal
    /\ dbRow \in RowVal

(* A promise settles once: a later resolve() or reject() is ignored.       *)
Settle(p) == IF promise = "pending" THEN p ELSE promise

Init ==
    /\ pc = "insert"
    /\ conn = "open"
    /\ src = "none"
    /\ srcRead = 0
    /\ awaitDrain = FALSE
    /\ lobState = "none"
    /\ lobBuf = 0
    /\ commit = "none"
    /\ promise = "none"
    /\ txnRow = NoRow
    /\ dbRow = NoRow

(* await connection.execute(INSERT ... RETURNING c INTO :lobbv) with       *)
(* autoCommit false (lines 299-304), the check of rowsAffected and        *)
(* outBinds (306-308), and the synchronous body of the doInsert executor  *)
(* (310-326): handlers registered, the file opened and piped.  A failing  *)
(* execute or check throws before doInsert exists.                         *)
InsertReturning ==
    /\ pc = "insert"
    /\ \/ /\ pc' = "await"
          /\ txnRow' = 0
          /\ lobState' = "writable"
          /\ src' = "reading"
          /\ promise' = "pending"
       \/ /\ pc' = "threw"
          /\ UNCHANGED <<txnRow, lobState, src, promise>>
    /\ UNCHANGED <<conn, srcRead, awaitDrain, lobBuf, commit, dbRow>>

(* Variants of the steps below, each a plausible slip.                     *)
SrcDataNoBackpressure ==
    /\ src = "reading"
    /\ srcRead < NChunks
    /\ lobState = "writable"
    /\ srcRead' = srcRead + 1
    /\ lobBuf' = lobBuf + 1
    /\ awaitDrain' = (lobBuf + 1 >= HWM)
    /\ UNCHANGED <<pc, conn, src, lobState, commit, promise, txnRow, dbRow>>

(* The read stream emits a piece; the pipe calls lob.write(piece) and      *)
(* pauses the source when write returns false.                            *)
SrcData ==
    /\ src = "reading"
    /\ srcRead < NChunks
    /\ ~awaitDrain
    /\ lobState = "writable"
    /\ srcRead' = srcRead + 1
    /\ lobBuf' = lobBuf + 1
    /\ awaitDrain' = (lobBuf + 1 >= HWM)
    /\ UNCHANGED <<pc, conn, src, lobState, commit, promise, txnRow, dbRow>>

(* End of file: the pipe calls lob.end().                                  *)
SrcEnd ==
    /\ src = "reading"
    /\ srcRead = NChunks
    /\ ~awaitDrain
    /\ lobState = "writable"
    /\ src' = "ended"
    /\ lobState' = "ending"
    /\ UNCHANGED <<pc, conn, srcRead, awaitDrain, lobBuf, commit, promise,
                   txnRow, dbRow>>

SrcErrorEnd ==
    /\ src = "reading"
    /\ src' = "errored"
    /\ promise' = Settle("rejected")
    /\ lobState' = IF lobState = "writable" THEN "ending" ELSE lobState
    /\ UNCHANGED <<pc, conn, srcRead, awaitDrain, lobBuf, commit, txnRow, dbRow>>

(* The read stream fails; its handler only rejects (lines 321-323).  The  *)
(* pipe does not end or destroy the Lob, which stays writable.            *)
SrcError ==
    /\ src = "reading"
    /\ src' = "errored"
    /\ promise' = Settle("rejected")
    /\ UNCHANGED <<pc, conn, srcRead, awaitDrain, lobState, lobBuf, commit,
                   txnRow, dbRow>>

(* The Lob writes its oldest buffered piece to the row, or fails: it       *)
(* destroys itself and its 'error' handler awaits connection.close(),    *)
(* which rolls the row back, and then rejects (lines 315-318).  If the    *)
(* close throws, the async handler ends before reject(err).               *)
LobWrite ==
    /\ lobState \in {"writable", "ending"}
    /\ lobBuf > 0
    /\ \/ /\ lobBuf' = lobBuf - 1
          /\ txnRow' = txnRow + 1
          /\ awaitDrain' = (awaitDrain /\ lobBuf > 1)
          /\ UNCHANGED <<lobState, conn, promise>>
       \/ /\ lobState' = "destroyed"
          /\ lobBuf' = 0
          /\ txnRow' = NoRow
          /\ \/ conn' = "closed" /\ promise' = Settle("rejected")
             \/ conn' = "closeFailed" /\ UNCHANGED promise
          /\ UNCHANGED awaitDrain
    /\ UNCHANGED <<pc, src, srcRead, commit, dbRow>>

LobFinishUnflushed ==
    /\ lobState = "ending"
    /\ lobState' = "finished"
    /\ commit' = "inflight"
    /\ UNCHANGED <<pc, conn, src, srcRead, awaitDrain, lobBuf, promise,
                   txnRow, dbRow>>

LobFinishResolveEarly ==
    /\ lobState = "ending"
    /\ lobBuf = 0
    /\ lobState' = "finished"
    /\ commit' = "inflight"
    /\ promise' = Settle("resolved")
    /\ UNCHANGED <<pc, conn, src, srcRead, awaitDrain, lobBuf, txnRow, dbRow>>

(* end() was called and every piece is written: 'finish' is emitted and   *)
(* its handler calls connection.commit() (lines 312-314).                 *)
LobFinish ==
    /\ lobState = "ending"
    /\ lobBuf = 0
    /\ lobState' = "finished"
    /\ commit' = "inflight"
    /\ UNCHANGED <<pc, conn, src, srcRead, awaitDrain, lobBuf, promise,
                   txnRow, dbRow>>

(* The commit returns: the row becomes durable, or the awaited commit     *)
(* throws out of the async handler.  Neither settles doInsert.            *)
CommitDone ==
    /\ commit = "inflight"
    /\ \/ commit' = "ok" /\ dbRow' = txnRow
       \/ commit' = "failed" /\ UNCHANGED dbRow
    /\ UNCHANGED <<pc, conn, src, srcRead, awaitDrain, lobState, lobBuf,
                   promise, txnRow>>

(* await doInsert (line 328) returns, or throws once doInsert rejected.    *)
AwaitInsert ==
    /\ pc = "await"
    /\ promise \in {"resolved", "rejected"}
    /\ pc' = IF promise = "resolved" THEN "returned" ELSE "threw"
    /\ UNCHANGED <<conn, src, srcRead, awaitDrain, lobState, lobBuf, commit,
                   promise, txnRow, dbRow>>

(* The code after the snippet runs; the Lob's callbacks may still fire.   *)
Finished ==
    /\ pc \in {"returned", "threw"}
    /\ UNCHANGED vars

Next ==
    \/ InsertReturning
    \/ SrcData
    \/ SrcEnd
    \/ SrcError
    \/ LobWrite
    \/ LobFinish
    \/ CommitDone
    \/ AwaitInsert
    \/ Finished

(* The event loop runs every pending callback, the database answers every *)
(* call and the file keeps flowing; a read error is never forced.          *)
Fairness ==
    /\ WF_vars(InsertReturning)
    /\ WF_vars(SrcData)
    /\ WF_vars(SrcEnd)
    /\ WF_vars(LobWrite)
    /\ WF_vars(LobFinish)
    /\ WF_vars(CommitDone)
    /\ WF_vars(AwaitInsert)

Spec == Init /\ [][Next]_vars /\ Fairness

-----------------------------------------------------------------------------
(* The committed row holds the whole file: the commit sits in 'finish',    *)
(* which comes only after end() and after every buffered piece reached    *)
(* the database (part_001 lines 281-283, 330-332).                         *)
CommittedRowComplete == dbRow \in {NoRow, NChunks}

(* A failure reported by await doInsert leaves nothing committed: neither *)
(* a read error nor a Lob error is followed by the commit in 'finish'.    *)
ErrorMeansNothingCommitted == promise = "rejected" => dbRow = NoRow

(* The code after the snippet runs: await doInsert returns or throws.      *)
Terminates == <>(pc \in {"returned", "threw"})

(* What the caller of doInsert has been told, as DurableInsert sees it.    *)
Told ==
    IF promise = "resolved" THEN "ok"
    ELSE IF promise = "rejected" THEN "error"
    ELSE "none"

Durable == INSTANCE DurableInsert
               WITH Absent <- NoRow, Whole <- NChunks, row <- dbRow, told <- Told

(* The snippet keeps the promise of a streaming insert (DurableInsert):  *)
(* the row is committed at most once, whole, and never rolled back; the  *)
(* caller is told of success only by the commit that made the row        *)
(* durable, and of an error only while nothing is durable.               *)
ImplementsDurableInsert == Durable!Spec

=============================================================================
