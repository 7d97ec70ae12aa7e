----------------------------- MODULE QueryStream -----------------------------
(***************************************************************************)
(* run() of resultsettoquerystream.js (src/examples/insert1.js lines       *)
(* 180-224): a query with resultSet: true, its ResultSet turned into a    *)
(* QueryStream, and a promise consumeStream that rejects on 'error' and   *)
(* resolves on 'close'; the 'end' handler calls destroy(), which closes    *)
(* the ResultSet and then emits 'close'.  A read error destroys the       *)
(* stream with the error, which also closes the ResultSet and then emits  *)
(* 'error' and 'close' in that order.  Rows are abstracted to a count.    *)
(***************************************************************************)
EXTENDS Naturals

CONSTANT RowCounts   \* possible numbers of rows the query returns

ASSUME RowCountsAssumption == RowCounts \subseteq Nat /\ RowCounts # {}

VARIABLES
    pc,         \* "connect", "setup", "exec", "await", "closeConn", "done"
    conn,       \* "none", "open", "closed", "closeFailed"
    rs,         \* the ResultSet: "none", "open", "closing", "closed"
    stream,     \* the QueryStream: "none", "flowing", "destroying", "closed"
    streamErr,  \* the error the stream was destroyed with, if any
    nr,         \* rows of the query
    delivered,  \* rows emitted as 'data'
    promise     \* consumeStream: "none", "pending", "resolved", "rejected"

vars == <<pc, conn, rs, stream, streamErr, nr, delivered, promise>>

TypeOK ==
    /\ pc \in {"connect", "setup", "exec", "await", "closeConn", "done"}
    /\ conn \in {"none", "open", "closed", "closeFailed"}
    /\ rs \in {"none", "open", "closing", "closed"}
    /\ stream \in {"none", "flowing", "destroying", "closed"}
    /\ streamErr \in BOOLEAN
    /\ nr \in RowCounts
    /\ delivered \in 0..nr
    /\ promise \in {"none", "pending", "resolved", "rejected"}

(* A promise settles once: later resolve() or reject() calls are ignored.  *)
Settle(p) == IF promise = "pending" THEN p ELSE promise

Init ==
    /\ pc = "connect"
    /\ conn = "none"
    /\ rs = "none"
    /\ stream = "none"
    /\ streamErr = FALSE
    /\ nr \in RowCounts
    /\ delivered = 0
    /\ promise = "none"

(* await oracledb.getConnection (line 184); on failure connection stays   *)
(* undefined and finally closes nothing.                                  *)
GetConnection ==
    /\ pc = "connect"
    /\ \/ conn' = "open" /\ pc' = "setup"
       \/ pc' = "done" /\ UNCHANGED conn
    /\ UNCHANGED <<rs, stream, streamErr, nr, delivered, promise>>

(* await demoSetup.setupBf (line 186).                                     *)
SetupBf ==
    /\ pc = "setup"
    /\ pc' \in {"exec", "closeConn"}
    /\ UNCHANGED <<conn, rs, stream, streamErr, nr, delivered, promise>>

(* The same step with the await of consumeStream forgotten.              *)
ExecuteQueryNoAwait ==
    /\ pc = "exec"
    /\ \/ /\ rs' = "open"
          /\ stream' = "flowing"
          /\ promise' = "pending"
          /\ pc' = "closeConn"
       \/ /\ pc' = "closeConn"
          /\ UNCHANGED <<rs, stream, promise>>
    /\ UNCHANGED <<conn, streamErr, nr, delivered>>

(* The query with resultSet: true, toQueryStream() and the synchronous    *)
(* promise executor that registers the handlers (lines 188-209); the      *)
(* 'data' handler makes the stream flow.                                  *)
ExecuteQuery ==
    /\ pc = "exec"
    /\ \/ /\ rs' = "open"
          /\ stream' = "flowing"
          /\ promise' = "pending"
          /\ pc' = "await"
       \/ /\ pc' = "closeConn"
          /\ UNCHANGED <<rs, stream, promise>>
    /\ UNCHANGED <<conn, streamErr, nr, delivered>>

(* Variants of the handlers below, each a plausible slip in them.        *)
ReadRowDestroyNoErr ==
    /\ stream = "flowing"
    /\ delivered < nr
    /\ \/ /\ delivered' = delivered + 1
          /\ UNCHANGED <<rs, stream, streamErr>>
       \/ /\ stream' = "destroying"
          /\ rs' = "closing"
          /\ UNCHANGED <<delivered, streamErr>>
    /\ UNCHANGED <<pc, conn, nr, promise>>

EndNoDestroy ==
    /\ stream = "flowing"
    /\ delivered = nr
    /\ UNCHANGED vars

(* The stream reads the next row from the ResultSet and emits it as       *)
(* 'data' (lines 201-203), or the read fails and the stream destroys      *)
(* itself with the error, starting the ResultSet close.                   *)
ReadRow ==
    /\ stream = "flowing"
    /\ delivered < nr
    /\ \/ /\ delivered' = delivered + 1
          /\ UNCHANGED <<rs, stream, streamErr>>
       \/ /\ stream' = "destroying"
          /\ streamErr' = TRUE
          /\ rs' = "closing"
          /\ UNCHANGED delivered
    /\ UNCHANGED <<pc, conn, nr, promise>>

(* After the last row the stream emits 'end' and the handler calls        *)
(* queryStream.destroy() (lines 205-207), which starts the ResultSet      *)
(* close.                                                                  *)
EndAndDestroy ==
    /\ stream = "flowing"
    /\ delivered = nr
    /\ stream' = "destroying"
    /\ rs' = "closing"
    /\ UNCHANGED <<pc, conn, streamErr, nr, delivered, promise>>

(* The ResultSet close completes (or fails, which becomes the stream's    *)
(* error); the stream then emits 'error' if it has one, which rejects,    *)
(* and 'close', which resolves (lines 204, 208).  Only the first counts.  *)
DestroyDone ==
    /\ stream = "destroying"
    /\ rs = "closing"
    /\ \E closeErr \in BOOLEAN :
          /\ streamErr' = (streamErr \/ closeErr)
          /\ promise' = IF streamErr \/ closeErr THEN Settle("rejected")
                        ELSE Settle("resolved")
    /\ rs' = "closed"
    /\ stream' = "closed"
    /\ UNCHANGED <<pc, conn, nr, delivered>>

(* await consumeStream (line 211) returns or throws once it settled.       *)
AwaitStream ==
    /\ pc = "await"
    /\ promise \in {"resolved", "rejected"}
    /\ pc' = "closeConn"
    /\ UNCHANGED <<conn, rs, stream, streamErr, nr, delivered, promise>>

(* finally: connection.close(), its error only logged (lines 215-222).     *)
CloseConnection ==
    /\ pc = "closeConn"
    /\ conn' \in {"closed", "closeFailed"}
    /\ pc' = "done"
    /\ UNCHANGED <<rs, stream, streamErr, nr, delivered, promise>>

(* run() has returned.                                                     *)
Finished ==
    /\ pc = "done"
    /\ UNCHANGED vars

Next ==
    \/ GetConnection
    \/ SetupBf
    \/ ExecuteQuery
    \/ ReadRow
    \/ EndAndDestroy
    \/ DestroyDone
    \/ AwaitStream
    \/ CloseConnection
    \/ Finished

(* The event loop runs every ready callback and the database answers      *)
(* every call, with a result or an error.                                 *)
Spec == Init /\ [][Next]_vars /\ WF_vars(Next)

-----------------------------------------------------------------------------
(* consumeStream resolves only when every row was emitted and the stream *)
(* met no error: a read failure part-way through, or a failing ResultSet *)
(* close, is never reported as success, even though 'close' follows it.  *)
ResolvedMeansComplete ==
    promise = "resolved" => delivered = nr /\ ~streamErr

(* The connection is closed in finally only once the ResultSet is closed  *)
(* or was never opened: run() does not pass the await of consumeStream    *)
(* while destroy() is still closing the ResultSet.                         *)
NoCloseUnderFetch ==
    [][conn = "open" /\ conn' # "open" => rs \in {"none", "closed"}]_vars

(* run() always returns: consumeStream settles on every path, which needs *)
(* the explicit destroy() in the 'end' handler to get a 'close' event.    *)
Terminates == <>(pc = "done")

(* The consumer's view of the stream: open until consumeStream settles,   *)
(* complete when it resolved, aborted when it rejected.                   *)
StreamState ==
    IF promise = "resolved" THEN "complete"
    ELSE IF promise = "rejected" THEN "aborted"
    ELSE "open"

Rows(n) == INSTANCE LobSequence WITH LEN <- n, got <- delivered, state <- StreamState

(* A QueryStream keeps the contract of a readable Lob, with rows for LOB  *)
(* units: the rows reach the 'data' handler as a growing prefix of the   *)
(* query's rows, consumeStream resolves only after the last one, and no  *)
(* row is emitted once it has resolved or rejected.  The query's row     *)
(* count nr, fixed when it runs, stands for the constant LEN: this is    *)
(* Rows(nr)!Spec written out, which TLA+ cannot write directly.           *)
ImplementsLobSequence ==
    /\ \A n \in RowCounts : nr = n => Rows(n)!Init
    /\ [][\A n \in RowCounts :
            nr = n => [Rows(n)!Next]_<<delivered, StreamState>>]_vars

=============================================================================
