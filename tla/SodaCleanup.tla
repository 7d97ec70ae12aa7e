----------------------------- MODULE SodaCleanup -----------------------------
(***************************************************************************)
(* Test 186.1 of sodaInstanceof.js (src/unnamed/part_002 lines 199-271):   *)
(* the before hook, which skips the suite when SODA cannot run and        *)
(* otherwise cleans up, and the test, which acquires a connection, a      *)
(* collection and a document cursor, asserting with should after each     *)
(* step, and releases them in finally: cursor, collection, connection,    *)
(* each in its own try whose catch calls should.not.exist(err).           *)
(*                                                                         *)
(* should.not.exist(err) throws when err exists.  So the outer catch      *)
(* turns any error into a test failure, and a failing release in finally *)
(* throws out of the finally block, skipping the releases after it.      *)
(***************************************************************************)
EXTENDS Naturals

VARIABLES
    pc,       \* position in the hook, the test body or its finally block
    conn,     \* "none", "open", "closed", "closeFailed"
    coll,     \* "none", "exists", "dropped", "dropFailed"
    cursor,   \* "none", "open", "closed", "closeFailed"
    errored,  \* some call or assertion raised an error
    failed    \* the test (or its hook) fails: an exception left it

vars == <<pc, conn, coll, cursor, errored, failed>>

Stages == {"before", "cleanup", "connect", "sodaObjects", "createColl", "find",
           "getCursor", "relCursor", "relColl", "relConn", "done", "skipped"}

TypeOK ==
    /\ pc \in Stages
    /\ conn \in {"none", "open", "closed", "closeFailed"}
    /\ coll \in {"none", "exists", "dropped", "dropFailed"}
    /\ cursor \in {"none", "open", "closed", "closeFailed"}
    /\ errored \in BOOLEAN
    /\ failed \in BOOLEAN

Init ==
    /\ pc = "before"
    /\ conn = "none"
    /\ coll = "none"
    /\ cursor = "none"
    /\ errored = FALSE
    /\ failed = FALSE

(* An error in the try block: the catch's should.not.exist(err) throws,   *)
(* the test fails, and finally runs.                                      *)
Throw ==
    /\ errored' = TRUE
    /\ failed' = TRUE
    /\ pc' = "relCursor"

(* before(): isSodaRunnable() and the client version decide whether the   *)
(* suite runs (lines 201-216).                                            *)
Before ==
    /\ pc = "before"
    /\ \/ pc' = "cleanup" /\ UNCHANGED <<errored, failed>>
       \/ pc' = "skipped" /\ UNCHANGED <<errored, failed>>
       \/ pc' = "done" /\ errored' = TRUE /\ failed' = TRUE
    /\ UNCHANGED <<conn, coll, cursor>>

(* await sodaUtil.cleanup() (line 218); if it throws the hook fails and   *)
(* the test does not run.                                                 *)
Cleanup ==
    /\ pc = "cleanup"
    /\ \/ pc' = "connect" /\ UNCHANGED <<errored, failed>>
       \/ pc' = "done" /\ errored' = TRUE /\ failed' = TRUE
    /\ UNCHANGED <<conn, coll, cursor>>

(* conn = await oracledb.getConnection(dbConfig) (line 224).              *)
GetConnection ==
    /\ pc = "connect"
    /\ \/ conn' = "open" /\ pc' = "sodaObjects" /\ UNCHANGED <<errored, failed>>
       \/ Throw /\ UNCHANGED conn
    /\ UNCHANGED <<coll, cursor>>

(* getSodaDatabase(), createDocument() and their instanceof assertions    *)
(* (lines 226-232): synchronous; an assertion that fails throws.          *)
SodaObjects ==
    /\ pc = "sodaObjects"
    /\ \/ pc' = "createColl" /\ UNCHANGED <<errored, failed>>
       \/ Throw
    /\ UNCHANGED <<conn, coll, cursor>>

(* coll = await sodaDB.createCollection(...) and its assertion            *)
(* (lines 234-236); the assertion runs after coll is assigned.            *)
CreateCollection ==
    /\ pc = "createColl"
    /\ \/ coll' = "exists" /\ pc' = "find" /\ UNCHANGED <<errored, failed>>
       \/ coll' = "exists" /\ Throw
       \/ Throw /\ UNCHANGED coll
    /\ UNCHANGED <<conn, cursor>>

(* coll.find() and its assertion (lines 238-240).                          *)
Find ==
    /\ pc = "find"
    /\ \/ pc' = "getCursor" /\ UNCHANGED <<errored, failed>>
       \/ Throw
    /\ UNCHANGED <<conn, coll, cursor>>

(* cursor = await operation.getCursor() and its assertion (lines 242-244). *)
GetCursor ==
    /\ pc = "getCursor"
    /\ \/ cursor' = "open" /\ pc' = "relCursor" /\ UNCHANGED <<errored, failed>>
       \/ cursor' = "open" /\ Throw
       \/ Throw /\ UNCHANGED cursor
    /\ UNCHANGED <<conn, coll>>

(* One release of the finally block: skipped when the resource was never  *)
(* acquired; when it fails, should.not.exist(err) throws out of finally   *)
(* and the releases after it are skipped.                                 *)
Release(from, to, res, held, ok, bad) ==
    /\ pc = from
    /\ \/ /\ res # held
          /\ pc' = to
          /\ UNCHANGED <<res, errored, failed>>
       \/ /\ res = held
          /\ res' = ok
          /\ pc' = to
          /\ UNCHANGED <<errored, failed>>
       \/ /\ res = held
          /\ res' = bad
          /\ pc' = "done"
          /\ errored' = TRUE
          /\ failed' = TRUE

(* if (cursor) await cursor.close() (lines 249-255).                       *)
ReleaseCursor ==
    /\ Release("relCursor", "relColl", cursor, "open", "closed", "closeFailed")
    /\ UNCHANGED <<conn, coll>>

(* if (coll) await coll.drop() (lines 256-262).                            *)
ReleaseCollection ==
    /\ Release("relColl", "relConn", coll, "exists", "dropped", "dropFailed")
    /\ UNCHANGED <<conn, cursor>>

(* if (conn) await conn.close() (lines 263-269).                           *)
ReleaseConnection ==
    /\ Release("relConn", "done", conn, "open", "closed", "closeFailed")
    /\ UNCHANGED <<coll, cursor>>

(* The test has finished, passed or failed, or the suite was skipped.     *)
Finished ==
    /\ pc \in {"done", "skipped"}
    /\ UNCHANGED vars

Next ==
    \/ Before
    \/ Cleanup
    \/ GetConnection
    \/ SodaObjects
    \/ CreateCollection
    \/ Find
    \/ GetCursor
    \/ ReleaseCursor
    \/ ReleaseCollection
    \/ ReleaseConnection
    \/ Finished

Spec == Init /\ [][Next]_vars

-----------------------------------------------------------------------------
(* Whatever fails, every resource the test acquired has its release       *)
(* attempted by the end: the finally block wraps each release in its own *)
(* try so that one failing release does not skip the others.             *)
AllReleaseAttempted ==
    pc = "done" =>
        /\ cursor # "open"
        /\ coll # "exists"
        /\ conn # "open"

=============================================================================
