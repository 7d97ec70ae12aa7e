# Verification project for armnode-oracledb

This directory holds TLA+ models of the programs in this repository, the TLC
configurations that check them, and TLAPS proofs about them.

## 1. What the repository contains

The repository is documentation and runnable examples for the node-oracledb
driver. It has no driver code. The state-changing behaviour lives in the
example programs and in the driver objects that the documentation describes
and the examples drive:

| Part | Source | State it keeps | Operations |
|---|---|---|---|
| Streaming RETURNING INTO insert | `examples/lobinsert2.js` run() | connection, open transaction with the inserted row, the Lob, the file read stream, the `doStream` promise | getConnection, setupLobs, INSERT ... RETURNING (autoCommit false), pipe file -> Lob, commit in 'finish', reject in 'error', destroy on read error, close in finally |
| Writable Lob (driver object) | `unnamed/part_001` lines 269-284, 330-332, 546-562 | open/ending/finished/destroyed, write buffer | write() (with highWaterMark backpressure and 'drain'), end(), 'finish', automatic close, destroy(err), 'error' |
| RETURNING INTO snippet of the LOB guide | `unnamed/part_001` lines 299-328 | as above, different handlers | 'finish' -> await commit, 'error' -> await close then reject, read error -> reject |
| Readable Lob (driver object) | `unnamed/part_001` lines 240-266, 412-470 | paused/flowing mode, read position, buffered pieces, closed | read(), 'data' handler, pipe(), pause(), resume(), 'end', automatic close, destroy() |
| Temporary LOBs | `unnamed/part_001` lines 474-562 | temporary tablespace held until destroy | createLob, populate by pipe, bind, destroy |
| REF CURSOR fetch | `unnamed/part_002` lines 56-159 | two ResultSets, rows fetched | execute, getRows(), getRows(numRows) loop, close |
| ResultSet to QueryStream | `examples/insert1.js` lines 180-226 | QueryStream, `consumeStream` promise | 'data', 'end' -> destroy(), 'close' -> resolve, 'error' -> reject |
| DML scripts | `examples/insert1.js` 57-124, `examples/dmlrupd.js`, `examples/lobinsert1.js` | statements executed, transaction, committed rows | DDL with ORA-942 tolerated, INSERT/UPDATE with and without autoCommit, close |
| SODA instanceof test | `unnamed/part_002` lines 199-271 | connection, collection, cursor | acquire in order, release each in its own try in finally |
| DbObject collections | `unnamed/part_000` | sparse index -> value map | append, deleteElement, setElement, trim, getFirst/Last/Next/PrevIndex, getKeys, getValues |

How they interact. Every program runs on one Node.js thread. An `await`
suspends run() until the driver answers; stream events and driver callbacks
run one at a time, each to completion, and `process.nextTick` work (such as the
'error' event that `destroy(err)` schedules) runs before any further I/O
callback. So the concurrency is an interleaving of whole callbacks: the file
stream, the Lob's database writes, the commit callback and run() itself. The
connection is shared state between them: the transaction that the INSERT
opens holds the row the Lob writes into, commit makes it durable, and close
rolls back whatever is not committed.

What is hard. The order of 'finish', the commit callback, the 'error' events
and the promise settlements; a failure of any single step (connect, setup,
execute, a file read, a Lob write, commit) at any point of the stream; the
Lob buffer at its highWaterMark; a `destroy()` on a Lob that the driver has
already closed; a promise that is never settled; loops whose stopping rule
depends on an exact batch size.

Properties that make each part correct:

* Streaming insert: a committed row holds the whole file; the outcome
  reported equals what the database holds; the connection stays open while
  the Lob writes or commits; run() always returns.
* Writable Lob: write buffer bounded by highWaterMark; 'finish' only after
  every write reached the database; destroy idempotent.
* Readable Lob: the pieces delivered are exactly the LOB's content in order,
  whatever pause()/resume() do; the Lob is closed after 'end', after an error
  and after destroy().
* REF CURSOR: the second ResultSet is closed only after every row was
  fetched, and the loop terminates for every row count.
* QueryStream: the promise resolves exactly when every row was delivered and
  rejects on an error, and the stream is destroyed either way. The
  QueryStream keeps the same contract as a readable Lob.
* DML scripts: the committed state is all or nothing where the code intends
  it, and a run without error rolls nothing back.
* SODA test: every acquired resource is released on every path.
* DbObject collections: not modelled; see section 13.

## 2. Modules and status

| Module | Models | Runs | Proofs |
|---|---|---|---|
| `LobInsert`, `MCLobInsert` | lobinsert2.js run() with the writable Lob | 1 pass (with refinement), 1 violation | `LobInsertProofs` |
| `LobInsertDoc`, `MCLobInsertDoc` | the guide's RETURNING INTO snippet | 1 pass (with refinement), 1 violation | `LobInsertDocProofs` |
| `DurableInsert` | what a streaming insert into a LOB promises | (abstract; refined by the two above) | in both proof modules |
| `ReadableLob`, `LobSequence`, `MCReadableLob` | the readable Lob, and what it promises | 1 pass (with refinement) | `ReadableLobProofs` |
| `RefCursor`, `MCRefCursor` | refcursor.js run() | 1 pass | `RefCursorProofs` |
| `QueryStream`, `MCQueryStream` | resultsettoquerystream.js run() | 1 pass (with refinement of `LobSequence`) | `QueryStreamProofs` |
| `DmlScript`, `MCDmlScript` | insert1.js, dmlrupd.js, lobinsert1.js | 1 pass | `DmlScriptProofs` |
| `TempLob`, `MCTempLob` | the temporary-LOB example of the LOB guide | 1 pass | `TempLobProofs` |
| `SodaCleanup` | the SODA instanceof test (186.1) | 1 violation | none |

Every safety invariant, action property and refinement that a passing run
checks is also proved for every value of the constants. Only the liveness
properties are left to TLC (section 11).

`RefCursor`, `QueryStream`, `DmlScript` and `TempLob` each keep a `TypeOK`.
It is part of their inductive invariants, but their runs do not check it as
a property. There it would only restate a guard of the model of the driver
or of the file stream, such as `delivered < nr` or the `min` of a batch, and
say nothing about the application code.

### DurableInsert: what a streaming insert promises

`DurableInsert.tla` is the abstract specification of both streaming
inserts. It is written from the guide's text: the data is streamed into the
Lob and committed once it has been completely streamed (part_001 lines
280-283, 291-294 and 330-332). It has two variables: the committed `row`
(`Absent` or `Whole`) and what the caller was `told` ("none", "ok" or
"error"). It has two steps:

* `Persist`: the whole row becomes durable, and the caller may learn of it
  in the same step or never;
* `Report`: an error is reported while nothing is durable.

So the row is committed at most once and whole, it is never rolled back, and
the caller's outcome, once given, never changes. `LobInsert` and
`LobInsertDoc` each instantiate it as `Durable`, with the row mapped to
`dbRow` and `told` to the state of the promise (`Told`). Each run checks
`ImplementsDurableInsert == Durable!Spec` as a property.

## 3. LobInsert: the streaming insert

`LobInsert.tla` models run() of `examples/lobinsert2.js`.

State. `pc` is run()'s position (its awaits). `conn` the connection. `src`
and `srcRead` the file read stream and how many pieces it has emitted;
`awaitDrain` is set when the pipe paused the source because `lob.write()`
returned false. `lobState` and `lobBuf` are the Lob and the pieces it accepted
but has not yet written to the database. `commit` is the commit call,
`promise` the `doStream` promise. `txnRow` is the LOB length of the inserted
row inside the open transaction and `dbRow` that of the committed row
(`NoRow` when there is none). File content is abstracted to a count of
pieces: the pipe preserves order, so a LOB is described by how many pieces
it holds.

Actions, one per callback or await:
`GetConnection`, `SetupLobs`, `InsertReturning` (the INSERT with
autoCommit false, the result checks, and the synchronous promise executor
that registers the handlers and pipes), `SrcData` (a piece read and written
to the Lob, with backpressure), `SrcEnd` (end of file, `lob.end()`),
`SrcError` (read error, `lob.destroy(err)`), `LobWrite` (the Lob writes one
buffered piece to the database, or fails and destroys itself), `LobFinish`
('finish' and its commit call), `CommitDone` (the commit callback),
`AwaitStream`, `CloseConnection` (finally; closing rolls back) and
`Finished` (run() has returned). `DestroyLob` is destroy(err): ignored on a
destroyed Lob, otherwise it drops the buffer and rejects through the 'error'
handler. Every driver call may fail, so each action that awaits one has a
success and a failure disjunct.

The constant `AutoClose` chooses what the Lob does at 'finish'. The LOB
guide says (part_001 lines 330-332) that the Lob is closed automatically
then; whether it is depends on the driver and Node.js version, so both
values are checked.

Runs (all on `MCLobInsert`: a 5-piece file, highWaterMark 3, so that the
source is paused and resumed mid-file and every failure can hit with pieces
buffered, in flight, or all written; about 150 distinct states):

* `lobinsert_safety` (`LobInsert.cfg`, AutoClose FALSE): `TypeOK`,
  `CommittedRowComplete`, `OutcomeReported`, `NoCloseUnderTransfer`,
  `ImplementsDurableInsert` and `Terminates`. Passes. Deadlock is not reported separately: the process
  exits when nothing is pending, and a state with no step reached before
  run() returns violates `Terminates`.
* The safety properties with AutoClose TRUE are not a run of their own:
  the constant only chooses the Lob's state after 'finish', and
  `LobInsertProofs` proves them for both values.
* `lobinsert_autoclose_hang` (`LobInsertHang.cfg`, AutoClose TRUE):
  `Terminates`. Violated: the commit fails after 'finish', the callback's
  `lob.destroy(err)` hits a closed Lob and emits nothing, `doStream` never
  settles and the connection is never closed (finding in PROJECT.json).

Each property has a mutant that breaks it: 'finish' before the buffer is
flushed (`LobFinishUnflushed`), resolve on a failed commit
(`CommitDoneResolveAlways`, which also breaks the refinement), a read-error handler that only rejects, as in
the guide's snippet (`SrcErrorRejectOnly`), a pipe without backpressure
(`SrcDataNoBackpressure`), a commit error only logged (`CommitDoneLogOnly`).

Fairness. Weak fairness on every action except `SrcError`: the event loop
runs every ready callback, the database answers every call (with success or
an error, both in the same action) and a flowing file stream keeps reading.
A read error is an environment event and is never forced.

Why the bounds are enough: the behaviour depends on the file length only
through "no piece", "fewer than highWaterMark" and "more than
highWaterMark"; 5 pieces with highWaterMark 3 reach all three, a pause and
a resume, and failures at each position. The proofs cover every length.

### Proved (`LobInsertProofs.tla`)

From the assumptions `NChunks \in Nat`, `HWM \in Nat \ {0}` and
`AutoClose \in BOOLEAN`:

* `TypeCorrect`: `Spec => []TypeOK` (so the Lob's buffer never exceeds
  highWaterMark).
* `CommittedRowCompleteThm`: `Spec => []CommittedRowComplete`.
* `OutcomeReportedThm`: `Spec => []OutcomeReported`.
* `NoCloseUnderTransferThm`: `Spec => NoCloseUnderTransfer`, the action
  property.
* `DurableInsertThm`: `Spec => ImplementsDurableInsert`, the refinement.

All rest on the inductive invariant `IInv`, checked by TLC before it was
proved. `CommittedRowComplete` alone is not inductive: a commit copies
`txnRow`, so one needs that a commit in flight carries `NChunks` pieces
(`CommitInv`), which needs that every piece read is written or buffered while
the Lob can write (`StreamInv`), that end() comes only after the last piece
(`EndingInv`), that nothing streams before the INSERT (`PreInv`), and for
the buffer bound that the pipe feeds the Lob only below its highWaterMark
(`DrainInv`). `CommitInv` also records that doStream is pending and run() is
awaiting it while the commit is outstanding, which is what prevents the
connection close from discarding the row under the commit.
`OutcomeInv` says that doStream is resolved exactly when the committed row
holds `NChunks` pieces. It is inductive with the rest because resolve() is
called only by a successful commit, while the promise is still pending.
`ConnInv` says the connection is closed only once run() is done. With
`StreamInv` and `CommitInv` it gives the action property: the step that
closes the connection starts at "close", where neither the Lob nor the
commit is active.

The refinement proof has two lemmas. `DurableInit` shows that the initial
state maps to DurableInsert's. `DurableNext` shows that every step, between
two states satisfying `IInv`, is a `Persist`, a `Report` or a stutter of
`<<dbRow, Told>>`. The argument rests on `SettledStays`: a settled doStream
stays settled, because every resolve() and reject() goes through `Settle`.
With `OutcomeInv` this gives two facts. A step that changes the mapped state
starts from no row and nothing told. It then ends in the whole row with
"ok", or in no row with "error".

### Only model-checked

Liveness (`Terminates`) and the hang are TLC results only: TLAPS does not
reason about fairness and ENABLED here.

## 3a. LobInsertDoc: the guide's RETURNING INTO snippet

`LobInsertDoc.tla` models the snippet of part_001 lines 297-335. It uses the
same Lob and pipe as `LobInsert`, with the snippet's handlers:

* `InsertReturning`: the INSERT with autoCommit false, the result checks and
  the promise executor, or a throw before `doInsert` exists;
* `SrcData` (with backpressure), `SrcEnd`;
* `SrcError`: the read-stream handler only rejects;
* `LobWrite`: a piece is written, or the Lob fails and its 'error' handler
  awaits `connection.close()` (rolling the row back) and then rejects. A
  close that throws leaves the handler before `reject(err)`;
* `LobFinish`: 'finish' awaits `connection.commit()`;
* `CommitDone`: the commit succeeds or throws out of the async handler;
  neither settles `doInsert`;
* `AwaitInsert`, then `Finished`.

The code before and after the snippet is not shown in the guide, so the
model ends when `await doInsert` returns or throws. The run `lobinsertdoc`
(4 pieces, highWaterMark 2, 104 states) checks:

* `TypeOK`;
* `CommittedRowComplete`: a committed row holds the whole file;
* `ErrorMeansNothingCommitted`: a rejected `doInsert` leaves nothing
  committed.
* `ImplementsDurableInsert`: the refinement of `DurableInsert`.

Deadlock is not checked: the process exits when nothing is pending, and that
is exactly the hang that the next run reports.

* `lobinsertdoc_hang` (`LobInsertDocHang.cfg`) checks `Terminates`. It is
  violated because 'finish' commits and never resolves, so `await doInsert`
  never returns on the success path. A close failure in the 'error' handler
  has the same effect.

A read error in the snippet only rejects. pipe() neither ends nor destroys
the Lob, so `await doInsert` throws with the Lob still writable, and the
guide itself says end() must be called to free resources (lines 274-275).
Whether this leaks depends on the code after the snippet, which the guide
does not show: closing the connection frees the Lob. So no property claims
it. What the model does check on this path is
`ErrorMeansNothingCommitted`: the Lob's buffered writes and any later event
never commit the partial row.

`LobInsertDocProofs.tla` proves `TypeCorrect`, `CommittedRowCompleteThm` and
`ErrorMeansNothingCommittedThm` for every `NChunks` and `HWM`. The invariant
`LobInv` is the pipe's bookkeeping: pieces written plus buffered equal
pieces read, 'ending' only after the last piece, the pipe paused at
highWaterMark. `CommitInv` says:

* a commit exists only after 'finish';
* nothing is durable before a commit;
* a rejected `doInsert` has no commit and its Lob can never reach
  'finish', because it is destroyed or its source has failed.

`DurableInsertThm` proves `Spec => ImplementsDurableInsert` for this
snippet as well. To prove it, `CommitInv` was strengthened: nothing is
durable while the commit is still in flight. The lemmas are:

* `RowKept`: only the answer to that commit changes the row;
* `RejectedStays`: a rejection is final.

The snippet only ever takes `Persist` with nothing told: it never resolves
`doInsert`, which is the hang `lobinsertdoc_hang` shows. The run
`lobinsertdoc` checks the refinement too. Its mutant resolves in 'finish'
before the commit (`LobFinishResolveEarly`), a plausible fix of the hang,
and TLC finds the success reported for a row that is not yet durable.

## 4. ReadableLob and LobSequence: reading a LOB as a stream

`LobSequence.tla` is the abstract contract of a readable Lob. `got` is the
number of units the consumer has received and `state` is open, complete or
aborted. A step delivers more units, or completes once all `LEN` units
arrived, or aborts. Two components implement it: the readable Lob (below),
and the QueryStream of section 6, with rows in place of LOB units.

`ReadableLob.tla` models what the guide describes (part_001 lines 240-266
and 412-470):

* application calls: `AttachData` (a 'data' handler or pipe()), `Pause`,
  `Resume`, `Read` (paused-mode read(), which returns the whole buffer) and
  `Destroy`;
* the fetch loop: `FetchStart` asks for the next `pieceSize` units, one at a
  time and only below highWaterMark; `FetchDone` pushes the piece, or marks
  the end, or fails;
* `EmitData` and `EmitEnd`; the Lob closes automatically at 'end'.

A fetch result that arrives after an error or a destroy is dropped.

The run `readablelob` uses `MCReadableLob`: LEN 5, pieceSize 2,
highWaterMark 2 and two pause() calls. That gives a short last piece, a
piece landing beyond highWaterMark, and a pause while a fetch is in flight.
It checks:

* `TypeOK`;
* `BufferBound`: at most one piece beyond highWaterMark;
* `ImplementsLobSequence`: `ReadableLob` refines `LobSequence` under the
  mapping `got <- delivered`, `state <- AbsState`;
* `EventuallyReleased`.

Fairness is weak fairness on the stream's own steps (`FetchStart`,
`FetchDone`, `EmitData`, `EmitEnd`) and on `Resume`. The application is
assumed not to stay paused for ever. pause() and destroy() are never forced.

`ReadableLobProofs.tla` proves, for every LOB length, pieceSize,
highWaterMark and number of pauses:

* `TypeCorrect`;
* `BufferBoundThm`;
* `Refinement`: `Spec => ImplementsLobSequence`. Initial states map to
  `LobSequence`'s initial state (`AbsInit`). Every step is a stutter of the
  abstract state or one of its steps (`AbsNext`): a read() or 'data' step is
  `Deliver`, 'end' is `Complete`, and a failed fetch or destroy() is
  `Abort`.

The invariant `StreamInv` they rest on says:

* units fetched = units delivered + units buffered while the stream is
  open (an error or destroy() discards the buffer);
* the end is seen only at offset `LEN`;
* a fetch is in flight only below highWaterMark.

`Complete` needs `delivered = LEN` at 'end', and `Deliver` needs
`delivered' <= LEN`: both come from the first two.

## 5. RefCursor: the getRows(numRows) loop

`RefCursor.tla` models run() of refcursor.js (part_002 lines 56-157):

* every await has a success disjunct and a failure disjunct (`Fail`), and a
  failure goes to catch and then finally;
* `GetRows2` is one iteration of the `do ... while (rows2.length === numRows)`
  loop: it fetches `min(numRows, remaining)` rows.

The run `refcursor` checks cursors of 0 to 25 rows with numRows 10. The
row counts include 0, multiples of 10 and counts between them. It checks:

* `RowsFetchedBeforeClose`: the second ResultSet is closed only after every
  row was fetched. Its mutant stops the loop after the first full batch;
* `Terminates`: run() returns for every row count. The loop cannot know the
  cursor's length. It ends because the batch after the last full one is
  shorter, and that batch is empty when the row count is a multiple of 10.
  Its mutant is `while (rows2)`, which never ends because an empty array is
  truthy in JavaScript.

Fairness is weak fairness of `Progress`: every step that raises no new
error. The database answers every call and run() goes on after each await,
so this much is justified. Weak fairness of all of `Next` would be too
strong. A failing getRows() is always possible, so it would force an error
to end an endless loop, and the `while (rows2)` mutant would go unnoticed.

When a getRows() call throws, `resultSet2.close()` is skipped, and the
cursor goes only with the connection that finally closes. That close can
fail too, and its error is only logged. The model follows this path
(`Fail`, then `CloseConnection` with "closeFailed"). No property is checked
about it, because what a failed close leaves allocated is not stated by
the code.

`RefCursorProofs.tla` proves `RowsFetchedBeforeClose` for every `NumRows`
and every set of row counts. It is not inductive as it stands. The
strengthening `LoopInv` adds that at "close2" every row was fetched: a batch
shorter than numRows can only be the last one.

## 6. QueryStream: a ResultSet consumed as a stream

`QueryStream.tla` models run() of resultsettoquerystream.js (insert1.js lines
180-224):

* `ReadRow`: a row is emitted, or a read error destroys the stream;
* `EndAndDestroy`: the 'end' handler calls destroy();
* `DestroyDone`: the ResultSet close completes or fails, then 'error'
  rejects and 'close' resolves. The promise settles only once (`Settle`).

The run `querystream` (0 to 4 rows, failure anywhere) checks:

* `ResolvedMeansComplete`;
* the action property `NoCloseUnderFetch`: the connection is never closed
  while the ResultSet is open or closing;
* `ImplementsLobSequence`: the QueryStream keeps the readable-stream contract
  of section 4, with rows in place of LOB units. The mapping is:
  * got is `delivered`;
  * LEN is the row count `nr`;
  * state is `StreamState`: open while consumeStream is pending, complete
    when it resolved, and aborted when it rejected.

  So rows are emitted as a growing prefix, and resolution comes only after
  the last row. No row is emitted and no settlement changes once the promise
  has settled. `nr` is a variable fixed at Init, and TLA+ does not let a
  variable stand for the constant LEN. The property is therefore
  `Rows(nr)!Spec` written out: the initial predicate, plus `[]` of the
  next-state step for the n equal to `nr`;
* `Terminates`, under weak fairness of `Next`, because the event loop runs
  every ready callback and the database answers every call.

`QueryStreamProofs.tla` proves `ResolvedMeansComplete`,
`NoCloseUnderFetch` and `ImplementsLobSequence` for every set of row counts.
The inductive invariant has these parts:

* `StreamInv` ties the stream's phase to the ResultSet's, and keeps run() at
  its await while the stream is alive. It also says there is no stream before
  the query runs. The refinement needs this, so that `ExecuteQuery` only
  takes the promise from none to pending and the abstract state stays open;
* `DestroyInv`: a destroy without an error starts only after the last row;
* `SettledInv`: a settled promise means a closed stream.

The refinement proof (`RowsInit`, `RowsNext`, `ImplementsLobSequenceThm`) has
one case per kind of step:
* `ReadRow` is a `Deliver` (its guard `delivered < nr` keeps got within LEN)
  or a stutter;
* `DestroyDone` is a `Complete` when it resolves, because
  `ResolvedMeansComplete` gives `delivered = nr`, and an `Abort` when it
  rejects;
* every other step leaves `delivered` and `StreamState` unchanged.

## 7. DmlScript: the DML examples

`DmlScript.tla` is one module for the shape that insert1.js, dmlrupd.js and
lobinsert1.js share. A script is a sequence of statements. Each statement
records its operation, whether it sits in the error-tolerant setup loop, and
its autoCommit.

The table is "absent", "old" (left by an earlier run) or "new". The state
keeps the committed rows and the rows the session sees. Every statement can
fail, and the guards of the DDL give ORA-942 and ORA-955.
`CloseConnection` rolls back what is not committed.

The run `dml_scripts` covers all three scripts, on a fresh database and over
an old table. It checks:

* `NothingLostOnSuccess`: a run that reports success has committed
  everything;
* `AllOrNothing`: scripts that defer their commit (insert1.js) commit their
  inserts together or not at all.

The three scripts are the definitions `Insert1Script`, `DmlrupdScript` and
`Lobinsert1Script` of `DmlScript.tla`, each a sequence of `Stmt` records
translated statement by statement from its file. Three predicates state
what the scripts share, and `MCDmlScript` checks each as an assumption:

* `LastCommits`: the last statement is outside the setup loop and runs with
  autoCommit.
* `InsertsTogether`: in a script whose INSERTs defer their commit, the
  INSERTs come back to back.
* `OldRowsApart`: the rows an earlier run left are other rows than the ones
  the script inserts.

The setup loop of insert1.js and dmlrupd.js goes on after every error, not
only ORA-942, and prints it with console.error. `ExecuteFail` models this.
The examples state no outcome for these paths beyond the printed error, so
no property is checked against them.

`DmlScriptProofs.tla` proves `NothingLostOnSuccessThm`
for every set of scripts that satisfies `LastCommits` (the theorems take it
as a hypothesis) and every finite table left by an earlier run. The
invariant `LostInv` says that a script that reaches its close without an
error has `txn = committed`, because its last statement committed. It also
says nothing was discarded before the close. `FiniteInv` keeps the row sets
finite, so that the rowsAffected of an UPDATE, a cardinality, is a natural
number.

`AllOrNothingThm` proves `Spec => []AllOrNothing` for every set of scripts
that satisfies `LastCommits`, `InsertsTogether` and `OldRowsApart`.

Both shape hypotheses are needed. If a DDL or a committing statement sits
between two deferred INSERTs, only the first row becomes durable. If an
earlier run's table already holds one of the script's rows, the property
fails in the initial state.

`AllOrNothing` is not inductive. The invariant `BlockInv` strengthens it,
using `Done(i)` for the rows of the INSERTs before statement i:

* before the script runs, none of its rows is committed or in the session;
* while an INSERT is still to come, none of its rows is committed and the
  session holds exactly `Done(idx)`;
* after the last INSERT, the session holds all of the script's rows or,
  after DDL, none.

The lemmas about `Done` are:

* `DoneFirst`;
* `DoneStep`: a statement adds its row if it is an INSERT;
* `DoneAll`: with no INSERT left, the rows so far are all of them;
* `DoneNone`: a non-INSERT with an INSERT still to come precedes every
  INSERT, which follows from `InsertsTogether`.

`StmtEffect` gives the effect of each kind of statement. `BlockExecute`,
`BlockInit` and `BlockNext` carry the invariant.

Before it was proved, TLC checked `BlockInv` on the three scripts. It also
checked every script of up to three statements that satisfies the
hypotheses: 5,691 scripts and 142,627 states.

## 8. TempLob: the temporary-LOB example

`TempLob.tla` models the guide's createLob() example (part_001 lines
474-562), one action per step:

* `CreateLob`;
* the pipe of a file into the Lob: `SrcData` with highWaterMark
  backpressure, `SrcEnd` and `SrcError`;
* the Lob's database writes: `LobWriteStart` and `LobWriteDone`;
* `LobFinish`, which calls somecallback;
* `Execute`, the PL/SQL IN bind, refused for a closed Lob;
* `Destroy`.

The guide elides the file stream's 'error' handler. It is modelled as
lobinsert2.js writes it, `templob.destroy(err)`.

The run `templob` uses `MCTempLob`: 6 chunks and a buffer of 3. It checks:

* `BoundComplete`: the LOB bound holds the whole file;
* `Terminates`: somecallback is always reached, under weak fairness of
  `Next`.

Deadlock is not checked, because the Node.js process exits when nothing is
pending. `Terminates` is what says it exits only after somecallback.

`TempLobProofs.tla` proves `BoundCompleteThm` for every
file length and highWaterMark. The invariant `PipeInv` says:

* a write in flight has a chunk to write;
* the file ends only after its last chunk;
* 'finish', and so execute(), comes only with every chunk written.

The guide shows execute() (lines 530-535) and destroy() (line 542) as
separate fragments with no error handling. The model runs them in that
order, and a failing execute() ends somecallback before destroy(). Whether
a program skips destroy() there depends on how it puts the fragments
together, so no property is checked about it.

## 9. SodaCleanup: the SODA test's finally block

`SodaCleanup.tla` models test 186.1 of sodaInstanceof.js (part_002 lines
199-271):

* the before hook, which skips or cleans up;
* the acquisitions of the connection, collection and cursor, each with its
  assertion;
* the three releases in finally.

The model has only a few dozen states, so there is no pass run. The
violation run `soda_release_leak` shows that a failing `coll.drop()` makes
`should.not.exist(err)` throw out of finally. The connection is then never
closed, against `AllReleaseAttempted`.

## 10. Findings

Each is detailed in PROJECT.json.

* lobinsert2.js:92: with the Lob closed at 'finish', a failed commit never
  settles `doStream` (`lobinsert_autoclose_hang`).
* part_002:260: `should.not.exist` in the finally block skips the later
  releases (`soda_release_leak`).
* part_001:313: the guide's snippet never resolves `doInsert` in 'finish',
  and a close failure in its 'error' handler skips `reject`
  (`lobinsertdoc_hang`).

## 11. What is only model-checked

These are TLC results only:

* every liveness property (`Terminates`, `EventuallyReleased`), and the
  hangs. The prover used here does not reason about fairness and ENABLED;
* the violation runs, which are counterexamples and need no proof;
* the SodaCleanup model, which has only a violation run.

The refinements `ImplementsLobSequence` and `ImplementsDurableInsert` are
proved as safety properties. The abstract `LobSequence` and `DurableInsert`
have no fairness, so nothing more is claimed.

## 12. Not modelled

The Oracle client library, the network protocol, SQL semantics and
connection pooling are not in this repository; they appear only as the
success or failure of each call. Logging and message text are left out.
demosetup.js, sodaUtil and testsUtil are not in this repository either and
appear as one step that succeeds or fails.

The `initOracleClient` block at the top of each example picks a client
library directory by platform before run() starts. It is configuration with
no state that the rest of the program reads, and is left out. The licence
headers are comments.

lobinsert1.js and dmlrupd.js end in the same catch/finally as insert1.js.
The model has one `CloseConnection` for all three, and the map cites it at
insert1.js.

## 13. DbObject collections

The DbObject collections of part_000 are not modelled. part_000 is the
driver's API documentation: each collection method (append, deleteElement,
setElement, trim, getFirstIndex, getNextIndex, ...) is described in one
sentence. The driver code that implements them is not in this repository.
The questions a model would turn on are not answered there:

* which index append() uses after the last element was deleted;
* whether setElement() creates a missing index or fails;
* whether trim() counts deleted slots;
* what getNextIndex() returns past the last element.

Any definition of these would be invented rather than translated, so the
component is recorded as not_modelled in PROJECT.json.
