------------------------------- MODULE TempLob -------------------------------
(***************************************************************************)
(* The temporary-LOB example of the LOB guide (src/unnamed/part_001 lines  *)
(* 474-562): connection.createLob() makes a temporary LOB, which holds    *)
(* space in the temporary tablespace until lob.destroy(); a file is piped *)
(* into it; its 'finish' handler calls somecallback(null, templob), which *)
(* binds it to a PL/SQL IN parameter and then destroys it; its 'error'    *)
(* handler calls somecallback(err).                                        *)
(*                                                                         *)
(* The guide elides the body of the file stream's 'error' handler; it is  *)
(* modelled as lobinsert2.js writes it (line 109): templob.destroy(err),  *)
(* which closes the Lob and emits its 'error'.  Data is abstracted to a   *)
(* count of units, one unit per chunk the file stream reads.              *)
(***************************************************************************)
EXTENDS Integers

CONSTANTS
    LEN,  \* units in the file
    HWM   \* highWaterMark of the Lob's write buffer, in chunks

ASSUME LENAssumption == LEN \in Nat
ASSUME HWMAssumption == HWM \in Nat \ {0}

VARIABLES
    pc,        \* "create", "piping", "execute", "destroy", "done", "failed"
    lob,       \* the temporary LOB: "none", "open", "closed"
    src,       \* the file stream: "reading", "ended", "errored"
    read,      \* units the file stream has read and piped into the Lob
    written,   \* units the Lob has written to the temporary LOB
    writing,   \* a write to the database is outstanding
    finished,  \* 'finish' has been emitted
    boundLen   \* units in the LOB when execute() bound it, or NoBind

vars == <<pc, lob, src, read, written, writing, finished, boundLen>>

NoBind == -1

TypeOK ==
    /\ pc \in {"create", "piping", "execute", "destroy", "done", "failed"}
    /\ lob \in {"none", "open", "closed"}
    /\ src \in {"reading", "ended", "errored"}
    /\ read \in 0..LEN
    /\ written \in 0..read
    /\ writing \in BOOLEAN
    /\ finished \in BOOLEAN
    /\ boundLen \in 0..LEN \cup {NoBind}

Init ==
    /\ pc = "create"
    /\ lob = "none"
    /\ src = "reading"
    /\ read = 0
    /\ written = 0
    /\ writing = FALSE
    /\ finished = FALSE
    /\ boundLen = NoBind

(* destroy(err) on the Lob: it closes, freeing its temporary space, and   *)
(* its 'error' handler calls somecallback(err) (line 514).  A second      *)
(* destroy of a closed Lob does nothing.                                   *)
DestroyWithError ==
    IF lob = "open"
    THEN lob' = "closed" /\ pc' = "failed"
    ELSE UNCHANGED <<lob, pc>>

(* const templob = await connection.createLob(oracledb.CLOB) (line 507);  *)
(* then the handlers are attached and the pipe started (lines 514-522).   *)
(* If createLob() throws nothing was allocated.                           *)
CreateLob ==
    /\ pc = "create"
    /\ \/ lob' = "open" /\ pc' = "piping"
       \/ pc' = "failed" /\ UNCHANGED lob
    /\ UNCHANGED <<src, read, written, writing, finished, boundLen>>

(* The pipe reads the next chunk and writes it into the Lob, pausing      *)
(* while the Lob's buffer is at highWaterMark.                            *)
SrcData ==
    /\ lob = "open"
    /\ src = "reading"
    /\ read < LEN
    /\ read - written < HWM
    /\ read' = read + 1
    /\ UNCHANGED <<pc, lob, src, written, writing, finished, boundLen>>

(* The file is read to the end: the pipe calls templob.end().              *)
SrcEnd ==
    /\ lob = "open"
    /\ src = "reading"
    /\ read = LEN
    /\ src' = "ended"
    /\ UNCHANGED <<pc, lob, read, written, writing, finished, boundLen>>

(* Variant of SrcError below: the elided handler does not destroy the Lob. *)
SrcErrorNoDestroy ==
    /\ src = "reading"
    /\ lob # "none"
    /\ src' = "errored"
    /\ UNCHANGED <<pc, lob, read, written, writing, finished, boundLen>>

(* The file stream fails: its handler destroys the Lob with the error.     *)
SrcError ==
    /\ src = "reading"
    /\ lob # "none"
    /\ src' = "errored"
    /\ DestroyWithError
    /\ UNCHANGED <<read, written, writing, finished, boundLen>>

(* The Lob starts writing its oldest buffered chunk to the database.       *)
LobWriteStart ==
    /\ lob = "open"
    /\ ~writing
    /\ written < read
    /\ writing' = TRUE
    /\ UNCHANGED <<pc, lob, src, read, written, finished, boundLen>>

(* The write completes, or fails and the Lob destroys itself with the     *)
(* error.  A write finishing after the Lob was closed is dropped.          *)
LobWriteDone ==
    /\ writing
    /\ writing' = FALSE
    /\ \/ /\ lob = "open"
          /\ written' = written + 1
          /\ UNCHANGED <<pc, lob>>
       \/ /\ DestroyWithError
          /\ UNCHANGED written
    /\ UNCHANGED <<src, read, finished, boundLen>>

(* Variant of LobFinish below: 'finish' before the last write completes. *)
LobFinishUnflushed ==
    /\ lob = "open"
    /\ src = "ended"
    /\ ~finished
    /\ finished' = TRUE
    /\ pc' = "execute"
    /\ UNCHANGED <<lob, src, read, written, writing, boundLen>>

(* After end() and the last write, 'finish' is emitted and its handler    *)
(* calls somecallback(null, templob) (line 517), which runs execute().    *)
LobFinish ==
    /\ lob = "open"
    /\ src = "ended"
    /\ ~finished
    /\ ~writing
    /\ written = read
    /\ finished' = TRUE
    /\ pc' = "execute"
    /\ UNCHANGED <<lob, src, read, written, writing, boundLen>>

(* await connection.execute(`BEGIN lobs_in(:id, :c, null); END;`,         *)
(* {id: 3, c: templob}) (lines 530-535).  A closed Lob cannot be bound    *)
(* (line 551).  If execute throws, the exception leaves somecallback and  *)
(* the await templob.destroy() after it is not reached.                   *)
Execute ==
    /\ pc = "execute"
    /\ \/ /\ lob = "open"
          /\ boundLen' = written
          /\ pc' = "destroy"
       \/ /\ pc' = "failed"
          /\ UNCHANGED boundLen
    /\ UNCHANGED <<lob, src, read, written, writing, finished>>

(* await templob.destroy() (line 542) frees the temporary space.          *)
Destroy ==
    /\ pc = "destroy"
    /\ lob' = "closed"
    /\ pc' = "done"
    /\ UNCHANGED <<src, read, written, writing, finished, boundLen>>

(* somecallback has returned, with or without an error.                   *)
Finished ==
    /\ pc \in {"done", "failed"}
    /\ UNCHANGED vars

Next ==
    \/ CreateLob
    \/ SrcData
    \/ SrcEnd
    \/ SrcError
    \/ LobWriteStart
    \/ LobWriteDone
    \/ LobFinish
    \/ Execute
    \/ Destroy
    \/ Finished

(* The event loop runs every ready callback, and the file system and the *)
(* database answer every call.                                            *)
Spec == Init /\ [][Next]_vars /\ WF_vars(Next)

-----------------------------------------------------------------------------
(* The LOB bound to the PL/SQL call holds the whole file: 'finish' comes   *)
(* only after end() and after every piped chunk was written, and a source *)
(* or write failure never reaches the bind.                                *)
BoundComplete == boundLen \in {NoBind, LEN}

(* somecallback is always called, so the example always completes: every *)
(* failure of the file stream or of a write reaches the Lob's 'error'.    *)
Terminates == <>(pc \in {"done", "failed"})

=============================================================================
