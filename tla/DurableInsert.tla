---------------------------- MODULE DurableInsert ----------------------------
(***************************************************************************)
(* What inserting a file into a LOB column by streaming promises (LOB      *)
(* guide, part_001 lines 280-283, 291-294 and 330-332): the data is       *)
(* streamed into the Lob and committed once it has been completely        *)
(* streamed.  Seen from the database and from the caller, the row becomes *)
(* durable at most once and then holds the whole file; it is never rolled *)
(* back after that; the caller is told of success only together with the *)
(* commit, and of an error only while nothing is durable, and is told at *)
(* most once.                                                              *)
(***************************************************************************)

CONSTANTS
    Absent,   \* no committed row
    Whole     \* the committed row holding the whole file

VARIABLES
    row,      \* the committed row: Absent or Whole
    told      \* what the caller was told: "none", "ok" or "error"

Init ==
    /\ row = Absent
    /\ told = "none"

(* The commit makes the complete row durable; the caller may learn of it  *)
(* in the same step, or never.                                            *)
Persist ==
    /\ row = Absent
    /\ told = "none"
    /\ row' = Whole
    /\ told' \in {"none", "ok"}

(* The insert fails before anything is durable and the caller is told.    *)
Report ==
    /\ row = Absent
    /\ told = "none"
    /\ told' = "error"
    /\ UNCHANGED row

Next == Persist \/ Report

Spec == Init /\ [][Next]_<<row, told>>

=============================================================================
