----------------------------- MODULE LobSequence -----------------------------
(***************************************************************************)
(* What a readable Lob promises its consumer (LOB guide, part_001 lines    *)
(* 240-266 and 412-470): the consumer receives the LOB's LEN units as a   *)
(* growing prefix, in order; the stream completes ('end') only once all   *)
(* LEN units have been delivered; it may instead be aborted (an error or  *)
(* destroy()), and after either nothing more is delivered.                *)
(***************************************************************************)
EXTENDS Naturals

CONSTANT LEN

VARIABLES
    got,    \* units delivered to the consumer so far
    state   \* "open", "complete" ('end' emitted) or "aborted"

Init ==
    /\ got = 0
    /\ state = "open"

(* Some further units of the LOB reach the consumer.                       *)
Deliver ==
    /\ state = "open"
    /\ got' \in (got + 1)..LEN
    /\ UNCHANGED state

(* The stream ends after the last unit.                                    *)
Complete ==
    /\ state = "open"
    /\ got = LEN
    /\ state' = "complete"
    /\ UNCHANGED got

(* The stream fails or is destroyed.                                       *)
Abort ==
    /\ state = "open"
    /\ state' = "aborted"
    /\ UNCHANGED got

Next == Deliver \/ Complete \/ Abort

Spec == Init /\ [][Next]_<<got, state>>

=============================================================================
