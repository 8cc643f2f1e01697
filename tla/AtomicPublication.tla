------------------------- MODULE AtomicPublication ---------------------------
(* What every writer of an archive or of a restored tree promises of the     *)
(* path it writes: the path goes from what it held before to one whole       *)
(* result in a single step, or it does not change at all.                    *)
VARIABLES
    holds,       \* "previous", "whole" or "partial": what the path holds
    phase        \* "working", "published", "abandoned" or "off"

Init == holds = "previous" /\ phase = "working"

Publish ==
    /\ phase = "working" /\ phase' = "published"
    /\ holds' = "whole"

Abandon ==
    /\ phase = "working" /\ phase' = "abandoned"
    /\ UNCHANGED holds

(* A rename that no directory flush followed may be undone. *)
PowerLoss ==
    /\ phase # "off" /\ phase' = "off"
    /\ holds' \in {holds, "previous"}

Next == Publish \/ Abandon \/ PowerLoss

Spec == Init /\ [][Next]_<<holds, phase>>
=============================================================================
