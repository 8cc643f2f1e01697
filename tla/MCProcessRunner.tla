--------------------------- MODULE MCProcessRunner ----------------------------
EXTENDS ProcessRunner

FewPids == 1 .. 3

(* Four processes and no failure, three and one, or two and two. *)
MCInit == Init /\ births + faults = 2
MCSpec == MCInit /\ [][Next]_vars
=============================================================================
