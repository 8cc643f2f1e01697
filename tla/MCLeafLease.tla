---------------------------- MODULE MCLeafLease ------------------------------
(* An instance of LeafLease: two processes to attach and one that joins.     *)
EXTENDS LeafLease

CONSTANTS p1, p2, joiner
MCPid == {p1, p2}
=============================================================================
