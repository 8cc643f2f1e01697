-------------------------- MODULE MCCapabilityLocks --------------------------
(* Threads that run lease operations, close the capability and fork.         *)
EXTENDS CapabilityLocks
=============================================================================
